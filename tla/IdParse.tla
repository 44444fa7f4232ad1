------------------------------- MODULE IdParse -------------------------------
(***************************************************************************)
(* The checks onConnected makes before a connection is registered, as    *)
(* operators over a query (the module has no state of its own):         *)
(* authentication, a non-empty query, a non-empty id parameter, and       *)
(* std::stoul on that parameter, of which only std::invalid_argument is   *)
(* caught.  std::stoul is strtoul in base 10: leading white space is       *)
(* skipped, a sign is taken, the longest run of digits is read, and        *)
(* whatever follows is ignored; no digit is invalid_argument, a magnitude *)
(* beyond unsigned long is out_of_range, and a minus sign negates the      *)
(* value modulo 2^Width.  The parameter is a sequence of characters from  *)
(* a small alphabet; Width is the width of unsigned long, shrunk so that  *)
(* short strings reach the boundary.                                       *)
(***************************************************************************)
EXTENDS Naturals, Sequences, SequencesExt

CONSTANTS
  Chars,     \* characters the id parameter may contain
  Digits,    \* those of them that are decimal digits
  Space,     \* a white-space character
  MaxLen,    \* longest parameter considered
  Width      \* bits of unsigned long (user_id_t)

ASSUME Digits \subseteq Chars /\ Space \in Chars /\ {"-", "+"} \subseteq Chars
ASSUME MaxLen \in Nat /\ Width \in Nat \ {0}

ULongMax == 2^Width - 1

\* How a step ended, and the id it produced (0 when there is none).
Result(k, v) == [kind |-> k, id |-> v]

\* The numeric value of a decimal digit character.
DigitVal(d) == CASE d = "0" -> 0 [] d = "1" -> 1 [] d = "2" -> 2
                 [] d = "3" -> 3 [] d = "4" -> 4 [] d = "5" -> 5
                 [] d = "6" -> 6 [] d = "7" -> 7 [] d = "8" -> 8
                 [] d = "9" -> 9

\* What a query can hold for the connection: no parameter at all, no id
\* parameter, or an id parameter with some text (possibly empty).
Queries == {[params |-> FALSE, id |-> <<>>], [params |-> TRUE, id |-> <<>>]}
           \cup [params: {TRUE}, id: BoundedSeq(Chars, MaxLen)]

-----------------------------------------------------------------------------
(* std::stoul, as strtoul computes it: one character at a time.            *)

RECURSIVE SkipSpace(_)
SkipSpace(s) == IF s # <<>> /\ Head(s) = Space THEN SkipSpace(Tail(s)) ELSE s

\* The digit run at the front of s, accumulated with strtoul's overflow
\* test before each multiply-add; the value stops growing once overflowed.
RECURSIVE Accumulate(_, _, _, _)
Accumulate(s, acc, any, ovf) ==
  IF s # <<>> /\ Head(s) \in Digits
  THEN LET d == DigitVal(Head(s)) IN
       IF ovf \/ acc > (ULongMax - d) \div 10
       THEN Accumulate(Tail(s), acc, TRUE, TRUE)
       ELSE Accumulate(Tail(s), acc * 10 + d, TRUE, ovf)
  ELSE [val |-> acc, any |-> any, ovf |-> ovf]

\* The outcome of std::stoul(s): a value, or the exception it throws.
Stoul(s) ==
  LET t    == SkipSpace(s)
      neg  == t # <<>> /\ Head(t) = "-"
      body == IF t # <<>> /\ Head(t) \in {"-", "+"} THEN Tail(t) ELSE t
      r    == Accumulate(body, 0, FALSE, FALSE)
  IN CASE ~r.any -> Result("invalid_argument", 0)
       [] r.ovf  -> Result("out_of_range", 0)
       [] OTHER  -> Result("accepted", IF neg THEN (2^Width - r.val) % 2^Width
                                             ELSE r.val)

-----------------------------------------------------------------------------
\* onConnected's checks on an upgrade request, up to m_connectionStorage->
\* add: each failed check closes the connection and returns; std::stoul's
\* std::out_of_range is not caught and leaves the handler.
CheckConnect(authOk, query) ==
  CASE ~authOk            -> Result("unauthorized", 0)
    [] ~query.params      -> Result("invalid_query", 0)
    [] query.id = <<>>    -> Result("invalid_query", 0)
    [] OTHER              -> Stoul(query.id)

-----------------------------------------------------------------------------
(* Checks.                                                                 *)

\* What the spec allows onConnected to do with a query ("id=<uint64>", a
\* bad id closes with INVALID_QUERY_PARAMS, id 0 is the bot): register only
\* under an id written as a plain decimal number other than 0, and end
\* every other id in a close rather than an escaping exception.
IdAcceptable(query, outcome) ==
  /\ outcome.kind = "accepted" =>
       /\ \A i \in 1..Len(query.id) : query.id[i] \in Digits
       /\ outcome.id # 0
  /\ outcome.kind # "out_of_range"

=============================================================================
