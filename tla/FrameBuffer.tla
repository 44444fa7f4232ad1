----------------------------- MODULE FrameBuffer -----------------------------
(***************************************************************************)
(* The fragmented-frame path of ChatServer::onMessage and the frame       *)
(* buffer it writes through (writeFrameBuffer, readFrameBuffer,            *)
(* hasFrameBuffer).                                                        *)
(*                                                                         *)
(* m_frameBuffer is keyed by connection->getId(), the sender's user id,   *)
(* not by the connection.  A BEGIN frame writes with clear, a CONTINUE    *)
(* frame appends, an END frame reads and erases the entry, appends its own *)
(* bytes and checks the total against m_maxMessageSize before the bytes   *)
(* are parsed and routed.  Each frame is one onMessage call, serialised by *)
(* m_connectionMutex; the transport hands one connection's frames over in *)
(* order.  A fragment's bytes are a record naming the connection, the     *)
(* message and the position that produced it, and its length.            *)
(***************************************************************************)
EXTENDS Naturals, Sequences, SequencesExt

CONSTANTS
  Users,
  Conns,
  ConnUser,           \* connection->getId() of each connection
  FragSizes,          \* lengths a fragment's bytes may have
  MaxSize,            \* m_maxMessageSize
  MaxFrames,          \* frames of one fragmented message, BEGIN and END included
  MaxMsgs,            \* fragmented messages a client starts per connection
  OneSessionPerUser   \* clients of a user open one connection at a time

ASSUME ConnUser \in [Conns -> Users]
ASSUME FragSizes \subseteq Nat \ {0} /\ MaxSize \in Nat
ASSUME MaxFrames \in Nat /\ MaxFrames >= 2 /\ MaxMsgs \in Nat \ {0}
ASSUME OneSessionPerUser \in BOOLEAN

VARIABLES
  status,   \* the transport's view of each connection
  fb,       \* m_frameBuffer: a function whose domain is the users holding one
  sending,  \* frames of the client's current fragmented message so far
  started,  \* fragmented messages each client has begun
  out       \* history: what each END frame handed on, with the frames sent

vars == <<status, fb, sending, started, out>>

Frag == [conn: Conns, msg: 1..MaxMsgs, idx: 1..MaxFrames, size: FragSizes]

\* The length of the bytes a sequence of fragments stands for.
Weight(s) == FoldLeft(LAMBDA acc, f : acc + f.size, 0, s)

FbTypeOK ==
  /\ status \in [Conns -> {"idle", "open", "closed"}]
  /\ DOMAIN fb \subseteq Users /\ \A u \in DOMAIN fb : fb[u] \in Seq(Frag)
  /\ sending \in [Conns -> Seq(Frag)]
  /\ started \in [Conns -> 0..MaxMsgs]
  /\ \A r \in out : r.conn \in Conns /\ r.tooBig \in BOOLEAN

-----------------------------------------------------------------------------
HasFrameBuffer(u) == u \in DOMAIN fb

\* Mutant of WriteFrameBuffer: the clear flag is ignored.
WriteNoClear(u, x, clear) ==
  IF ~HasFrameBuffer(u) THEN (u :> <<x>>) @@ fb
  ELSE [fb EXCEPT ![u] = Append(@, x)]

\* writeFrameBuffer(senderId, input, clear): create the entry when absent,
\* reset it when asked to, then append the input.
WriteFrameBuffer(u, x, clear) ==
  IF ~HasFrameBuffer(u) \/ clear THEN (u :> <<x>>) @@ fb
  ELSE [fb EXCEPT ![u] = Append(@, x)]

\* readFrameBuffer(senderId, clear): the bytes held, empty when there is
\* no entry; with clear the entry is erased.
ReadFrameBuffer(u) == IF HasFrameBuffer(u) THEN fb[u] ELSE <<>>
EraseFrameBuffer(u) == Restrict(fb, DOMAIN fb \ {u})

\* The next frame connection c's client puts on the wire.
NextFrag(c, sz) ==
  [conn |-> c, msg |-> started[c] + (IF sending[c] = <<>> THEN 1 ELSE 0),
   idx |-> Len(sending[c]) + 1, size |-> sz]

-----------------------------------------------------------------------------
\* onConnected accepted the connection.  When clients of a user keep one
\* session at a time, the next one opens only after the last has closed.
Open(c) ==
  /\ status[c] = "idle"
  /\ OneSessionPerUser =>
       \A d \in Conns : ConnUser[d] = ConnUser[c] => status[d] # "open"
  /\ status' = [status EXCEPT ![c] = "open"]
  /\ UNCHANGED <<fb, sending, started, out>>

\* FLAG_FRAGMENT_BEGIN_TEXT / _BINARY: writeFrameBuffer(senderId, s, true).
Begin(c, sz) ==
  /\ status[c] = "open" /\ sending[c] = <<>> /\ started[c] < MaxMsgs
  /\ fb' = WriteFrameBuffer(ConnUser[c], NextFrag(c, sz), TRUE)
  /\ sending' = [sending EXCEPT ![c] = <<NextFrag(c, sz)>>]
  /\ started' = [started EXCEPT ![c] = @ + 1]
  /\ UNCHANGED <<status, out>>

\* FLAG_FRAGMENT_CONTINUE: writeFrameBuffer(senderId, s, false).
Continue(c, sz) ==
  /\ status[c] = "open" /\ sending[c] # <<>> /\ Len(sending[c]) < MaxFrames - 1
  /\ fb' = WriteFrameBuffer(ConnUser[c], NextFrag(c, sz), FALSE)
  /\ sending' = [sending EXCEPT ![c] = Append(@, NextFrag(c, sz))]
  /\ UNCHANGED <<status, started, out>>

\* FLAG_FRAGMENT_END: readFrameBuffer(senderId, true) followed by this
\* frame's bytes; longer than m_maxMessageSize closes the connection with
\* MESSAGE_TOO_BIG, otherwise the bytes go on to MessagePayload.
End(c, sz) ==
  LET buffered == ReadFrameBuffer(ConnUser[c]) \o <<NextFrag(c, sz)>>
      tooBig   == Weight(buffered) > MaxSize
  IN /\ status[c] = "open" /\ sending[c] # <<>>
     /\ fb' = EraseFrameBuffer(ConnUser[c])
     /\ status' = IF tooBig THEN [status EXCEPT ![c] = "closed"] ELSE status
     /\ out' = out \cup {[conn |-> c, sent |-> Append(sending[c], NextFrag(c, sz)),
                          got |-> buffered, tooBig |-> tooBig]}
     /\ sending' = [sending EXCEPT ![c] = <<>>]
     /\ UNCHANGED started

\* The peer goes away, mid-message or not; onDisconnected leaves the
\* frame buffer alone.
Drop(c) ==
  /\ status[c] = "open"
  /\ status' = [status EXCEPT ![c] = "closed"]
  /\ UNCHANGED <<fb, sending, started, out>>

Init ==
  /\ status = [c \in Conns |-> "idle"]
  /\ fb = <<>>
  /\ sending = [c \in Conns |-> <<>>]
  /\ started = [c \in Conns |-> 0]
  /\ out = {}

Next ==
  \E c \in Conns :
    \/ Open(c) \/ Drop(c)
    \/ \E sz \in FragSizes : Begin(c, sz) \/ Continue(c, sz) \/ End(c, sz)

Spec == Init /\ [][Next]_vars

-----------------------------------------------------------------------------
(* Properties.                                                             *)

\* What an END frame hands to MessagePayload is exactly the fragments its
\* own connection sent since its BEGIN, in order (spec, testable property
\* 2).  The buffer is shared by all connections of one user id, so frames
\* of another connection of the same user can reset or extend it.
Reassembly == \A r \in out : r.got = r.sent

=============================================================================
