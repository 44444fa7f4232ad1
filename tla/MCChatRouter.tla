--------------------------- MODULE MCChatRouter ----------------------------
(* Model-checking instance of ChatRouter: two users, user u2 with two     *)
(* connections (a reconnect, or two devices), user u1 with one.           *)
EXTENDS ChatRouter, TLC

CONSTANTS u1, u2, b0, c1, c2, c3

MCUsers == {u1, u2}
MCConns == {c1, c2, c3}
MCConnUser == (c1 :> u1) @@ (c2 :> u2) @@ (c3 :> u2)
MCRcptChoices == {{u2}, {u1, u2}, {b0}}
MCRcptDirect == {{u2}}
MCSymmetry == Permutations({c2, c3})

\* A failed send is re-queued and a redelivery loop re-sends it to every
\* registered connection, so copies of a payload are unbounded in the
\* code; the model explores histories up to MaxLen entries per sequence.
MaxLen == 2
StateBound ==
  /\ \A c \in Conns : Len(outq[c]) <= MaxLen /\ Len(recv[c]) <= MaxLen
  /\ \A u \in Users : Len(queue[u]) <= MaxLen
=============================================================================
