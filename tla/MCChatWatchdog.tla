-------------------------- MODULE MCChatWatchdog ---------------------------
(* Model-checking instance of ChatWatchdog: users u1 and u2 with one      *)
(* connection each; MCConns3 adds a second connection c3 of u2.          *)
EXTENDS ChatWatchdog, TLC

CONSTANTS u1, u2, b0, c1, c2, c3

MCUsers == {u1, u2}
MCConns == {c1, c2}
MCConns3 == {c1, c2, c3}
MCConnUser == (c1 :> u1) @@ (c2 :> u2)
MCConnUser3 == MCConnUser @@ (c3 :> u2)
MCRcptDirect == {{u2}}
MCRcptBot == {{b0}}

\* Copies of a re-queued payload are unbounded in the code; the model
\* explores histories up to MaxLen entries per sequence.
MaxLen == 2
StateBound ==
  /\ \A c \in Conns : Len(outq[c]) <= MaxLen /\ Len(recv[c]) <= MaxLen
  /\ \A u \in Users : Len(queue[u]) <= MaxLen
=============================================================================
