---------------------------- MODULE MCFrameBuffer ----------------------------
EXTENDS FrameBuffer

CONSTANTS u1, u2, c1, c2, c3

MCUsers == {u1, u2}
MCConns == {c1, c2, c3}
\* c1 belongs to u1; c2 and c3 are two connections of u2.
MCConnUser == (c1 :> u1) @@ (c2 :> u2) @@ (c3 :> u2)
=============================================================================
