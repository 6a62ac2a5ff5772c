------------------------ MODULE MCInvocationService ------------------------
(* Small instances of InvocationService. *)
EXTENDS InvocationService

CONSTANTS c1, c2, k1, k2

NoBound == [c \in {} |-> NoConn]
BoundC2 == [c \in {c2} |-> k1]
=============================================================================
