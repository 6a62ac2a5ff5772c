-------------------------- MODULE MCEventDispatch --------------------------
(* A small instance of EventDispatch. *)
EXTENDS EventDispatch

CONSTANTS p1, s1, s2, u1, a1, x

OneName == [s \in Subs |-> "connection"]
\* the handler of s1 publishes cluster events, as the connection manager does
Publishing == [p \in Publishers \cup {s1} |-> IF p = p1 THEN "connection" ELSE "cluster"]
UnsubscribeS1 == [u \in {u1} |-> s1]
SubscribeS2 == [a \in {a1} |-> s2]
=============================================================================
