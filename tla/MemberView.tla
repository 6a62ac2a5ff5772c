------------------------------ MODULE MemberView ------------------------------
(***************************************************************************)
(* What the cluster service promises about the member list: it is empty,   *)
(* or one of the lists a cluster has published, as a whole; and until the  *)
(* client looks for a cluster again, it is only ever replaced by a list    *)
(* with a higher version.                                                  *)
(***************************************************************************)
EXTENDS Integers

VARIABLES
    published,  \* lists of the clusters: [version, members]
    version,    \* of the client's list, -1 when there is none
    members     \* of the client's list

viewVars == <<published, version, members>>

Init == version = -1 /\ members = {}

\* A cluster changes: the client's list does not.
Publish ==
    /\ published \subseteq published'
    /\ UNCHANGED <<version, members>>

Install ==
    /\ \E list \in published : list.version > version /\ version' = list.version /\ members' = list.members
    /\ UNCHANGED published

Reset ==
    /\ version' = -1 /\ members' = {}
    /\ UNCHANGED published

Next == Publish \/ Install \/ Reset

Spec == Init /\ [][Next]_viewVars
=============================================================================
