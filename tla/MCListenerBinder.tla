-------------------------- MODULE MCListenerBinder ---------------------------
(***************************************************************************)
(* Two listeners, three connections: a duplicate, a successor and one to   *)
(* another member.                                                         *)
(***************************************************************************)
EXTENDS ListenerBinder, TLC

CONSTANTS l1, l2, m1, m2

MCIds     == {l1, l2}
MCMembers == {m1, m2}
MCMemberOf == <<m1, m2, m1>>
Symmetry == Permutations(MCIds)
=============================================================================
