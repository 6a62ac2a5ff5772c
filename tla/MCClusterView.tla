---------------------------- MODULE MCClusterView ----------------------------
(***************************************************************************)
(* Cluster 1, whose member u3 takes over the address of u1; cluster 2 to   *)
(* fail over to; cluster 3 with another partition count; cluster 4, whose  *)
(* partition returns to its first owner.                                   *)
(***************************************************************************)
EXTENDS ClusterView, TLC

CONSTANTS u1, u2, u3, u4, u5, none

MCUuids     == {u1, u2, u3, u4, u5}
MCAddrOf    == u1 :> 1 @@ u2 :> 2 @@ u3 :> 1 @@ u4 :> 3 @@ u5 :> 2
MCTranslate == 1 :> 11 @@ 2 :> 12 @@ 3 :> 13
MCVersionOf == u1 :> 52 @@ u2 :> 53 @@ u3 :> 52 @@ u4 :> 53 @@ u5 :> 53
MCLite      == {u4}
MCRoutes    == {<<1, 1, 2>>, <<1, 2, 3>>, <<4, 4, 2>>}
MCLists     == << << <<u1, u2>>, <<u2, u3>> >>, << <<u4, u5>> >>, << <<u4>> >>, << <<u1, u2>> >> >>
MCOwners    == << <<u1>>, <<u5>>, <<u4>>, <<u1, u2, u1>> >>
MCCounts    == <<271, 271, 11, 271>>
=============================================================================
