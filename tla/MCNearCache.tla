---------------------------- MODULE MCNearCache ----------------------------
(* Small instances of NearCache. *)
EXTENDS NearCache, TLC

CONSTANTS k1, k2, k3, r1, r2, w1, h, o1, o2, o3, o4, o5

\* Records that nobody refers to are garbage: what they hold is forgotten.
Live(o) == (\E k \in Keys : records[k] = o) \/ (\E r \in Readers : rec[r] = o)
LiveView == <<server, records, [o \in Objs |-> IF Live(o) THEN obj[o] ELSE NoVal],
              pc, local, history>>

Symmetric == Permutations(Objs) \cup Permutations(Readers) \cup Permutations(Keys)
=============================================================================
