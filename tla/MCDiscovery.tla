---------------------------- MODULE MCDiscovery ----------------------------
(***************************************************************************)
(* The services of a run of Discovery: two hosts of one name, and one      *)
(* whose own name is what the second of them would be given.               *)
(***************************************************************************)
EXTENDS Discovery, TLC

CONSTANTS p1, p2, p3, b4, b6

Host == <<0>>

Hostnames == (p1 :> Host) @@ (p2 :> Host) @@ (p3 :> Candidate(Host, 1))

\* The two hosts of one name may change places, and so may the browsers.
Alike == Permutations({p1, p2}) \cup Permutations({b4, b6})
=============================================================================
