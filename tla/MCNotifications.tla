-------------------------- MODULE MCNotifications --------------------------
(***************************************************************************)
(* The transfers of a run of Notifications: two, of one remote or of two.  *)
(***************************************************************************)
EXTENDS Notifications, TLC

CONSTANTS o1, o2, r1, r2

OneOrTwo == {(o1 :> r1) @@ (o2 :> r1), (o1 :> r1) @@ (o2 :> r2)}
=============================================================================
