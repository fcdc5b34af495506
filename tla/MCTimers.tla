------------------------------ MODULE MCTimers ------------------------------
(***************************************************************************)
(* Instance of Timers for TLC: h1 has two handles, as dbmgr and the        *)
(* baseapp, h2 one.                                                        *)
(***************************************************************************)
EXTENDS Timers, TLC

CONSTANTS h1, h2, k1, k2, k3, t1, t2, t3, t4

MCHandlerOf == k1 :> h1 @@ k2 :> h1 @@ k3 :> h2

=============================================================================
