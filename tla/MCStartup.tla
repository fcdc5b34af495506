------------------------------ MODULE MCStartup ------------------------------
(***************************************************************************)
(* Instance of Startup for TLC: dbmgr d, the base manager m, a baseapp a,  *)
(* a baseapp b with the same identity (a twin, or a run again) and a       *)
(* cellapp c.                                                              *)
(***************************************************************************)
EXTENDS Startup, TLC

CONSTANTS d, m, a, b, c

MCProcesses == {d, m, a, b, c}
MCComponentType ==
    d :> DBMGR_TYPE @@ m :> BASEAPPMGR_TYPE @@ a :> BASEAPP_TYPE @@ b :> BASEAPP_TYPE
      @@ c :> CELLAPP_TYPE
MCComponentID == d :> 1 @@ m :> 2 @@ a :> 3 @@ b :> 3 @@ c :> 4

=============================================================================
