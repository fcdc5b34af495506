------------------------- MODULE MCBufferedDBTasks -------------------------
(***************************************************************************)
(* Instance of BufferedDBTasks for TLC: three requests about the entity    *)
(* with database id 7, one about an entity that has no database id yet,    *)
(* and a login that bypasses the queue.                                    *)
(***************************************************************************)
EXTENDS BufferedDBTasks, TLC

CONSTANTS q1, q2, q3, e1, login

MCEntityTasks == {q1, q2, q3, e1}
MCPlainTasks == {login}

\* e1 is about entity 7, whose dbid is not known: the same number in the other map.
MCEntityDBID == q1 :> 7 @@ q2 :> 7 @@ q3 :> 7 @@ e1 :> 0
MCEntityID == q1 :> 70 @@ q2 :> 70 @@ q3 :> 71 @@ e1 :> 7

=============================================================================
