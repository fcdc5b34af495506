--------------------------- MODULE MCDBThreadPool ---------------------------
(***************************************************************************)
(* Instance of DBThreadPool for TLC: two threads, three requests about     *)
(* one entity and a login task.                                            *)
(***************************************************************************)
EXTENDS DBThreadPool, TLC

CONSTANTS q1, q2, q3, login

MCTasks == {q1, q2, q3, login}
MCEntityTasks == {q1, q2, q3}
MCEntityDBID == q1 :> 7 @@ q2 :> 7 @@ q3 :> 7
MCEntityID == q1 :> 70 @@ q2 :> 70 @@ q3 :> 70

\* The threads are interchangeable, and so are requests with the same ids.
Symmetric == Permutations(Threads) \cup Permutations({q1, q2, q3})

=============================================================================
