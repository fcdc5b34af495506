---------------------------- MODULE MCThreadPool ----------------------------
(***************************************************************************)
(* Instances of ThreadPool for TLC: names for the tasks and the threads.   *)
(* The constants normalThreadCount, extraNewAddThreadCount and             *)
(* maxThreadCount tell the pools apart (see the .cfg files).               *)
(***************************************************************************)
EXTENDS ThreadPool, TLC

\* Tasks are interchangeable, and so are threads.
Symmetric == Permutations(Tasks) \cup Permutations(Threads)

=============================================================================
