---------------------------- MODULE MCWorkerPool ----------------------------
(* Instances of WorkerPool for TLC.  The tasks that clients submit are      *)
(* interchangeable, and so are the others, and so are the clients.          *)
EXTENDS WorkerPool, TLC

Symmetry ==
  Permutations(Roots) \cup Permutations(Tasks \ Roots) \cup Permutations(Clients)
=============================================================================
