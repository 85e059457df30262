---------------------------- MODULE MCJobRunner ----------------------------
(* Instances of JobRunner: two handler threads, a build and a flash.       *)
EXTENDS JobRunner, TLC

\* The handler threads are alike.
Alike == Permutations(Caller)
=============================================================================
