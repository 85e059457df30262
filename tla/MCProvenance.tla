---------------------------- MODULE MCProvenance ----------------------------
(* One type, one or two boards, every outside event once.                  *)
EXTENDS Provenance, TLC

Alike == Permutations(Answer) \cup Permutations(Commit)
=============================================================================
