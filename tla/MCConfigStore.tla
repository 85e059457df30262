--------------------------- MODULE MCConfigStore ---------------------------
(* Two readers and two writers of the agent, and the installer's seeding.  *)
EXTENDS ConfigStore, TLC

CONSTANTS reg, set, seed

Alike == Permutations(Inode) \cup Permutations(Reader)
=============================================================================
