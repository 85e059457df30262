------------------------------ MODULE MCOpLock ------------------------------
(* Two clients, two probers and two faults.                                *)
EXTENDS OpLock
=============================================================================
