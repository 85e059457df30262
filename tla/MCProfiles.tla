----------------------------- MODULE MCProfiles -----------------------------
(* Two seed files that differ in one answer of the pins, of which a later tree *)
(* moves one to the other address and drops the other.                        *)
EXTENDS Profiles

MCTrees ==
    {[usb |-> {"pins"}, can |-> {"pins", "far"}],
     [usb |-> {"pins", "far"}, can |-> None]}
=============================================================================
