----------------------------- MODULE MCAdoption -----------------------------
(* Two boards, one that a helper names and one that the ROM can name, and two *)
(* types, one of each builder.  The names are fixed strings so that a serial's *)
(* keys can be written down.                                                  *)
EXTENDS Adoption

MCFactory == [pico |-> "e66", rr |-> "RR-UNPROVISIONED"]
MCCandidateKeys == [s \in Serial |-> IF s = "e66" THEN <<"derived", "e66">> ELSE <<>>]
MCRomKey == [pico |-> "e66", rr |-> None]
=============================================================================
