----------------------------- MODULE MCBuilders -----------------------------
(* Three commits: 1 touches nothing under the source directory and carries *)
(* the release tag, 2 drops a target and makes no raw image. Two devices   *)
(* on two of three sockets, one named by its id.                           *)
EXTENDS Builders, TLC

CONSTANTS d1, d2, p1, p2, t1, t2

TypesDef ==
    {[by |-> "cmake", devices |-> {d1}, measures |-> {}],
     [by |-> "cmake", devices |-> {d1}, measures |-> {d1}],
     [by |-> "pio", devices |-> {d1, d2}, measures |-> {}]}

HomeDef == (d1 :> p1) @@ (d2 :> p2)
SubtreeDef == (0 :> 0) @@ (1 :> 0) @@ (2 :> 2)
DeclaresDef == (0 :> {t1, t2}) @@ (1 :> {t1, t2}) @@ (2 :> {t2})
ListedDef == [cmake |-> <<"flashtool", "bootsel">>, pio |-> <<"platformio">>]
=============================================================================
