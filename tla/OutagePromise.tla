--------------------------- MODULE OutagePromise ---------------------------
(***************************************************************************)
(* What services_stopped(), its journal and reconcile() promise together:  *)
(* a unit goes down only after a durable promise to bring it back, and the *)
(* promise is struck out only when everything it names is back.            *)
(***************************************************************************)
CONSTANTS Unit

VARIABLES
    promised,    \* units the durable promise names
    out          \* units taken down and not yet given back

vars == <<promised, out>>

Init == promised = {} /\ out = {}

\* A new promise replaces a settled one.
Promise ==
    /\ out = {}
    /\ promised' \in SUBSET Unit
    /\ UNCHANGED out

TakeDown ==
    /\ \E u \in promised \ out : out' = out \cup {u}
    /\ UNCHANGED promised

GiveBack ==
    /\ \E u \in out : out' = out \ {u}
    /\ UNCHANGED promised

Next == Promise \/ TakeDown \/ GiveBack

Spec == Init /\ [][Next]_vars
=============================================================================
