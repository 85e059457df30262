------------------------ MODULE ServiceOutageProofs ------------------------
(***************************************************************************)
(* What services_stopped(), the journal and reconcile() guarantee whatever *)
(* the processes, units, blocks and faults are:                            *)
(*                                                                         *)
(*   - every variable keeps its type;                                      *)
(*   - nothing but ExecStopPost starts a unit the tool had not stopped,    *)
(*     with any number of processes racing, nesting, crashing;             *)
(*   - once nobody is at work all the tool took down is back, unless a     *)
(*     process was killed or interrupted or a start failed;                *)
(*   - where one process runs at a time and is_active() sees what runs, no *)
(*     image is written under a service the write wanted stopped;          *)
(*   - where that process does not nest its blocks and starts work, the    *)
(*     journal covers every unit that is down, kills included, and the     *)
(*     outages implement OutagePromise.                                    *)
(***************************************************************************)
EXTENDS TLAPS, ServiceOutage

\* Control points at which a process is inside a services_stopped() block.
Inside == {"record", "stop", "verify", "body", "write", "restart"}

\* A filtered list names positions of its list.
Listed(e) == e.stop \subseteq DOMAIN e.units

\* The control points agree with the stack of blocks.
Stacked ==
    \A p \in Proc :
        /\ depth[p] <= Levels(p)
        /\ pc[p] \in Inside => depth[p] >= 1
        /\ pc[p] = "enter" => depth[p] < Levels(p)
        /\ pc[p] \notin Inside \cup {"enter"} => depth[p] = 0

AllListed ==
    /\ Listed(journal)
    /\ \A p \in Proc : Listed(todo[p])
    /\ \A p \in Proc, d \in Nest :
          Listed(frame[p][d]) /\ frame[p][d].left \subseteq frame[p][d].stop

TInv == TypeOK /\ Stacked /\ AllListed

\* A process has one block, or one inside another.
LEMMA Blocks == \A p \in Proc : Levels(p) \in 1 .. 2
  BY OutageAssumption DEF Nest, Levels

\* The block a process is about to enter is a list of units.
LEMMA BlockType ==
  ASSUME NEW p \in Proc, depth[p] \in 0 .. 2, depth[p] < Levels(p)
  PROVE  Block(p) \in Seq(Unit)
  <1>1. Outages[p] \in Seq(Seq(Unit))
    BY OutageAssumption
  <1>2. depth[p] + 1 \in 1 .. Len(Outages[p])
    BY <1>1 DEF Levels
  <1>3. QED
    BY <1>1, <1>2 DEF Block

\* The types of the helpers: a block's unit is a unit.
LEMMA TargetIsUnit ==
  ASSUME TInv, NEW p \in Proc, pc[p] \in Inside, NEW i \in Top(p).left
  PROVE  Target(p, i) \in Unit
  <1>1. depth[p] \in Nest
    BY Blocks DEF TInv, TypeOK, Stacked, Inside, Nest
  <1>2. frame[p][depth[p]] \in Frame /\ i \in DOMAIN frame[p][depth[p]].units
    BY <1>1 DEF TInv, TypeOK, AllListed, Listed, Top
  <1>3. QED
    BY <1>2 DEF Target, Top, Frame

\* A fault is counted, the counters stay counters.
LEMMA StrikeTypes ==
  ASSUME TypeOK, NEW f \in Fault, Strike(f)
  PROVE  faults' \in [Fault -> Nat]
  BY DEF TypeOK, Strike

\* A start changes what it starts and nothing's type.
LEMMA StartTypes ==
  ASSUME TypeOK, NEW u \in Unit, StartUnit(u)
  PROVE  /\ up' \in [Unit -> BOOLEAN]
         /\ owed' \subseteq Unit
         /\ faults' \in [Fault -> Nat]
  <1>1. CASE up' = [up EXCEPT ![u] = TRUE] /\ owed' = owed \ {u} /\ UNCHANGED faults
    BY <1>1 DEF TypeOK
  <1>2. CASE Strike("start") /\ UNCHANGED <<up, owed>>
    BY <1>2, StrikeTypes DEF TypeOK, Fault
  <1>3. QED
    BY <1>1, <1>2 DEF StartUnit

LEMMA InitTInv == Init => TInv
  <1> SUFFICES ASSUME Init PROVE TInv
    OBVIOUS
  <1>1. Empty \in Entry /\ Listed(Empty)
    BY DEF Empty, Entry, Listed
  <1>2. NoFrame \in Frame /\ Listed(NoFrame) /\ NoFrame.left \subseteq NoFrame.stop
    BY DEF NoFrame, Frame, Listed
  <1>3. TypeOK
    <2>1. journal \in Entry /\ todo \in [Proc -> Entry]
      BY <1>1 DEF Init
    <2>2. frame \in [Proc -> [Nest -> Frame]]
      BY <1>2 DEF Init
    <2>3. pc \in [Proc -> PC] /\ depth \in [Proc -> 0 .. 2]
      BY DEF Init, PC
    <2>4. up \in [Unit -> BOOLEAN] /\ faults \in [Fault -> Nat]
      BY DEF Init
    <2>5. QED
      BY <2>1, <2>2, <2>3, <2>4 DEF Init, TypeOK
  <1>4. Stacked
    <2>1. \A p \in Proc : depth[p] = 0 /\ pc[p] = "off"
      BY DEF Init
    <2>2. \A p \in Proc : depth[p] < Levels(p) /\ depth[p] <= Levels(p)
      BY <2>1, Blocks
    <2>3. \A p \in Proc : pc[p] \notin Inside
      BY <2>1 DEF Inside
    <2>4. \A p \in Proc : pc[p] # "enter"
      BY <2>1
    <2>5. QED
      BY <2>1, <2>2, <2>3, <2>4 DEF Stacked
  <1>5. AllListed
    BY <1>1, <1>2 DEF Init, AllListed
  <1>6. QED
    BY <1>3, <1>4, <1>5 DEF TInv

\* Start-up and reconcile() keep the types.
LEMMA StartupTInv ==
  ASSUME TInv, NEW p \in Proc,
         Launch(p) \/ Exit(p) \/ ReadJournal(p) \/ ReconcileUnit(p) \/ ReconcileClear(p)
  PROVE  TInv'
  <1> USE DEF TInv, TypeOK, Stacked, AllListed, Listed, Entry, PC, Inside, Goto
  <1>1. CASE Launch(p)
    BY <1>1 DEF Launch
  <1>2. CASE Exit(p)
    BY <1>2 DEF Exit
  <1>3. CASE ReadJournal(p)
    BY <1>3 DEF ReadJournal
  <1>4. CASE ReconcileUnit(p)
    <2>1. PICK i \in todo[p].stop :
             /\ IF up[todo[p].units[i]] THEN UNCHANGED <<up, owed, faults>>
                ELSE StartUnit(todo[p].units[i])
             /\ todo' = [todo EXCEPT ![p].stop = @ \ {i}]
      BY <1>4 DEF ReconcileUnit
    <2>2. todo[p].units[i] \in Unit
      OBVIOUS
    <2>3. /\ up' \in [Unit -> BOOLEAN]
          /\ owed' \subseteq Unit
          /\ faults' \in [Fault -> Nat]
      BY <2>1, <2>2, StartTypes
    <2>4. UNCHANGED <<journal, lock, pc, depth, frame, netDue>>
      BY <1>4 DEF ReconcileUnit
    <2>5. QED
      BY <2>1, <2>3, <2>4
  <1>5. CASE ReconcileClear(p)
    BY <1>5 DEF ReconcileClear, Empty
  <1>6. QED
    BY <1>1, <1>2, <1>3, <1>4, <1>5

\* What may happen to a block's local state: `left' changes, or it is dropped.
Kept(f, g) == (g.units = f.units /\ g.stop = f.stop) \/ g.stop = {}

FramesKept ==
    /\ frame' \in [Proc -> [Nest -> Frame]]
    /\ \A q \in Proc, d \in Nest :
          /\ Listed(frame'[q][d]) /\ frame'[q][d].left \subseteq frame'[q][d].stop
          /\ Kept(frame[q][d], frame'[q][d])

\* A process inside a block has a frame on top.
LEMMA TopExists ==
  ASSUME TInv, NEW p \in Proc, pc[p] \in Inside
  PROVE  /\ depth[p] \in Nest
         /\ Top(p) \in Frame
         /\ Listed(Top(p))
         /\ Top(p).left \subseteq Top(p).stop
  <1>1. depth[p] \in Nest
    BY DEF TInv, TypeOK, Stacked, Nest
  <1>2. QED
    BY <1>1 DEF TInv, TypeOK, AllListed, Top

\* Changing what is left of the innermost block keeps every frame.
LEMMA SetLeftKeeps ==
  ASSUME TInv, NEW p \in Proc, pc[p] \in Inside, NEW S, S \subseteq Top(p).stop,
         SetLeft(p, S)
  PROVE  FramesKept
  <1>1. depth[p] \in Nest
    BY TopExists
  <1>2. frame \in [Proc -> [Nest -> Frame]]
    BY DEF TInv, TypeOK
  <1>3. S \in SUBSET Nat
    BY <1>1, <1>2 DEF Top, Frame
  <1>4. \A q \in Proc, d \in Nest : frame[q][d] \in Frame
    BY <1>2
  <1> DEFINE g == [frame[p][depth[p]] EXCEPT !.left = S]
  <1>5. /\ g \in Frame
        /\ g.units = Top(p).units /\ g.stop = Top(p).stop /\ g.left = S
    BY <1>1, <1>3, <1>4 DEF Frame, Top
  <1>6. frame' = [frame EXCEPT ![p] = [frame[p] EXCEPT ![depth[p]] = g]]
    BY DEF SetLeft
  <1> HIDE DEF g
  <1>7. frame' \in [Proc -> [Nest -> Frame]]
    BY <1>1, <1>2, <1>5, <1>6
  <1>8. ASSUME NEW q \in Proc, NEW d \in Nest
        PROVE  /\ Listed(frame'[q][d]) /\ frame'[q][d].left \subseteq frame'[q][d].stop
               /\ Kept(frame[q][d], frame'[q][d])
    <2>1. CASE q = p /\ d = depth[p]
      <3>1. frame'[q][d] = g
        BY <2>1, <1>1, <1>2, <1>6
      <3>2. Listed(Top(p)) /\ frame[q][d] = Top(p)
        BY <2>1, TopExists DEF Top
      <3>3. QED
        BY <3>1, <3>2, <1>5 DEF Listed, Kept
    <2>2. CASE ~(q = p /\ d = depth[p])
      <3>1. frame'[q][d] = frame[q][d]
        BY <2>2, <1>1, <1>2, <1>6
      <3>2. QED
        BY <3>1 DEF TInv, AllListed, Kept
    <2>3. QED
      BY <2>1, <2>2
  <1>9. QED
    BY <1>7, <1>8 DEF FramesKept

\* Leaving the innermost block keeps the frames, and the stack and the control
\* point still agree.
LEMMA LeaveKeeps ==
  ASSUME TInv, NEW p \in Proc, pc[p] \in Inside, Leave(p)
  PROVE  FramesKept /\ depth' \in [Proc -> 0 .. 2] /\ pc' \in [Proc -> PC] /\ Stacked'
  <1>1. depth[p] \in Nest /\ depth[p] <= Levels(p) /\ Levels(p) \in 1 .. 2
    BY TopExists, Blocks DEF TInv, Stacked
  <1>2. /\ frame \in [Proc -> [Nest -> Frame]]
        /\ depth \in [Proc -> 0 .. 2]
        /\ pc \in [Proc -> PC]
    BY DEF TInv, TypeOK
  <1>3. NoFrame \in Frame /\ Listed(NoFrame) /\ NoFrame.left = {} /\ NoFrame.stop = {}
    BY DEF NoFrame, Frame, Listed
  <1> HIDE DEF NoFrame
  <1>4. \A q \in Proc, d \in Nest :
           /\ frame[q][d] \in Frame
           /\ Listed(frame[q][d]) /\ frame[q][d].left \subseteq frame[q][d].stop
    BY <1>2 DEF TInv, AllListed
  <1> DEFINE g(n) == IF n > depth[p] - 1 THEN NoFrame
                     ELSE [frame[p][n] EXCEPT !.left = frame[p][n].stop]
  <1>5. /\ frame' = [frame EXCEPT ![p] = [n \in Nest |-> g(n)]]
        /\ depth' = [depth EXCEPT ![p] = depth[p] - 1]
        /\ pc' = [pc EXCEPT ![p] = IF depth[p] = 1 THEN "done" ELSE "restart"]
    BY <1>1 DEF Leave, Goto, Nest
  <1>6. ASSUME NEW n \in Nest
        PROVE  g(n) \in Frame /\ Listed(g(n)) /\ g(n).left \subseteq g(n).stop
               /\ Kept(frame[p][n], g(n))
    <2>1. CASE n > depth[p] - 1
      BY <2>1, <1>3 DEF Kept
    <2>2. CASE ~(n > depth[p] - 1)
      BY <2>2, <1>4 DEF Kept, Frame, Listed
    <2>3. QED
      BY <2>1, <2>2
  <1> HIDE DEF g
  <1>7. FramesKept
    <2>1. frame' \in [Proc -> [Nest -> Frame]]
      BY <1>2, <1>5, <1>6
    <2>2. \A q \in Proc, d \in Nest : frame'[q][d] = IF q = p THEN g(d) ELSE frame[q][d]
      BY <1>2, <1>5
    <2>3. QED
      BY <2>1, <2>2, <1>4, <1>6 DEF FramesKept, Kept
  <1>8. depth' \in [Proc -> 0 .. 2] /\ pc' \in [Proc -> PC]
    BY <1>1, <1>2, <1>5 DEF PC, Nest
  <1>9. Stacked'
    <2>1. \A q \in Proc : Levels(q)' = Levels(q)
      BY DEF Levels
    <2>2. \A q \in Proc \ {p} : pc'[q] = pc[q] /\ depth'[q] = depth[q]
      BY <1>2, <1>5
    <2>3. /\ depth'[p] = depth[p] - 1
          /\ depth[p] = 1 => pc'[p] = "done"
          /\ depth[p] # 1 => pc'[p] = "restart"
      BY <1>2, <1>5
    <2>4. QED
      BY <1>1, <2>1, <2>2, <2>3 DEF TInv, Stacked, Inside, Nest
  <1>10. QED
    BY <1>7, <1>8, <1>9

\* A step that moves one process and leaves the stack alone.
LEMMA GotoStacked ==
  ASSUME TInv, NEW p \in Proc, NEW l \in PC, Goto(p, l), UNCHANGED depth,
         l \in Inside => depth[p] >= 1,
         l = "enter" => depth[p] < Levels(p),
         l \notin Inside \cup {"enter"} => depth[p] = 0
  PROVE  pc' \in [Proc -> PC] /\ Stacked'
  <1>1. pc' = [pc EXCEPT ![p] = l] /\ pc \in [Proc -> PC]
    BY DEF Goto, TInv, TypeOK
  <1>2. pc'[p] = l /\ \A q \in Proc \ {p} : pc'[q] = pc[q]
    BY <1>1
  <1>3. \A q \in Proc : Levels(q)' = Levels(q) /\ depth'[q] = depth[q]
    BY DEF Levels
  <1>4. depth[p] <= Levels(p)
    BY DEF TInv, Stacked
  <1>5. QED
    BY <1>1, <1>2, <1>3, <1>4 DEF TInv, Stacked

\* A step that keeps the frames and what start-up left to do.
LEMMA KeptListed ==
  ASSUME TInv, UNCHANGED <<frame, todo>>, Listed(journal')
  PROVE  AllListed'
  BY DEF TInv, AllListed

LEMMA FramesKeptListed ==
  ASSUME TInv, FramesKept, UNCHANGED todo, Listed(journal')
  PROVE  AllListed'
  BY DEF TInv, AllListed, FramesKept

\* Entering a block and recording what it is about to stop keep the types.
LEMMA EnterTInv ==
  ASSUME TInv, NEW p \in Proc, Begin(p) \/ RecordStop(p)
  PROVE  TInv'
  <1>1. CASE Begin(p)
    <2>1. /\ pc[p] = "ready" /\ Goto(p, "enter") /\ lock' = p
          /\ UNCHANGED <<up, journal, depth, frame, todo, netDue, owed, faults>>
      BY <1>1 DEF Begin
    <2>2. depth[p] = 0 /\ depth[p] < Levels(p)
      BY <2>1, Blocks DEF TInv, Stacked, Inside
    <2>3. pc' \in [Proc -> PC] /\ Stacked'
      BY <2>1, <2>2, GotoStacked DEF PC, Inside
    <2>4. TypeOK'
      BY <2>1, <2>3 DEF TInv, TypeOK
    <2>5. AllListed'
      BY <2>1, KeptListed DEF TInv, AllListed
    <2>6. QED
      BY <2>3, <2>4, <2>5 DEF TInv
  <1>2. CASE RecordStop(p)
    <2>1. pc[p] \in Inside
      BY <1>2 DEF RecordStop, Inside
    <2>2. journal' \in Entry /\ Listed(journal')
      BY <1>2, <2>1, TopExists DEF RecordStop, Entry, Frame, Listed
    <2>3. pc' = [pc EXCEPT ![p] = "stop"] /\ UNCHANGED <<up, lock, depth, frame, todo, netDue, owed, faults>>
      BY <1>2 DEF RecordStop, Goto
    <2>4. TypeOK'
      BY <2>2, <2>3 DEF TInv, TypeOK, PC
    <2>5. Stacked'
      BY <2>1, <2>3 DEF TInv, TypeOK, Stacked, Inside, Levels
    <2>6. AllListed'
      BY <2>2, <2>3 DEF TInv, AllListed
    <2>7. QED
      BY <2>4, <2>5, <2>6 DEF TInv
  <1>3. QED
    BY <1>1, <1>2

LEMMA EnterBlockTInv ==
  ASSUME TInv, NEW p \in Proc, Enter(p)
  PROVE  TInv'
  <1>1. pc[p] = "enter" /\ depth[p] \in 0 .. 2 /\ depth[p] < Levels(p)
    BY DEF Enter, TInv, TypeOK, Stacked
  <1>2. depth[p] + 1 \in Nest /\ Block(p) \in Seq(Unit) /\ Levels(p) \in 1 .. 2
    BY <1>1, Blocks, BlockType DEF Nest
  <1>3. PICK missed \in SUBSET {i \in DOMAIN Block(p) : up[Block(p)[i]]} :
          LET S == {i \in DOMAIN Block(p) : up[Block(p)[i]]} \ missed
          IN  /\ IF missed = {} THEN UNCHANGED faults ELSE Strike("blind")
              /\ frame' = [frame EXCEPT ![p][depth[p] + 1] =
                              [units |-> Block(p), stop |-> S, left |-> S]]
              /\ Goto(p, IF S = {} THEN "body" ELSE "record")
    BY DEF Enter
  <1> DEFINE S == {i \in DOMAIN Block(p) : up[Block(p)[i]]} \ missed
             F == [units |-> Block(p), stop |-> S, left |-> S]
             l == IF S = {} THEN "body" ELSE "record"
  <1>4. F \in Frame /\ Listed(F) /\ F.left \subseteq F.stop
    BY <1>2 DEF Frame, Listed
  <1>5. /\ frame' = [frame EXCEPT ![p] = [frame[p] EXCEPT ![depth[p] + 1] = F]]
        /\ pc' = [pc EXCEPT ![p] = l] /\ l \in {"body", "record"}
        /\ depth' = [depth EXCEPT ![p] = depth[p] + 1]
        /\ UNCHANGED <<up, journal, lock, todo, netDue, owed>>
    BY <1>3 DEF Enter, Goto
  <1> HIDE DEF F, l
  <1>6. faults' \in [Fault -> Nat]
    BY <1>3, StrikeTypes DEF TInv, TypeOK, Fault
  <1>7. /\ frame \in [Proc -> [Nest -> Frame]]
        /\ depth \in [Proc -> 0 .. 2]
        /\ pc \in [Proc -> PC]
    BY DEF TInv, TypeOK
  <1>8. frame' \in [Proc -> [Nest -> Frame]]
    BY <1>2, <1>4, <1>5, <1>7
  <1>9. pc' \in [Proc -> PC] /\ depth' \in [Proc -> 0 .. 2]
    BY <1>2, <1>5, <1>7 DEF PC, Nest
  <1>10. TypeOK'
    BY <1>5, <1>6, <1>8, <1>9 DEF TInv, TypeOK
  <1>11. Stacked'
    <2>1. \A q \in Proc : Levels(q)' = Levels(q)
      BY DEF Levels
    <2>2. \A q \in Proc \ {p} : pc'[q] = pc[q] /\ depth'[q] = depth[q]
      BY <1>5, <1>7
    <2>3. pc'[p] \in {"body", "record"} /\ depth'[p] = depth[p] + 1
      BY <1>5, <1>7
    <2>4. QED
      BY <1>1, <1>2, <2>1, <2>2, <2>3 DEF TInv, Stacked, Inside
  <1>12. AllListed'
    <2>1. \A q \in Proc, d \in Nest :
             frame'[q][d] = IF q = p /\ d = depth[p] + 1 THEN F ELSE frame[q][d]
      BY <1>2, <1>5, <1>7
    <2>2. QED
      BY <2>1, <1>4, <1>5 DEF TInv, AllListed
  <1>13. QED
    BY <1>10, <1>11, <1>12 DEF TInv

\* The stop loop keeps the types.
LEMMA StopTInv ==
  ASSUME TInv, NEW p \in Proc, StopUnit(p) \/ ConfirmDown(p) \/ StopTimeout(p)
  PROVE  TInv'
  <1>1. pc[p] \in Inside /\ depth[p] \in Nest
    BY TopExists DEF StopUnit, ConfirmDown, StopTimeout, Inside
  <1>2. CASE StopUnit(p)
    <2>1. PICK i \in Top(p).left :
            \/ /\ up' = [up EXCEPT ![Target(p, i)] = FALSE]
               /\ owed' = IF up[Target(p, i)] THEN owed \cup {Target(p, i)} ELSE owed
               /\ UNCHANGED faults
            \/ /\ Strike("stop")
               /\ UNCHANGED <<up, owed>>
      BY <1>2 DEF StopUnit
    <2>2. Target(p, i) \in Unit
      BY <1>1, <2>1, TargetIsUnit
    <2>3. up' \in [Unit -> BOOLEAN] /\ owed' \subseteq Unit /\ faults' \in [Fault -> Nat]
      BY <2>1, <2>2, StrikeTypes DEF TInv, TypeOK, Fault
    <2>4. Goto(p, "verify") /\ UNCHANGED <<journal, lock, depth, frame, todo, netDue>>
      BY <1>2 DEF StopUnit
    <2>5. pc' \in [Proc -> PC] /\ Stacked'
      BY <1>1, <2>4, GotoStacked DEF PC, Inside, Nest
    <2>6. AllListed'
      BY <2>4, KeptListed DEF TInv, AllListed
    <2>7. QED
      BY <2>3, <2>4, <2>5, <2>6 DEF TInv, TypeOK
  <1>3. CASE ConfirmDown(p)
    <2>1. PICK i \in Top(p).left :
            /\ IF up[Target(p, i)] THEN Strike("blind") ELSE UNCHANGED faults
            /\ PassOn(p, i)
      BY <1>3 DEF ConfirmDown
    <2> DEFINE rest == Top(p).left \ {i}
    <2>2. SetLeft(p, rest) /\ Goto(p, IF rest = {} THEN "body" ELSE "stop")
      BY <2>1 DEF PassOn
    <2>3. UNCHANGED <<up, journal, lock, depth, todo, netDue, owed>>
      BY <1>3 DEF ConfirmDown
    <2>4. rest \subseteq Top(p).stop
      BY <1>1, TopExists
    <2>5. FramesKept
      BY <1>1, <2>2, <2>4, SetLeftKeeps
    <2>6. faults' \in [Fault -> Nat]
      BY <2>1, StrikeTypes DEF TInv, TypeOK, Fault
    <2>7. pc' \in [Proc -> PC] /\ Stacked'
      <3>1. CASE rest = {}
        BY <3>1, <1>1, <2>2, <2>3, GotoStacked DEF PC, Inside, Nest
      <3>2. CASE rest # {}
        BY <3>2, <1>1, <2>2, <2>3, GotoStacked DEF PC, Inside, Nest
      <3>3. QED
        BY <3>1, <3>2
    <2>8. AllListed'
      BY <2>3, <2>5, FramesKeptListed DEF TInv, AllListed
    <2>9. QED
      BY <2>3, <2>5, <2>6, <2>7, <2>8 DEF TInv, TypeOK, FramesKept
  <1>4. CASE StopTimeout(p)
    <2>1. /\ SetLeft(p, Top(p).stop) /\ Goto(p, "restart")
          /\ UNCHANGED <<up, journal, lock, depth, todo, netDue, owed, faults>>
      BY <1>4 DEF StopTimeout
    <2>2. FramesKept
      BY <1>1, <2>1, SetLeftKeeps
    <2>3. pc' \in [Proc -> PC] /\ Stacked'
      BY <1>1, <2>1, GotoStacked DEF PC, Inside, Nest
    <2>4. AllListed'
      BY <2>1, <2>2, FramesKeptListed DEF TInv, AllListed
    <2>5. QED
      BY <2>1, <2>2, <2>3, <2>4 DEF TInv, TypeOK, FramesKept
  <1>5. QED
    BY <1>2, <1>3, <1>4

\* The body, the restarts and the way out keep the types.
LEMMA RestartTInv ==
  ASSUME TInv, NEW p \in Proc,
         \/ Body(p) \/ WriteEnd(p) \/ RestartUnit(p) \/ ClearJournal(p) \/ Finish(p)
  PROVE  TInv'
  <1>1. CASE Body(p)
    <2>1. pc[p] \in Inside /\ depth[p] \in Nest /\ Levels(p) \in 1 .. 2
      BY <1>1, TopExists, Blocks DEF Body, Inside
    <2>2. /\ Goto(p, IF depth[p] < Levels(p) THEN "enter" ELSE "write")
          /\ UNCHANGED <<up, journal, lock, depth, frame, todo, netDue, owed, faults>>
      BY <1>1 DEF Body
    <2>3. pc' \in [Proc -> PC] /\ Stacked'
      <3>1. CASE depth[p] < Levels(p)
        BY <3>1, <2>1, <2>2, GotoStacked DEF PC, Inside, Nest
      <3>2. CASE ~(depth[p] < Levels(p))
        BY <3>2, <2>1, <2>2, GotoStacked DEF PC, Inside, Nest
      <3>3. QED
        BY <3>1, <3>2
    <2>4. AllListed'
      BY <2>2, KeptListed DEF TInv, AllListed
    <2>5. QED
      BY <2>2, <2>3, <2>4 DEF TInv, TypeOK
  <1>2. CASE WriteEnd(p)
    <2>1. pc[p] \in Inside /\ depth[p] \in Nest
      BY <1>2, TopExists DEF WriteEnd, Inside
    <2>2. /\ SetLeft(p, Top(p).stop) /\ Goto(p, "restart")
          /\ UNCHANGED <<up, journal, lock, depth, todo, netDue, owed, faults>>
      BY <1>2 DEF WriteEnd
    <2>3. FramesKept
      BY <2>1, <2>2, SetLeftKeeps
    <2>4. pc' \in [Proc -> PC] /\ Stacked'
      BY <2>1, <2>2, GotoStacked DEF PC, Inside, Nest
    <2>5. AllListed'
      BY <2>2, <2>3, FramesKeptListed DEF TInv, AllListed
    <2>6. QED
      BY <2>2, <2>3, <2>4, <2>5 DEF TInv, TypeOK, FramesKept
  <1>3. CASE RestartUnit(p)
    <2>1. pc[p] \in Inside
      BY <1>3 DEF RestartUnit, Inside
    <2>2. PICK i \in Top(p).left : StartUnit(Target(p, i)) /\ SetLeft(p, Top(p).left \ {i})
      BY <1>3 DEF RestartUnit
    <2>3. UNCHANGED <<journal, lock, pc, depth, todo, netDue>>
      BY <1>3 DEF RestartUnit
    <2>4. Target(p, i) \in Unit /\ Top(p).left \ {i} \subseteq Top(p).stop
      BY <2>1, <2>2, TargetIsUnit, TopExists
    <2>5. FramesKept
      BY <2>1, <2>2, <2>4, SetLeftKeeps
    <2>6. up' \in [Unit -> BOOLEAN] /\ owed' \subseteq Unit /\ faults' \in [Fault -> Nat]
      BY <2>2, <2>4, StartTypes DEF TInv
    <2>7. Stacked'
      BY <2>3 DEF TInv, Stacked, Levels
    <2>8. AllListed'
      BY <2>3, <2>5, FramesKeptListed DEF TInv, AllListed
    <2>9. QED
      BY <2>3, <2>5, <2>6, <2>7, <2>8 DEF TInv, TypeOK, FramesKept
  <1>4. CASE ClearJournal(p)
    <2>1. pc[p] \in Inside
      BY <1>4 DEF ClearJournal, Inside
    <2>2. /\ journal' = Empty /\ Leave(p)
          /\ UNCHANGED <<up, lock, todo, netDue, owed, faults>>
      BY <1>4 DEF ClearJournal
    <2>3. FramesKept /\ depth' \in [Proc -> 0 .. 2] /\ pc' \in [Proc -> PC] /\ Stacked'
      BY <2>1, <2>2, LeaveKeeps
    <2>4. journal' \in Entry /\ Listed(journal')
      BY <2>2 DEF Empty, Entry, Listed
    <2>5. AllListed'
      BY <2>2, <2>3, <2>4, FramesKeptListed
    <2>6. QED
      BY <2>2, <2>3, <2>4, <2>5 DEF TInv, TypeOK, FramesKept
  <1>5. CASE Finish(p)
    <2>1. depth[p] = 0
      BY <1>5 DEF Finish, TInv, Stacked, Inside
    <2>2. /\ lock' = NoOne /\ Goto(p, IF p = Agent THEN "ready" ELSE "off")
          /\ UNCHANGED <<up, journal, depth, frame, todo, netDue, owed, faults>>
      BY <1>5 DEF Finish
    <2>3. pc' \in [Proc -> PC] /\ Stacked'
      <3>1. CASE p = Agent
        BY <3>1, <2>1, <2>2, GotoStacked DEF PC, Inside
      <3>2. CASE p # Agent
        BY <3>2, <2>1, <2>2, GotoStacked DEF PC, Inside
      <3>3. QED
        BY <3>1, <3>2
    <2>4. AllListed'
      BY <2>2, KeptListed DEF TInv, AllListed
    <2>5. QED
      BY <2>2, <2>3, <2>4 DEF TInv, TypeOK
  <1>6. QED
    BY <1>1, <1>2, <1>3, <1>4, <1>5

\* Kills, Ctrl-C and ExecStopPost keep the types.
LEMMA CrashTInv ==
  ASSUME TInv, NEW p \in Proc, Crash(p)
  PROVE  TInv'
  <1>1. /\ pc' = [pc EXCEPT ![p] = "off"]
        /\ depth' = [depth EXCEPT ![p] = 0]
        /\ frame' = [frame EXCEPT ![p] = [d \in Nest |-> NoFrame]]
        /\ todo' = [todo EXCEPT ![p] = Empty]
        /\ lock' = IF lock = p THEN NoOne ELSE lock
        /\ netDue' = (netDue \/ p = Agent)
        /\ UNCHANGED <<up, journal, owed>>
    BY DEF Crash, Goto
  <1>2. faults' \in [Fault -> Nat]
    BY StrikeTypes DEF Crash, TInv, TypeOK, Fault
  <1>3. NoFrame \in Frame /\ Listed(NoFrame) /\ NoFrame.left \subseteq NoFrame.stop
    BY DEF NoFrame, Frame, Listed
  <1>4. Empty \in Entry /\ Listed(Empty)
    BY DEF Empty, Entry, Listed
  <1> HIDE DEF NoFrame, Empty
  <1>5. /\ frame \in [Proc -> [Nest -> Frame]] /\ todo \in [Proc -> Entry]
        /\ depth \in [Proc -> 0 .. 2] /\ pc \in [Proc -> PC]
        /\ lock \in Proc \cup {NoOne} /\ netDue \in BOOLEAN
    BY DEF TInv, TypeOK
  <1>6. frame' \in [Proc -> [Nest -> Frame]] /\ todo' \in [Proc -> Entry]
    BY <1>1, <1>3, <1>4, <1>5
  <1>7. pc' \in [Proc -> PC] /\ depth' \in [Proc -> 0 .. 2]
    BY <1>1, <1>5 DEF PC
  <1>8. lock' \in Proc \cup {NoOne} /\ netDue' \in BOOLEAN
    BY <1>1, <1>5
  <1>9. Stacked'
    BY <1>1, <1>5, Blocks DEF TInv, Stacked, Inside, Levels
  <1>10. AllListed'
    <2>1. \A q \in Proc, d \in Nest :
             frame'[q][d] = IF q = p THEN NoFrame ELSE frame[q][d]
      BY <1>1, <1>5
    <2>2. \A q \in Proc : todo'[q] = IF q = p THEN Empty ELSE todo[q]
      BY <1>1, <1>5
    <2>3. QED
      BY <2>1, <2>2, <1>1, <1>3, <1>4 DEF TInv, AllListed
  <1>11. QED
    BY <1>1, <1>2, <1>6, <1>7, <1>8, <1>9, <1>10 DEF TInv, TypeOK

LEMMA InterruptTInv ==
  ASSUME TInv, NEW p \in Proc, Interrupt(p)
  PROVE  TInv'
  <1>1. faults' \in [Fault -> Nat] /\ UNCHANGED <<up, lock, todo, netDue, owed>>
    BY StrikeTypes DEF Interrupt, TInv, TypeOK, Fault
  <1>2. CASE /\ pc[p] \in {"record", "stop", "verify"}
             /\ Leave(p)
             /\ UNCHANGED journal
    <2>1. FramesKept /\ depth' \in [Proc -> 0 .. 2] /\ pc' \in [Proc -> PC] /\ Stacked'
      BY <1>2, LeaveKeeps DEF Inside
    <2>2. AllListed'
      BY <1>1, <1>2, <2>1, FramesKeptListed DEF TInv, AllListed
    <2>3. QED
      BY <1>1, <1>2, <2>1, <2>2 DEF TInv, TypeOK, FramesKept
  <1>3. CASE /\ pc[p] \in {"body", "write"}
             /\ SetLeft(p, Top(p).stop)
             /\ Goto(p, "restart")
             /\ UNCHANGED <<journal, depth>>
    <2>1. pc[p] \in Inside /\ depth[p] \in Nest
      BY <1>3, TopExists DEF Inside
    <2>2. FramesKept
      BY <1>3, <2>1, SetLeftKeeps
    <2>3. pc' \in [Proc -> PC] /\ Stacked'
      BY <1>3, <2>1, GotoStacked DEF PC, Inside, Nest
    <2>4. AllListed'
      BY <1>1, <1>3, <2>2, FramesKeptListed DEF TInv, AllListed
    <2>5. QED
      BY <1>1, <1>3, <2>2, <2>3, <2>4 DEF TInv, TypeOK, FramesKept
  <1>4. CASE pc[p] = "restart" /\ journal' = Empty /\ Leave(p)
    <2>1. FramesKept /\ depth' \in [Proc -> 0 .. 2] /\ pc' \in [Proc -> PC] /\ Stacked'
      BY <1>4, LeaveKeeps DEF Inside
    <2>2. journal' \in Entry /\ Listed(journal')
      BY <1>4 DEF Empty, Entry, Listed
    <2>3. AllListed'
      BY <1>1, <2>1, <2>2, FramesKeptListed
    <2>4. QED
      BY <1>1, <2>1, <2>2, <2>3 DEF TInv, TypeOK, FramesKept
  <1>5. QED
    BY <1>2, <1>3, <1>4 DEF Interrupt

LEMMA NetTInv ==
  ASSUME TInv, ExecStopPost
  PROVE  TInv'
  <1>1. Klipper \in Unit
    BY OutageAssumption
  <1>2. up' \in [Unit -> BOOLEAN] /\ owed' \subseteq Unit /\ faults' \in [Fault -> Nat]
    BY <1>1, StartTypes DEF ExecStopPost, TInv, TypeOK
  <1>3. netDue' = FALSE /\ UNCHANGED <<journal, lock, pc, depth, frame, todo>>
    BY DEF ExecStopPost
  <1>4. Stacked' /\ AllListed'
    BY <1>3 DEF TInv, Stacked, AllListed, Levels
  <1>5. QED
    BY <1>2, <1>3, <1>4 DEF TInv, TypeOK

LEMMA NextTInv == TInv /\ [Next]_vars => TInv'
  <1> SUFFICES ASSUME TInv, [Next]_vars PROVE TInv'
    OBVIOUS
  <1>1. CASE ExecStopPost
    BY <1>1, NetTInv
  <1>2. ASSUME NEW p \in Proc, Step(p) PROVE TInv'
    BY <1>2, StartupTInv, EnterTInv, EnterBlockTInv, StopTInv, RestartTInv,
       CrashTInv, InterruptTInv DEF Step, Progress
  <1>3. CASE UNCHANGED vars
    BY <1>3 DEF vars, TInv, TypeOK, Stacked, AllListed, Levels
  <1>4. QED
    BY <1>1, <1>2, <1>3 DEF Next

\* Every variable keeps its type, for any processes, units, nesting and faults.
THEOREM TypeCorrect == Spec => []TypeOK
  <1>1. TInv => TypeOK
    BY DEF TInv
  <1>2. QED
    BY InitTInv, NextTInv, <1>1, PTL DEF Spec

-----------------------------------------------------------------------------
(* Whatever the tool might start again, it has stopped *)

\* A unit that may be named: it runs, or the tool stopped it.
Safe(u) == up[u] \/ u \in owed

\* The units the journal, a starting process or a block names are safe.
NamedSafe ==
    /\ \A i \in journal.stop : Safe(journal.units[i])
    /\ \A p \in Proc : \A i \in todo[p].stop : Safe(todo[p].units[i])
    /\ \A p \in Proc, d \in Nest :
          \A i \in frame[p][d].stop : Safe(frame[p][d].units[i])

Inv == TInv /\ NamedSafe

\* No safe unit stops being safe.
StaySafe == \A u \in Unit : Safe(u) => up'[u] \/ u \in owed'

LEMMA StartStaysSafe ==
  ASSUME TInv, NEW u \in Unit, StartUnit(u)
  PROVE  StaySafe
  BY DEF TInv, TypeOK, StartUnit, StaySafe, Safe

\* The names come from the state before: the frames and the entries being
\* reconciled are kept or cut, the journal is kept, emptied, or copied from a
\* block.
LEMMA NamedStaySafe ==
  ASSUME Inv, StaySafe, FramesKept,
         \A q \in Proc : \/ /\ todo'[q].units = todo[q].units
                            /\ todo'[q].stop \subseteq todo[q].stop
                         \/ todo'[q].stop = {},
         UNCHANGED journal \/ journal'.stop = {}
  PROVE  NamedSafe'
  <1>1. ASSUME NEW i \in journal'.stop
        PROVE  Safe(journal.units[i])'
    <2>1. UNCHANGED journal /\ i \in journal.stop
      BY <1>1
    <2>2. journal \in Entry /\ i \in DOMAIN journal.units /\ Safe(journal.units[i])
      BY <2>1 DEF Inv, TInv, TypeOK, AllListed, Listed, NamedSafe
    <2>3. journal.units[i] \in Unit
      BY <2>2 DEF Entry
    <2>4. QED
      BY <2>1, <2>2, <2>3 DEF StaySafe, Safe
  <1>2. ASSUME NEW q \in Proc, NEW i \in todo'[q].stop
        PROVE  Safe(todo[q].units[i])'
    <2>1. todo[q] \in Entry /\ i \in DOMAIN todo[q].units /\ Safe(todo[q].units[i])
      BY <1>2 DEF Inv, TInv, TypeOK, AllListed, Listed, NamedSafe
    <2>2. todo[q].units[i] \in Unit
      BY <2>1 DEF Entry
    <2>3. QED
      BY <2>1, <2>2 DEF StaySafe, Safe
  <1>3. ASSUME NEW q \in Proc, NEW d \in Nest, NEW i \in frame'[q][d].stop
        PROVE  Safe(frame[q][d].units[i])'
    <2>1. frame'[q][d].units = frame[q][d].units /\ i \in frame[q][d].stop
      BY <1>3 DEF FramesKept, Kept
    <2>2. /\ frame[q][d] \in Frame
          /\ i \in DOMAIN frame[q][d].units
          /\ Safe(frame[q][d].units[i])
      BY <2>1 DEF Inv, TInv, TypeOK, AllListed, Listed, NamedSafe
    <2>3. frame[q][d].units[i] \in Unit
      BY <2>2 DEF Frame
    <2>4. QED
      BY <2>1, <2>2, <2>3 DEF StaySafe, Safe
  <1>4. QED
    BY <1>1, <1>2, <1>3 DEF NamedSafe

LEMMA SameFramesKept ==
  ASSUME TInv, UNCHANGED frame
  PROVE  FramesKept
  BY DEF TInv, TypeOK, AllListed, FramesKept, Kept

\* No step but Enter puts a name into a block.
LEMMA StepKeepsFrames ==
  ASSUME TInv, NEW p \in Proc,
         \/ ReconcileUnit(p) \/ ReconcileClear(p) \/ StopUnit(p) \/ ConfirmDown(p)
         \/ StopTimeout(p) \/ WriteEnd(p) \/ RestartUnit(p) \/ ClearJournal(p)
         \/ Crash(p) \/ Interrupt(p)
  PROVE  FramesKept
  <1>1. CASE ReconcileUnit(p) \/ ReconcileClear(p) \/ StopUnit(p)
    BY <1>1, SameFramesKept DEF ReconcileUnit, ReconcileClear, StopUnit
  <1>2. CASE ConfirmDown(p)
    <2>1. PICK i \in Top(p).left : SetLeft(p, Top(p).left \ {i})
      BY <1>2 DEF ConfirmDown, PassOn
    <2>2. pc[p] \in Inside
      BY <1>2 DEF ConfirmDown, Inside
    <2>3. Top(p).left \ {i} \subseteq Top(p).stop
      BY <2>2, TopExists
    <2>4. QED
      BY <2>1, <2>2, <2>3, SetLeftKeeps
  <1>3. CASE StopTimeout(p) \/ WriteEnd(p)
    <2>1. pc[p] \in Inside /\ SetLeft(p, Top(p).stop)
      BY <1>3 DEF StopTimeout, WriteEnd, Inside
    <2>2. QED
      BY <2>1, SetLeftKeeps
  <1>4. CASE RestartUnit(p)
    <2>1. PICK i \in Top(p).left : SetLeft(p, Top(p).left \ {i})
      BY <1>4 DEF RestartUnit
    <2>2. pc[p] \in Inside
      BY <1>4 DEF RestartUnit, Inside
    <2>3. Top(p).left \ {i} \subseteq Top(p).stop
      BY <2>2, TopExists
    <2>4. QED
      BY <2>1, <2>2, <2>3, SetLeftKeeps
  <1>5. CASE ClearJournal(p)
    <2>1. pc[p] \in Inside /\ Leave(p)
      BY <1>5 DEF ClearJournal, Inside
    <2>2. QED
      BY <2>1, LeaveKeeps
  <1>6. CASE Crash(p)
    <2>1. NoFrame \in Frame /\ Listed(NoFrame)
          /\ NoFrame.left \subseteq NoFrame.stop /\ NoFrame.stop = {}
      BY DEF NoFrame, Frame, Listed
    <2> HIDE DEF NoFrame
    <2>2. /\ frame' = [frame EXCEPT ![p] = [d \in Nest |-> NoFrame]]
          /\ frame \in [Proc -> [Nest -> Frame]]
      BY <1>6 DEF Crash, TInv, TypeOK
    <2>3. \A q \in Proc, d \in Nest :
             frame'[q][d] = IF q = p THEN NoFrame ELSE frame[q][d]
      BY <2>2
    <2>4. frame' \in [Proc -> [Nest -> Frame]]
      BY <2>1, <2>2
    <2>5. QED
      BY <2>1, <2>3, <2>4 DEF FramesKept, Kept, TInv, AllListed
  <1>7. CASE Interrupt(p)
    <2>1. pc[p] \in Inside /\ (Leave(p) \/ SetLeft(p, Top(p).stop))
      BY <1>7 DEF Interrupt, Inside
    <2>2. QED
      BY <2>1, SetLeftKeeps, LeaveKeeps
  <1>8. QED
    BY <1>1, <1>2, <1>3, <1>4, <1>5, <1>6, <1>7

\* A block names only units that ran when it was entered.
LEMMA EnterNamedSafe ==
  ASSUME Inv, NEW p \in Proc, Enter(p)
  PROVE  NamedSafe'
  <1>1. depth[p] + 1 \in Nest
    BY Blocks DEF Enter, Inv, TInv, TypeOK, Stacked, Nest
  <1>2. PICK missed \in SUBSET {i \in DOMAIN Block(p) : up[Block(p)[i]]} :
          LET S == {i \in DOMAIN Block(p) : up[Block(p)[i]]} \ missed
          IN  frame' = [frame EXCEPT ![p][depth[p] + 1] =
                           [units |-> Block(p), stop |-> S, left |-> S]]
    BY DEF Enter
  <1> DEFINE S == {i \in DOMAIN Block(p) : up[Block(p)[i]]} \ missed
             F == [units |-> Block(p), stop |-> S, left |-> S]
  <1>3. F.units = Block(p) /\ \A i \in F.stop : up[F.units[i]]
    OBVIOUS
  <1>4. frame' = [frame EXCEPT ![p] = [frame[p] EXCEPT ![depth[p] + 1] = F]]
    BY <1>2
  <1> HIDE DEF F
  <1>5. \A q \in Proc, d \in Nest :
           frame'[q][d] = IF q = p /\ d = depth[p] + 1 THEN F ELSE frame[q][d]
    BY <1>1, <1>4 DEF Inv, TInv, TypeOK
  <1>6. UNCHANGED <<up, owed, journal, todo>>
    BY DEF Enter
  <1>7. QED
    BY <1>3, <1>5, <1>6 DEF Inv, NamedSafe, Safe

LEMMA NextNamedSafe == Inv /\ [Next]_vars => NamedSafe'
  <1> SUFFICES ASSUME Inv, [Next]_vars PROVE NamedSafe'
    OBVIOUS
  <1> USE DEF Inv
  <1>1. CASE UNCHANGED vars
    BY <1>1 DEF vars, NamedSafe, Safe
  <1>2. CASE ExecStopPost
    <2>1. UNCHANGED <<journal, frame, todo>> /\ (StartUnit(Klipper) \/ UNCHANGED <<up, owed>>)
      BY <1>2 DEF ExecStopPost
    <2>2. StaySafe
      BY <2>1, StartStaysSafe, OutageAssumption DEF StaySafe, Safe
    <2>3. QED
      BY <2>1, <2>2, SameFramesKept, NamedStaySafe
  <1>3. ASSUME NEW p \in Proc, Step(p) PROVE NamedSafe'
    <2>1. CASE Launch(p) \/ Exit(p) \/ Begin(p) \/ Body(p) \/ Finish(p)
      BY <2>1 DEF Launch, Exit, Begin, Body, Finish, NamedSafe, Safe
    <2>2. CASE ReadJournal(p)
      <3>1. todo' = [todo EXCEPT ![p] = journal] /\ UNCHANGED <<up, owed, journal, frame>>
        BY <2>2 DEF ReadJournal
      <3>2. \A q \in Proc : todo'[q] = IF q = p THEN journal ELSE todo[q]
        BY <3>1 DEF TInv, TypeOK
      <3>3. QED
        BY <3>1, <3>2 DEF NamedSafe, Safe
    <2>3. CASE ReconcileUnit(p)
      <3>1. PICK i \in todo[p].stop :
               /\ UNCHANGED <<up, owed>> \/ StartUnit(todo[p].units[i])
               /\ todo' = [todo EXCEPT ![p].stop = @ \ {i}]
        BY <2>3 DEF ReconcileUnit
      <3>2. todo \in [Proc -> Entry] /\ i \in DOMAIN todo[p].units
        BY DEF TInv, TypeOK, AllListed, Listed
      <3>3. todo[p].units[i] \in Unit
        BY <3>2 DEF Entry
      <3>4. StaySafe
        BY <3>1, <3>3, StartStaysSafe DEF StaySafe, Safe
      <3>5. \A q \in Proc : todo'[q].units = todo[q].units
                            /\ todo'[q].stop \subseteq todo[q].stop
        BY <3>1, <3>2 DEF Entry
      <3>6. FramesKept /\ UNCHANGED journal
        BY <2>3, StepKeepsFrames DEF ReconcileUnit
      <3>7. QED
        BY <3>4, <3>5, <3>6, NamedStaySafe
    <2>4. CASE ReconcileClear(p)
      <3>1. /\ todo' = [todo EXCEPT ![p] = Empty] /\ journal' = Empty
            /\ UNCHANGED <<up, owed>>
        BY <2>4 DEF ReconcileClear
      <3>2. \A q \in Proc : todo'[q] = IF q = p THEN Empty ELSE todo[q]
        BY <3>1 DEF TInv, TypeOK
      <3>3. StaySafe /\ journal'.stop = {}
        BY <3>1 DEF StaySafe, Safe, Empty
      <3>4. \A q \in Proc : todo'[q].stop = {} \/ todo'[q] = todo[q]
        BY <3>2 DEF Empty
      <3>5. QED
        BY <2>4, <3>3, <3>4, StepKeepsFrames, NamedStaySafe
    <2>5. CASE Enter(p)
      BY <2>5, EnterNamedSafe
    <2>6. CASE RecordStop(p)
      <3>1. /\ journal' = [units |-> Top(p).units, stop |-> Top(p).stop]
            /\ UNCHANGED <<up, owed, frame, todo>>
        BY <2>6 DEF RecordStop
      <3>2. depth[p] \in Nest
        BY <2>6, TopExists DEF RecordStop, Inside
      <3>3. QED
        BY <3>1, <3>2 DEF NamedSafe, Safe, Top
    <2>7. CASE StopUnit(p)
      <3>1. PICK i \in Top(p).left :
              \/ /\ up' = [up EXCEPT ![Target(p, i)] = FALSE]
                 /\ owed' = IF up[Target(p, i)] THEN owed \cup {Target(p, i)} ELSE owed
              \/ UNCHANGED <<up, owed>>
        BY <2>7 DEF StopUnit
      <3>2. StaySafe
        BY <3>1 DEF StaySafe, Safe, TInv, TypeOK
      <3>3. FramesKept /\ UNCHANGED <<journal, todo>>
        BY <2>7, StepKeepsFrames DEF StopUnit
      <3>4. QED
        BY <3>2, <3>3, NamedStaySafe
    <2>8. CASE ConfirmDown(p) \/ StopTimeout(p) \/ WriteEnd(p)
      <3>1. FramesKept /\ UNCHANGED <<up, owed, journal, todo>>
        BY <2>8, StepKeepsFrames DEF ConfirmDown, StopTimeout, WriteEnd
      <3>2. StaySafe
        BY <3>1 DEF StaySafe, Safe
      <3>3. QED
        BY <3>1, <3>2, NamedStaySafe
    <2>9. CASE RestartUnit(p)
      <3>1. PICK i \in Top(p).left : StartUnit(Target(p, i))
        BY <2>9 DEF RestartUnit
      <3>2. Target(p, i) \in Unit
        BY <2>9, <3>1, TargetIsUnit DEF RestartUnit, Inside
      <3>3. StaySafe
        BY <3>1, <3>2, StartStaysSafe
      <3>4. FramesKept /\ UNCHANGED <<journal, todo>>
        BY <2>9, StepKeepsFrames DEF RestartUnit
      <3>5. QED
        BY <3>3, <3>4, NamedStaySafe
    <2>10. CASE ClearJournal(p) \/ Interrupt(p)
      <3>1. FramesKept /\ UNCHANGED <<up, owed, todo>>
        BY <2>10, StepKeepsFrames DEF ClearJournal, Interrupt
      <3>2. UNCHANGED journal \/ journal'.stop = {}
        BY <2>10 DEF ClearJournal, Interrupt, Empty
      <3>3. StaySafe
        BY <3>1 DEF StaySafe, Safe
      <3>4. QED
        BY <3>1, <3>2, <3>3, NamedStaySafe
    <2>11. CASE Crash(p)
      <3>1. /\ FramesKept /\ UNCHANGED <<up, owed, journal>>
            /\ todo' = [todo EXCEPT ![p] = Empty]
        BY <2>11, StepKeepsFrames DEF Crash
      <3>2. \A q \in Proc : todo'[q] = IF q = p THEN Empty ELSE todo[q]
        BY <3>1 DEF TInv, TypeOK
      <3>3. \A q \in Proc : todo'[q].stop = {} \/ todo'[q] = todo[q]
        BY <3>2 DEF Empty
      <3>4. StaySafe
        BY <3>1 DEF StaySafe, Safe
      <3>5. QED
        BY <3>1, <3>3, <3>4, NamedStaySafe
    <2>12. QED
      BY <1>3, <2>1, <2>2, <2>3, <2>4, <2>5, <2>6, <2>7, <2>8, <2>9, <2>10,
         <2>11 DEF Step, Progress
  <1>4. QED
    BY <1>1, <1>2, <1>3 DEF Next

\* A start changes no other unit.
LEMMA StartsOne ==
  ASSUME TInv, NEW u \in Unit, StartUnit(u), NEW v \in Unit, ~up[v], up'[v]
  PROVE  v = u
  BY DEF TInv, TypeOK, StartUnit

\* Nothing but ExecStopPost starts a unit the tool had not stopped.
LEMMA StepLeavesStoppedAlone ==
  ASSUME Inv, [Next]_vars, NEW v \in Unit, ~up[v], up'[v]
  PROVE  v \in owed \/ (netDue /\ ~netDue')
  <1> USE DEF Inv
  <1>1. CASE ExecStopPost
    BY <1>1 DEF ExecStopPost
  <1>2. ASSUME NEW p \in Proc, Step(p) PROVE v \in owed
    <2>1. CASE ReconcileUnit(p)
      <3>1. PICK i \in todo[p].stop :
               UNCHANGED <<up, owed>> \/ StartUnit(todo[p].units[i])
        BY <2>1 DEF ReconcileUnit
      <3>2. todo[p] \in Entry /\ i \in DOMAIN todo[p].units /\ Safe(todo[p].units[i])
        BY <3>1 DEF TInv, TypeOK, AllListed, Listed, NamedSafe
      <3>3. todo[p].units[i] \in Unit
        BY <3>2 DEF Entry
      <3>4. v = todo[p].units[i]
        BY <3>1, <3>3, StartsOne
      <3>5. QED
        BY <3>2, <3>4 DEF Safe
    <2>2. CASE RestartUnit(p)
      <3>1. PICK i \in Top(p).left : StartUnit(Target(p, i))
        BY <2>2 DEF RestartUnit
      <3>2. pc[p] \in Inside
        BY <2>2 DEF RestartUnit, Inside
      <3>3. Target(p, i) \in Unit
        BY <3>1, <3>2, TargetIsUnit
      <3>4. v = Target(p, i)
        BY <3>1, <3>3, StartsOne
      <3>5. Safe(Target(p, i))
        BY <3>1, <3>2, TopExists DEF NamedSafe, Target, Top
      <3>6. QED
        BY <3>4, <3>5 DEF Safe
    <2>3. CASE StopUnit(p)
      <3>1. \A u \in Unit : up'[u] => up[u]
        BY <2>3 DEF StopUnit, TInv, TypeOK
      <3>2. QED
        BY <3>1
    <2>4. CASE ~(ReconcileUnit(p) \/ RestartUnit(p) \/ StopUnit(p))
      <3>1. UNCHANGED up
        BY <1>2, <2>4 DEF Step, Progress, Launch, Exit, Begin, ReadJournal, ReconcileClear,
           Enter, RecordStop, ConfirmDown, StopTimeout, Body, WriteEnd, ClearJournal,
           Finish, Crash, Interrupt
      <3>2. QED
        BY <3>1
    <2>5. QED
      BY <2>1, <2>2, <2>3, <2>4
  <1>3. CASE UNCHANGED vars
    BY <1>3 DEF vars
  <1>4. QED
    BY <1>1, <1>2, <1>3 DEF Next

\* With any number of processes running, racing, nesting blocks, being killed
\* and interrupted, what the user stopped stays stopped: only the ExecStopPost
\* net starts a unit the tool has not stopped itself.
THEOREM StoppedStaysStopped == Spec => LeavesStoppedAlone
  <1>1. Init => Inv
    BY InitTInv DEF Init, Inv, NamedSafe, Empty, NoFrame
  <1>2. Inv /\ [Next]_vars => Inv'
    BY NextTInv, NextNamedSafe DEF Inv
  <1>3. Inv /\ [Next]_vars =>
          [\A u \in Unit : ~up[u] /\ up'[u] => u \in owed \/ (netDue /\ ~netDue')]_vars
    BY StepLeavesStoppedAlone
  <1>4. QED
    BY <1>1, <1>2, <1>3, PTL DEF Spec, LeavesStoppedAlone

-----------------------------------------------------------------------------
(* What each step does to the frames, exactly *)

\* Changing what is left of the innermost block changes that and nothing else.
LEMMA SetLeftExact ==
  ASSUME TInv, NEW p \in Proc, pc[p] \in Inside, NEW S, SetLeft(p, S)
  PROVE  \A q \in Proc, d \in Nest :
            /\ frame'[q][d].units = frame[q][d].units
            /\ frame'[q][d].stop = frame[q][d].stop
            /\ frame'[q][d].left = IF q = p /\ d = depth[p] THEN S ELSE frame[q][d].left
  <1>1. depth[p] \in Nest
    BY TopExists
  <1>2. frame \in [Proc -> [Nest -> Frame]]
    BY DEF TInv, TypeOK
  <1> DEFINE g == [frame[p][depth[p]] EXCEPT !.left = S]
  <1>3. /\ g.units = frame[p][depth[p]].units /\ g.stop = frame[p][depth[p]].stop
        /\ g.left = S
    BY <1>1, <1>2 DEF Frame
  <1>4. frame' = [frame EXCEPT ![p] = [frame[p] EXCEPT ![depth[p]] = g]]
    BY DEF SetLeft
  <1> HIDE DEF g
  <1>5. \A q \in Proc, d \in Nest :
           frame'[q][d] = IF q = p /\ d = depth[p] THEN g ELSE frame[q][d]
    BY <1>1, <1>2, <1>4
  <1>6. QED
    BY <1>3, <1>5

\* Leaving the innermost block: the one around it has all it stopped to restart.
LEMMA LeaveExact ==
  ASSUME TInv, NEW p \in Proc, pc[p] \in Inside, Leave(p)
  PROVE  /\ depth'[p] = depth[p] - 1
         /\ pc'[p] = IF depth[p] = 1 THEN "done" ELSE "restart"
         /\ \A q \in Proc \ {p} :
               pc'[q] = pc[q] /\ depth'[q] = depth[q] /\ frame'[q] = frame[q]
         /\ \A d \in Nest : d < depth[p] =>
               /\ frame'[p][d].units = frame[p][d].units
               /\ frame'[p][d].stop = frame[p][d].stop
               /\ frame'[p][d].left = frame[p][d].stop
  <1>1. depth[p] \in Nest
    BY TopExists
  <1>2. /\ frame \in [Proc -> [Nest -> Frame]]
        /\ depth \in [Proc -> 0 .. 2]
        /\ pc \in [Proc -> PC]
    BY DEF TInv, TypeOK
  <1> DEFINE g(n) == IF n > depth[p] - 1 THEN NoFrame
                     ELSE [frame[p][n] EXCEPT !.left = frame[p][n].stop]
  <1>3. /\ frame' = [frame EXCEPT ![p] = [n \in Nest |-> g(n)]]
        /\ depth' = [depth EXCEPT ![p] = depth[p] - 1]
        /\ pc' = [pc EXCEPT ![p] = IF depth[p] = 1 THEN "done" ELSE "restart"]
    BY <1>1 DEF Leave, Goto, Nest
  <1>4. ASSUME NEW d \in Nest, d < depth[p]
        PROVE  /\ g(d).units = frame[p][d].units
               /\ g(d).stop = frame[p][d].stop
               /\ g(d).left = frame[p][d].stop
    <2>1. ~(d > depth[p] - 1)
      BY <1>1, <1>4 DEF Nest
    <2>2. frame[p][d] \in Frame
      BY <1>2
    <2>3. QED
      BY <2>1, <2>2 DEF Frame
  <1> HIDE DEF g
  <1>5. \A d \in Nest : frame'[p][d] = g(d)
    BY <1>2, <1>3
  <1>6. \A q \in Proc \ {p} : pc'[q] = pc[q] /\ depth'[q] = depth[q] /\ frame'[q] = frame[q]
    BY <1>2, <1>3
  <1>7. depth'[p] = depth[p] - 1 /\ pc'[p] = IF depth[p] = 1 THEN "done" ELSE "restart"
    BY <1>2, <1>3
  <1>8. QED
    BY <1>4, <1>5, <1>6, <1>7

\* Entering a block adds one frame: the units found running, minus those the
\* check was blind to, are to be stopped.
LEMMA EnterExact ==
  ASSUME TInv, NEW p \in Proc, Enter(p)
  PROVE  /\ depth[p] + 1 \in Nest /\ depth'[p] = depth[p] + 1
         /\ pc'[p] = IF frame'[p][depth[p] + 1].stop = {} THEN "body" ELSE "record"
         /\ \A q \in Proc \ {p} :
               pc'[q] = pc[q] /\ depth'[q] = depth[q] /\ frame'[q] = frame[q]
         /\ \A d \in Nest : d # depth[p] + 1 => frame'[p][d] = frame[p][d]
         /\ frame'[p][depth[p] + 1].units = Block(p)
         /\ frame'[p][depth[p] + 1].left = frame'[p][depth[p] + 1].stop
         /\ \/ Strike("blind")
            \/ /\ UNCHANGED faults
               /\ frame'[p][depth[p] + 1].stop = {i \in DOMAIN Block(p) : up[Block(p)[i]]}
  <1>1. depth[p] + 1 \in Nest
    BY Blocks DEF Enter, TInv, TypeOK, Stacked, Nest
  <1>2. PICK missed \in SUBSET {i \in DOMAIN Block(p) : up[Block(p)[i]]} :
          LET S == {i \in DOMAIN Block(p) : up[Block(p)[i]]} \ missed
          IN  /\ IF missed = {} THEN UNCHANGED faults ELSE Strike("blind")
              /\ frame' = [frame EXCEPT ![p][depth[p] + 1] =
                              [units |-> Block(p), stop |-> S, left |-> S]]
              /\ Goto(p, IF S = {} THEN "body" ELSE "record")
    BY DEF Enter
  <1> DEFINE S == {i \in DOMAIN Block(p) : up[Block(p)[i]]} \ missed
             F == [units |-> Block(p), stop |-> S, left |-> S]
  <1>3. /\ IF missed = {} THEN UNCHANGED faults ELSE Strike("blind")
        /\ frame' = [frame EXCEPT ![p] = [frame[p] EXCEPT ![depth[p] + 1] = F]]
        /\ pc' = [pc EXCEPT ![p] = IF S = {} THEN "body" ELSE "record"]
        /\ depth' = [depth EXCEPT ![p] = depth[p] + 1]
    BY <1>2 DEF Goto, Enter
  <1>4. F.units = Block(p) /\ F.stop = S /\ F.left = S
    OBVIOUS
  <1>5. missed = {} => S = {i \in DOMAIN Block(p) : up[Block(p)[i]]}
    OBVIOUS
  <1> HIDE DEF F, S
  <1>6. /\ frame \in [Proc -> [Nest -> Frame]]
        /\ depth \in [Proc -> 0 .. 2]
        /\ pc \in [Proc -> PC]
    BY DEF TInv, TypeOK
  <1>7. /\ \A q \in Proc \ {p} : pc'[q] = pc[q] /\ depth'[q] = depth[q] /\ frame'[q] = frame[q]
        /\ \A d \in Nest : d # depth[p] + 1 => frame'[p][d] = frame[p][d]
        /\ frame'[p][depth[p] + 1] = F
    BY <1>1, <1>3, <1>6
  <1>8. depth'[p] = depth[p] + 1 /\ pc'[p] = IF S = {} THEN "body" ELSE "record"
    BY <1>3, <1>6
  <1>9. QED
    BY <1>1, <1>3, <1>4, <1>5, <1>7, <1>8

-----------------------------------------------------------------------------
(* Every way out of services_stopped() restarts what it touched *)

\* None of the faults has struck that leave a unit down for good.
Calm == \A f \in {"crash", "start", "interrupt"} : faults[f] = 0

\* Block d of process p still has unit u to start.
Named(p, d, u) ==
    \E i \in frame[p][d].stop :
        /\ frame[p][d].units[i] = u
        /\ pc[p] = "restart" /\ d = depth[p] => i \in frame[p][d].left

\* Whatever is down on the tool's account, a block under way will start.
Owing ==
    Calm => \A u \in owed : \E p \in Proc, d \in Nest : d <= depth[p] /\ Named(p, d, u)

\* A fault that strikes is not calm.
LEMMA StrikeIsNotCalm ==
  ASSUME TInv, Calm',
         \/ Strike("crash") \/ Strike("start") \/ Strike("interrupt")
  PROVE  FALSE
  BY DEF TInv, TypeOK, Strike, Calm, Fault

\* Faults are only ever added.
LEMMA CalmBefore ==
  ASSUME TInv, Calm', UNCHANGED faults \/ \E f \in Fault : Strike(f)
  PROVE  Calm
  <1>1. CASE UNCHANGED faults
    BY <1>1 DEF Calm
  <1>2. ASSUME NEW f \in Fault, Strike(f) PROVE Calm
    <2>1. \A g \in Fault : faults[g] \in Nat /\ faults'[g] = IF g = f THEN faults[g] + 1 ELSE faults[g]
      BY <1>2 DEF TInv, TypeOK, Strike
    <2>2. QED
      BY <2>1 DEF Calm, Fault
  <1>3. QED
    BY <1>1, <1>2

\* A start that works gives a unit back; one that fails ends the calm.
LEMMA CalmStart ==
  ASSUME TInv, Calm', NEW u \in Unit, StartUnit(u)
  PROVE  Calm /\ owed' = owed \ {u}
  BY StrikeIsNotCalm, CalmBefore DEF StartUnit

\* A step that takes nothing down and starts no restart.
LEMMA OwingKept ==
  ASSUME TInv, Owing, UNCHANGED <<frame, depth>>, owed' \subseteq owed,
         Calm' => Calm,
         \A q \in Proc : pc'[q] = "restart" => pc[q] = "restart"
  PROVE  Owing'
  <1>1. ASSUME Calm', NEW u \in owed'
        PROVE  \E q \in Proc, d \in Nest : d <= depth'[q] /\ Named(q, d, u)'
    <2>1. PICK q \in Proc, d \in Nest : d <= depth[q] /\ Named(q, d, u)
      BY <1>1 DEF Owing
    <2>2. Named(q, d, u)'
      BY <2>1 DEF Named
    <2>3. QED
      BY <2>1, <2>2
  <1>2. QED
    BY <1>1 DEF Owing

\* Entering a block buries no other.
LEMMA EnterOwing ==
  ASSUME TInv, Owing, NEW p \in Proc, Enter(p)
  PROVE  Owing'
  <1>1. Calm' => Calm
    BY CalmBefore, EnterExact DEF Fault
  <1>2. ASSUME Calm', NEW u \in owed'
        PROVE  \E q \in Proc, d \in Nest : d <= depth'[q] /\ Named(q, d, u)'
    <2>1. u \in owed
      BY <1>2 DEF Enter
    <2>2. PICK q \in Proc, d \in Nest : d <= depth[q] /\ Named(q, d, u)
      BY <1>1, <1>2, <2>1 DEF Owing
    <2>3. CASE q # p
      <3>1. pc'[q] = pc[q] /\ depth'[q] = depth[q] /\ frame'[q] = frame[q]
        BY <2>3, EnterExact
      <3>2. Named(q, d, u)'
        BY <2>2, <3>1 DEF Named
      <3>3. QED
        BY <2>2, <3>1, <3>2
    <2>4. CASE q = p
      <3>1. depth[p] \in Nat /\ depth[p] + 1 \in Nest /\ depth'[p] = depth[p] + 1
        BY EnterExact DEF TInv, TypeOK
      <3>2. d # depth[p] + 1 /\ d <= depth'[p]
        BY <2>2, <2>4, <3>1 DEF Nest
      <3>3. frame'[p][d] = frame[p][d] /\ pc'[p] # "restart"
        BY <3>2, EnterExact
      <3>4. Named(p, d, u)'
        BY <2>2, <2>4, <3>3 DEF Named
      <3>5. QED
        BY <3>2, <3>4
    <2>5. QED
      BY <2>3, <2>4
  <1>3. QED
    BY <1>2 DEF Owing

\* The unit a block has just stopped, it names.
LEMMA StopOwing ==
  ASSUME TInv, Owing, NEW p \in Proc, StopUnit(p)
  PROVE  Owing'
  <1>1. PICK i \in Top(p).left :
           \/ owed' \subseteq owed \cup {Target(p, i)} /\ UNCHANGED faults
           \/ Strike("stop") /\ UNCHANGED owed
    BY DEF StopUnit
  <1>2. Calm' => Calm
    BY <1>1, CalmBefore DEF Fault
  <1>3. pc[p] \in Inside /\ UNCHANGED <<frame, depth>>
    BY DEF StopUnit, Inside
  <1>4. pc'[p] = "verify" /\ \A q \in Proc \ {p} : pc'[q] = pc[q]
    BY DEF StopUnit, Goto, TInv, TypeOK
  <1>5. depth[p] \in Nest /\ i \in Top(p).stop
    BY <1>1, <1>3, TopExists
  <1>6. ASSUME Calm', NEW u \in owed'
        PROVE  \E q \in Proc, d \in Nest : d <= depth'[q] /\ Named(q, d, u)'
    <2>1. CASE u \in owed
      <3>1. PICK q \in Proc, d \in Nest : d <= depth[q] /\ Named(q, d, u)
        BY <1>2, <1>6, <2>1 DEF Owing
      <3>2. Named(q, d, u)'
        BY <1>3, <1>4, <3>1 DEF Named
      <3>3. QED
        BY <1>3, <3>1, <3>2
    <2>2. CASE u = Target(p, i)
      <3>1. depth[p] <= depth'[p]
        BY <1>3, <1>5 DEF Nest
      <3>2. Named(p, depth[p], u)'
        BY <1>3, <1>4, <1>5, <2>2 DEF Named, Target, Top
      <3>3. QED
        BY <1>3, <1>5, <3>1, <3>2
    <2>3. QED
      BY <1>1, <1>6, <2>1, <2>2
  <1>7. QED
    BY <1>6 DEF Owing

\* On to the next unit, or to the restart of all of them.
LEMMA SetLeftOwing ==
  ASSUME TInv, Owing, NEW p \in Proc,
         ConfirmDown(p) \/ StopTimeout(p) \/ WriteEnd(p)
  PROVE  Owing'
  <1>1. PICK S : /\ SetLeft(p, S)
                 /\ pc'[p] # "restart" \/ S = Top(p).stop
    <2>1. CASE ConfirmDown(p)
      <3>1. PICK i \in Top(p).left : PassOn(p, i)
        BY <2>1 DEF ConfirmDown
      <3>2. QED
        BY <3>1 DEF PassOn, Goto, TInv, TypeOK
    <2>2. CASE StopTimeout(p) \/ WriteEnd(p)
      BY <2>2 DEF StopTimeout, WriteEnd
    <2>3. QED
      BY <2>1, <2>2
  <1>2. pc[p] \in Inside /\ UNCHANGED <<depth, owed>>
    BY DEF ConfirmDown, StopTimeout, WriteEnd, Inside
  <1>3. Calm' => Calm
    BY CalmBefore DEF ConfirmDown, StopTimeout, WriteEnd, Fault
  <1>4. \A q \in Proc \ {p} : pc'[q] = pc[q]
    BY DEF ConfirmDown, PassOn, StopTimeout, WriteEnd, Goto, TInv, TypeOK
  <1>5. ASSUME Calm', NEW u \in owed'
        PROVE  \E q \in Proc, d \in Nest : d <= depth'[q] /\ Named(q, d, u)'
    <2>1. PICK q \in Proc, d \in Nest : d <= depth[q] /\ Named(q, d, u)
      BY <1>2, <1>3, <1>5 DEF Owing
    <2>2. /\ frame'[q][d].units = frame[q][d].units
          /\ frame'[q][d].stop = frame[q][d].stop
          /\ frame'[q][d].left = IF q = p /\ d = depth[p] THEN S ELSE frame[q][d].left
      BY <1>1, <1>2, SetLeftExact
    <2>3. Named(q, d, u)'
      BY <1>1, <1>2, <1>4, <2>1, <2>2 DEF Named, Top
    <2>4. QED
      BY <1>2, <2>1, <2>3
  <1>6. QED
    BY <1>5 DEF Owing

\* A restart strikes off one unit, and starts it.
LEMMA RestartOwing ==
  ASSUME TInv, Owing, NEW p \in Proc, RestartUnit(p)
  PROVE  Owing'
  <1>1. PICK i \in Top(p).left : StartUnit(Target(p, i)) /\ SetLeft(p, Top(p).left \ {i})
    BY DEF RestartUnit
  <1>2. pc[p] \in Inside /\ UNCHANGED <<pc, depth>>
    BY DEF RestartUnit, Inside
  <1>3. Target(p, i) \in Unit
    BY <1>1, <1>2, TargetIsUnit
  <1>4. ASSUME Calm', NEW u \in owed'
        PROVE  \E q \in Proc, d \in Nest : d <= depth'[q] /\ Named(q, d, u)'
    <2>1. Calm /\ u \in owed /\ u # Target(p, i)
      BY <1>1, <1>3, <1>4, CalmStart
    <2>2. PICK q \in Proc, d \in Nest : d <= depth[q] /\ Named(q, d, u)
      BY <2>1 DEF Owing
    <2>3. /\ frame'[q][d].units = frame[q][d].units
          /\ frame'[q][d].stop = frame[q][d].stop
          /\ frame'[q][d].left = IF q = p /\ d = depth[p] THEN Top(p).left \ {i}
                                 ELSE frame[q][d].left
      BY <1>1, <1>2, SetLeftExact
    <2>4. Named(q, d, u)'
      BY <1>2, <2>1, <2>2, <2>3 DEF Named, Target, Top
    <2>5. QED
      BY <1>2, <2>2, <2>4
  <1>5. QED
    BY <1>4 DEF Owing

\* A block is left with nothing of its own to start, and the one around it has
\* all it stopped.
LEMMA ClearOwing ==
  ASSUME TInv, Owing, NEW p \in Proc, ClearJournal(p)
  PROVE  Owing'
  <1>1. /\ pc[p] = "restart" /\ pc[p] \in Inside /\ Top(p).left = {} /\ Leave(p)
        /\ UNCHANGED <<owed, faults>>
    BY DEF ClearJournal, Inside
  <1>2. ASSUME Calm', NEW u \in owed'
        PROVE  \E q \in Proc, d \in Nest : d <= depth'[q] /\ Named(q, d, u)'
    <2>1. Calm /\ u \in owed
      BY <1>1, <1>2, CalmBefore
    <2>2. PICK q \in Proc, d \in Nest : d <= depth[q] /\ Named(q, d, u)
      BY <2>1 DEF Owing
    <2>3. CASE q # p
      <3>1. pc'[q] = pc[q] /\ depth'[q] = depth[q] /\ frame'[q] = frame[q]
        BY <1>1, <2>3, LeaveExact
      <3>2. Named(q, d, u)'
        BY <2>2, <3>1 DEF Named
      <3>3. QED
        BY <2>2, <3>1, <3>2
    <2>4. CASE q = p
      <3>1. d # depth[p]
        BY <1>1, <2>2, <2>4 DEF Named, Top
      <3>2. depth[p] \in Nest /\ depth'[p] = depth[p] - 1
        BY <1>1, TopExists, LeaveExact
      <3>3. d < depth[p] /\ d <= depth'[p]
        BY <2>2, <2>4, <3>1, <3>2 DEF Nest
      <3>4. /\ frame'[p][d].units = frame[p][d].units
            /\ frame'[p][d].stop = frame[p][d].stop
            /\ frame'[p][d].left = frame[p][d].stop
        BY <1>1, <3>3, LeaveExact
      <3>5. Named(p, d, u)'
        BY <2>2, <2>4, <3>4 DEF Named
      <3>6. QED
        BY <3>3, <3>5
    <2>5. QED
      BY <2>3, <2>4
  <1>3. QED
    BY <1>2 DEF Owing

LEMMA NextOwing == TInv /\ Owing /\ [Next]_vars => Owing'
  <1> SUFFICES ASSUME TInv, Owing, [Next]_vars PROVE Owing'
    OBVIOUS
  <1>1. CASE UNCHANGED vars
    BY <1>1 DEF vars, Owing, Calm, Named
  <1>2. CASE ExecStopPost
    <2>1. /\ UNCHANGED <<frame, depth, pc>>
          /\ StartUnit(Klipper) \/ UNCHANGED <<owed, faults>>
      BY <1>2 DEF ExecStopPost
    <2>2. (Calm' => Calm) /\ owed' \subseteq owed
      BY <2>1, CalmBefore, OutageAssumption DEF StartUnit, Fault
    <2>3. QED
      BY <2>1, <2>2, OwingKept
  <1>3. ASSUME NEW p \in Proc, Step(p) PROVE Owing'
    <2>1. CASE \/ Launch(p) \/ Exit(p) \/ Begin(p) \/ ReadJournal(p) \/ ReconcileClear(p)
               \/ RecordStop(p) \/ Body(p) \/ Finish(p)
      <3>1. UNCHANGED <<frame, depth, owed, faults>>
        BY <2>1 DEF Launch, Exit, Begin, ReadJournal, ReconcileClear, RecordStop, Body, Finish
      <3>2. PICK l \in PC \ {"restart"} : Goto(p, l)
        BY <2>1 DEF Launch, Exit, Begin, ReadJournal, ReconcileClear, RecordStop, Body, Finish, PC
      <3>3. \A q \in Proc : pc'[q] = "restart" => pc[q] = "restart"
        BY <3>2 DEF Goto, TInv, TypeOK
      <3>4. QED
        BY <3>1, <3>3, OwingKept, CalmBefore
    <2>2. CASE ReconcileUnit(p)
      <3>1. /\ UNCHANGED <<frame, depth, pc>>
            /\ UNCHANGED <<owed, faults>> \/ \E u : StartUnit(u)
        BY <2>2 DEF ReconcileUnit
      <3>2. (Calm' => Calm) /\ owed' \subseteq owed
        BY <3>1, CalmBefore DEF StartUnit, Fault
      <3>3. QED
        BY <3>1, <3>2, OwingKept
    <2>3. CASE Crash(p) \/ Interrupt(p)
      BY <2>3, StrikeIsNotCalm DEF Crash, Interrupt, Owing
    <2>4. QED
      BY <1>3, <2>1, <2>2, <2>3, EnterOwing, StopOwing, SetLeftOwing, RestartOwing,
         ClearOwing DEF Step, Progress
  <1>4. QED
    BY <1>1, <1>2, <1>3 DEF Next

\* With any number of processes, blocks inside blocks, stops that fail and checks
\* that are blind: once nobody has an operation under way, every unit the tool
\* took down is back, as long as no process was killed, no start failed and
\* nobody pressed Ctrl-C.
THEOREM NothingLeftDown == Spec => []RestoredWhenIdle
  <1>1. Init => TInv /\ Owing
    BY InitTInv DEF Init, Owing
  <1>2. TInv /\ Owing /\ [Next]_vars => TInv' /\ Owing'
    BY NextTInv, NextOwing
  <1>3. TInv /\ Owing => RestoredWhenIdle
    <2> SUFFICES ASSUME TInv, Owing, Calm, \A p \in Proc : Idle(p)
                 PROVE  owed = {}
      BY DEF RestoredWhenIdle, Calm
    <2>1. \A p \in Proc : depth[p] = 0
      BY DEF TInv, Stacked, Idle, Inside
    <2>2. QED
      BY <2>1 DEF Owing, Nest
  <1>4. QED
    BY <1>1, <1>2, <1>3, PTL DEF Spec

-----------------------------------------------------------------------------
(* No write while a unit runs that it asked to have stopped *)

\* One process at a time: the agent, with no CLI beside it, or the reverse.
Alone == \A p, q \in Proc : p = q

\* is_active() never says no of a unit that runs.
Sighted == MaxFault["blind"] = 0

\* systemd runs ExecStopPost only between two lives of the agent.
NetRests == netDue => Agent \in Proc /\ pc[Agent] = "off"

Down(p, d) == \A i \in DOMAIN frame[p][d].units : ~up[frame[p][d].units[i]]

\* On the way in, every block but the innermost is down; at a body, at a write
\* and between two blocks that one is as well; and while it is being stopped,
\* what is not left to stop is down.
BlocksDown ==
    \A p \in Proc :
        /\ pc[p] \in {"enter", "record", "stop", "verify", "body", "write"} =>
              \A d \in Nest : d < depth[p] => Down(p, d)
        /\ pc[p] \in {"enter", "body", "write"} =>
              \A d \in Nest : d <= depth[p] => Down(p, d)
        /\ pc[p] \in {"record", "stop", "verify"} =>
              \A i \in DOMAIN Top(p).units : i \notin Top(p).left => ~up[Target(p, i)]

QInv == TInv /\ NetRests /\ BlocksDown

\* A fault the bound excludes does not strike.
LEMMA NoStrike ==
  ASSUME TInv, NEW f \in Fault, MaxFault[f] = 0, Strike(f)
  PROVE  FALSE
  BY DEF TInv, TypeOK, Strike

LEMMA NextNetRests ==
  ASSUME Alone, TInv, NetRests, [Next]_vars
  PROVE  NetRests'
  <1>1. CASE ExecStopPost \/ UNCHANGED vars
    BY <1>1 DEF ExecStopPost, vars, NetRests
  <1>2. ASSUME NEW p \in Proc, Step(p) PROVE NetRests'
    <2>1. CASE Crash(p)
      BY <2>1 DEF Crash, Goto, TInv, TypeOK, NetRests, Alone
    <2>2. CASE ~Crash(p)
      <3>1. UNCHANGED netDue /\ (pc[p] = "off" => (p = Agent => ~netDue))
        BY <1>2, <2>2 DEF Step, Progress, Launch, Exit, Begin, ReadJournal, ReconcileUnit,
           ReconcileClear, Enter, RecordStop, StopUnit, ConfirmDown, StopTimeout, Body,
           WriteEnd, RestartUnit, ClearJournal, Finish, Interrupt
      <3>2. Agent \in Proc => Agent = p
        BY DEF Alone
      <3>3. QED
        BY <3>1, <3>2 DEF NetRests
    <2>3. QED
      BY <2>1, <2>2
  <1>3. QED
    BY <1>1, <1>2 DEF Next

\* Nothing is asked of a process that is not on its way in.
LEMMA NotOnTheWayIn ==
  ASSUME Alone, NEW p \in Proc,
         pc'[p] \notin {"enter", "record", "stop", "verify", "body", "write"}
  PROVE  BlocksDown'
  BY DEF Alone, BlocksDown

\* Nothing starts and the blocks stay what they are.
LEMMA SameBlocksDown ==
  ASSUME BlocksDown, Alone, NEW p \in Proc, UNCHANGED <<frame, depth>>,
         \A u \in Unit : up'[u] => up[u], TInv,
         \/ pc[p] = "record" /\ pc'[p] = "stop"
         \/ pc[p] = "stop" /\ pc'[p] = "verify"
         \/ pc[p] = "body" /\ pc'[p] \in {"enter", "write"}
  PROVE  BlocksDown'
  <1>1. depth[p] \in Nest
    BY TopExists DEF Inside
  <1>2. \A d \in Nest : \A i \in DOMAIN frame[p][d].units :
           up'[frame[p][d].units[i]] => up[frame[p][d].units[i]]
    BY DEF TInv, TypeOK, Frame
  <1>3. \A d \in Nest : Down(p, d) => Down(p, d)'
    BY <1>2 DEF Down
  <1>4. ASSUME pc[p] \in {"record", "stop"}, NEW i \in DOMAIN Top(p).units, i \notin Top(p).left
        PROVE  ~up'[Target(p, i)]
    <2>1. ~up[Target(p, i)]
      BY <1>4 DEF BlocksDown
    <2>2. QED
      BY <1>1, <1>2, <1>4, <2>1 DEF Target, Top
  <1>5. Top(p)' = Top(p) /\ \A i : Target(p, i)' = Target(p, i)
    BY DEF Top, Target
  <1>6. /\ pc'[p] \in {"enter", "record", "stop", "verify", "body", "write"} =>
              \A d \in Nest : d < depth'[p] => Down(p, d)'
        /\ pc'[p] \in {"enter", "body", "write"} =>
              \A d \in Nest : d <= depth'[p] => Down(p, d)'
    BY <1>3 DEF BlocksDown
  <1>7. pc'[p] \in {"record", "stop", "verify"} =>
           \A i \in DOMAIN Top(p)'.units : i \notin Top(p)'.left => ~up'[Target(p, i)]
    BY <1>4, <1>5
  <1>8. QED
    BY <1>5, <1>6, <1>7 DEF BlocksDown, Alone

\* With eyes, what is not to be stopped is down already.
LEMMA EnterBlocksDown ==
  ASSUME Alone, Sighted, TInv, BlocksDown, NEW p \in Proc, Enter(p)
  PROVE  BlocksDown'
  <1>0. PICK n \in Nest : n = depth[p] + 1
    BY EnterExact
  <1>1. /\ n \in Nest /\ depth'[p] = n /\ depth[p] \in Nat
        /\ pc'[p] = IF frame'[p][n].stop = {} THEN "body" ELSE "record"
        /\ \A d \in Nest : d # n => frame'[p][d] = frame[p][d]
        /\ frame'[p][n].units = Block(p)
        /\ frame'[p][n].left = frame'[p][n].stop
        /\ frame'[p][n].stop = {i \in DOMAIN Block(p) : up[Block(p)[i]]}
    BY <1>0, EnterExact, NoStrike DEF Sighted, Fault, TInv, TypeOK
  <1>2. up' = up /\ pc[p] = "enter"
    BY DEF Enter
  <1>3. \A d \in Nest : d < n => Down(p, d)'
    <2> SUFFICES ASSUME NEW d \in Nest, d < n PROVE Down(p, d)'
      OBVIOUS
    <2>1. Down(p, d)
      BY <1>0, <1>1, <1>2 DEF BlocksDown, Nest
    <2>2. frame'[p][d] = frame[p][d]
      BY <1>1 DEF Nest
    <2>3. QED
      BY <1>2, <2>1, <2>2 DEF Down
  <1>4. \A i \in DOMAIN frame'[p][n].units :
           i \notin frame'[p][n].left => ~up'[frame'[p][n].units[i]]
    BY <1>1, <1>2
  <1>5. pc'[p] = "body" => Down(p, n)'
    BY <1>1, <1>4 DEF Down
  <1>6. \A d \in Nest : d <= n => d < n \/ d = n
    BY <1>1 DEF Nest
  <1>7. /\ \A d \in Nest : d < depth'[p] => Down(p, d)'
        /\ pc'[p] = "body" => \A d \in Nest : d <= depth'[p] => Down(p, d)'
        /\ \A i \in DOMAIN Top(p)'.units : i \notin Top(p)'.left => ~up'[Target(p, i)']
        /\ pc'[p] \in {"body", "record"}
    BY <1>1, <1>3, <1>4, <1>5, <1>6 DEF Top, Target
  <1>8. QED
    BY <1>7 DEF BlocksDown, Alone

\* A unit is passed over only when it has answered no, and with eyes it is down.
LEMMA ConfirmBlocksDown ==
  ASSUME Alone, Sighted, TInv, BlocksDown, NEW p \in Proc, ConfirmDown(p)
  PROVE  BlocksDown'
  <1> DEFINE n == depth[p]
  <1>1. PICK i \in Top(p).left :
          /\ IF up[Target(p, i)] THEN Strike("blind") ELSE UNCHANGED faults
          /\ PassOn(p, i)
    BY DEF ConfirmDown
  <1>2. ~up[Target(p, i)]
    BY <1>1, NoStrike DEF Sighted, Fault
  <1>3. pc[p] = "verify" /\ pc[p] \in Inside /\ UNCHANGED <<up, depth>>
    BY DEF ConfirmDown, Inside
  <1>4. n \in Nest
    BY <1>3, TopExists
  <1> DEFINE rest == Top(p).left \ {i}
  <1>5. SetLeft(p, rest) /\ pc'[p] = IF rest = {} THEN "body" ELSE "stop"
    BY <1>1 DEF PassOn, Goto, TInv, TypeOK
  <1>6. \A d \in Nest : /\ frame'[p][d].units = frame[p][d].units
                        /\ d = n => frame'[p][d].left = rest
    BY <1>3, <1>5, SetLeftExact
  <1>7. \A d \in Nest : d < n => Down(p, d)'
    BY <1>3, <1>6 DEF BlocksDown, Down
  <1>8. \A j \in DOMAIN frame[p][n].units : j \notin rest => ~up[frame[p][n].units[j]]
    BY <1>2, <1>3 DEF BlocksDown, Top, Target
  <1>9. rest = {} => Down(p, n)'
    BY <1>3, <1>4, <1>6, <1>8 DEF Down
  <1> HIDE DEF rest
  <1>10. /\ \A d \in Nest : d < depth'[p] => Down(p, d)'
         /\ pc'[p] = "body" => \A d \in Nest : d <= depth'[p] => Down(p, d)'
    <2>1. \A d \in Nest : d <= n => d < n \/ d = n
      BY <1>4 DEF Nest
    <2>2. QED
      BY <1>3, <1>5, <1>7, <1>9, <2>1
  <1>11. \A j \in DOMAIN Top(p)'.units : j \notin Top(p)'.left => ~up'[Target(p, j)']
    BY <1>3, <1>4, <1>6, <1>8 DEF Top, Target
  <1>12. pc'[p] \in {"body", "stop"}
    BY <1>5
  <1>13. QED
    BY <1>10, <1>11, <1>12 DEF BlocksDown, Alone

LEMMA NextBlocksDown ==
  ASSUME Alone, Sighted, QInv, [Next]_vars
  PROVE  BlocksDown'
  <1> USE DEF QInv
  <1>1. CASE UNCHANGED vars
    BY <1>1 DEF vars, BlocksDown, Down, Top, Target
  <1>2. CASE ExecStopPost
    <2>1. Agent \in Proc /\ pc'[Agent] = "off"
      BY <1>2 DEF ExecStopPost, NetRests
    <2>2. QED
      BY <2>1, NotOnTheWayIn
  <1>3. ASSUME NEW p \in Proc, Step(p) PROVE BlocksDown'
    <2>1. CASE \/ Launch(p) \/ Exit(p) \/ ReadJournal(p) \/ ReconcileUnit(p)
               \/ ReconcileClear(p) \/ StopTimeout(p) \/ WriteEnd(p) \/ RestartUnit(p)
               \/ Finish(p) \/ Crash(p)
      <3>1. pc'[p] \in {"launched", "off", "ready", "reconcile", "restart"}
        BY <2>1 DEF Launch, Exit, ReadJournal, ReconcileUnit, ReconcileClear, StopTimeout,
           WriteEnd, RestartUnit, Finish, Crash, Goto, TInv, TypeOK
      <3>2. QED
        BY <3>1, NotOnTheWayIn
    <2>2. CASE ClearJournal(p) \/ Interrupt(p)
      <3>1. pc[p] \in Inside /\ (Leave(p) \/ Goto(p, "restart"))
        BY <2>2 DEF ClearJournal, Interrupt, Inside
      <3>2. pc'[p] \in {"done", "restart"}
        BY <3>1, LeaveExact DEF Goto, TInv, TypeOK
      <3>3. QED
        BY <3>2, NotOnTheWayIn
    <2>3. CASE Begin(p)
      <3>1. pc'[p] = "enter" /\ depth'[p] = 0
        BY <2>3 DEF Begin, Goto, TInv, TypeOK, Stacked, Inside
      <3>2. \A d \in Nest : ~(d <= depth'[p]) /\ ~(d < depth'[p])
        BY <3>1 DEF Nest
      <3>3. QED
        BY <3>1, <3>2 DEF BlocksDown, Alone
    <2>4. CASE RecordStop(p) \/ Body(p)
      <3>1. /\ UNCHANGED <<frame, depth, up>>
            /\ \/ pc[p] = "record" /\ pc'[p] = "stop"
               \/ pc[p] = "body" /\ pc'[p] \in {"enter", "write"}
        BY <2>4 DEF RecordStop, Body, Goto, TInv, TypeOK
      <3>2. QED
        BY <3>1, SameBlocksDown
    <2>5. CASE StopUnit(p)
      <3>1. /\ UNCHANGED <<frame, depth>>
            /\ pc[p] = "stop" /\ pc'[p] = "verify"
            /\ \A u \in Unit : up'[u] => up[u]
        BY <2>5 DEF StopUnit, Goto, TInv, TypeOK
      <3>2. QED
        BY <3>1, SameBlocksDown
    <2>6. QED
      BY <1>3, <2>1, <2>2, <2>3, <2>4, <2>5, EnterBlocksDown, ConfirmBlocksDown
         DEF Step, Progress
  <1>4. QED
    BY <1>1, <1>2, <1>3 DEF Next

\* Whatever the units and however the blocks nest, whichever stop fails, whoever
\* kills or interrupts the process: where it is alone and is_active() sees what
\* runs, no image is written while a unit runs that the write wanted stopped.
THEOREM NoWriteUnderAService ==
  ASSUME Alone, Sighted
  PROVE  Spec => []QuietDuringWrite
  <1>1. Init => QInv
    BY InitTInv DEF Init, QInv, NetRests, BlocksDown
  <1>2. QInv /\ [Next]_vars => QInv'
    BY NextTInv, NextNetRests, NextBlocksDown DEF QInv
  <1>3. QInv => QuietDuringWrite
    <2> SUFFICES ASSUME QInv, NEW p \in Proc, pc[p] = "write",
                        NEW d \in 1 .. depth[p], NEW i \in DOMAIN frame[p][d].units
                 PROVE  ~up[frame[p][d].units[i]]
      BY DEF QuietDuringWrite
    <2>1. d \in Nest /\ d <= depth[p]
      BY DEF QInv, TInv, TypeOK, Nest
    <2>2. QED
      BY <2>1 DEF QInv, BlocksDown, Down
  <1>4. QED
    BY <1>1, <1>2, <1>3, PTL DEF Spec

-----------------------------------------------------------------------------
(* The journal covers every unit that is down, and keeps its promise *)

\* One services_stopped() block per operation, as in the agent's jobs: a block
\* inside another replaces the entry of the one around it.
Flat == \A p \in Proc : Levels(p) = 1

\* Starts work and nobody presses Ctrl-C: a failing start and an interrupted
\* restart both end with the journal cleared over a unit that is down.
Unbroken == MaxFault["start"] = 0 /\ MaxFault["interrupt"] = 0

\* What the innermost block has stopped or will, and what it still has to start.
Held(p) == {Top(p).units[i] : i \in Top(p).stop}
Left(p) == {Top(p).units[i] : i \in Top(p).left}

OwedAt(p) ==
    /\ pc[p] = "reconcile" => owed \subseteq Names(todo[p])
    /\ pc[p] \in {"ready", "enter", "record", "done"} => owed = {}
    /\ pc[p] \in {"stop", "verify"} => Held(p) \subseteq Names(journal)
    /\ pc[p] \in {"stop", "verify", "body", "write"} => owed \subseteq Held(p)
    /\ pc[p] = "restart" => owed \subseteq Left(p)

\* The units that are down on the tool's account, at every control point.
Ledger ==
    /\ JournalCovers
    /\ \A u \in owed : ~up[u]
    /\ \A p \in Proc : OwedAt(p)

LInv == TInv /\ Ledger

\* What a step may do to the promise and to the units that are down.
Kind ==
    \/ owed = {} /\ UNCHANGED owed
    \/ /\ UNCHANGED journal
       /\ \/ UNCHANGED owed
          \/ \E u \in Names(journal) \ owed : owed' = owed \cup {u}
          \/ \E u \in Unit : owed' = owed \ {u}

\* A start that cannot fail gives the unit back.
LEMMA StartGivesBack ==
  ASSUME Unbroken, TInv, NEW u \in Unit, StartUnit(u)
  PROVE  up' = [up EXCEPT ![u] = TRUE] /\ owed' = owed \ {u} /\ UNCHANGED faults
  BY NoStrike DEF StartUnit, Unbroken, Fault

\* Starting one unit leaves the others that are down as they were.
LEMMA StartKeepsDown ==
  ASSUME Unbroken, TInv, Ledger, NEW u \in Unit, StartUnit(u)
  PROVE  \A v \in owed' : ~up'[v]
  BY StartGivesBack DEF Ledger, TInv, TypeOK

\* reconcile() strikes a unit off its list when it runs.
LEMMA ReconcileLedger ==
  ASSUME Alone, Unbroken, LInv, NEW p \in Proc, ReconcileUnit(p)
  PROVE  Ledger' /\ Kind
  <1> USE DEF LInv
  <1>1. PICK i \in todo[p].stop :
          /\ IF up[todo[p].units[i]] THEN UNCHANGED <<up, owed, faults>>
             ELSE StartUnit(todo[p].units[i])
          /\ todo' = [todo EXCEPT ![p].stop = @ \ {i}]
    BY DEF ReconcileUnit
  <1> DEFINE u == todo[p].units[i]
  <1>2. pc[p] = "reconcile" /\ UNCHANGED <<journal, pc>>
    BY DEF ReconcileUnit
  <1>3. todo[p] \in Entry /\ i \in DOMAIN todo[p].units
    BY DEF TInv, TypeOK, AllListed, Listed
  <1>4. u \in Unit
    BY <1>3 DEF Entry
  <1>5. owed' \subseteq owed \ {u} /\ (owed' = owed \/ owed' = owed \ {u})
        /\ \A v \in owed' : ~up'[v]
    <2>1. CASE up[u]
      BY <1>1, <2>1 DEF Ledger
    <2>2. CASE ~up[u]
      BY <1>1, <1>4, <2>2, StartGivesBack, StartKeepsDown
    <2>3. QED
      BY <2>1, <2>2
  <1>6. todo'[p].units = todo[p].units /\ todo'[p].stop = todo[p].stop \ {i}
    BY <1>1, <1>3 DEF TInv, TypeOK, Entry
  <1>7. owed' \subseteq Names(todo[p])'
    <2>1. owed \subseteq Names(todo[p])
      BY <1>2 DEF Ledger, OwedAt
    <2>2. QED
      BY <1>5, <1>6, <2>1 DEF Names
  <1>8. JournalCovers'
    BY <1>2, <1>5 DEF Ledger, JournalCovers, Names
  <1>9. OwedAt(p)'
    BY <1>2, <1>7 DEF OwedAt
  <1>10. Kind
    BY <1>2, <1>4, <1>5 DEF Kind, TInv, TypeOK
  <1>11. QED
    BY <1>5, <1>8, <1>9, <1>10 DEF Ledger, Alone

\* The block names what it stops before it stops it.
LEMMA StopLedger ==
  ASSUME Alone, LInv, NEW p \in Proc, StopUnit(p)
  PROVE  Ledger' /\ Kind
  <1> USE DEF LInv
  <1>1. PICK i \in Top(p).left :
           \/ /\ up' = [up EXCEPT ![Target(p, i)] = FALSE]
              /\ owed' = IF up[Target(p, i)] THEN owed \cup {Target(p, i)} ELSE owed
           \/ UNCHANGED <<up, owed>>
    BY DEF StopUnit
  <1>2. /\ pc[p] = "stop" /\ pc[p] \in Inside /\ pc'[p] = "verify"
        /\ UNCHANGED <<journal, frame, depth>>
    BY DEF StopUnit, Inside, Goto, TInv, TypeOK
  <1>3. Target(p, i) \in Held(p) /\ Target(p, i) \in Unit
    BY <1>2, TopExists, TargetIsUnit DEF Held, Target
  <1>4. Held(p) \subseteq Names(journal) /\ owed \subseteq Held(p)
    BY <1>2 DEF Ledger, OwedAt
  <1>5. \A v \in owed' : ~up'[v]
    BY <1>1, <1>3 DEF Ledger, TInv, TypeOK
  <1>6. owed' \subseteq owed \cup {Target(p, i)}
    BY <1>1
  <1>7. Top(p)' = Top(p)
    BY <1>2 DEF Top
  <1>8. Held(p)' = Held(p)
    BY <1>7 DEF Held
  <1>9. OwedAt(p)' /\ JournalCovers'
    BY <1>2, <1>3, <1>4, <1>6, <1>8 DEF OwedAt, JournalCovers, Names
  <1>10. Kind
    <2>1. CASE owed' = owed
      BY <1>2, <2>1, <1>3 DEF Kind, Ledger
    <2>2. CASE owed' = owed \cup {Target(p, i)} /\ up[Target(p, i)]
      BY <1>2, <1>3, <1>4, <2>2 DEF Kind, Ledger
    <2>3. QED
      BY <1>1, <2>1, <2>2
  <1>11. QED
    BY <1>5, <1>9, <1>10 DEF Ledger, Alone

\* A step that takes nothing down and gives nothing back, and what it must show.
LEMMA QuietLedger ==
  ASSUME Alone, LInv, NEW p \in Proc, UNCHANGED <<up, owed>>,
         UNCHANGED journal \/ owed = {}, OwedAt(p)'
  PROVE  Ledger' /\ Kind
  BY DEF LInv, Ledger, JournalCovers, Names, Alone, Kind

\* Start-up, the lock and the way into a block.
LEMMA WayInLedger ==
  ASSUME Alone, LInv, NEW p \in Proc,
         \/ Launch(p) \/ Exit(p) \/ Begin(p) \/ ReadJournal(p) \/ ReconcileClear(p)
         \/ Enter(p) \/ RecordStop(p)
  PROVE  Ledger' /\ Kind
  <1> USE DEF LInv
  <1>1. UNCHANGED <<up, owed>> /\ pc \in [Proc -> PC]
    BY DEF Launch, Exit, Begin, ReadJournal, ReconcileClear, Enter, RecordStop, TInv, TypeOK
  <1>2. CASE Launch(p)
    <2>1. pc'[p] = "launched" /\ UNCHANGED journal
      BY <1>1, <1>2 DEF Launch, Goto
    <2>2. QED
      BY <1>1, <2>1, QuietLedger DEF OwedAt
  <1>3. CASE Exit(p) \/ Begin(p)
    <2>1. pc[p] = "ready" /\ pc'[p] \in {"off", "enter"} /\ UNCHANGED journal
      BY <1>1, <1>3 DEF Exit, Begin, Goto
    <2>2. owed = {}
      BY <2>1 DEF Ledger, OwedAt
    <2>3. QED
      BY <1>1, <2>1, <2>2, QuietLedger DEF OwedAt
  <1>4. CASE ReadJournal(p)
    <2>1. /\ pc'[p] = IF journal = Empty THEN "ready" ELSE "reconcile"
          /\ todo'[p] = journal /\ UNCHANGED journal
      BY <1>1, <1>4 DEF ReadJournal, Goto, TInv, TypeOK
    <2>2. owed \subseteq Names(journal)
      BY DEF Ledger, JournalCovers
    <2>3. journal = Empty => owed = {}
      BY <2>2 DEF Names, Empty
    <2>4. owed' \subseteq Names(todo[p])'
      BY <1>1, <2>1, <2>2 DEF Names
    <2>5. OwedAt(p)'
      BY <1>1, <2>1, <2>3, <2>4 DEF OwedAt
    <2>6. QED
      BY <1>1, <2>1, <2>5, QuietLedger
  <1>5. CASE ReconcileClear(p)
    <2>1. pc[p] = "reconcile" /\ pc'[p] = "ready" /\ todo[p].stop = {}
      BY <1>1, <1>5 DEF ReconcileClear, Goto
    <2>2. owed = {}
      BY <2>1 DEF Ledger, OwedAt, Names
    <2>3. QED
      BY <1>1, <2>1, <2>2, QuietLedger DEF OwedAt
  <1>6. CASE Enter(p)
    <2>1. pc[p] = "enter" /\ pc'[p] \in {"body", "record"} /\ UNCHANGED journal
      BY <1>6, EnterExact DEF Enter
    <2>2. owed = {}
      BY <2>1 DEF Ledger, OwedAt
    <2>3. QED
      BY <1>1, <2>1, <2>2, QuietLedger DEF OwedAt
  <1>7. CASE RecordStop(p)
    <2>1. /\ pc[p] = "record" /\ pc'[p] = "stop"
          /\ journal' = [units |-> Top(p).units, stop |-> Top(p).stop]
          /\ UNCHANGED <<frame, depth>>
      BY <1>1, <1>7 DEF RecordStop, Goto
    <2>2. owed = {}
      BY <2>1 DEF Ledger, OwedAt
    <2>3. Held(p)' = Names(journal)'
      BY <2>1 DEF Held, Names, Top
    <2>4. QED
      BY <1>1, <2>1, <2>2, <2>3, QuietLedger DEF OwedAt
  <1>8. QED
    BY <1>2, <1>3, <1>4, <1>5, <1>6, <1>7

\* Going on to the next unit, to the writes, and to the restarts.
LEMMA BodyLedger ==
  ASSUME Alone, Flat, LInv, NEW p \in Proc,
         ConfirmDown(p) \/ StopTimeout(p) \/ Body(p) \/ WriteEnd(p)
  PROVE  Ledger' /\ Kind
  <1> USE DEF LInv
  <1>1. /\ UNCHANGED <<up, owed, journal, depth>> /\ pc \in [Proc -> PC]
        /\ pc[p] \in {"verify", "body", "write"} /\ pc[p] \in Inside
    BY DEF ConfirmDown, StopTimeout, Body, WriteEnd, Inside, TInv, TypeOK
  <1>2. owed \subseteq Held(p) /\ (pc[p] = "verify" => Held(p) \subseteq Names(journal))
    BY <1>1 DEF Ledger, OwedAt
  <1>3. depth[p] \in Nest
    BY <1>1, TopExists
  <1>4. CASE ConfirmDown(p)
    <2>1. PICK S : SetLeft(p, S) /\ pc'[p] \in {"body", "stop"}
      BY <1>1, <1>4 DEF ConfirmDown, PassOn, Goto
    <2>2. Top(p)'.units = Top(p).units /\ Top(p)'.stop = Top(p).stop
      BY <1>1, <1>3, <2>1, SetLeftExact DEF Top
    <2>3. Held(p)' = Held(p)
      BY <2>2 DEF Held
    <2>4. Names(journal)' = Names(journal) /\ pc[p] = "verify"
      BY <1>1, <1>4 DEF Names, ConfirmDown
    <2>5. OwedAt(p)'
      BY <1>1, <1>2, <2>1, <2>3, <2>4 DEF OwedAt
    <2>6. QED
      BY <1>1, <2>5, QuietLedger
  <1>5. CASE StopTimeout(p) \/ WriteEnd(p)
    <2>1. SetLeft(p, Top(p).stop) /\ pc'[p] = "restart"
      BY <1>1, <1>5 DEF StopTimeout, WriteEnd, Goto
    <2>2. Top(p)'.units = Top(p).units /\ Top(p)'.left = Top(p).stop
      BY <1>1, <1>3, <2>1, SetLeftExact DEF Top
    <2>3. Left(p)' = Held(p)
      BY <2>2 DEF Held, Left
    <2>4. OwedAt(p)'
      BY <1>1, <1>2, <2>1, <2>3 DEF OwedAt
    <2>5. QED
      BY <1>1, <2>4, QuietLedger
  <1>6. CASE Body(p)
    <2>1. ~(depth[p] < Levels(p)) /\ pc[p] = "body" /\ UNCHANGED frame
      BY <1>3, <1>6 DEF Flat, Nest, Body
    <2>2. pc'[p] = "write"
      BY <1>1, <1>6, <2>1 DEF Body, Goto
    <2>3. Held(p)' = Held(p)
      BY <1>1, <2>1 DEF Held, Top
    <2>4. OwedAt(p)'
      BY <1>1, <1>2, <2>2, <2>3 DEF OwedAt
    <2>5. QED
      BY <1>1, <2>4, QuietLedger
  <1>7. QED
    BY <1>4, <1>5, <1>6

\* A restart gives back what it strikes off.
LEMMA RestartLedger ==
  ASSUME Alone, Unbroken, LInv, NEW p \in Proc, RestartUnit(p)
  PROVE  Ledger' /\ Kind
  <1> USE DEF LInv
  <1>1. PICK i \in Top(p).left : StartUnit(Target(p, i)) /\ SetLeft(p, Top(p).left \ {i})
    BY DEF RestartUnit
  <1>2. pc[p] = "restart" /\ pc[p] \in Inside /\ UNCHANGED <<journal, pc, depth>>
    BY DEF RestartUnit, Inside
  <1>3. Target(p, i) \in Unit
    BY <1>1, <1>2, TargetIsUnit
  <1>4. owed' = owed \ {Target(p, i)} /\ \A v \in owed' : ~up'[v]
    BY <1>1, <1>3, StartGivesBack, StartKeepsDown
  <1>5. depth[p] \in Nest
    BY <1>2, TopExists
  <1>6. Top(p)'.units = Top(p).units /\ Top(p)'.left = Top(p).left \ {i}
    BY <1>1, <1>2, <1>5, SetLeftExact DEF Top
  <1>7. owed \subseteq Left(p)
    BY <1>2 DEF Ledger, OwedAt
  <1>8. owed' \subseteq Left(p)'
    BY <1>4, <1>6, <1>7 DEF Left, Target
  <1>9. OwedAt(p)' /\ JournalCovers'
    BY <1>2, <1>4, <1>8 DEF OwedAt, Ledger, JournalCovers, Names
  <1>10. Kind
    BY <1>2, <1>3, <1>4 DEF Kind
  <1>11. QED
    BY <1>4, <1>9, <1>10 DEF Ledger, Alone

\* The way out, and a kill.
LEMMA WayOutLedger ==
  ASSUME Alone, Flat, LInv, NEW p \in Proc,
         ClearJournal(p) \/ Finish(p) \/ Crash(p)
  PROVE  Ledger' /\ Kind
  <1> USE DEF LInv
  <1>1. UNCHANGED <<up, owed>> /\ pc \in [Proc -> PC]
    BY DEF ClearJournal, Finish, Crash, TInv, TypeOK
  <1>2. CASE ClearJournal(p)
    <2>1. pc[p] = "restart" /\ pc[p] \in Inside /\ Top(p).left = {} /\ Leave(p)
      BY <1>2 DEF ClearJournal, Inside
    <2>2. owed = {}
      BY <2>1 DEF Ledger, OwedAt, Left
    <2>3. depth[p] = 1
      BY <2>1, TopExists DEF TInv, Stacked, Flat, Nest
    <2>4. pc'[p] = "done"
      BY <2>1, <2>3, LeaveExact
    <2>5. QED
      BY <1>1, <2>2, <2>4, QuietLedger DEF OwedAt
  <1>3. CASE Finish(p)
    <2>1. pc[p] = "done" /\ pc'[p] \in {"ready", "off"} /\ UNCHANGED journal
      BY <1>1, <1>3 DEF Finish, Goto
    <2>2. owed = {}
      BY <2>1 DEF Ledger, OwedAt
    <2>3. QED
      BY <1>1, <2>1, <2>2, QuietLedger DEF OwedAt
  <1>4. CASE Crash(p)
    <2>1. pc'[p] = "off" /\ UNCHANGED journal
      BY <1>1, <1>4 DEF Crash, Goto
    <2>2. QED
      BY <1>1, <2>1, QuietLedger DEF OwedAt
  <1>5. QED
    BY <1>2, <1>3, <1>4

\* ExecStopPost gives a unit back, whatever is under way.
LEMMA NetLedger ==
  ASSUME Unbroken, LInv, ExecStopPost
  PROVE  Ledger' /\ Kind
  <1> USE DEF LInv
  <1>1. UNCHANGED <<journal, pc, depth, frame, todo>>
    BY DEF ExecStopPost
  <1>2. /\ owed' = owed \/ owed' = owed \ {Klipper}
        /\ \A v \in owed' : ~up'[v]
    <2>1. CASE UNCHANGED <<up, owed>>
      BY <2>1 DEF Ledger
    <2>2. CASE StartUnit(Klipper)
      BY <2>2, StartGivesBack, StartKeepsDown, OutageAssumption
    <2>3. QED
      BY <2>1, <2>2 DEF ExecStopPost
  <1>3. \A p \in Proc : OwedAt(p)'
    <2> SUFFICES ASSUME NEW p \in Proc PROVE OwedAt(p)'
      OBVIOUS
    <2>1. /\ Held(p)' = Held(p) /\ Left(p)' = Left(p)
          /\ Names(journal)' = Names(journal) /\ Names(todo[p])' = Names(todo[p])
      BY <1>1 DEF Held, Left, Names, Top
    <2>2. OwedAt(p) /\ owed' \subseteq owed
      BY <1>2 DEF Ledger
    <2>3. QED
      BY <1>1, <2>1, <2>2 DEF OwedAt
  <1>4. JournalCovers'
    BY <1>1, <1>2 DEF Ledger, JournalCovers, Names
  <1>5. Kind
    BY <1>1, <1>2, OutageAssumption DEF Kind
  <1>6. QED
    BY <1>2, <1>3, <1>4, <1>5 DEF Ledger

LEMMA NextLedger ==
  ASSUME Alone, Flat, Unbroken, LInv, [Next]_vars
  PROVE  Ledger' /\ Kind
  <1>1. CASE UNCHANGED vars
    <2>1. UNCHANGED <<up, journal, pc, depth, frame, todo, owed>>
      BY <1>1 DEF vars
    <2>2. Names(journal)' = Names(journal)
      BY <2>1 DEF Names
    <2>3. ASSUME NEW p \in Proc PROVE OwedAt(p)'
      <3>1. /\ Held(p)' = Held(p) /\ Left(p)' = Left(p)
            /\ Names(todo[p])' = Names(todo[p])
        BY <2>1 DEF Held, Left, Names, Top
      <3>2. OwedAt(p)
        BY DEF LInv, Ledger
      <3>3. QED
        BY <2>1, <2>2, <3>1, <3>2 DEF OwedAt
    <2>4. QED
      BY <2>1, <2>2, <2>3 DEF LInv, Ledger, JournalCovers, Kind
  <1>2. ASSUME NEW p \in Proc, Step(p) PROVE Ledger' /\ Kind
    <2>1. ~Interrupt(p)
      BY NoStrike DEF Interrupt, Unbroken, Fault, LInv
    <2>2. QED
      BY <1>2, <2>1, WayInLedger, ReconcileLedger, StopLedger, BodyLedger, RestartLedger,
         WayOutLedger DEF Step, Progress
  <1>3. QED
    BY <1>1, <1>2, NetLedger DEF Next

LEMMA InitLedger == Init => LInv
  <1> SUFFICES ASSUME Init PROVE LInv
    OBVIOUS
  <1>1. owed = {} /\ \A p \in Proc : pc[p] = "off"
    BY DEF Init
  <1>2. \A p \in Proc : OwedAt(p)
    BY <1>1 DEF OwedAt
  <1>3. QED
    BY <1>1, <1>2, InitTInv DEF LInv, Ledger, JournalCovers

\* For any units, any number of kills and of stops that fail: where one process
\* runs one block at a time and starts work, every unit the tool has down is
\* named by the journal on disk, at every step.
THEOREM JournalNamesWhatIsDown ==
  ASSUME Alone, Flat, Unbroken
  PROVE  Spec => []JournalCovers
  <1>1. LInv /\ [Next]_vars => LInv'
    BY NextTInv, NextLedger DEF LInv
  <1>2. LInv => JournalCovers
    BY DEF LInv, Ledger
  <1>3. QED
    BY InitLedger, <1>1, <1>2, PTL DEF Spec

\* Each kind of step is a step of the promise, or none.
LEMMA KindIsPromised ==
  ASSUME TInv', Kind
  PROVE  [Promise!Next]_(Promise!vars)
  <1>1. CASE owed = {} /\ UNCHANGED owed
    <2>1. Names(journal)' \subseteq Unit
      BY DEF TInv, TypeOK, AllListed, Listed, Entry, Names
    <2>2. QED
      BY <1>1, <2>1 DEF Promise!Next, Promise!Promise
  <1>2. ASSUME UNCHANGED journal, NEW u \in Names(journal) \ owed, owed' = owed \cup {u}
        PROVE  Promise!Next
    BY <1>2 DEF Promise!Next, Promise!TakeDown, Names
  <1>3. ASSUME UNCHANGED journal, NEW u \in Unit, owed' = owed \ {u}
        PROVE  [Promise!Next]_(Promise!vars)
    <2>1. CASE u \in owed
      BY <1>3, <2>1 DEF Promise!Next, Promise!GiveBack, Names
    <2>2. CASE u \notin owed
      BY <1>3, <2>2 DEF Promise!vars, Names
    <2>3. QED
      BY <2>1, <2>2
  <1>4. CASE UNCHANGED <<journal, owed>>
    BY <1>4 DEF Promise!vars, Names
  <1>5. QED
    BY <1>1, <1>2, <1>3, <1>4 DEF Kind

\* Under the same assumptions the stops, the journal and reconcile() implement
\* the promise: a unit goes down only once the journal names it, and an entry is
\* replaced or cleared only when everything it names is back.
THEOREM PromiseIsKept ==
  ASSUME Alone, Flat, Unbroken
  PROVE  Spec => KeepsPromise
  <1>1. LInv /\ [Next]_vars => LInv'
    BY NextTInv, NextLedger DEF LInv
  <1>2. Init => Promise!Init
    BY DEF Init, Promise!Init, Names, Empty
  <1>3. LInv /\ LInv' /\ [Next]_vars => [Promise!Next]_(Promise!vars)
    BY NextLedger, KindIsPromised DEF LInv
  <1>4. QED
    BY InitLedger, <1>1, <1>2, <1>3, PTL DEF Spec, KeepsPromise, Promise!Spec
=============================================================================
