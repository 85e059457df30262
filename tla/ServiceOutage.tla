--------------------------- MODULE ServiceOutage ---------------------------
(***************************************************************************)
(* Stopping services around a flash and bringing them back                 *)
(* (src/mcu_updater/service.py): services_stopped() with its crash journal,*)
(* reconcile() at every start of the agent and of the CLI, and the unit's  *)
(* ExecStopPost net.                                                       *)
(*                                                                         *)
(* A process runs operations one at a time.  An operation takes the        *)
(* operation lock and enters one services_stopped() block inside another:  *)
(* Outages[p] lists the blocks' units, outermost first (one block for the  *)
(* agent's jobs, two for `update-all` of the CLI, whose _ports_free wraps  *)
(* write_all).  A unit list is kept as the list plus a set of its          *)
(* positions, so a filtered list is a set and its order is not lost.       *)
(*                                                                         *)
(* A stop or a start stands for the whole fallback chain: Moonraker, then  *)
(* systemctl.  It works or it does not; neither raises.                    *)
(***************************************************************************)
EXTENDS Integers, Sequences

CONSTANTS
    Proc,        \* processes that run operations
    Agent,       \* the one systemd supervises (it may be outside Proc)
    Unit,        \* service units
    Klipper,     \* the unit ExecStopPost starts
    Outages,     \* [Proc -> Seq(Seq(Unit))]: nested blocks, outermost first
    NoOne,       \* the lock is free
    MaxFault     \* [Fault -> Nat]: how often each fault may strike

\* crash: SIGKILL.  stop, start: the command fails.  blind: is_active() says
\* "no" of a unit that runs (it timed out, or the unit is deactivating).
\* interrupt: Ctrl-C in a terminal.
Fault == {"crash", "stop", "start", "blind", "interrupt"}

\* A block is at most inside one other: nothing in the code nests deeper.
Nest == 1 .. 2

ASSUME OutageAssumption ==
    /\ NoOne \notin Proc
    /\ Klipper \in Unit
    /\ Outages \in [Proc -> Seq(Seq(Unit))]
    /\ \A p \in Proc : Len(Outages[p]) \in Nest
    /\ MaxFault \in [Fault -> Nat]

VARIABLES
    up,          \* [Unit -> BOOLEAN]: the unit's process runs
    journal,     \* the file on disk: a list and the positions it names
    lock,        \* holder of the operation lock
    pc,          \* control point of each process
    depth,       \* how many services_stopped() blocks it is inside
    frame,       \* the local state of each block: units, to_stop, what is left
    todo,        \* the journal entry a starting process is reconciling
    netDue,      \* systemd still has to run ExecStopPost
    owed,        \* history: units the tool stopped and has not started since
    faults       \* how often each fault has struck

vars == <<up, journal, lock, pc, depth, frame, todo, netDue, owed, faults>>

Cli == Proc \ {Agent}

\* A list of units and a set of its positions: a filtered list.
Entry == [units : Seq(Unit), stop : SUBSET Nat]
Empty == [units |-> <<>>, stop |-> {}]
Names(e) == {e.units[i] : i \in e.stop}

IsFirst(i, S) == i \in S /\ \A j \in S : i <= j
IsLast(i, S) == i \in S /\ \A j \in S : i >= j

Levels(p) == Len(Outages[p])
Block(p) == Outages[p][depth[p] + 1]
Top(p) == frame[p][depth[p]]
NoFrame == [units |-> <<>>, stop |-> {}, left |-> {}]

\* i is the position of the unit the block is about to stop (in list order), or
\* to start (in reverse).
Stopping(p, i) == IsFirst(i, Top(p).left)
Starting(p, i) == IsLast(i, Top(p).left)
Target(p, i) == Top(p).units[i]

SetLeft(p, S) == frame' = [frame EXCEPT ![p][depth[p]].left = S]
Goto(p, l) == pc' = [pc EXCEPT ![p] = l]
Strike(f) == faults[f] < MaxFault[f] /\ faults' = [faults EXCEPT ![f] = @ + 1]

\* systemctl start, through whichever backend: the unit runs, or it still does
\* not and only a warning says so.
StartUnit(u) ==
    \/ /\ up' = [up EXCEPT ![u] = TRUE]
       /\ owed' = owed \ {u}
       /\ UNCHANGED faults
    \/ /\ ~up[u]
       /\ Strike("start")
       /\ UNCHANGED <<up, owed>>

Init ==
    /\ up \in [Unit -> BOOLEAN]
    /\ journal = Empty
    /\ lock = NoOne
    /\ pc = [p \in Proc |-> "off"]
    /\ depth = [p \in Proc |-> 0]
    /\ frame = [p \in Proc |-> [d \in Nest |-> NoFrame]]
    /\ todo = [p \in Proc |-> Empty]
    /\ netDue = FALSE
    /\ owed = {}
    /\ faults = [f \in Fault |-> 0]

-----------------------------------------------------------------------------
(* Start-up: reconcile() *)

\* systemd starts the agent once ExecStopPost is done; a user starts the CLI.
Launch(p) ==
    /\ pc[p] = "off"
    /\ p = Agent => ~netDue
    /\ Goto(p, "launched")
    /\ UNCHANGED <<up, journal, lock, depth, frame, todo, netDue, owed, faults>>

\* Journal.pending(): nobody asks who wrote the entry, or whether it lives.
ReadJournal(p) ==
    /\ pc[p] = "launched"
    /\ todo' = [todo EXCEPT ![p] = journal]
    /\ Goto(p, IF journal = Empty THEN "ready" ELSE "reconcile")
    /\ UNCHANGED <<up, journal, lock, depth, frame, netDue, owed, faults>>

\* Bug: reconcile() starts the units that already run.
ReconcileRunning(p) ==
    /\ pc[p] = "reconcile"
    /\ \E i \in todo[p].stop :
          /\ IsLast(i, todo[p].stop)
          /\ LET u == todo[p].units[i]
             IN  IF up[u] THEN StartUnit(u) ELSE UNCHANGED <<up, owed, faults>>
          /\ todo' = [todo EXCEPT ![p].stop = @ \ {i}]
    /\ UNCHANGED <<journal, lock, pc, depth, frame, netDue>>

\* Units of the entry in reverse, each started only if it is not active.
ReconcileUnit(p) ==
    /\ pc[p] = "reconcile"
    /\ \E i \in todo[p].stop :
          /\ IsLast(i, todo[p].stop)
          /\ LET u == todo[p].units[i]
             IN  IF up[u] THEN UNCHANGED <<up, owed, faults>> ELSE StartUnit(u)
          /\ todo' = [todo EXCEPT ![p].stop = @ \ {i}]
    /\ UNCHANGED <<journal, lock, pc, depth, frame, netDue>>

ReconcileClear(p) ==
    /\ pc[p] = "reconcile"
    /\ todo[p].stop = {}
    /\ journal' = Empty
    /\ todo' = [todo EXCEPT ![p] = Empty]
    /\ Goto(p, "ready")
    /\ UNCHANGED <<up, lock, depth, frame, netDue, owed, faults>>

\* A CLI command that writes nothing (status, list, ...) has nothing more to do.
Exit(p) ==
    /\ pc[p] = "ready"
    /\ p \in Cli
    /\ Goto(p, "off")
    /\ UNCHANGED <<up, journal, lock, depth, frame, todo, netDue, owed, faults>>

-----------------------------------------------------------------------------
(* services_stopped() *)

\* exclusive(...): the operation lock is taken, or BusyError ends the attempt.
Begin(p) ==
    /\ pc[p] = "ready"
    /\ lock = NoOne
    /\ lock' = p
    /\ Goto(p, "enter")
    /\ UNCHANGED <<up, journal, depth, frame, todo, netDue, owed, faults>>

\* Bug: to_stop takes every controller, the ones already stopped included.
EnterAll(p) ==
    /\ pc[p] = "enter"
    /\ LET S == DOMAIN Block(p)
       IN  frame' = [frame EXCEPT ![p][depth[p] + 1] =
                        [units |-> Block(p), stop |-> S, left |-> S]]
    /\ Goto(p, "record")
    /\ depth' = [depth EXCEPT ![p] = @ + 1]
    /\ UNCHANGED <<up, journal, lock, todo, netDue, owed, faults>>

\* to_stop = [svc for svc in controllers if svc.is_active()]; a unit that
\* cannot be asked about counts as stopped already.
Enter(p) ==
    /\ pc[p] = "enter"
    /\ \E missed \in SUBSET {i \in DOMAIN Block(p) : up[Block(p)[i]]} :
          LET S == {i \in DOMAIN Block(p) : up[Block(p)[i]]} \ missed
          IN  /\ IF missed = {} THEN UNCHANGED faults ELSE Strike("blind")
              /\ frame' = [frame EXCEPT ![p][depth[p] + 1] =
                              [units |-> Block(p), stop |-> S, left |-> S]]
              /\ Goto(p, IF S = {} THEN "body" ELSE "record")
    /\ depth' = [depth EXCEPT ![p] = @ + 1]
    /\ UNCHANGED <<up, journal, lock, todo, netDue, owed>>

\* Bug: record_stop() grows the entry with each unit as it is stopped.
RecordFirstOnly(p) ==
    /\ pc[p] = "record"
    /\ \E i \in Top(p).stop :
          /\ IsFirst(i, Top(p).stop)
          /\ journal' = [units |-> Top(p).units, stop |-> {i}]
    /\ Goto(p, "stop")
    /\ UNCHANGED <<up, lock, depth, frame, todo, netDue, owed, faults>>

\* journal.record_stop(): all names, before the first stop, by os.replace().
RecordStop(p) ==
    /\ pc[p] = "record"
    /\ journal' = [units |-> Top(p).units, stop |-> Top(p).stop]
    /\ Goto(p, "stop")
    /\ UNCHANGED <<up, lock, depth, frame, todo, netDue, owed, faults>>

StopUnit(p) ==
    /\ pc[p] = "stop"
    /\ \E i \in Top(p).left :
          /\ Stopping(p, i)
          /\ \/ /\ up' = [up EXCEPT ![Target(p, i)] = FALSE]
                /\ owed' = IF up[Target(p, i)] THEN owed \cup {Target(p, i)} ELSE owed
                /\ UNCHANGED faults
             \/ /\ Strike("stop")
                /\ UNCHANGED <<up, owed>>
    /\ Goto(p, "verify")
    /\ UNCHANGED <<journal, lock, depth, frame, todo, netDue>>

\* On to the next unit, or, when all have been seen to, to the body.
PassOn(p, i) ==
    LET rest == Top(p).left \ {i}
    IN  SetLeft(p, rest) /\ Goto(p, IF rest = {} THEN "body" ELSE "stop")

\* Bug: the stop is asked for, never verified.
AssumeDown(p) ==
    /\ pc[p] = "verify"
    /\ \E i \in Top(p).left : Stopping(p, i) /\ PassOn(p, i)
    /\ UNCHANGED <<up, journal, lock, depth, todo, netDue, owed, faults>>

\* "confirmed stopped": is_active() has answered no.
ConfirmDown(p) ==
    /\ pc[p] = "verify"
    /\ \E i \in Top(p).left :
          /\ Stopping(p, i)
          /\ IF up[Target(p, i)] THEN Strike("blind") ELSE UNCHANGED faults
          /\ PassOn(p, i)
    /\ UNCHANGED <<up, journal, lock, depth, todo, netDue, owed>>

\* Leaves the innermost block by an exception or a return: what encloses it
\* restarts its own units in its finally.
Leave(p) ==
    LET d == depth[p] - 1
    IN  /\ depth' = [depth EXCEPT ![p] = d]
        /\ frame' = [frame EXCEPT ![p] = [n \in Nest |->
                        IF n > d THEN NoFrame
                        ELSE [frame[p][n] EXCEPT !.left = frame[p][n].stop]]]
        /\ Goto(p, IF d = 0 THEN "done" ELSE "restart")

\* Bug: the timeout raises at once; the units stopped before stay down.
RaiseAtOnce(p) ==
    /\ pc[p] = "verify"
    /\ \E i \in Top(p).left : Stopping(p, i) /\ up[Target(p, i)]
    /\ Leave(p)
    /\ UNCHANGED <<up, journal, lock, todo, netDue, owed, faults>>

\* STOP_VERIFY_TIMEOUT: restart all of them, then raise ServiceControlError.
StopTimeout(p) ==
    /\ pc[p] = "verify"
    /\ \E i \in Top(p).left : Stopping(p, i) /\ up[Target(p, i)]
    /\ SetLeft(p, Top(p).stop)
    /\ Goto(p, "restart")
    /\ UNCHANGED <<up, journal, lock, depth, todo, netDue, owed, faults>>

\* The block's body: the next services_stopped() block, or the writes.
Body(p) ==
    /\ pc[p] = "body"
    /\ Goto(p, IF depth[p] < Levels(p) THEN "enter" ELSE "write")
    /\ UNCHANGED <<up, journal, lock, depth, frame, todo, netDue, owed, faults>>

\* Bug: the journal is cleared before the units are back.
WriteEndClears(p) ==
    /\ pc[p] = "write"
    /\ journal' = Empty
    /\ SetLeft(p, Top(p).stop)
    /\ Goto(p, "restart")
    /\ UNCHANGED <<up, lock, depth, todo, netDue, owed, faults>>

\* The writes return or raise; either way the finally is next.
WriteEnd(p) ==
    /\ pc[p] = "write"
    /\ SetLeft(p, Top(p).stop)
    /\ Goto(p, "restart")
    /\ UNCHANGED <<up, journal, lock, depth, todo, netDue, owed, faults>>

\* _restart_all(): reversed(to_stop).
RestartUnit(p) ==
    /\ pc[p] = "restart"
    /\ \E i \in Top(p).left :
          /\ Starting(p, i)
          /\ StartUnit(Target(p, i))
          /\ SetLeft(p, Top(p).left \ {i})
    /\ UNCHANGED <<journal, lock, pc, depth, todo, netDue>>

\* _restart_all()'s finally: journal.clear(), whatever the starts did, and
\* whether or not this block had written the entry.
ClearJournal(p) ==
    /\ pc[p] = "restart"
    /\ Top(p).left = {}
    /\ journal' = Empty
    /\ Leave(p)
    /\ UNCHANGED <<up, lock, todo, netDue, owed, faults>>

\* The lock is released; the agent goes on, a CLI command exits.
Finish(p) ==
    /\ pc[p] = "done"
    /\ lock' = NoOne
    /\ Goto(p, IF p = Agent THEN "ready" ELSE "off")
    /\ UNCHANGED <<up, journal, depth, frame, todo, netDue, owed, faults>>

-----------------------------------------------------------------------------
(* What goes wrong *)

\* SIGKILL at any point: the kernel drops the lock, the journal stays.
Crash(p) ==
    /\ pc[p] # "off"
    /\ Strike("crash")
    /\ Goto(p, "off")
    /\ depth' = [depth EXCEPT ![p] = 0]
    /\ frame' = [frame EXCEPT ![p] = [d \in Nest |-> NoFrame]]
    /\ todo' = [todo EXCEPT ![p] = Empty]
    /\ lock' = IF lock = p THEN NoOne ELSE lock
    /\ netDue' = (netDue \/ p = Agent)
    /\ UNCHANGED <<up, journal, owed>>

\* Ctrl-C.  The stop loop is outside the try: an interrupted stop or wait
\* leaves the block with nothing restarted.  An interrupted start goes straight
\* to the finally that clears the journal.
Interrupt(p) ==
    /\ p \in Cli
    /\ Strike("interrupt")
    /\ \/ /\ pc[p] \in {"record", "stop", "verify"}
          /\ Leave(p)
          /\ UNCHANGED journal
       \/ /\ pc[p] \in {"body", "write"}
          /\ SetLeft(p, Top(p).stop)
          /\ Goto(p, "restart")
          /\ UNCHANGED <<journal, depth>>
       \/ /\ pc[p] = "restart"
          /\ Top(p).left # {}
          /\ journal' = Empty
          /\ Leave(p)
    /\ UNCHANGED <<up, lock, todo, netDue, owed>>

\* ExecStopPost of the agent's unit: klipper is started if it is not active.
ExecStopPost ==
    /\ netDue
    /\ netDue' = FALSE
    /\ IF up[Klipper] THEN UNCHANGED <<up, owed, faults>> ELSE StartUnit(Klipper)
    /\ UNCHANGED <<journal, lock, pc, depth, frame, todo>>

-----------------------------------------------------------------------------
\* A process that is past its start-up and has no operation under way.
Idle(p) == pc[p] \in {"off", "ready"}

\* Every step of a process that is under way, whatever its outcome.
Progress(p) ==
    \/ ReadJournal(p) \/ ReconcileUnit(p) \/ ReconcileClear(p)
    \/ Enter(p) \/ RecordStop(p) \/ StopUnit(p) \/ ConfirmDown(p)
    \/ StopTimeout(p) \/ Body(p) \/ WriteEnd(p) \/ RestartUnit(p)
    \/ ClearJournal(p) \/ Finish(p)

Step(p) == Launch(p) \/ Exit(p) \/ Begin(p) \/ Progress(p) \/ Crash(p) \/ Interrupt(p)

Next == ExecStopPost \/ \E p \in Proc : Step(p)

Spec == Init /\ [][Next]_vars

\* Code that has begun runs on: every is_active(), stop and start has a timeout
\* (service.py:65, 83).  The commands of a write have none (run_streamed,
\* build.py:186), so that nothing obliges a write to end.  systemd keeps the
\* agent up: Restart=always, after ExecStopPost.  Nothing obliges anyone to begin
\* an operation or to run the CLI.
RunsOn(p) == pc[p] # "write" /\ Progress(p)

FairSpec ==
    /\ Spec
    /\ WF_vars(ExecStopPost)
    /\ \A p \in Proc : WF_vars(RunsOn(p))
    /\ \A p \in Proc \cap {Agent} : WF_vars(Launch(p))

-----------------------------------------------------------------------------
(* Properties *)

PC == {"off", "launched", "reconcile", "ready", "enter", "record", "stop",
       "verify", "body", "write", "restart", "done"}

Frame == [units : Seq(Unit), stop : SUBSET Nat, left : SUBSET Nat]

TypeOK ==
    /\ up \in [Unit -> BOOLEAN]
    /\ journal \in Entry
    /\ lock \in Proc \cup {NoOne}
    /\ pc \in [Proc -> PC]
    /\ depth \in [Proc -> 0 .. 2]
    /\ frame \in [Proc -> [Nest -> Frame]]
    /\ todo \in [Proc -> Entry]
    /\ netDue \in BOOLEAN
    /\ owed \subseteq Unit
    /\ faults \in [Fault -> Nat]

\* Whatever the tool has stopped and not started again is named by the journal
\* on disk, so that a process dying here and now can be recovered from
\* ("cleared after they are all back").
JournalCovers == owed \subseteq Names(journal)

\* No image is being written while a unit the write asked to have stopped is
\* running ("flashing while it holds the serial port is unsafe").
QuietDuringWrite ==
    \A p \in Proc : pc[p] = "write" =>
        \A d \in 1 .. depth[p] :
            \A i \in DOMAIN frame[p][d].units : ~up[frame[p][d].units[i]]

\* Nothing but the ExecStopPost net starts a unit the tool had not stopped: what
\* the user stopped stays stopped.
LeavesStoppedAlone ==
    [][\A u \in Unit : ~up[u] /\ up'[u] => u \in owed \/ (netDue /\ ~netDue')]_vars

\* With no operation under way, nothing the tool stopped is still down: every
\* way out of services_stopped() restarts what it touched.  (A process that was
\* killed took no way out, a start that failed is only warned about, and Ctrl-C
\* in the stop loop escapes the block.)
RestoredWhenIdle ==
    (\A p \in Proc : Idle(p)) /\ (\A f \in {"crash", "start", "interrupt"} : faults[f] = 0)
        => owed = {}

\* A unit the tool stopped runs again in the end, kills of the agent included,
\* that of a write which hangs among them: only a write that hangs for ever, and
\* that nobody kills, keeps it down ("klipper could be left stopped and the
\* printer dead until someone notices", mcu-updater.service).
ServicesComeBack ==
    \A u \in Unit :
        u \in owed ~> (u \notin owed \/ \E p \in Proc : [](pc[p] = "write"))

\* The journal and the outages implement the promise.
Promise == INSTANCE OutagePromise WITH promised <- Names(journal), out <- owed
KeepsPromise == Promise!Spec
=============================================================================
