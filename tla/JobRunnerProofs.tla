-------------------------- MODULE JobRunnerProofs --------------------------
(***************************************************************************)
(* The single slot of the agent, for any number of handler threads, jobs   *)
(* and kinds, with the CLI contending, threads that fail to start, and a   *)
(* shutdown at any moment: a running body owns the slot and the operation  *)
(* lock, a free slot leaves the lock to the CLI alone, a cancel that was   *)
(* answered is not erased under the job it was for, and the exit does not  *)
(* cut off the write that wait() waits for.  Then the operation lock       *)
(* itself: who is past acquire() is alone and named in the file, and       *)
(* holder() does not report them away.                                     *)
(***************************************************************************)
EXTENDS TLAPS, JobRunner, OpLock

\* Control points of a handler thread at which it still owns the slot.
Owns(c) == pc[c] \in {"publish", "start", "fail"}
Deals(c) == Owns(c) \/ pc[c] \in {"failed", "mark", "set"}

\* A handler thread that is dealing with a job is dealing with one that was
\* submitted.
ArgIsJob == \A c \in Caller : Deals(c) => arg[c] \in Job /\ state[arg[c]] # "none"

\* Until its worker has started, the submitting thread owns the slot.
SubmitterOwns ==
    Alive => \A c \in Caller : Owns(c) =>
        /\ current = arg[c]
        /\ work[arg[c]] = "none"
        /\ pc[c] = "fail" => lock \notin Job
        /\ pc[c] # "fail" => lock = arg[c]

\* One thread at a time.
OneSubmitter == Alive => \A c, d \in Caller : Owns(c) /\ Owns(d) => c = d

\* Then the worker does, up to the end of its finally.
WorkerOwns ==
    \A j \in Job :
        /\ work[j] \in {"body", "write", "unlock"} => lock = j /\ current = j
        /\ work[j] = "free" => current = j /\ lock \notin Job

\* A job that was never submitted has no worker.
FreshIsIdle == \A j \in Job : state[j] = "none" => work[j] = "none"

LockIsSlot == lock \in Job => current = lock

\* The job in the slot, if a cancel of it was answered, finds the event set.
EventStands == \A j \in answered : state[j] # "none" /\ (current = j => cancel)

IInv ==
    /\ TypeOK
    /\ ArgIsJob
    /\ SubmitterOwns
    /\ OneSubmitter
    /\ WorkerOwns
    /\ FreshIsIdle
    /\ LockIsSlot
    /\ EventStands

LEMMA InitIInv == Init => IInv
  BY JobAssumption DEF Init, IInv, TypeOK, ArgIsJob, SubmitterOwns, OneSubmitter, WorkerOwns,
     FreshIsIdle, LockIsSlot, EventStands, Owns, Deals

\* submit(), on the handler thread.
LEMMA SubmitIInv ==
  ASSUME IInv, NEW c \in Caller, NEW j \in Job, Submit(c, j)
  PROVE  IInv'
  <1>1. /\ Alive /\ pc[c] = "idle" /\ state[j] = "none" /\ current = None /\ lock = None
        /\ lock' = j /\ current' = j /\ cancel' = FALSE
        /\ state' = [state EXCEPT ![j] = "running"]
        /\ pc' = [pc EXCEPT ![c] = "publish"] /\ arg' = [arg EXCEPT ![c] = j]
        /\ UNCHANGED <<thread, requested, answered, work>>
        /\ UNCHANGED <<stop, deferred, watched, timedOut, torn>>
    BY DEF Submit, GoCall, SetState, stopVars
  <1>2. /\ pc' \in [Caller -> {"idle", "publish", "start", "fail", "failed", "mark", "set"}]
        /\ arg' \in [Caller -> Job \cup {None}]
        /\ state' \in [Job -> {"none", "running"} \cup Terminal]
    BY <1>1 DEF IInv, TypeOK, Terminal
  <1>3. TypeOK'
    BY <1>1, <1>2 DEF IInv, TypeOK
  <1>4. /\ pc'[c] = "publish" /\ arg'[c] = j
        /\ \A d \in Caller \ {c} : pc'[d] = pc[d] /\ arg'[d] = arg[d]
        /\ state'[j] = "running" /\ \A k \in Job \ {j} : state'[k] = state[k]
    BY <1>1 DEF IInv, TypeOK
  <1>5. \A d \in Caller : ~Owns(d)
    BY <1>1, JobAssumption DEF IInv, SubmitterOwns, ArgIsJob, Deals
  <1>6. \A k \in Job : work[k] \in {"none", "gone"}
    BY <1>1, JobAssumption DEF IInv, TypeOK, WorkerOwns
  <1>7. ArgIsJob'
    BY <1>1, <1>4 DEF IInv, ArgIsJob, Deals, Owns
  <1>8. SubmitterOwns' /\ OneSubmitter'
    BY <1>1, <1>4, <1>5 DEF IInv, SubmitterOwns, OneSubmitter, Owns, FreshIsIdle, Alive
  <1>9. WorkerOwns' /\ FreshIsIdle' /\ LockIsSlot'
    BY <1>1, <1>4, <1>6 DEF IInv, WorkerOwns, FreshIsIdle, LockIsSlot
  <1>10. EventStands'
    BY <1>1, <1>4 DEF IInv, TypeOK, EventStands
  <1>11. QED
    BY <1>3, <1>7, <1>8, <1>9, <1>10 DEF IInv

LEMMA RecordThreadIInv ==
  ASSUME IInv, NEW c \in Caller, RecordThread(c)
  PROVE  IInv'
  BY JobAssumption DEF RecordThread, GoCall, Alive, stopVars,
     IInv, TypeOK, ArgIsJob, SubmitterOwns, OneSubmitter, WorkerOwns,
     FreshIsIdle, LockIsSlot, EventStands, Owns, Deals, Terminal

LEMMA StartThreadIInv ==
  ASSUME IInv, NEW c \in Caller, StartThread(c)
  PROVE  IInv'
  BY JobAssumption DEF StartThread, GoCall, GoWork, Alive, stopVars,
     IInv, TypeOK, ArgIsJob, SubmitterOwns, OneSubmitter, WorkerOwns,
     FreshIsIdle, LockIsSlot, EventStands, Owns, Deals, Terminal

LEMMA StartFailsIInv ==
  ASSUME IInv, NEW c \in Caller, StartFails(c)
  PROVE  IInv'
  BY JobAssumption DEF StartFails, GoCall, SetState, Alive, stopVars,
     IInv, TypeOK, ArgIsJob, SubmitterOwns, OneSubmitter, WorkerOwns,
     FreshIsIdle, LockIsSlot, EventStands, Owns, Deals, Terminal

\* The worker thread.
LEMMA WriteIInv ==
  ASSUME IInv, NEW j \in Job, BeginWrite(j) \/ EndWrite(j)
  PROVE  IInv'
  BY JobAssumption DEF BeginWrite, EndWrite, GoWork, Alive, callVars, stopVars,
     IInv, TypeOK, ArgIsJob, SubmitterOwns, OneSubmitter, WorkerOwns,
     FreshIsIdle, LockIsSlot, EventStands, Owns, Deals, Terminal

LEMMA BodyEndsIInv ==
  ASSUME IInv, NEW j \in Job, BodyEnds(j)
  PROVE  IInv'
  BY JobAssumption DEF BodyEnds, GoWork, SetState, Alive, callVars, stopVars,
     IInv, TypeOK, ArgIsJob, SubmitterOwns, OneSubmitter, WorkerOwns,
     FreshIsIdle, LockIsSlot, EventStands, Owns, Deals, Terminal

LEMMA FinallyIInv ==
  ASSUME IInv, NEW j \in Job, WorkerFinally(j)
  PROVE  IInv'
  BY JobAssumption DEF WorkerFinally, GoWork, Alive, callVars, stopVars,
     IInv, TypeOK, ArgIsJob, SubmitterOwns, OneSubmitter, WorkerOwns,
     FreshIsIdle, LockIsSlot, EventStands, Owns, Deals, Terminal

\* cancel(), on a handler thread.
LEMMA CancelLooksIInv ==
  ASSUME IInv, NEW c \in Caller, NEW j \in Job, CancelLooks(c, j)
  PROVE  IInv'
  BY JobAssumption DEF CancelLooks, GoCall, Alive, jobVars, stopVars,
     IInv, TypeOK, ArgIsJob, SubmitterOwns, OneSubmitter, WorkerOwns,
     FreshIsIdle, LockIsSlot, EventStands, Owns, Deals, Terminal

LEMMA CancelMarksIInv ==
  ASSUME IInv, NEW c \in Caller, CancelMarks(c)
  PROVE  IInv'
  BY JobAssumption DEF CancelMarks, GoCall, Alive, stopVars,
     IInv, TypeOK, ArgIsJob, SubmitterOwns, OneSubmitter, WorkerOwns,
     FreshIsIdle, LockIsSlot, EventStands, Owns, Deals, Terminal

LEMMA CancelSetsIInv ==
  ASSUME IInv, NEW c \in Caller, CancelSets(c)
  PROVE  IInv'
  BY JobAssumption DEF CancelSets, GoCall, Alive, stopVars,
     IInv, TypeOK, ArgIsJob, SubmitterOwns, OneSubmitter, WorkerOwns,
     FreshIsIdle, LockIsSlot, EventStands, Owns, Deals, Terminal

\* The CLI, and the shutdown.
LEMMA CliIInv ==
  ASSUME IInv, CliTakes \/ CliDrops
  PROVE  IInv'
  BY JobAssumption DEF CliTakes, CliDrops, Alive, callVars, stopVars,
     IInv, TypeOK, ArgIsJob, SubmitterOwns, OneSubmitter, WorkerOwns,
     FreshIsIdle, LockIsSlot, EventStands, Owns, Deals, Terminal

LEMMA SignalIInv ==
  ASSUME IInv, Signal
  PROVE  IInv'
  <1>1. PICK hit \in {{}, {j \in Job : work[j] = "write"}} :
           /\ work' = [j \in Job |-> IF j \in hit THEN "body" ELSE work[j]]
           /\ torn' = torn \cup {[job |-> j, by |-> "signal"] : j \in hit}
    BY DEF Signal
  <1>a. /\ stop = "up" /\ stop' = "asked"
        /\ UNCHANGED <<lock, current, thread, cancel, state, requested>>
        /\ UNCHANGED <<pc, arg, answered, deferred, watched, timedOut>>
    BY DEF Signal, callVars
  <1>2. hit \subseteq Job /\ \A j \in hit : work[j] = "write"
    BY <1>1
  <1>3. TypeOK'
    <2>1. torn' \subseteq [job : Job, by : {"signal", "exit"}]
      BY <1>1, <1>2 DEF IInv, TypeOK
    <2>2. work' \in [Job -> {"none", "body", "write", "unlock", "free", "gone"}]
      BY <1>1, <1>a DEF IInv, TypeOK
    <2>3. QED
      BY <1>1, <1>a, <1>2, <2>1, <2>2 DEF IInv, TypeOK
  <1>4. \A j \in Job : work'[j] = work[j] \/ (work[j] = "write" /\ work'[j] = "body")
    BY <1>1, <1>2
  <1>5. ArgIsJob' /\ OneSubmitter' /\ LockIsSlot'
    BY <1>1, <1>a, <1>4 DEF IInv, ArgIsJob, OneSubmitter, LockIsSlot, Owns, Deals, Alive
  <1>6. SubmitterOwns'
    <2>1. ASSUME NEW c \in Caller, Owns(c)
          PROVE  /\ current' = arg'[c] /\ work'[arg'[c]] = "none"
                 /\ pc'[c] = "fail" => lock' \notin Job
                 /\ pc'[c] # "fail" => lock' = arg'[c]
      <3>1. arg[c] \in Job /\ work[arg[c]] = "none"
        BY <1>1, <1>a, <2>1 DEF IInv, ArgIsJob, SubmitterOwns, Deals, Alive
      <3>2. QED
        BY <1>1, <1>a, <1>4, <2>1, <3>1 DEF IInv, SubmitterOwns, Alive
    <2>2. QED
      BY <1>1, <1>a, <2>1 DEF SubmitterOwns, Owns
  <1>7. WorkerOwns' /\ FreshIsIdle' /\ EventStands'
    BY <1>1, <1>a, <1>4 DEF IInv, TypeOK, WorkerOwns, FreshIsIdle, EventStands
  <1>8. QED
    BY <1>3, <1>5, <1>6, <1>7 DEF IInv

LEMMA WaitingIInv ==
  ASSUME IInv, LookAtJob \/ BeginWait \/ WaitEnds \/ GraceEnds
  PROVE  IInv'
  <1>1. UNCHANGED <<lock, current, thread, cancel, state, requested, work, pc, arg, answered>>
    BY DEF LookAtJob, BeginWait, WaitEnds, GraceEnds, jobVars, callVars
  <1>2. Alive /\ Alive'
    BY DEF LookAtJob, BeginWait, WaitEnds, GraceEnds, Alive
  <1>3. /\ stop' \in {"up", "asked", "wait", "join", "lost", "closing", "down"}
        /\ deferred' \in Job \cup {None} /\ watched' \in Job \cup {None}
        /\ timedOut' \in BOOLEAN
        /\ torn' \subseteq [job : Job, by : {"signal", "exit"}]
    <2>1. CASE LookAtJob
      BY <2>1 DEF LookAtJob, IInv, TypeOK
    <2>2. CASE BeginWait
      BY <2>2 DEF BeginWait, IInv, TypeOK
    <2>3. CASE WaitEnds \/ GraceEnds
      BY <2>3 DEF WaitEnds, GraceEnds, IInv, TypeOK
    <2>4. QED
      BY <2>1, <2>2, <2>3
  <1>4. QED
    BY <1>1, <1>2, <1>3 DEF IInv, TypeOK, ArgIsJob, SubmitterOwns, OneSubmitter, WorkerOwns,
       FreshIsIdle, LockIsSlot, EventStands, Owns, Deals

LEMMA ExitIInv ==
  ASSUME IInv, Exit
  PROVE  IInv'
  BY JobAssumption DEF Exit, Alive, callVars,
     IInv, TypeOK, ArgIsJob, SubmitterOwns, OneSubmitter, WorkerOwns,
     FreshIsIdle, LockIsSlot, EventStands, Owns, Deals, Terminal

LEMMA NextIInv == IInv /\ [Next]_vars => IInv'
  <1> SUFFICES ASSUME IInv, [Next]_vars PROVE IInv'
    OBVIOUS
  <1>1. ASSUME NEW c \in Caller, Serve(c) PROVE IInv'
    BY <1>1, RecordThreadIInv, StartThreadIInv, StartFailsIInv, CancelMarksIInv,
       CancelSetsIInv DEF Serve
  <1>2. ASSUME NEW c \in Caller, NEW j \in Job, Submit(c, j) \/ CancelLooks(c, j)
        PROVE IInv'
    BY <1>2, SubmitIInv, CancelLooksIInv
  <1>3. ASSUME NEW j \in Job, BeginWrite(j) \/ Work(j) PROVE IInv'
    BY <1>3, WriteIInv, BodyEndsIInv, FinallyIInv DEF Work
  <1>4. CASE CliTakes \/ CliDrops
    BY <1>4, CliIInv
  <1>5. CASE Signal \/ Shutdown
    BY <1>5, SignalIInv, WaitingIInv, ExitIInv DEF Shutdown
  <1>6. CASE UNCHANGED vars
    BY <1>6 DEF vars, jobVars, callVars, stopVars, IInv, TypeOK, ArgIsJob, SubmitterOwns,
       OneSubmitter, WorkerOwns, FreshIsIdle, LockIsSlot, EventStands, Owns, Deals, Alive
  <1>7. QED
    BY <1>1, <1>2, <1>3, <1>4, <1>5, <1>6 DEF Next

LEMMA Invariance == Spec => []IInv
  BY InitIInv, NextIInv, PTL DEF Spec

\* Every variable keeps its type.
THEOREM TypeCorrect == Spec => []TypeOK
  <1>1. IInv => TypeOK
    BY DEF IInv
  <1>2. QED
    BY Invariance, <1>1, PTL

\* When the slot is free no job holds the lock: a submit is then refused only
\* for the CLI.
THEOREM SlotThenLock == Spec => []FreeSlotFreeLock
  <1>1. IInv => FreeSlotFreeLock
    BY JobAssumption DEF IInv, LockIsSlot, FreeSlotFreeLock
  <1>2. QED
    BY Invariance, <1>1, PTL

\* A running body is the one job in the slot and holds the operation lock, and
\* no job that is over holds the lock once the slot is free.
THEOREM BodyIsAlone == Spec => []BodyOwnsEverything
  <1>1. IInv => \A j \in Job : AtWork(j) => lock = j /\ current = j
    BY DEF IInv, WorkerOwns, AtWork
  <1>2. QED
    BY Invariance, SlotThenLock, <1>1, PTL DEF BodyOwnsEverything

\* A cancel that was answered is not erased while its job runs.
THEOREM CancelIsNotLost == Spec => []AnsweredCancelStands
  <1>1. IInv => AnsweredCancelStands
    BY DEF IInv, TypeOK, WorkerOwns, EventStands, AnsweredCancelStands, AtWork
  <1>2. QED
    BY Invariance, <1>1, PTL

-----------------------------------------------------------------------------
(* The shutdown *)

\* A thread is recorded after its job was submitted, and once: no job that is
\* still to be submitted, or still to be recorded, is the one wait() joins.
Unrecorded ==
    /\ \A j \in Job : state[j] = "none" => thread # j /\ watched # j
    /\ \A c \in Caller : pc[c] = "publish" => thread # arg[c] /\ watched # arg[c]

\* What wait() joins has been started when it joins, and is dead when it
\* returns, unless the grace ran out.
Waited ==
    /\ stop \in {"up", "asked", "wait"} => watched = None
    /\ stop \in {"join", "closing"} /\ ~timedOut =>
          \A c \in Caller : pc[c] = "start" => arg[c] # watched
    /\ stop = "closing" /\ ~timedOut /\ watched \in Job =>
          work[watched] \in {"none", "gone"}
    /\ stop # "down" => \A t \in torn : t.by = "signal"

WInv == IInv /\ Unrecorded /\ Waited /\ AwaitedNotTorn

LEMMA InitWInv == Init => WInv
  BY InitIInv, JobAssumption DEF Init, WInv, Unrecorded, Waited, AwaitedNotTorn

\* submit(): the job is fresh, its thread is recorded, then started.
LEMMA SubmitWaits ==
  ASSUME WInv, NEW c \in Caller,
         \/ \E j \in Job : Submit(c, j)
         \/ RecordThread(c) \/ StartThread(c) \/ StartFails(c)
  PROVE  Unrecorded' /\ Waited' /\ AwaitedNotTorn'
  <1> USE JobAssumption
        DEF WInv, Unrecorded, Waited, AwaitedNotTorn, GoCall, GoWork, SetState, stopVars, Alive
  <1>0. /\ TypeOK /\ ArgIsJob /\ OneSubmitter
        /\ pc[c] \in {"publish", "start"} => arg[c] \in Job /\ state[arg[c]] # "none"
    BY DEF IInv, ArgIsJob, Deals, Owns
  <1>1. ASSUME NEW j \in Job, Submit(c, j)
        PROVE  Unrecorded' /\ Waited' /\ AwaitedNotTorn'
    BY <1>0, <1>1 DEF Submit, TypeOK
  <1>2. CASE RecordThread(c)
    <2>1. \A d \in Caller \ {c} : pc[d] # "publish"
      BY <1>0, <1>2 DEF RecordThread, OneSubmitter, Owns
    <2>2. QED
      BY <1>0, <1>2, <2>1 DEF RecordThread, TypeOK
  <1>3. CASE StartThread(c)
    BY <1>0, <1>3 DEF StartThread, TypeOK
  <1>4. CASE StartFails(c)
    BY <1>0, <1>4 DEF StartFails, TypeOK
  <1>5. QED
    BY <1>1, <1>2, <1>3, <1>4

\* The worker threads, cancel() and the CLI touch nothing of it.
LEMMA OthersWait ==
  ASSUME WInv,
         \/ \E j \in Job : BeginWrite(j) \/ Work(j)
         \/ \E c \in Caller : \/ CancelMarks(c) \/ CancelSets(c)
                              \/ \E j \in Job : CancelLooks(c, j)
         \/ CliTakes \/ CliDrops
  PROVE  Unrecorded' /\ Waited' /\ AwaitedNotTorn'
  <1> USE JobAssumption DEF WInv, Unrecorded, Waited, AwaitedNotTorn, stopVars, callVars, jobVars
  <1>0. TypeOK
    BY DEF IInv
  <1>1. ASSUME NEW j \in Job, BeginWrite(j) \/ Work(j)
        PROVE  Unrecorded' /\ Waited' /\ AwaitedNotTorn'
    <2>1. /\ UNCHANGED <<thread, pc, arg, stop, watched, timedOut, torn>>
          /\ \A k \in Job : work[k] \in {"none", "gone"} => work'[k] = work[k]
          /\ \A k \in Job : state'[k] = "none" => state[k] = "none"
      BY <1>0, <1>1 DEF BeginWrite, Work, EndWrite, BodyEnds, WorkerFinally, GoWork, SetState,
         TypeOK, Terminal
    <2>2. QED
      BY <2>1
  <1>2. ASSUME NEW c \in Caller,
               CancelMarks(c) \/ CancelSets(c) \/ \E j \in Job : CancelLooks(c, j)
        PROVE  Unrecorded' /\ Waited' /\ AwaitedNotTorn'
    <2>1. /\ UNCHANGED <<thread, state, work, stop, watched, timedOut, torn>>
          /\ pc'[c] \notin {"publish", "start"}
          /\ \A d \in Caller \ {c} : pc'[d] = pc[d] /\ arg'[d] = arg[d]
      BY <1>0, <1>2 DEF CancelMarks, CancelSets, CancelLooks, GoCall, TypeOK
    <2>2. QED
      BY <2>1
  <1>3. CASE CliTakes \/ CliDrops
    BY <1>3 DEF CliTakes, CliDrops
  <1>4. QED
    BY <1>1, <1>2, <1>3

\* The shutdown itself.
LEMMA ShutdownWaits ==
  ASSUME WInv, Signal \/ Shutdown
  PROVE  Unrecorded' /\ Waited' /\ AwaitedNotTorn'
  <1> USE JobAssumption DEF WInv, Unrecorded, Waited, AwaitedNotTorn, callVars, jobVars
  <1>0. TypeOK
    BY DEF IInv
  <1>1. CASE Signal
    <2>1. \A k \in Job : state'[k] = "none" => state[k] = "none"
      BY <1>1 DEF Signal
    <2>2. QED
      BY <1>1, <2>1 DEF Signal
  <1>2. CASE LookAtJob
    <2>1. \A c \in Caller : pc[c] = "start" => arg[c] \in Job
      BY DEF IInv, ArgIsJob, Deals, Owns
    <2>2. QED
      BY <1>2, <2>1 DEF LookAtJob
  <1>3. CASE BeginWait
    BY <1>0, <1>3 DEF BeginWait, TypeOK
  <1>4. CASE WaitEnds
    BY <1>0, <1>4 DEF WaitEnds, TypeOK
  <1>5. CASE GraceEnds
    BY <1>0, <1>5 DEF GraceEnds, TypeOK
  <1>6. CASE Exit
    BY <1>0, <1>6 DEF Exit, TypeOK
  <1>7. QED
    BY <1>1, <1>2, <1>3, <1>4, <1>5, <1>6 DEF Shutdown

LEMMA NextWInv == WInv /\ [Next]_vars => WInv'
  <1> SUFFICES ASSUME WInv, [Next]_vars PROVE WInv'
    OBVIOUS
  <1>1. IInv'
    BY NextIInv DEF WInv
  <1>2. CASE UNCHANGED vars
    BY <1>1, <1>2 DEF vars, jobVars, callVars, stopVars, WInv, Unrecorded, Waited, AwaitedNotTorn
  <1>3. CASE Next
    BY <1>1, <1>3, SubmitWaits, OthersWait, ShutdownWaits DEF Next, Serve, WInv
  <1>4. QED
    BY <1>2, <1>3

\* A write of the job wait() was asked to wait for is cut off by systemd's signal
\* to the group, or after the grace ran out, never by the exit: whichever thread
\* was recorded when wait() looked, whether or not it had been started.
THEOREM AwaitedIsNotTorn == Spec => []AwaitedNotTorn
  <1>1. WInv => AwaitedNotTorn
    BY DEF WInv
  <1>2. QED
    BY InitWInv, NextWInv, <1>1, PTL DEF Spec
-----------------------------------------------------------------------------
(* The operation lock under the slot.  JobRunner's variable lock says who   *)
(* has it; OpLock is how it is taken, recorded, probed and released, by any *)
(* number of clients and probers, with any number of faults.                *)
(*                                                                          *)
(* HolderIsNamed is not inductive: what it needs is that the control points *)
(* and the kernel lock agree (Ownership), so that a step that writes or     *)
(* wipes the record is a step of the one owner.                             *)

\* The kernel lock is with whoever is past the flock call and not past the
\* unlock, client or prober.
Ownership ==
    /\ \A c \in Client : cpc[c] \in Owning <=> flock = c
    /\ \A q \in Prober : ppc[q] \in Probing <=> flock = q

\* A client past the write of its record finds it in the file.
HeldIsRecorded == \A c \in Client : cpc[c] = "held" => record = c

\* The history of a probe keeps only clients that still hold.
ThroughoutHolds ==
    \A q \in Prober : \A c \in throughout[q] : cpc[c] = "held"

\* Only a probe that read somebody's record goes on to the flock.
ProbesARecord == \A q \in Prober : ppc[q] = "probe" => seen[q] # NoOne

LockInv ==
    /\ LockTypeOK
    /\ Ownership
    /\ HeldIsRecorded
    /\ ThroughoutHolds
    /\ ProbesARecord
    /\ NeverHidesHolder

\* The initial state is well typed, the lock free and no probe under way
\* (lock.py's ExclusiveLock before its first acquire()).
LEMMA InitLock == LockInit => LockInv
  BY ActorAssumption DEF LockInit, LockInv, LockTypeOK, Ownership, HeldIsRecorded,
      ThroughoutHolds,
      ProbesARecord, NeverHidesHolder, ClientPC, ProberPC, Owning, Probing

\* Every step of a client, acquire() and release() with their failures and the
\* kill included, preserves the inductive invariant.
LEMMA ClientPreserves ==
  ASSUME LockInv, NEW c \in Client, ClientStep(c)
  PROVE  LockInv'
  <1> USE ActorAssumption DEF LockInv, LockTypeOK, Ownership, HeldIsRecorded, ThroughoutHolds,
            ProbesARecord, NeverHidesHolder, ClientPC, ProberPC, Owning, Probing, proberVars
  <1>1. CASE TryFlock(c)
    BY <1>1 DEF TryFlock, Grant
  <1>2. CASE RetryFlock(c)
    BY <1>2 DEF RetryFlock, Grant
  <1>3. CASE TruncateOld(c)
    BY <1>3 DEF TruncateOld
  <1>4. CASE WriteRecord(c)
    BY <1>4 DEF WriteRecord
  <1>5. CASE AcquireError(c)
    BY <1>5 DEF AcquireError
  <1>6. CASE ClearRecord(c)
    BY <1>6 DEF ClearRecord, Forget
  <1>7. CASE ReleaseError(c)
    BY <1>7 DEF ReleaseError, Forget
  <1>8. CASE Unlock(c)
    BY <1>8 DEF Unlock
  <1>9. CASE Kill(c)
    BY <1>9 DEF Kill, Forget
  <1>10. QED
    BY <1>1, <1>2, <1>3, <1>4, <1>5, <1>6, <1>7, <1>8, <1>9 DEF ClientStep

\* Every step of a probe, its failures and its death included, preserves it.
LEMMA ProberPreserves ==
  ASSUME LockInv, NEW q \in Prober, ProberStep(q)
  PROVE  LockInv'
  <1> USE ActorAssumption DEF LockInv, LockTypeOK, Ownership, HeldIsRecorded, ThroughoutHolds,
            ProbesARecord, NeverHidesHolder, ClientPC, ProberPC, Owning, Probing, proberVars
  <1>1. CASE ReadRecord(q)
    BY <1>1 DEF ReadRecord
  <1>2. CASE ProbeFlock(q)
    <2>1. LockTypeOK'
      BY <1>2 DEF ProbeFlock
    <2>2. Ownership'
      <3>1. CASE flock = NoOne
        BY <1>2, <3>1 DEF ProbeFlock
      <3>2. CASE flock # NoOne
        BY <1>2, <3>2 DEF ProbeFlock
      <3>3. QED
        BY <3>1, <3>2
    <2>3. HeldIsRecorded' /\ ThroughoutHolds' /\ ProbesARecord'
      BY <1>2 DEF ProbeFlock
    <2>4. NeverHidesHolder'
      BY <1>2 DEF ProbeFlock
    <2>5. QED
      BY <2>1, <2>2, <2>3, <2>4
  <1>3. CASE ProbeClear(q)
    BY <1>3 DEF ProbeClear
  <1>4. CASE ProbeUnlock(q)
    BY <1>4 DEF ProbeUnlock
  <1>5. CASE KillProber(q)
    BY <1>5 DEF KillProber
  <1>6. QED
    BY <1>1, <1>2, <1>3, <1>4, <1>5 DEF ProberStep

\* The invariant is inductive, so it holds in every reachable state.
LEMMA LockInvariance == LockSpec => []LockInv
  <1>1. LockInv /\ [LockNext]_lockVars => LockInv'
    <2> SUFFICES ASSUME LockInv, [LockNext]_lockVars PROVE LockInv'
      OBVIOUS
    <2>1. CASE LockNext
      BY <2>1, ClientPreserves, ProberPreserves DEF LockNext
    <2>2. CASE UNCHANGED lockVars
      BY <2>2 DEF lockVars, proberVars, LockInv, LockTypeOK, Ownership,
                  HeldIsRecorded, ThroughoutHolds, ProbesARecord, NeverHidesHolder
    <2>3. QED
      BY <2>1, <2>2
  <1>2. QED
    BY InitLock, <1>1, PTL DEF LockSpec

\* Every variable of the lock keeps its type.
THEOREM LockTypeCorrect == LockSpec => []LockTypeOK
  <1>1. LockInv => LockTypeOK
    BY DEF LockInv
  <1>2. QED
    BY LockInvariance, <1>1, PTL

\* Whoever returned from acquire() is alone and named in the lock file, under
\* any interleaving of acquires, releases, probes, I/O errors and kills.
THEOREM HolderNamed == LockSpec => []HolderIsNamed
  <1>1. LockInv => HolderIsNamed
    BY ActorAssumption DEF LockInv, Ownership, HeldIsRecorded, HolderIsNamed, Owning
  <1>2. QED
    BY LockInvariance, <1>1, PTL

\* holder() never reports a lock free that one client held during all the call.
THEOREM HolderNotHidden == LockSpec => []NeverHidesHolder
  <1>1. LockInv => NeverHidesHolder
    BY DEF LockInv
  <1>2. QED
    BY LockInvariance, <1>1, PTL

=============================================================================
