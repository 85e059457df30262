----------------------------- MODULE JobRunner -----------------------------
(***************************************************************************)
(* The agent's single job slot (src/mcu_updater/jobs.py) and its deferred  *)
(* shutdown (src/mcu_updater/agent/service.py, request_stop).              *)
(*                                                                         *)
(* RPC handler threads submit jobs and cancel them; every job has a worker *)
(* thread; a signal starts the shutdown thread; the CLI is another process *)
(* that contends for the operation lock.  A critical section of _slot_lock *)
(* is one step; everything outside one interleaves.                        *)
(*                                                                         *)
(* What a job does is the business of its body: it may look at the cancel  *)
(* event between two writes (a flash) or at any moment (a build).          *)
(***************************************************************************)
EXTENDS Integers, FiniteSets

CONSTANTS
    Job,         \* job ids: one submission each
    Flash,       \* the jobs that write to boards: not interruptible in a write
    Caller,      \* RPC handler threads
    Cli,         \* the other process that takes the operation lock
    None         \* no job, no holder

ASSUME JobAssumption ==
    /\ Flash \subseteq Job
    /\ Cli \notin Job /\ None \notin Job /\ Cli # None

VARIABLES
    lock,        \* holder of the operation lock: a job, the CLI or None
    current,     \* _current: the job in the slot
    thread,      \* _thread: the job whose worker thread was made last
    cancel,      \* _cancel: one event, shared by all jobs
    state,       \* job.state ("none": not submitted)
    requested,   \* jobs with cancel_requested set
    answered,    \* history: jobs some caller was told are being cancelled
    work,        \* control point of each worker thread
    pc,          \* control point of each handler thread
    arg,         \* the job a handler thread is dealing with
    stop,        \* control point of the shutdown
    deferred,    \* the job request_stop() saw and defers to
    watched,     \* the worker thread that wait() joins
    timedOut,    \* the shutdown gave up waiting
    torn         \* history: the writes that were cut off, and by what

jobVars == <<lock, current, thread, cancel, state, requested, work>>
callVars == <<pc, arg, answered>>
stopVars == <<stop, deferred, watched, timedOut, torn>>
vars == <<jobVars, callVars, stopVars>>

Terminal == {"succeeded", "failed", "cancelled"}

Alive == stop # "down"
AtWork(j) == work[j] \in {"body", "write"}

GoCall(c, l, j) == pc' = [pc EXCEPT ![c] = l] /\ arg' = [arg EXCEPT ![c] = j]
GoWork(j, l) == work' = [work EXCEPT ![j] = l]
SetState(j, s) == state' = [state EXCEPT ![j] = s]

Init ==
    /\ lock = None
    /\ current = None
    /\ thread = None
    /\ cancel = FALSE
    /\ state = [j \in Job |-> "none"]
    /\ requested = {}
    /\ answered = {}
    /\ work = [j \in Job |-> "none"]
    /\ pc = [c \in Caller |-> "idle"]
    /\ arg = [c \in Caller |-> None]
    /\ stop = "up"
    /\ deferred = None
    /\ watched = None
    /\ timedOut = FALSE
    /\ torn = {}

-----------------------------------------------------------------------------
(* submit() *)

\* Bug: the operation lock alone guards the slot.
SubmitNoSlotCheck(c, j) ==
    /\ Alive /\ pc[c] = "idle" /\ state[j] = "none"
    /\ lock = None
    /\ lock' = j
    /\ current' = j
    /\ cancel' = FALSE
    /\ SetState(j, "running")
    /\ GoCall(c, "publish", j)
    /\ UNCHANGED <<thread, requested, answered, work, stopVars>>

\* The critical section: the slot is free, the lock is taken (a BusyError from
\* either ends the call with nothing changed), the job is published and the
\* event cleared.
Submit(c, j) ==
    /\ Alive /\ pc[c] = "idle" /\ state[j] = "none"
    /\ current = None /\ lock = None
    /\ lock' = j
    /\ current' = j
    /\ cancel' = FALSE
    /\ SetState(j, "running")
    /\ GoCall(c, "publish", j)
    /\ UNCHANGED <<thread, requested, answered, work, stopVars>>

\* The job has been announced; its worker thread is made, not started.
RecordThread(c) ==
    /\ Alive /\ pc[c] = "publish"
    /\ thread' = arg[c]
    /\ GoCall(c, "start", arg[c])
    /\ UNCHANGED <<lock, current, cancel, state, requested, answered, work, stopVars>>

\* Bug: the event is cleared by the worker as it starts.
StartThreadClears(c) ==
    /\ Alive /\ pc[c] = "start"
    /\ GoWork(arg[c], "body")
    /\ cancel' = FALSE
    /\ GoCall(c, "idle", None)
    /\ UNCHANGED <<lock, current, thread, state, requested, answered, stopVars>>

StartThread(c) ==
    /\ Alive /\ pc[c] = "start"
    /\ GoWork(arg[c], "body")
    /\ GoCall(c, "idle", None)
    /\ UNCHANGED <<lock, current, thread, cancel, state, requested, answered, stopVars>>

\* Bug: only the lock is given back.
StartFailsKeepsSlot(c) ==
    /\ Alive
    /\ \/ /\ pc[c] = "start"
          /\ lock' = None
          /\ GoCall(c, "fail", arg[c])
          /\ UNCHANGED state
       \/ /\ pc[c] = "fail"
          /\ SetState(arg[c], "failed")
          /\ GoCall(c, "idle", None)
          /\ UNCHANGED lock
    /\ UNCHANGED <<current, thread, cancel, requested, answered, work, stopVars>>

\* thread.start() raises: the lock is released, the slot freed, and the job is
\* marked as failed last.
StartFails(c) ==
    /\ Alive
    /\ \/ /\ pc[c] = "start"
          /\ lock' = None
          /\ GoCall(c, "fail", arg[c])
          /\ UNCHANGED <<current, state>>
       \/ /\ pc[c] = "fail"
          /\ current' = None
          /\ GoCall(c, "failed", arg[c])
          /\ UNCHANGED <<lock, state>>
       \/ /\ pc[c] = "failed"
          /\ SetState(arg[c], "failed")
          /\ GoCall(c, "idle", None)
          /\ UNCHANGED <<lock, current>>
    /\ UNCHANGED <<thread, cancel, requested, answered, work, stopVars>>

-----------------------------------------------------------------------------
(* The worker thread *)

\* The body writes to a board.
BeginWrite(j) ==
    /\ Alive /\ j \in Flash /\ work[j] = "body"
    /\ GoWork(j, "write")
    /\ UNCHANGED <<lock, current, thread, cancel, state, requested, callVars, stopVars>>

EndWrite(j) ==
    /\ Alive /\ work[j] = "write"
    /\ GoWork(j, "body")
    /\ UNCHANGED <<lock, current, thread, cancel, state, requested, callVars, stopVars>>

\* The body returns or raises; it raises OperationCancelled when it looked at
\* the event and found it set.
BodyEnds(j) ==
    /\ Alive /\ work[j] = "body"
    /\ \E s \in {"succeeded", "failed"} \cup (IF cancel THEN {"cancelled"} ELSE {}) :
          SetState(j, s)
    /\ GoWork(j, "unlock")
    /\ UNCHANGED <<lock, current, thread, cancel, requested, callVars, stopVars>>

\* The finally: the lock first, then the slot.
WorkerFinally(j) ==
    /\ Alive
    /\ \/ /\ work[j] = "unlock"
          /\ lock' = None
          /\ GoWork(j, "free")
          /\ UNCHANGED current
       \/ /\ work[j] = "free"
          /\ current' = None
          /\ GoWork(j, "gone")
          /\ UNCHANGED lock
    /\ UNCHANGED <<thread, cancel, state, requested, callVars, stopVars>>

-----------------------------------------------------------------------------
(* cancel() *)

\* The job is looked up by id, which needs no lock, and its state is read.
CancelLooks(c, j) ==
    /\ Alive /\ pc[c] = "idle" /\ state[j] = "running"
    /\ GoCall(c, "mark", j)
    /\ UNCHANGED <<jobVars, answered, stopVars>>

CancelMarks(c) ==
    /\ Alive /\ pc[c] = "mark"
    /\ requested' = requested \cup {arg[c]}
    /\ GoCall(c, "set", arg[c])
    /\ UNCHANGED <<lock, current, thread, cancel, state, work, answered, stopVars>>

\* The shared event is set and the caller told {"cancelling": True}.
CancelSets(c) ==
    /\ Alive /\ pc[c] = "set"
    /\ cancel' = TRUE
    /\ answered' = answered \cup {arg[c]}
    /\ GoCall(c, "idle", None)
    /\ UNCHANGED <<lock, current, thread, state, requested, work, stopVars>>

-----------------------------------------------------------------------------
(* The CLI, and the agent's shutdown *)

CliTakes ==
    /\ lock = None
    /\ lock' = Cli
    /\ UNCHANGED <<current, thread, cancel, state, requested, work, callVars, stopVars>>

CliDrops ==
    /\ lock = Cli
    /\ lock' = None
    /\ UNCHANGED <<current, thread, cancel, state, requested, work, callVars, stopVars>>

\* SIGTERM.  A user's kill reaches the agent alone.  systemd sends it to the whole
\* control group (the unit sets no KillMode): the tool that writes dies of it in
\* the middle of the write, and the body goes on with a board that failed.
Signal ==
    /\ stop = "up"
    /\ stop' = "asked"
    /\ \E hit \in {{}, {j \in Job : work[j] = "write"}} :
          /\ work' = [j \in Job |-> IF j \in hit THEN "body" ELSE work[j]]
          /\ torn' = torn \cup {[job |-> j, by |-> "signal"] : j \in hit}
    /\ UNCHANGED <<lock, current, thread, cancel, state, requested, callVars,
                   deferred, watched, timedOut>>

\* request_stop(): a job that cannot be interrupted defers it.
LookAtJob ==
    /\ stop = "asked"
    /\ IF current \in Flash
       THEN stop' = "wait" /\ deferred' = current
       ELSE stop' = "closing" /\ UNCHANGED deferred
    /\ UNCHANGED <<jobVars, callVars, watched, timedOut, torn>>

\* wait(): joins the thread recorded last.  A thread that has not been started
\* cannot be joined: the shutdown thread dies of it.
BeginWait ==
    /\ stop = "wait"
    /\ watched' = thread
    /\ stop' = IF \E c \in Caller : pc[c] = "start" /\ arg[c] = thread
               THEN "lost" ELSE "join"
    /\ UNCHANGED <<jobVars, callVars, deferred, timedOut, torn>>

\* Bug: wait() does not wait.
WaitReturns ==
    /\ stop = "join"
    /\ stop' = "closing"
    /\ UNCHANGED <<jobVars, callVars, deferred, watched, timedOut, torn>>

\* The thread is dead (or was never made, or never ran).
WaitEnds ==
    /\ stop = "join"
    /\ watched # None => work[watched] \in {"none", "gone"}
    /\ stop' = "closing"
    /\ UNCHANGED <<jobVars, callVars, deferred, watched, timedOut, torn>>

\* --shutdown-grace; or, for a shutdown that died, systemd's TimeoutStopSec.
GraceEnds ==
    /\ stop \in {"join", "lost"}
    /\ stop' = "closing"
    /\ timedOut' = TRUE
    /\ UNCHANGED <<jobVars, callVars, deferred, watched, torn>>

\* stop() joins the helper threads, for seconds, and closes the connection last:
\* until then requests are served.  Workers are daemon threads and die with the
\* process, and the kernel drops its lock.
Exit ==
    /\ stop = "closing"
    /\ stop' = "down"
    /\ torn' = torn \cup [job : {j \in Job : work[j] = "write"}, by : {"exit"}]
    /\ work' = [j \in Job |-> IF work[j] = "none" THEN "none" ELSE "gone"]
    /\ lock' = IF lock \in Job THEN None ELSE lock
    /\ current' = None
    /\ UNCHANGED <<thread, cancel, state, requested, callVars, deferred, watched, timedOut>>

-----------------------------------------------------------------------------
Serve(c) ==
    \/ RecordThread(c) \/ StartThread(c) \/ StartFails(c)
    \/ CancelMarks(c) \/ CancelSets(c)

Work(j) == EndWrite(j) \/ BodyEnds(j) \/ WorkerFinally(j)

Shutdown == LookAtJob \/ BeginWait \/ WaitEnds \/ GraceEnds \/ Exit

Next ==
    \/ \E c \in Caller : Serve(c) \/ \E j \in Job : Submit(c, j) \/ CancelLooks(c, j)
    \/ \E j \in Job : BeginWrite(j) \/ Work(j)
    \/ CliTakes \/ CliDrops
    \/ Signal \/ Shutdown

Spec == Init /\ [][Next]_vars

\* Threads that have something to do get to run.  Nothing obliges a body or a
\* write to end: make, flashtool, dfu-util, cmake, git and pio are run without a
\* timeout (run_streamed, build.py:186).  Nor is anyone obliged to submit, to
\* cancel or to stop the agent.
FairSpec ==
    /\ Spec
    /\ \A c \in Caller : WF_vars(Serve(c))
    /\ \A j \in Job : WF_vars(WorkerFinally(j))
    /\ WF_vars(Shutdown)

-----------------------------------------------------------------------------
(* Properties *)

TypeOK ==
    /\ lock \in Job \cup {Cli, None}
    /\ current \in Job \cup {None}
    /\ thread \in Job \cup {None}
    /\ cancel \in BOOLEAN
    /\ state \in [Job -> {"none", "running"} \cup Terminal]
    /\ requested \subseteq Job
    /\ answered \subseteq Job
    /\ work \in [Job -> {"none", "body", "write", "unlock", "free", "gone"}]
    /\ pc \in [Caller -> {"idle", "publish", "start", "fail", "failed", "mark", "set"}]
    /\ arg \in [Caller -> Job \cup {None}]
    /\ stop \in {"up", "asked", "wait", "join", "lost", "closing", "down"}
    /\ deferred \in Job \cup {None}
    /\ watched \in Job \cup {None}
    /\ timedOut \in BOOLEAN
    /\ torn \subseteq [job : Job, by : {"signal", "exit"}]

\* With the slot free, a submit that is refused for the lock is refused because
\* of the CLI, which is what its message says.
FreeSlotFreeLock == current = None => lock \notin Job

\* A body that runs is the one job in the slot and holds the operation lock, so
\* that no other job and no CLI build or flash runs beside it; and at its end the
\* lock is free before the slot is.
BodyOwnsEverything ==
    /\ \A j \in Job : AtWork(j) => lock = j /\ current = j
    /\ FreeSlotFreeLock

\* A cancel that was answered with "cancelling" is not lost: as long as the job's
\* body runs, the event it looks at stays set.
AnsweredCancelStands == \A j \in answered : AtWork(j) => cancel

\* Of the writes that are cut off, the one wait() waits for was cut off by the
\* signal itself, when that reached the tool too, or because the grace ran out:
\* never by the exit of the agent.  That is less than "a flash is never
\* interrupted" (request_stop() and the unit's comment on TimeoutStopSec), which
\* the group's SIGTERM refutes.
AwaitedNotTorn ==
    \A t \in torn : t.job = watched => t.by = "signal" \/ timedOut

\* A job leaves the slot, and with a verdict unless the agent exits first: only
\* a body that never ends, because a command of it hangs, keeps the slot for ever.
JobsEnd ==
    \A j \in Job :
        current = j ~> \/ current # j /\ (state[j] \in Terminal \/ ~Alive)
                       \/ [](AtWork(j))
=============================================================================
