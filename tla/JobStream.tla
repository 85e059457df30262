----------------------------- MODULE JobStream -----------------------------
(***************************************************************************)
(* How a job's log reaches the panel: the ring buffer in the job           *)
(* (src/mcu_updater/jobs.py), the batcher and the emitter                  *)
(* (src/mcu_updater/agent/events.py), the reconnecting main loop           *)
(* (src/mcu_updater/agent/service.py), fw.status and fw.job.get            *)
(* (agent/methods/status.py), and the panel's cursor, resync and restore   *)
(* (ui/src/api/events.ts, ui/src/store/agent.ts).                          *)
(*                                                                         *)
(* Moonraker sits between the two and is not part of the repository: it    *)
(* relays events in the order they were sent, and replies at any moment    *)
(* after the agent gave them.  Requests are served by a thread pool, so    *)
(* they are answered in any order.  A line is its index in its job's log.  *)
(***************************************************************************)
EXTENDS Integers, Sequences, FiniteSets

CONSTANTS
    MaxJobs,     \* bound: jobs submitted, one after the other
    MaxLines,    \* bound: lines of one job
    Ring,        \* log_ring_size: lines a job keeps
    MaxBatch,    \* LogBatcher.MAX_LINES
    MaxTrouble   \* bound: lost connections, manual refreshes and cancels, together

ASSUME StreamAssumption ==
    /\ MaxJobs \in Nat /\ MaxLines \in Nat /\ MaxTrouble \in Nat
    /\ Ring \in Nat \ {0} /\ MaxBatch \in Nat \ {0}

VARIABLES
    slot,        \* the job the runner holds; 0: none
    state,       \* job.state
    next,        \* job._next_seq
    work,        \* control point of each job's thread
    batch,       \* LogBatcher: job and its pending lines [from, to)
    conn,        \* the agent is connected and identified
    main,        \* run_once: where a new connection stands in re-announcing
    snap,        \* the job it took from the slot, and the state it copied
    rpc,         \* cancel() in an RPC thread: the same, one call at a time
    wire,        \* events on their way to the panel
    page,        \* the panel's store
    ping,        \* fw.ping calls of the page: how many asked, how many answered
    refresh,     \* refreshStatus of the page
    gets,        \* fw.job.get calls of the page
    trouble      \* how many connections were lost, refreshes made and cancels called

agent == <<slot, state, next, work, batch>>
link  == <<conn, main, snap, rpc>>
calls == <<ping, refresh, gets>>
logVars  == <<agent, link, wire, page, calls, trouble>>

Jobs == 1..MaxJobs
Oldest(j) == IF next[j] > Ring THEN next[j] - Ring ELSE 0

NoRefresh == [at |-> "no", newer |-> FALSE, job |-> 0, state |-> "none"]
NewPage == [open |-> FALSE, job |-> 0, state |-> "none", log |-> 0, lines |-> {},
            omitted |-> FALSE, cursor |-> 0, crossed |-> FALSE]

LogInit ==
    /\ slot = 0
    /\ state = [j \in Jobs |-> "none"]
    /\ next = [j \in Jobs |-> 0]
    /\ work = [j \in Jobs |-> "none"]
    /\ batch = [job |-> 0, from |-> 0, to |-> 0]
    /\ conn = TRUE /\ main = "serve" /\ snap = [job |-> 0, state |-> "none"]
    /\ rpc = [at |-> "no", job |-> 0, state |-> "none"]
    /\ wire = <<>>
    /\ page = NewPage
    /\ ping = [asked |-> 0, answered |-> 0] /\ refresh = NoRefresh /\ gets = {}
    /\ trouble = 0

-----------------------------------------------------------------------------
(* The agent: emitter and batcher *)

\* EventEmitter.emit: an event of a connection that is down is lost, and so is
\* one that no page is there to receive.
Emit(es) == wire' = IF conn /\ page.open THEN wire \o es ELSE wire

Pending(b) == b.to - b.from
\* Bug: what was sent stays pending.
ClearedLate(b) == [b EXCEPT !.from = IF b.to = 0 THEN 0 ELSE b.to - 1]

Cleared(b) == [b EXCEPT !.from = b.to]

\* _flush_locked: nothing for an empty batch, else one event with all of it.
Batches(b) == IF Pending(b) = 0 THEN <<>>
              ELSE <<[e |-> "log", job |-> b.job, seq |-> b.from, n |-> Pending(b)]>>

\* A job event, and the thread that sends it.
Job(j, s, by) == <<[e |-> "job", job |-> j, state |-> s, by |-> by]>>
Go(j, l) == work' = [work EXCEPT ![j] = l]

\* LogBatcher._tick.
Tick ==
    /\ Pending(batch) > 0
    /\ Emit(Batches(batch))
    /\ batch' = Cleared(batch)
    /\ UNCHANGED <<slot, state, next, work, link, page, calls, trouble>>

-----------------------------------------------------------------------------
(* The agent: a job *)

Submit(j) ==
    /\ slot = 0 /\ state[j] = "none"
    /\ \A i \in 1..(j - 1) : state[i] # "none"
    /\ slot' = j
    /\ state' = [state EXCEPT ![j] = "running"]
    /\ Go(j, "flush")
    /\ UNCHANGED <<next, batch, link, wire, page, calls, trouble>>

\* _on_job_change: first the lines that are pending, ...
FlushFirst(j) ==
    /\ work[j] = "flush"
    /\ Emit(Batches(batch))
    /\ batch' = Cleared(batch)
    /\ Go(j, "send")
    /\ UNCHANGED <<slot, state, next, link, page, calls, trouble>>

\* ... then the event itself.
Announce(j) ==
    /\ work[j] = "send"
    /\ Emit(Job(j, state[j], "worker"))
    /\ Go(j, IF state[j] = "running" THEN "body" ELSE "done")
    /\ UNCHANGED <<slot, state, next, batch, link, page, calls, trouble>>

\* Job.append: the next index; the ring drops its oldest line when full.  A
\* line may be the label of a step(), which is announced after it.
AppendLine(j) ==
    /\ work[j] \in {"body", "last"} /\ next[j] < MaxLines
    /\ next' = [next EXCEPT ![j] = @ + 1]
    /\ \/ work[j] = "body" /\ \E l \in {"line", "step"} : Go(j, l)
       \/ work[j] = "last" /\ Go(j, "lastline")
    /\ UNCHANGED <<slot, state, batch, link, wire, page, calls, trouble>>

\* LogBatcher.add: another job's lines are sent before this one's are taken,
\* and a full batch is sent at once.
Add(j) ==
    /\ work[j] \in {"line", "step", "lastline"}
    /\ LET other == batch.job # j
           grown == [job |-> j, from |-> IF other \/ Pending(batch) = 0 THEN next[j] - 1 ELSE batch.from,
                     to |-> next[j]]
           full  == Pending(grown) >= MaxBatch
       IN  /\ Emit((IF other THEN Batches(batch) ELSE <<>>)
                     \o (IF full THEN Batches(grown) ELSE <<>>))
           /\ batch' = IF full THEN Cleared(grown) ELSE grown
    /\ Go(j, CASE work[j] = "line" -> "body" [] work[j] = "step" -> "flush" [] OTHER -> "free")
    /\ UNCHANGED <<slot, state, next, link, page, calls, trouble>>

\* The body is over; a failure or a cancel says so in one more line.
End(j) ==
    /\ work[j] = "body"
    /\ state' = [state EXCEPT ![j] = "ended"]
    /\ \/ Go(j, "free")
       \/ next[j] < MaxLines /\ Go(j, "last")
    /\ UNCHANGED <<slot, next, batch, link, wire, page, calls, trouble>>

\* The worker's finally: the slot is free before the end is announced.
FreeSlot(j) ==
    /\ work[j] = "free"
    /\ slot' = 0
    /\ Go(j, "flush")
    /\ UNCHANGED <<state, next, batch, link, wire, page, calls, trouble>>

-----------------------------------------------------------------------------
(* The agent: cancel() *)

\* A job that is terminal is not cancelled.  (That the event is then set is
\* JobRunner's business: here a body may end at any moment.)
CancelLooks(j) ==
    /\ conn /\ rpc.at = "no" /\ trouble < MaxTrouble
    /\ state[j] = "running"
    /\ rpc' = [rpc EXCEPT !.at = "flush", !.job = j]
    /\ trouble' = trouble + 1
    /\ UNCHANGED <<agent, conn, main, snap, wire, page, calls>>

\* _on_job_change in the RPC thread: the flush, the copy of the job, the event.
\* The worker goes on between any two of them.
CancelFlushes ==
    /\ rpc.at = "flush"
    /\ Emit(Batches(batch))
    /\ batch' = Cleared(batch)
    /\ rpc' = [rpc EXCEPT !.at = "copy"]
    /\ UNCHANGED <<slot, state, next, work, conn, main, snap, page, calls, trouble>>

CancelCopies ==
    /\ rpc.at = "copy"
    /\ rpc' = [rpc EXCEPT !.at = "tell", !.state = state[rpc.job]]
    /\ UNCHANGED <<agent, conn, main, snap, wire, page, calls, trouble>>

CancelTells ==
    /\ rpc.at = "tell"
    /\ Emit(Job(rpc.job, rpc.state, "cancel"))
    /\ rpc' = [rpc EXCEPT !.at = "no", !.job = 0, !.state = "none"]
    /\ UNCHANGED <<agent, conn, main, snap, page, calls, trouble>>

-----------------------------------------------------------------------------
(* The agent: its connection *)

\* Moonraker goes away: calls that were not answered fail, as does a refresh
\* that waits for one of them.
Drop ==
    /\ conn /\ trouble < MaxTrouble
    /\ conn' = FALSE /\ main' = "down" /\ trouble' = trouble + 1
    /\ ping' = [ping EXCEPT !.asked = 0]
    /\ gets' = {g \in gets : g.answered}
    /\ refresh' = IF \/ refresh.at = "asked"
                     \/ refresh.at = "log" /\ ~\E g \in gets' : g.awaited
                  THEN NoRefresh ELSE refresh
    /\ UNCHANGED <<agent, snap, rpc, wire, page>>

\* connect and handshake: Moonraker tells the pages that the agent is there.
Connect ==
    /\ main = "down"
    /\ conn' = TRUE /\ main' = "look"
    /\ wire' = IF page.open THEN wire \o <<[e |-> "connected"]>> ELSE wire
    /\ UNCHANGED <<agent, snap, rpc, page, calls, trouble>>

\* run_once re-announces a job that outlived the connection: it takes it from
\* the slot, copies it, and sends the copy.
TakeCurrent ==
    /\ main = "look"
    /\ main' = IF slot = 0 THEN "serve" ELSE "copy"
    /\ snap' = [job |-> slot, state |-> "none"]
    /\ UNCHANGED <<agent, conn, rpc, wire, page, calls, trouble>>

CopyCurrent ==
    /\ main = "copy"
    /\ main' = "tell"
    /\ snap' = [snap EXCEPT !.state = state[snap.job]]
    /\ UNCHANGED <<agent, conn, rpc, wire, page, calls, trouble>>

TellCurrent ==
    /\ main = "tell"
    /\ main' = "serve"
    /\ snap' = [job |-> 0, state |-> "none"]
    /\ Emit(Job(snap.job, snap.state, "main"))
    /\ UNCHANGED <<agent, conn, rpc, page, calls, trouble>>

-----------------------------------------------------------------------------
(* The agent answers *)

AnswerPing ==
    /\ conn /\ ping.asked > 0
    /\ ping' = [asked |-> ping.asked - 1, answered |-> ping.answered + 1]
    /\ UNCHANGED <<agent, link, wire, page, refresh, gets, trouble>>

\* Jobs the slot was freed of: the history that `recent` lists, newest first.
Past == {j \in Jobs : state[j] = "ended" /\ slot # j /\ work[j] \in {"flush", "send", "done"}}
Restorable == IF slot # 0 THEN slot
              ELSE IF Past = {} THEN 0 ELSE CHOOSE j \in Past : \A i \in Past : i <= j

\* fw.status: the job in the slot, or else the one that ended last.
AnswerStatus ==
    /\ conn /\ refresh.at = "asked"
    /\ refresh' = [refresh EXCEPT !.at = "answered", !.job = Restorable,
                    !.state = IF Restorable = 0 THEN "none" ELSE state[Restorable]]
    /\ UNCHANGED <<agent, link, wire, page, ping, gets, trouble>>

\* fw.job.get: what the ring still holds from there on.
AnswerGet(g) ==
    /\ conn /\ ~g.answered
    /\ gets' = (gets \ {g}) \cup
         {[g EXCEPT !.answered = TRUE, !.next = next[g.job], !.dropped = Oldest(g.job),
                    !.lo = IF g.from > Oldest(g.job) THEN g.from ELSE Oldest(g.job)]}
    /\ UNCHANGED <<agent, link, wire, page, ping, refresh, trouble>>

-----------------------------------------------------------------------------
(* The page *)

\* A call without an agent to take it fails at once.
AskPing == IF conn THEN [ping EXCEPT !.asked = @ + 1] ELSE ping
AskStatus == IF conn THEN [NoRefresh EXCEPT !.at = "asked"] ELSE NoRefresh
FreeId(gs) == CHOOSE i \in 1..(Cardinality(gs) + 1) : \A g \in gs : g.id # i
AskGet(gs, j, from, awaited) ==
    IF conn THEN gs \cup {[id |-> FreeId(gs), job |-> j, from |-> from, awaited |-> awaited,
                           answered |-> FALSE, lo |-> 0, next |-> 0, dropped |-> 0, old |-> FALSE]}
    ELSE gs

\* The page is loaded: it connects, and pings the agent if there is one.
Open ==
    /\ ~page.open
    /\ page' = [page EXCEPT !.open = TRUE]
    /\ ping' = AskPing
    /\ UNCHANGED <<agent, link, wire, refresh, gets, trouble>>

\* ping(): the log is reasoned about afresh, then refreshStatus, which joins
\* the one that is under way.
TakePing ==
    /\ ping.answered > 0
    /\ ping' = [ping EXCEPT !.answered = @ - 1]
    /\ page' = [NewPage EXCEPT !.open = TRUE, !.crossed = refresh.at # "no"]
    /\ gets' = {[g EXCEPT !.old = TRUE] : g \in gets}
    /\ refresh' = IF refresh.at = "no" THEN AskStatus ELSE refresh
    /\ UNCHANGED <<agent, link, wire, trouble>>

Refresh ==
    /\ page.open /\ refresh.at = "no" /\ trouble < MaxTrouble
    /\ trouble' = trouble + 1
    /\ refresh' = AskStatus
    /\ UNCHANGED <<agent, link, wire, page, ping, gets>>

\* The snapshot's job, unless a job event has come since it was asked for;
\* either way its log from the cursor on.
TakeStatus ==
    /\ refresh.at = "answered"
    /\ LET job == IF refresh.newer THEN page.job ELSE refresh.job
       IN  /\ page' = IF job = 0 THEN page
                      ELSE [page EXCEPT !.job = job, !.state = IF refresh.newer THEN @ ELSE refresh.state]
           /\ gets' = IF job = 0 THEN gets ELSE AskGet(gets, job, page.cursor, TRUE)
           /\ refresh' = IF job # 0 /\ conn THEN [NoRefresh EXCEPT !.at = "log"] ELSE NoRefresh
    /\ UNCHANGED <<agent, link, wire, ping, trouble>>

Largest(a, b) == IF a > b THEN a ELSE b

\* resyncLog: merged by index into what is shown, unless another job is.
Merged(g) ==
    LET kept == IF page.log = g.job THEN page.lines ELSE {}
    IN  [page EXCEPT !.log = g.job, !.lines = kept \cup (g.lo..(g.next - 1)),
                     !.omitted = g.lo > g.from \/ g.dropped > 0,
                     !.cursor = Largest(@, g.next), !.crossed = @ \/ g.old]

TakeGet(g) ==
    /\ g.answered
    /\ page' = IF page.job \in {0, g.job} THEN Merged(g) ELSE page
    /\ gets' = gets \ {g}
    /\ refresh' = IF g.awaited THEN NoRefresh ELSE refresh
    /\ UNCHANGED <<agent, link, wire, ping, trouble>>

\* Bug: a new connection of the agent is only noted.
ReceiveConnectedQuiet ==
    /\ wire # <<>> /\ Head(wire).e = "connected"
    /\ wire' = Tail(wire)
    /\ UNCHANGED <<agent, link, page, calls, trouble>>

\* The agent is back: ping again.
ReceiveConnected ==
    /\ wire # <<>> /\ Head(wire).e = "connected"
    /\ wire' = Tail(wire)
    /\ ping' = AskPing
    /\ UNCHANGED <<agent, link, page, refresh, gets, trouble>>

ReceiveJob ==
    /\ wire # <<>> /\ Head(wire).e = "job"
    /\ wire' = Tail(wire)
    /\ page' = [page EXCEPT !.job = Head(wire).job, !.state = Head(wire).state]
    /\ refresh' = [refresh EXCEPT !.newer = refresh.at \in {"asked", "answered"}]
    /\ UNCHANGED <<agent, link, ping, gets, trouble>>

\* A batch that does not start at the cursor is not shown: the page asks for
\* everything from the cursor on.  Either way the cursor goes behind it.
ReceiveLog ==
    /\ wire # <<>> /\ Head(wire).e = "log"
    /\ wire' = Tail(wire)
    /\ LET b     == Head(wire)
           new   == b.seq..(b.seq + b.n - 1)
           shown == IF page.log = b.job THEN page.lines ELSE {}
           moved == [page EXCEPT !.cursor = b.seq + b.n]
       IN  IF b.seq = page.cursor
           THEN /\ page' = [moved EXCEPT !.log = b.job, !.lines = shown \cup new]
                /\ UNCHANGED gets
           ELSE /\ page' = moved
                /\ gets' = AskGet(gets, b.job, page.cursor, FALSE)
    /\ UNCHANGED <<agent, link, ping, refresh, trouble>>

-----------------------------------------------------------------------------
Work(j) == AppendLine(j) \/ Add(j) \/ End(j) \/ FreeSlot(j) \/ FlushFirst(j) \/ Announce(j)
Cancel == CancelFlushes \/ CancelCopies \/ CancelTells
Reannounce == TakeCurrent \/ CopyCurrent \/ TellCurrent
Answer == AnswerPing \/ AnswerStatus \/ \E g \in gets : AnswerGet(g)
Take == TakePing \/ TakeStatus \/ \E g \in gets : TakeGet(g)
Receive == ReceiveConnected \/ ReceiveJob \/ ReceiveLog

LogNext ==
    \/ \E j \in Jobs : Submit(j) \/ Work(j) \/ CancelLooks(j)
    \/ Cancel \/ Tick \/ Drop \/ Connect \/ Reannounce
    \/ Open \/ Refresh \/ Answer \/ Take \/ Receive

LogSpec == LogInit /\ [][LogNext]_logVars

\* Every thread goes on, except that nothing obliges a body to add a line or to
\* end (a command of it may hang); a lost connection is made again, and what was
\* asked or sent gets through while it lasts.
FairLogSpec ==
    /\ LogSpec
    /\ \A j \in Jobs : WF_logVars(work[j] # "body" /\ Work(j))
    /\ WF_logVars(Cancel) /\ WF_logVars(Tick) /\ WF_logVars(Connect) /\ WF_logVars(Reannounce)
    /\ WF_logVars(AnswerPing) /\ WF_logVars(AnswerStatus) /\ WF_logVars(\E g \in gets : AnswerGet(g))
    /\ WF_logVars(TakePing) /\ WF_logVars(TakeStatus) /\ WF_logVars(\E g \in gets : TakeGet(g))
    /\ WF_logVars(Receive)

-----------------------------------------------------------------------------
(* Properties *)

Stage == {"none", "flush", "send", "body", "line", "step", "last", "lastline", "free", "done"}
State == {"none", "running", "ended"}
Index == 0..MaxLines

Event ==
    [e : {"connected"}]
        \cup [e : {"job"}, job : Jobs, state : State, by : {"worker", "cancel", "main"}]
        \cup [e : {"log"}, job : Jobs, seq : Index, n : 1..MaxBatch]

Get == [id : Nat, job : Jobs, from : Nat, awaited : BOOLEAN, answered : BOOLEAN,
        lo : Nat, next : Index, dropped : Index, old : BOOLEAN]

\* The types of what the agent keeps and sends.
AgentOK ==
    /\ slot \in {0} \cup Jobs
    /\ state \in [Jobs -> State] /\ next \in [Jobs -> Index] /\ work \in [Jobs -> Stage]
    /\ batch \in [job : {0} \cup Jobs, from : Index, to : Index]
    /\ conn \in BOOLEAN /\ main \in {"down", "look", "copy", "tell", "serve"}
    /\ snap \in [job : {0} \cup Jobs, state : State]
    /\ rpc \in [at : {"no", "flush", "copy", "tell"}, job : {0} \cup Jobs, state : State]
    /\ wire \in Seq(Event)

\* The types; a batch on the wire is never empty and never beyond MAX_LINES.
LogTypeOK ==
    /\ AgentOK
    /\ page \in [open : BOOLEAN, job : {0} \cup Jobs, state : State, log : {0} \cup Jobs,
                 lines : SUBSET Index, omitted : BOOLEAN,
                 cursor : Index, crossed : BOOLEAN]
    /\ ping \in [asked : Nat, answered : Nat]
    /\ refresh \in [at : {"no", "asked", "answered", "log"}, newer : BOOLEAN,
                    job : {0} \cup Jobs, state : State]
    /\ gets \subseteq Get
    /\ trouble \in 0..MaxTrouble

Logs(q) == {i \in 1..Len(q) : q[i].e = "log"}
After(q, i) == q[i].seq + q[i].n

\* The batches of one job go out in order and never repeat a line: what lets a
\* page tell a gap from an append by the first index alone (_flush_locked).
LinesInOrder ==
    \A i, k \in Logs(wire) : i < k /\ wire[i].job = wire[k].job => After(wire, i) <= wire[k].seq

\* When a job's own thread announces its end, every line of it has gone out
\* before (_on_job_change: or the UI shows "finished" above the last few lines).
VerdictAfterLines ==
    \A j \in Jobs : state[j] = "ended" /\ work[j] \in {"send", "done"} =>
                      ~(batch.job = j /\ Pending(batch) > 0)

\* ... and none goes out after it.
SaysEnd(e) == e.e = "job" /\ e.state = "ended" /\ e.by = "worker"

NoLineAfterVerdict ==
    \A i \in 1..Len(wire), k \in Logs(wire) :
        SaysEnd(wire[i]) /\ wire[k].job = wire[i].job => k < i

\* What a listener is sent of a job is its lines, in order, each once, and behind
\* the last of them the end its own thread announces.  The copies that cancel()
\* and run_once() send come from other threads and keep no order: one may say
\* "ended" before the last lines, or "running" after the end.
LinesThenVerdict == LinesInOrder /\ VerdictAfterLines /\ NoLineAfterVerdict

Retained(j) == Oldest(j)..(next[j] - 1)

\* An open page gets to show a job that ended, with its retained log: no call
\* or refresh is left hanging, whatever connection was lost.
LogArrives ==
    \A j \in Jobs : state[j] = "ended" /\ page.open ~>
        \/ page.crossed
        \/ page.job = j /\ Retained(j) \subseteq page.lines
=============================================================================
