------------------------------ MODULE Adoption ------------------------------
(***************************************************************************)
(* How a board gets into the registry: asked for (tracking.py, the agent's *)
(* registry methods), renamed on the way (provisioning, the identity       *)
(* methods), or found by the bus watcher after a first install             *)
(* (flashers/pairings.py, adopt_paired).                                   *)
(*                                                                         *)
(* A Registry.mutate is one step: ConfigStore shows that it is serialised. *)
(* The reads that decide, the write to the board and the write to the file *)
(* are separate steps, and so are the read and the write of the pairings   *)
(* file, which has no lock.  A CLI add-serial is another process: it has   *)
(* the operation lock but not the agent's identity lock.                   *)
(***************************************************************************)
EXTENDS Integers, FiniteSets, Sequences

CONSTANTS
    Board, Serial, Uuid, Type, Key, Handler, Cli, None,
    Kconfig,        \* the types that Kconfig+make builds
    Helped,         \* the types whose helper provisions, on its own as well
    Diagnostic,     \* the serials that a helper calls not durable
    Durable,        \* the serials that provisioning gives
    Factory,        \* Factory[b]: the serial board b starts with
    CandidateKeys,  \* CandidateKeys[s]: the keys a serial may be paired by
    RomKey,         \* RomKey[b]: what the ROM calls b, None if it cannot say
    TTL, MaxNow, MaxAsks, MaxEvents

Id == Serial \cup Uuid
Asker == Handler \cup Cli
Watcher == "watcher"
Job == "job"

ASSUME AdoptionAssumption ==
    /\ Kconfig \subseteq Type /\ Helped \subseteq Type \ Kconfig
    /\ Diagnostic \subseteq Serial /\ Durable \subseteq Serial \ Diagnostic
    /\ Serial \cap Uuid = {}
    /\ Handler \cap Cli = {} /\ {Watcher, Job} \cap Asker = {}
    /\ None \notin Asker \cup {Watcher, Job} \cup Key \cup Type \cup Id
    /\ Factory \in [Board -> Serial \ Durable]
    /\ \A b, c \in Board : Factory[b] = Factory[c] => b = c
    /\ CandidateKeys \in [Serial -> Seq(Key)]
    /\ \A s \in Diagnostic \cup Durable : CandidateKeys[s] = <<>>
    /\ RomKey \in [Board -> Key \cup {None}]
    /\ TTL \in Nat /\ MaxNow \in Nat /\ MaxAsks \in Nat /\ MaxEvents \in Nat

VARIABLES
    declared,   \* the types the document declares
    ids,        \* ids[t]: the serials and CAN uuids tracked under type t
    name,       \* name[b]: the serial board b enumerates as
    used,       \* the serials that were ever given out (random, not reused)
    bus,        \* the boards on the bus
    pairings,   \* the pairings file: per key, what was installed and when
    now,        \* the time, in units of the pairings' life
    writable,   \* runner and enable_flashing: may the agent write a board
    oplock,     \* who has the operation lock
    identity,   \* who has the agent's identity lock
    known,      \* history: the serials that an answer, an error or the log named,
                \* and those that the wire lost on the way
    unsaid,     \* history: those given to a board whose record then failed with
                \* an OSError of the save, which names nothing
    dropped,    \* history: an unasked provision failed
    desk,       \* per asker, the request being handled and its last answer
    watcher,    \* the bus watcher's handler
    job,        \* the add_mcu job
    owed,       \* history: per key, the type an install is owed
    crossed,    \* history: a pairings file was written from a stale read
    clash,      \* history: a CLI tracked a serial beside an identity write
    asks, events

registry == <<declared, ids>>
boards == <<name, used, bus>>
file == <<pairings, owed, crossed>>
told == <<known, unsaid, dropped>>
locks == <<oplock, identity>>
vars == <<declared, ids, name, used, bus, pairings, now, writable, oplock,
          identity, desk, watcher, job, owed, crossed, clash, known, unsaid,
          dropped, asks, events>>

NoEntry == [type |-> None, at |-> 0]
Idle == [pc |-> "idle", op |-> "none", type |-> None, id |-> None,
         got |-> None]

Init ==
    /\ declared = Type
    /\ ids = [t \in Type |-> {}]
    /\ name = Factory
    /\ used = {Factory[b] : b \in Board}
    /\ bus \in SUBSET Board
    /\ pairings = [k \in Key |-> NoEntry] /\ owed = pairings
    /\ now = 0 /\ writable = TRUE
    /\ oplock = None /\ identity = None
    /\ desk = [a \in Asker |-> Idle]
    /\ watcher = [pc |-> "idle", seen |-> {}, retry |-> FALSE, names |-> {},
                  todo |-> {}, keys |-> {}, key |-> None, snap |-> pairings]
    /\ job = [pc |-> "idle", type |-> None, key |-> None, snap |-> pairings]
    /\ crossed = FALSE /\ clash = FALSE
    /\ known = {} /\ unsaid = {} /\ dropped = FALSE
    /\ asks = 0 /\ events = 0

-----------------------------------------------------------------------------
(* The registry document (config.py) *)

names == declared \cap Kconfig
all_serials == Serial \cap UNION {ids[t] : t \in names}
find_declared_types(i) == {t \in declared : i \in ids[t]}

\* Mutant: only the types that Kconfig+make builds are asked.
elsewhere_of_names(i, t) == {u \in names : i \in ids[u]} \ {t}

elsewhere(i, t) == find_declared_types(i) \ {t}

\* A serial or a uuid, of a type of either builder: one list in its section.
add_declared(t, i) == ids' = [ids EXCEPT ![t] = @ \cup {i}]
remove_declared(t, i) == ids' = [ids EXCEPT ![t] = @ \ {i}]

Asks == asks < MaxAsks /\ asks' = asks + 1

\* One mutate, whatever else is under way.
serial_remove(t, s) ==
    /\ Asks
    /\ t \in declared
    /\ s \in ids[t]
    /\ remove_declared(t, s)
    /\ UNCHANGED <<told, declared, boards, file, now, writable, locks, desk,
                   watcher, job, clash, events>>

canbus_remove(t, u) ==
    /\ Asks
    /\ t \in declared
    /\ u \in ids[t]
    /\ remove_declared(t, u)
    /\ UNCHANGED <<told, declared, boards, file, now, writable, locks, desk,
                   watcher, job, clash, events>>

canbus_add(t, u) ==
    /\ Asks
    /\ t \in declared
    /\ elsewhere(u, t) = {}
    /\ add_declared(t, u)
    /\ UNCHANGED <<told, declared, boards, file, now, writable, locks, desk,
                   watcher, job, clash, events>>

\* The agent declares types for Kconfig+make only.
type_add(t) ==
    /\ Asks
    /\ t \in Kconfig \ declared
    /\ declared' = declared \cup {t}
    /\ UNCHANGED <<told, ids, boards, file, now, writable, locks, desk, watcher,
                   job, clash, events>>

\* Only serials are counted before it is done without force.
type_remove(t, force) ==
    /\ Asks
    /\ t \in declared
    /\ force \/ ids[t] \cap Serial = {}
    /\ declared' = declared \ {t}
    /\ ids' = [ids EXCEPT ![t] = {}]
    /\ UNCHANGED <<told, boards, file, now, writable, locks, desk, watcher, job,
                   clash, events>>

-----------------------------------------------------------------------------
(* Asked for: fw.serial.add, fw.identity.*, add-serial *)

\* The agent refuses a second identity change instead of queueing it; the CLI
\* knows no such lock.
_identity_change(a) ==
    /\ Asks
    /\ desk[a].pc = "idle"
    /\ IF a \in Handler THEN identity = None /\ identity' = a
                        ELSE UNCHANGED identity

Request(a, op, t, i, pc) ==
    desk' = [desk EXCEPT ![a] = [Idle EXCEPT !.op = op, !.type = t, !.id = i,
                                             !.pc = pc]]

is_trackable(t, i) == i \in Diagnostic => t \notin Helped \cap declared

\* Everything that can refuse the write is checked first; a refusal that left
\* no trace is not a step.
add_serial(a, t, i) ==
    /\ _identity_change(a)
    /\ IF is_trackable(t, i)
       THEN Request(a, "add", t, i, "record")
       ELSE /\ a \in Handler => writable
            /\ elsewhere(i, t) = {}
            /\ Request(a, "add", t, i, "lock")
    /\ UNCHANGED <<told, registry, boards, file, now, writable, oplock, watcher,
                   job, clash, events>>

\* Mutant: a second identity change is let in beside the first.
AskBesides(a, op, i) ==
    /\ Asks
    /\ desk[a].pc = "idle"
    /\ identity' = a
    /\ writable
    /\ i \in (IF op = "provision" THEN Diagnostic ELSE Durable)
    /\ Request(a, op, None, i, "lock")
    /\ UNCHANGED <<told, registry, boards, file, now, writable, oplock, watcher,
                   job, clash, events>>

\* identity_provision, identity_clear: the one helper that calls the serial
\* its own, and no type that tracks it.
identity_method(a, op, i) ==
    /\ a \in Handler
    /\ _identity_change(a)
    /\ writable
    /\ i \in (IF op = "provision" THEN Diagnostic ELSE Durable)
    /\ find_declared_types(i) = {}
    /\ Request(a, op, None, i, "lock")
    /\ UNCHANGED <<told, registry, boards, file, now, writable, oplock, watcher,
                   job, clash, events>>

Done(a) ==
    /\ desk' = [desk EXCEPT ![a] = Idle]
    /\ identity' = IF a \in Handler THEN None ELSE identity

Tell(s) == known' = known \cup ({s} \ {None}) /\ UNCHANGED <<unsaid, dropped>>
Lose(s) == unsaid' = unsaid \cup ({s} \ {None}) /\ UNCHANGED <<known, dropped>>

\* exclusive(): a held lock is Busy, never waited for.
TakeLock(a) ==
    /\ desk[a].pc = "lock"
    /\ \/ /\ oplock = None
          /\ oplock' = a
          /\ desk' = [desk EXCEPT ![a].pc = "write"]
          /\ UNCHANGED identity
       \/ /\ oplock # None
          /\ Done(a)
          /\ UNCHANGED oplock
    /\ UNCHANGED <<told, registry, boards, file, now, writable, watcher, job,
                   clash, asks, events>>

\* A board answers under the serial it is asked for, or not at all.
Named(i) == {b \in bus : name[b] = i /\ Factory[b] \in Diagnostic}

\* provision_roadrunner, clear_roadrunner: the name a board comes back with.
NewNames(b, op) ==
    IF op = "clear" THEN {Factory[b]} ELSE Durable \ used

Rename(b, n) ==
    /\ name' = [name EXCEPT ![b] = n]
    /\ used' = used \cup {n}
    /\ UNCHANGED bus

\* Nothing answers and nothing is written; or the board comes back in time; or
\* too late, when the error names it.  A reply lost on the wire is one more way
\* to be told.
WriteIdentity(a) ==
    /\ desk[a].pc = "write"
    /\ oplock' = None
    /\ \/ Done(a) /\ UNCHANGED <<boards, told>>
       \/ \E b \in Named(desk[a].id) : \E n \in NewNames(b, desk[a].op) :
            /\ Rename(b, n)
            /\ \/ /\ desk[a].op = "add"
                  /\ desk' = [desk EXCEPT ![a].pc = "record", ![a].got = n]
                  /\ UNCHANGED <<identity, told>>
               \/ Done(a) /\ Tell(n)
    /\ UNCHANGED <<registry, file, now, writable, watcher, job, clash, asks,
                   events>>

\* What add_serial tracks: the serial the board has now.
Tracked(a) == IF desk[a].got = None THEN desk[a].id ELSE desk[a].got

\* Mutant: the refusal of the registry is passed on as it is.
RecordQuietly(a) ==
    /\ desk[a].pc = "record"
    /\ \/ /\ desk[a].type \in declared
          /\ elsewhere(Tracked(a), desk[a].type) = {}
          /\ add_declared(desk[a].type, Tracked(a))
       \/ UNCHANGED ids
    /\ Done(a)
    /\ UNCHANGED <<told, clash, declared, boards, file, now, writable, oplock,
                   watcher, job, asks, events>>

\* _record: in one mutate, which may be refused for its own reasons (a type or
\* an owner that changed): such a refusal after a provision names the serial the
\* board has now.  A file that cannot be saved is an OSError, which nobody
\* annotates.
_record(a) ==
    /\ desk[a].pc = "record"
    /\ \/ /\ desk[a].type \in declared
          /\ elsewhere(Tracked(a), desk[a].type) = {}
          /\ add_declared(desk[a].type, Tracked(a))
          /\ clash' = (clash \/ (a \in Cli /\ identity # None))
          /\ Tell(desk[a].got)
       \/ UNCHANGED <<ids, clash>> /\ Tell(desk[a].got)
       \/ UNCHANGED <<ids, clash>> /\ Lose(desk[a].got)
    /\ Done(a)
    /\ UNCHANGED <<declared, boards, file, now, writable, oplock, watcher,
                   job, asks, events>>

-----------------------------------------------------------------------------
(* The pairings file (pairings.py): read whole, written whole, unlocked *)

fresh(e) == e.type # None /\ now - e.at <= TTL

prune(data) == [k \in Key |-> IF fresh(data[k]) THEN data[k] ELSE NoEntry]

\* Mutant: a pairing that was acted on stays in the file.
KeepPairing(data, k) == data

forget(data, k) == [data EXCEPT ![k] = NoEntry]
record(data, k, t) == [data EXCEPT ![k] = [type |-> t, at |-> now]]

WriteFile(data, snap) ==
    /\ pairings' = data
    /\ crossed' = (crossed \/ snap # pairings)

-----------------------------------------------------------------------------
(* The first install (add_mcu_start) *)

\* Synchronous checks, then a job: it holds the operation lock to its end.  The
\* board is in its ROM, not on the bus.
add_mcu_start(t, b) ==
    /\ Asks
    /\ job.pc = "idle" /\ oplock = None
    /\ writable
    /\ t \in declared
    /\ b \notin bus
    /\ oplock' = Job
    /\ job' = [job EXCEPT !.pc = "write", !.type = t, !.key = RomKey[b]]
    /\ UNCHANGED <<told, registry, boards, file, now, writable, identity, desk,
                   watcher, clash, events>>

JobWrites ==
    /\ job.pc = "write"
    /\ job' = [job EXCEPT !.pc = IF job.key = None THEN "wait" ELSE "read"]
    /\ UNCHANGED <<told, registry, boards, file, now, writable, locks, desk,
                   watcher, clash, asks, events>>

RecordRead ==
    /\ job.pc = "read"
    /\ job' = [job EXCEPT !.pc = "record", !.snap = pairings]
    /\ UNCHANGED <<told, registry, boards, file, now, writable, locks, desk,
                   watcher, clash, asks, events>>

RecordWrite ==
    /\ job.pc = "record"
    /\ WriteFile(record(job.snap, job.key, job.type), job.snap)
    /\ owed' = [owed EXCEPT ![job.key] = [type |-> job.type, at |-> now]]
    /\ job' = [job EXCEPT !.pc = "wait"]
    /\ UNCHANGED <<told, registry, boards, now, writable, locks, desk, watcher,
                   clash, asks, events>>

\* The write failed, or the wait for the board is over.
JobEnds ==
    /\ job.pc \in {"write", "wait"}
    /\ job' = [job EXCEPT !.pc = "idle"]
    /\ oplock' = None
    /\ UNCHANGED <<told, registry, boards, file, now, writable, identity, desk,
                   watcher, clash, asks, events>>

-----------------------------------------------------------------------------
(* The bus watcher's handler (_on_bus_change): adopt_paired, auto_provision *)

Seen == {name[b] : b \in bus}

\* auto_provision takes its policy once, for every board of the sweep; the
\* helper's family has opted in.
Unprovisioned(seen) ==
    IF writable THEN seen \cap Diagnostic ELSE {}

_poll ==
    /\ watcher.pc = "idle"
    /\ Seen # watcher.seen \/ watcher.retry
    /\ watcher' = [watcher EXCEPT !.pc = "adopt", !.seen = Seen,
                                  !.retry = FALSE]
    /\ UNCHANGED <<told, registry, boards, file, now, writable, locks, desk, job,
                   clash, asks, events>>

StartProvisioning(w) ==
    [w EXCEPT !.pc = "provision", !.todo = Unprovisioned(w.seen)]

\* The keys that exactly one untracked board answers to.
Unambiguous(serials) ==
    {k \in Key : Cardinality({s \in serials :
        \E i \in DOMAIN CandidateKeys[s] : CandidateKeys[s][i] = k}) = 1}

\* Everything the decisions are taken from is read here; or it cannot be read.
AdoptScan ==
    LET untracked == Seen \ all_serials
    IN  /\ watcher.pc = "adopt"
        /\ watcher' \in
             {StartProvisioning(watcher),
              IF \A k \in Key : pairings[k] = NoEntry
              THEN StartProvisioning(watcher)
              ELSE [watcher EXCEPT !.pc = "each", !.names = names,
                      !.todo = untracked, !.keys = Unambiguous(untracked)]}
        /\ UNCHANGED <<told, registry, boards, file, now, writable, locks, desk,
                       job, clash, asks, events>>

\* type_for: the first of its keys that is unambiguous and paired.
PairedKey(s) ==
    LET good(i) == /\ CandidateKeys[s][i] \in watcher.keys
                   /\ fresh(pairings[CandidateKeys[s][i]])
    IN  {CandidateKeys[s][i] : i \in {i \in DOMAIN CandidateKeys[s] :
            good(i) /\ \A j \in 1 .. i - 1 : ~good(j)}}

\* One untracked board: adopted under the type its key is paired with, which
\* was there at the scan and is there in the mutate; or left alone.
AdoptOne(s) ==
    /\ watcher.pc = "each" /\ s \in watcher.todo
    /\ \/ /\ watcher' = [watcher EXCEPT !.todo = @ \ {s}]
          /\ UNCHANGED ids
       \/ \E k \in PairedKey(s) :
            LET t == pairings[k].type
            IN  /\ t \in watcher.names \cap declared
                /\ s \notin ids[t]
                /\ add_declared(t, s)
                /\ watcher' = [watcher EXCEPT !.todo = @ \ {s}, !.key = k,
                                              !.pc = "forget"]
    /\ UNCHANGED <<told, declared, boards, file, now, writable, locks, desk, job,
                   clash, asks, events>>

\* forget() and prune() read the file, then write it.
ReadFile ==
    /\ \/ watcher.pc = "forget"
       \/ watcher.pc = "each" /\ watcher.todo = {}
    /\ watcher' = [watcher EXCEPT !.snap = pairings,
                     !.pc = IF @ = "forget" THEN "forgetting" ELSE "pruning"]
    /\ UNCHANGED <<told, registry, boards, file, now, writable, locks, desk, job,
                   clash, asks, events>>

ForgetWrite ==
    /\ watcher.pc = "forgetting"
    /\ WriteFile(forget(watcher.snap, watcher.key), watcher.snap)
    /\ owed' = [owed EXCEPT ![watcher.key] = NoEntry]
    /\ watcher' = [watcher EXCEPT !.pc = "each", !.key = None]
    /\ UNCHANGED <<told, registry, boards, now, writable, locks, desk, job, clash,
                   asks, events>>

\* Nothing is written when nothing goes.
PruneWrite ==
    /\ watcher.pc = "pruning"
    /\ IF prune(watcher.snap) = watcher.snap
       THEN UNCHANGED file
       ELSE WriteFile(prune(watcher.snap), watcher.snap) /\ UNCHANGED owed
    /\ watcher' = StartProvisioning(watcher)
    /\ UNCHANGED <<told, registry, boards, now, writable, locks, desk, job, clash,
                   asks, events>>

\* Mutant: a held lock is a refusal like any other.
DropBusy(s) ==
    /\ watcher.pc = "provision" /\ s \in watcher.todo
    /\ \/ /\ oplock = None
          /\ oplock' = Watcher
          /\ watcher' = [watcher EXCEPT !.pc = "write"]
       \/ /\ oplock # None
          /\ watcher' = [watcher EXCEPT !.todo = @ \ {s}]
          /\ UNCHANGED oplock
    /\ UNCHANGED <<told, registry, boards, file, now, writable, identity, desk,
                   job, clash, asks, events>>

\* A held lock is the one refusal that is tried again, at the next poll.
TakeOrRetry(s) ==
    /\ watcher.pc = "provision" /\ s \in watcher.todo
    /\ \/ /\ oplock = None
          /\ oplock' = Watcher
          /\ watcher' = [watcher EXCEPT !.pc = "write"]
       \/ /\ oplock # None
          /\ watcher' = [watcher EXCEPT !.todo = @ \ {s}, !.retry = TRUE]
          /\ UNCHANGED oplock
    /\ UNCHANGED <<told, registry, boards, file, now, writable, identity, desk,
                   job, clash, asks, events>>

\* The board of the sweep is given a name, if it is still there under the old
\* and answers; the log says which, or warns with the old one.
AutoProvision(s) ==
    /\ watcher.pc = "write" /\ s \in watcher.todo
    /\ oplock' = None
    /\ watcher' = [watcher EXCEPT !.pc = "provision", !.todo = @ \ {s}]
    /\ \/ \E b \in Named(s) : \E n \in Durable \ used :
            Rename(b, n) /\ Tell(n)
       \/ dropped' = TRUE /\ UNCHANGED <<boards, known, unsaid>>
    /\ UNCHANGED <<registry, file, now, writable, identity, desk, job, clash,
                   asks, events>>

HandlerReturns ==
    /\ watcher.pc = "provision" /\ watcher.todo = {}
    /\ watcher' = [watcher EXCEPT !.pc = "idle"]
    /\ UNCHANGED <<told, registry, boards, file, now, writable, locks, desk, job,
                   clash, asks, events>>

-----------------------------------------------------------------------------
(* From outside *)

Happens == events < MaxEvents /\ events' = events + 1

Plug(b) ==
    /\ Happens
    /\ bus' = IF b \in bus THEN bus \ {b} ELSE bus \cup {b}
    /\ UNCHANGED <<told, registry, name, used, file, now, writable, locks, desk,
                   watcher, job, clash, asks>>

\* settings_set, from another tab.
SetFlashing ==
    /\ Happens
    /\ writable' = ~writable
    /\ UNCHANGED <<told, registry, boards, file, now, locks, desk, watcher, job,
                   clash, asks>>

Tick ==
    /\ now < MaxNow
    /\ now' = now + 1
    /\ UNCHANGED <<told, registry, boards, file, writable, locks, desk, watcher,
                   job, clash, asks, events>>

Next ==
    \/ \E t \in Type :
         \/ \E s \in Serial : serial_remove(t, s)
         \/ \E u \in Uuid : canbus_add(t, u) \/ canbus_remove(t, u)
         \/ type_add(t)
         \/ \E force \in BOOLEAN : type_remove(t, force)
         \/ \E a \in Asker, i \in Serial : add_serial(a, t, i)
         \/ \E b \in Board : add_mcu_start(t, b)
    \/ \E a \in Asker :
         \/ \E op \in {"provision", "clear"}, i \in Serial :
               identity_method(a, op, i)
         \/ TakeLock(a) \/ WriteIdentity(a) \/ _record(a)
    \/ JobWrites \/ RecordRead \/ RecordWrite \/ JobEnds
    \/ _poll \/ AdoptScan \/ ReadFile \/ ForgetWrite \/ PruneWrite
    \/ \E s \in Serial : AdoptOne(s) \/ TakeOrRetry(s) \/ AutoProvision(s)
    \/ HandlerReturns
    \/ \E b \in Board : Plug(b)
    \/ SetFlashing \/ Tick

\* The threads go on, and the watcher polls: the helper of an identity write and
\* the wait for a board have timeouts.  The write of an install has none
\* (run_streamed's default): nothing is assumed of its end.
Fairness ==
    /\ \A a \in Asker : WF_vars(TakeLock(a) \/ WriteIdentity(a) \/ _record(a))
    /\ WF_vars(job.pc # "write" /\ (RecordRead \/ RecordWrite \/ JobEnds))
    /\ WF_vars(_poll \/ AdoptScan \/ ReadFile \/ ForgetWrite \/ PruneWrite
               \/ HandlerReturns
               \/ \E s \in Serial : AdoptOne(s) \/ TakeOrRetry(s) \/ AutoProvision(s))

Spec == Init /\ [][Next]_vars
FairSpec == Spec /\ Fairness

-----------------------------------------------------------------------------
(* Properties *)

Pc == {"idle", "lock", "write", "record"}
Entry == [type : Type \cup {None}, at : 0 .. MaxNow]
Pairings == [Key -> Entry]

\* Every variable holds a value of its type.
TypeOK ==
    /\ declared \subseteq Type
    /\ ids \in [Type -> SUBSET Id]
    /\ name \in [Board -> Serial]
    /\ used \subseteq Serial
    /\ bus \subseteq Board
    /\ pairings \in Pairings /\ owed \in Pairings
    /\ now \in 0 .. MaxNow
    /\ writable \in BOOLEAN /\ crossed \in BOOLEAN /\ clash \in BOOLEAN
    /\ oplock \in Asker \cup {Watcher, Job, None}
    /\ identity \in Handler \cup {None}
    /\ desk \in [Asker -> [pc : Pc, op : {"none", "add", "provision", "clear"},
                           type : Type \cup {None}, id : Serial \cup {None},
                           got : Serial \cup {None}]]
    /\ known \subseteq Serial /\ unsaid \subseteq Serial /\ dropped \in BOOLEAN
    /\ watcher \in [pc : {"idle", "adopt", "each", "forget", "forgetting",
                          "pruning", "provision", "write"},
                    seen : SUBSET Serial, retry : BOOLEAN, names : SUBSET Type,
                    todo : SUBSET Serial, keys : SUBSET Key,
                    key : Key \cup {None}, snap : Pairings]
    /\ job \in [pc : {"idle", "write", "read", "record", "wait"},
                type : Type \cup {None}, key : Key \cup {None}, snap : Pairings]
    /\ asks \in 0 .. MaxAsks /\ events \in 0 .. MaxEvents

\* A board that a request or the watcher renamed is called by a name that an
\* answer, an error or the log gave, or that is being recorded now: a refusal
\* that comes after the write says so (tracking.py, add_serial).  Two ways leave
\* a name unsaid: a save that fails with an OSError (`unsaid'), and a reply that
\* the wire lost, which the model counts as said.
NameIsKnown ==
    \A b \in Board : name[b] \in Durable =>
        \/ name[b] \in known \cup unsaid
        \/ \E a \in Asker : desk[a].pc = "record" /\ desk[a].got = name[b]

\* An identity write of the agent never takes away the name under which a board
\* is tracked, whatever was tracked since its check; only an add-serial of the
\* CLI can slip in between (_identity_change).
NeverRetiresTracked ==
    [][\A a \in Handler, b \in Board :
         desk[a].pc = "write" /\ desk'[a].pc # "write" /\ name'[b] # name[b]
         => find_declared_types(name[b]) = {} \/ clash]_vars

\* No serial or uuid comes to be tracked under a second type, but by the late
\* adoption, which asks the types of one builder only (_elsewhere_error).
OneOwner ==
    [][\A i \in Id :
         Cardinality({t \in Type : i \in ids'[t]}) <= 1
         \/ {t \in Type : i \in ids'[t]} \subseteq {t \in Type : i \in ids[t]}
         \/ watcher.pc = "each"]_vars

\* The watcher adopts a board as the type that its key is owed to: a pairing
\* that was acted on, or is too old, adopts nothing, unless two updates of the
\* file crossed (adopt_paired: "the pairing is consumed").
AdoptsWhatIsOwed ==
    [][\A t \in Type, s \in Serial :
         watcher.pc = "each" /\ watcher'.pc = "forget" /\ s \in ids'[t] \ ids[t]
         => crossed \/ (/\ fresh(owed[watcher'.key])
                        /\ owed[watcher'.key].type = t)]_vars

\* A board that a sweep found to need a name gets one, however often the lock
\* was held, unless it leaves, writing is switched off, the write fails, or the
\* write of an install hangs for ever with the lock.
AutoProvisions ==
    \A s \in Diagnostic :
        watcher.pc = "provision" /\ s \in watcher.todo
        ~> s \notin Seen \/ ~writable \/ dropped \/ [](job.pc = "write")

=============================================================================
