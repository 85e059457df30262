------------------------------- MODULE OpLock -------------------------------
(***************************************************************************)
(* The operation lock (src/mcu_updater/lock.py): an flock on one file plus *)
(* the {pid, label, since} record written inside it.                       *)
(*                                                                         *)
(* A client is whoever calls acquire() and release(): an agent job thread, *)
(* an RPC handler, a CLI command.  A prober is a thread inside holder(),   *)
(* which takes the flock for a moment to find out whether the record is    *)
(* current.  flock belongs to the open file, so two threads of one process *)
(* exclude each other exactly as two processes do.                         *)
(***************************************************************************)
EXTENDS Naturals

CONSTANTS
    Client,      \* callers of acquire()/release()
    Prober,      \* threads inside holder()
    NoOne,       \* nobody: the flock is free, the file is empty
    MaxFaults    \* bound on kills and I/O errors

ASSUME ActorAssumption ==
    /\ Client \cap Prober = {}
    /\ NoOne \notin Client \cup Prober
    /\ MaxFaults \in Nat

VARIABLES
    flock,       \* who holds the kernel lock
    record,      \* whose record is in the file
    cpc,         \* control point of each client
    ppc,         \* control point of each prober
    seen,        \* the record a prober read before probing (local "data")
    answer,      \* what the prober's last holder() returned
    throughout,  \* history: clients that held, recorded, during all the call
    faults

proberVars == <<ppc, seen, answer>>
lockVars == <<flock, record, cpc, proberVars, throughout, faults>>

ClientPC == {"idle", "retry", "locked", "blank", "held", "releasing"}
ProberPC == {"idle", "probe", "clearing", "unlocking", "answered"}

\* Control points at which the client owns the flock.
Owning == {"locked", "blank", "held", "releasing"}

\* Control points at which the prober owns it.
Probing == {"clearing", "unlocking"}

LockInit ==
    /\ flock = NoOne
    /\ record = NoOne
    /\ cpc = [c \in Client |-> "idle"]
    /\ ppc = [q \in Prober |-> "idle"]
    /\ seen = [q \in Prober |-> NoOne]
    /\ answer = [q \in Prober |-> NoOne]
    /\ throughout = [q \in Prober |-> {}]
    /\ faults = 0

-----------------------------------------------------------------------------
(* acquire() *)

\* The kernel grants the flock.
Grant(c) ==
    /\ flock = NoOne
    /\ flock' = c
    /\ cpc' = [cpc EXCEPT ![c] = "locked"]

\* Attempt 0: open a+, flock LOCK_NB; a failure is not yet believed.
TryFlock(c) ==
    /\ cpc[c] = "idle"
    /\ \/ Grant(c)
       \/ /\ flock # NoOne
          /\ cpc' = [cpc EXCEPT ![c] = "retry"]
          /\ UNCHANGED flock
    /\ UNCHANGED <<record, proberVars, throughout, faults>>

\* Attempt 1, after ACQUIRE_RETRY_DELAY: a failure now raises BusyError.
RetryFlock(c) ==
    /\ cpc[c] = "retry"
    /\ \/ Grant(c)
       \/ /\ flock # NoOne
          /\ cpc' = [cpc EXCEPT ![c] = "idle"]
          /\ UNCHANGED flock
    /\ UNCHANGED <<record, proberVars, throughout, faults>>

\* seek(0); truncate(): whatever a dead holder left is gone.
TruncateOld(c) ==
    /\ cpc[c] = "locked"
    /\ record' = NoOne
    /\ cpc' = [cpc EXCEPT ![c] = "blank"]
    /\ UNCHANGED <<flock, proberVars, throughout, faults>>

\* json.dump, flush, fsync: acquire() returns.
WriteRecord(c) ==
    /\ cpc[c] = "blank"
    /\ record' = c
    /\ cpc' = [cpc EXCEPT ![c] = "held"]
    /\ UNCHANGED <<flock, proberVars, throughout, faults>>

\* An I/O error escapes acquire(): the file is closed, which drops the flock,
\* whether or not the record had reached the disk.
AcquireError(c) ==
    /\ cpc[c] \in {"locked", "blank"}
    /\ faults < MaxFaults
    /\ faults' = faults + 1
    /\ \/ record' = record
       \/ cpc[c] = "blank" /\ record' = c
    /\ flock' = NoOne
    /\ cpc' = [cpc EXCEPT ![c] = "idle"]
    /\ UNCHANGED <<proberVars, throughout>>

-----------------------------------------------------------------------------
(* release() *)

\* The client no longer holds: no call in flight sees it held throughout.
Forget(c) == throughout' = [q \in Prober |-> throughout[q] \ {c}]

\* seek(0); truncate(); flush().
ClearRecord(c) ==
    /\ cpc[c] = "held"
    /\ record' = NoOne
    /\ cpc' = [cpc EXCEPT ![c] = "releasing"]
    /\ Forget(c)
    /\ UNCHANGED <<flock, proberVars, faults>>

\* The truncation fails: the unlock is skipped, and close() drops the flock.
ReleaseError(c) ==
    /\ cpc[c] = "held"
    /\ faults < MaxFaults
    /\ faults' = faults + 1
    /\ flock' = NoOne
    /\ cpc' = [cpc EXCEPT ![c] = "idle"]
    /\ Forget(c)
    /\ UNCHANGED <<record, proberVars>>

\* flock LOCK_UN; close().
Unlock(c) ==
    /\ cpc[c] = "releasing"
    /\ flock' = NoOne
    /\ cpc' = [cpc EXCEPT ![c] = "idle"]
    /\ UNCHANGED <<record, proberVars, throughout, faults>>

\* SIGKILL: the kernel drops the flock, the record stays on disk.
Kill(c) ==
    /\ cpc[c] # "idle"
    /\ faults < MaxFaults
    /\ faults' = faults + 1
    /\ flock' = IF flock = c THEN NoOne ELSE flock
    /\ cpc' = [cpc EXCEPT ![c] = "idle"]
    /\ Forget(c)
    /\ UNCHANGED <<record, proberVars>>

-----------------------------------------------------------------------------
(* holder() and _probe_and_clear_if_free() *)

\* holder() starts by reading the file; an empty one is the answer None.
ReadRecord(q) ==
    /\ ppc[q] \in {"idle", "answered"}
    /\ throughout' = [throughout EXCEPT ![q] = {c \in Client : cpc[c] = "held"}]
    /\ \/ /\ record = NoOne
          /\ ppc' = [ppc EXCEPT ![q] = "answered"]
          /\ answer' = [answer EXCEPT ![q] = NoOne]
          /\ UNCHANGED seen
       \/ /\ record # NoOne
          /\ ppc' = [ppc EXCEPT ![q] = "probe"]
          /\ seen' = [seen EXCEPT ![q] = record]
          /\ UNCHANGED answer
    /\ UNCHANGED <<flock, record, cpc, faults>>

\* Bug: a refused probe flock is taken for a granted one, and the record wiped.
ProbeFlockUnchecked(q) ==
    /\ ppc[q] = "probe"
    /\ flock' = q
    /\ ppc' = [ppc EXCEPT ![q] = "clearing"]
    /\ UNCHANGED <<record, cpc, seen, answer, throughout, faults>>

\* Bug: when the probe cannot tell, the lock is called free.
ProbeFlockOptimistic(q) ==
    /\ ppc[q] = "probe"
    /\ ppc' = [ppc EXCEPT ![q] = "answered"]
    /\ answer' = [answer EXCEPT ![q] = NoOne]
    /\ UNCHANGED <<flock, record, cpc, seen, throughout, faults>>

\* flock LOCK_NB on a second open: a failure means "someone really has it".
ProbeFlock(q) ==
    /\ ppc[q] = "probe"
    /\ \/ /\ flock = NoOne
          /\ flock' = q
          /\ ppc' = [ppc EXCEPT ![q] = "clearing"]
          /\ UNCHANGED answer
       \/ /\ flock # NoOne
          /\ ppc' = [ppc EXCEPT ![q] = "answered"]
          /\ answer' = [answer EXCEPT ![q] = seen[q]]
          /\ UNCHANGED flock
    /\ UNCHANGED <<record, cpc, seen, throughout, faults>>

\* Truncate while still holding the flock; an OSError here is swallowed.
ProbeClear(q) ==
    /\ ppc[q] = "clearing"
    /\ ppc' = [ppc EXCEPT ![q] = "unlocking"]
    /\ \/ record' = NoOne /\ UNCHANGED faults
       \/ faults < MaxFaults /\ faults' = faults + 1 /\ UNCHANGED record
    /\ UNCHANGED <<flock, cpc, seen, answer, throughout>>

ProbeUnlock(q) ==
    /\ ppc[q] = "unlocking"
    /\ flock' = NoOne
    /\ ppc' = [ppc EXCEPT ![q] = "answered"]
    /\ answer' = [answer EXCEPT ![q] = NoOne]
    /\ UNCHANGED <<record, cpc, seen, throughout, faults>>

\* The probing process dies while its probe holds the flock.
KillProber(q) ==
    /\ ppc[q] \in Probing
    /\ faults < MaxFaults
    /\ faults' = faults + 1
    /\ flock' = NoOne
    /\ ppc' = [ppc EXCEPT ![q] = "idle"]
    /\ UNCHANGED <<record, cpc, seen, answer, throughout>>

-----------------------------------------------------------------------------
ClientStep(c) ==
    \/ TryFlock(c) \/ RetryFlock(c) \/ TruncateOld(c) \/ WriteRecord(c)
    \/ AcquireError(c) \/ ClearRecord(c) \/ ReleaseError(c) \/ Unlock(c)
    \/ Kill(c)

ProberStep(q) ==
    \/ ReadRecord(q) \/ ProbeFlock(q) \/ ProbeClear(q) \/ ProbeUnlock(q)
    \/ KillProber(q)

LockNext == (\E c \in Client : ClientStep(c)) \/ (\E q \in Prober : ProberStep(q))

LockSpec == LockInit /\ [][LockNext]_lockVars

-----------------------------------------------------------------------------
(* Properties *)

LockTypeOK ==
    /\ flock \in Client \cup Prober \cup {NoOne}
    /\ record \in Client \cup {NoOne}
    /\ cpc \in [Client -> ClientPC]
    /\ ppc \in [Prober -> ProberPC]
    /\ seen \in [Prober -> Client \cup {NoOne}]
    /\ answer \in [Prober -> Client \cup {NoOne}]
    /\ throughout \in [Prober -> SUBSET Client]
    /\ faults \in 0 .. MaxFaults

\* A client that is past acquire() is alone, and the file names it: no probe,
\* release, refused acquire or dying process takes its record away.
HolderIsNamed ==
    \A c \in Client : cpc[c] = "held" =>
        /\ record = c
        /\ \A d \in Client \ {c} : cpc[d] \notin Owning

\* holder() never answers "free" about a lock that one client held, recorded,
\* from the start of the call to its end, however many probes run beside it
\* ("the probe must not report a live holder as free").
NeverHidesHolder ==
    \A q \in Prober :
        ppc[q] = "answered" /\ answer[q] = NoOne => throughout[q] = {}

=============================================================================
