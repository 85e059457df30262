----------------------------- MODULE FlashBatch -----------------------------
(***************************************************************************)
(* One batch of writes (src/mcu_updater/flashers/batch.py write_all) with  *)
(* the write of a Katapult board inside it (flashers/flash.py              *)
(* flash_katapult, flash_katapult_can): what is written, in what order,    *)
(* under which outage, what the result and the ledger say, and where a     *)
(* board is left.                                                          *)
(*                                                                         *)
(* services_stopped() is one step in and one out here (ServiceOutage has   *)
(* its insides).  The loop over CAN interfaces is one probe and one write. *)
(* A write that needs no outage is one through dfu-util, to a bare board   *)
(* that has no bootloader to ask and no serial to file a record under.     *)
(***************************************************************************)
EXTENDS Integers

CONSTANTS
    Board,       \* targets of the batch
    Refused,     \* devices selection found no flasher for
    Flasher,
    Place,       \* [Board -> Nat]: the order of the selection
    FlasherOf,   \* [Board -> Flasher]
    Kind,        \* [Board -> {"usb", "native", "bridge", "dfu"}]: how it is reached
    Known,       \* [Board -> BOOLEAN]: of a CAN board, bridge or not is known
    Linked,      \* the sidecar names the address the image is linked for
    Nobody,      \* no board, no flasher
    MaxEvents    \* how often boards are unplugged or power-cycled

ASSUME BatchAssumption ==
    /\ Nobody \notin Board \cup Flasher
    /\ Board \cap Refused = {}
    /\ Place \in [Board -> Nat]
    /\ \A b, c \in Board : Place[b] = Place[c] => b = c
    /\ FlasherOf \in [Board -> Flasher]
    /\ Kind \in [Board -> {"usb", "native", "bridge", "dfu"}]
    /\ Known \in [Board -> BOOLEAN]
    /\ Linked \in BOOLEAN
    /\ MaxEvents \in Nat

VARIABLES
    mode,        \* [Board -> Mode]: what the board is running
    holds,       \* [Board -> {"old", "new", "half"}]: the application in flash
    jump,        \* [Board -> {"match", "other", "silent"}]: the address its
                 \* bootloader reports, against the image's
    klipper,     \* "up" or "down": the services of the batch's stop
    pc,          \* where write_all is
    group,       \* "free", then "stopped"
    todo,        \* boards of the group not begun
    session,     \* the flasher whose prepared() is open
    cur,         \* the board being written
    path,        \* the path the write will address: that of the mode it names
    moved,       \* the probe rebooted the board into katapult
    flashed,     \* result
    failures,    \* result
    told,        \* failures that say the board sits in its bootloader
    ledger,      \* boards whose record was filed
    unfiled,     \* boards whose record could not be filed
    late,        \* boards that had not come back when settled() gave up
    cancel,      \* somebody asked to cancel the job
    raised,      \* how write_all ended
    events       \* unplugs and power cycles so far

devices == <<mode, holds, jump>>
results == <<flashed, failures, told, ledger, unfiled, late>>
vars == <<devices, klipper, pc, group, todo, session, cur, path, moved, results,
          cancel, raised, events>>

\* leaving, rebooting: off the bus for a moment, on the way to katapult, to the
\* application.
Mode == {"app", "katapult", "leaving", "rebooting", "rom", "gone"}

\* FlashtoolFlasher.needs_services_stopped, DfuUtil.needs_services_stopped.
Stops(b) == Kind[b] # "dfu"
OnCan(b) == Kind[b] \in {"native", "bridge"}

First(b, S) == b \in S /\ \A c \in S : Place[b] <= Place[c]
Mine == {b \in todo : FlasherOf[b] = session}

\* group_by_stop.
InGroup(g) == {b \in Board : Stops(b) = (g = "stopped")}

Init ==
    /\ mode \in [Board -> {"app", "katapult", "rom"}]
    /\ \A b \in Board : (mode[b] = "rom") = (Kind[b] = "dfu")
    /\ holds = [b \in Board |-> "old"]
    /\ jump \in [Board -> {"match", "other", "silent"}]
    /\ \A b \in Board : Kind[b] \in {"bridge", "dfu"} => jump[b] = "silent"
    /\ klipper = "up"
    /\ pc = "open"
    /\ group = "free"
    /\ todo = InGroup("free")
    /\ session = Nobody
    /\ cur = Nobody
    /\ path = "none"
    /\ moved = FALSE
    /\ flashed = {}
    /\ failures = Refused
    /\ told = {}
    /\ ledger = {}
    /\ unfiled = {}
    /\ late = {}
    /\ cancel = FALSE
    /\ raised = "no"
    /\ events = 0

-----------------------------------------------------------------------------
(* The loop *)

Raise(r) == raised' = r /\ pc' = "unwind"

\* by_flasher: one session per flasher, in the order first seen.  prepared() may
\* raise, and then no device of the batch is tried any more.
OpenSession ==
    /\ pc = "open"
    /\ todo # {}
    /\ \/ /\ \E b \in todo : First(b, todo) /\ session' = FlasherOf[b]
          /\ pc' = "next"
          /\ UNCHANGED raised
       \/ /\ Raise("error")
          /\ UNCHANGED session
    /\ UNCHANGED <<devices, klipper, group, todo, cur, path, moved, results,
                   cancel, events>>

\* Cancellation is honoured between devices only.
NextBoard ==
    /\ pc = "next"
    /\ Mine # {}
    /\ IF cancel
       THEN Raise("cancelled") /\ UNCHANGED <<todo, cur, path, moved>>
       ELSE /\ \E b \in Mine : /\ First(b, Mine)
                               /\ cur' = b
                               /\ todo' = todo \ {b}
            /\ pc' = "locate"
            /\ path' = "none"
            /\ moved' = FALSE
            /\ UNCHANGED raised
    /\ UNCHANGED <<devices, klipper, group, session, results, cancel, events>>

CloseSession ==
    /\ pc = "next"
    /\ Mine = {}
    /\ session' = Nobody
    /\ pc' = "open"
    /\ UNCHANGED <<devices, klipper, group, todo, cur, path, moved, results,
                   cancel, raised, events>>

\* After the free group the stopped one, within one outage for all of it.
EnterOutage ==
    /\ pc = "open" /\ todo = {} /\ group = "free"
    /\ InGroup("stopped") # {}
    /\ group' = "stopped"
    /\ \/ /\ klipper' = "down"
          /\ todo' = InGroup("stopped")
          /\ UNCHANGED <<pc, raised>>
       \/ Raise("error") /\ UNCHANGED <<klipper, todo>>
    /\ UNCHANGED <<devices, session, cur, path, moved, results, cancel, events>>

LeaveOutage ==
    /\ pc = "open" /\ todo = {}
    /\ group = "stopped" \/ InGroup("stopped") = {}
    /\ klipper' = "up"
    /\ pc' = IF Board = {} THEN "done" ELSE "ready"
    /\ UNCHANGED <<devices, group, todo, session, cur, path, moved, results,
                   cancel, raised, events>>

\* An exception closes the session and the outage on its way out.
Unwind ==
    /\ pc = "unwind"
    /\ session' = Nobody
    /\ klipper' = "up"
    /\ pc' = "done"
    /\ UNCHANGED <<devices, group, todo, cur, path, moved, results, cancel,
                   raised, events>>

\* on_ready: Klipper reports ready, or the wait gives up.
Ready ==
    /\ pc = "ready"
    /\ pc' = "done"
    /\ raised' \in {"no", "error"}
    /\ UNCHANGED <<devices, klipper, group, todo, session, cur, path, moved,
                   results, cancel, events>>

-----------------------------------------------------------------------------
(* One board *)

\* The write raised: the batch goes on with the next board.
Fail(saysWhere) ==
    /\ failures' = failures \cup {cur}
    /\ told' = IF saysWhere THEN told \cup {cur} ELSE told
    /\ cur' = Nobody
    /\ pc' = "next"
    /\ UNCHANGED <<flashed, ledger, unfiled, late>>

\* device_for: a USB board has the path of what it runs now; CAN has no path.
\* A known bridge is not asked, nor is anything when there is no address of ours.
Locate ==
    /\ pc = "locate"
    /\ \/ /\ Kind[cur] = "usb" => mode[cur] \in {"app", "katapult"}
          /\ path' = IF Kind[cur] = "usb" THEN mode[cur] ELSE "bus"
          /\ pc' = IF /\ Linked
                      /\ Kind[cur] # "dfu"
                      /\ ~(Kind[cur] = "bridge" /\ Known[cur])
                   THEN "probe" ELSE "write"
          /\ UNCHANGED <<cur, results>>
       \/ /\ Kind[cur] = "usb" /\ mode[cur] \notin {"app", "katapult"}
          /\ Fail(FALSE)
          /\ UNCHANGED path
    /\ UNCHANGED <<devices, klipper, group, todo, session, moved, cancel,
                   raised, events>>

\* What answers at the path: a bridge never answers the status probe.
Answers ==
    IF Kind[cur] = "usb" THEN path = mode[cur]
    ELSE Kind[cur] = "native" /\ mode[cur] \in {"app", "katapult"}

ProbeMoves ==
    mode' = [mode EXCEPT ![cur] =
               IF @ = "katapult" THEN @
               ELSE IF Kind[cur] = "usb" THEN "leaving" ELSE "katapult"]

\* Mutant: an address that could not be read is no reason to refuse.
ProbeUnread ==
    /\ pc = "probe" /\ Answers
    /\ moved' = (mode[cur] = "app")
    /\ ProbeMoves
    /\ IF jump[cur] # "other"
       THEN /\ pc' = IF moved' /\ Kind[cur] = "usb" THEN "await" ELSE "write"
            /\ UNCHANGED <<cur, results>>
       ELSE Fail(moved')
    /\ UNCHANGED <<holds, jump, klipper, group, todo, session, path, cancel,
                   raised, events>>

\* flashtool -s: nothing is written, but a running board ends up in katapult.
Probe ==
    /\ pc = "probe"
    /\ Answers
    /\ moved' = (mode[cur] = "app")
    /\ ProbeMoves
    /\ \/ /\ jump[cur] = "match"
          /\ pc' = IF moved' /\ Kind[cur] = "usb" THEN "await" ELSE "write"
          /\ UNCHANGED <<cur, results>>
       \/ /\ jump[cur] # "match"
          /\ Fail(moved')
       \/ /\ Kind[cur] = "usb"          \* it asked, and then failed
          /\ Fail(moved')
    /\ UNCHANGED <<holds, jump, klipper, group, todo, session, path, cancel,
                   raised, events>>

\* No answer, or over CAN one that broke off after the reboot.  Of a CAN board
\* that may be a bridge the write is tried instead.
ProbeSilent ==
    /\ pc = "probe"
    /\ \/ UNCHANGED mode
       \/ /\ Kind[cur] = "native" /\ mode[cur] = "app"
          /\ mode' = [mode EXCEPT ![cur] = "katapult"]
    /\ IF Kind[cur] = "usb" \/ Known[cur]
       THEN Fail(FALSE)
       ELSE pc' = "write" /\ UNCHANGED <<cur, results>>
    /\ UNCHANGED <<holds, jump, klipper, group, todo, session, path, moved,
                   cancel, raised, events>>

\* Mutant: the poll has no deadline.
AwaitForever ==
    /\ pc = "await"
    /\ mode[cur] = "katapult"
    /\ path' = "katapult"
    /\ pc' = "write"
    /\ UNCHANGED <<devices, klipper, group, todo, session, cur, moved, results,
                   cancel, raised, events>>

\* _await_bootloader_device insists on the katapult path, or gives up.
Await ==
    /\ pc = "await"
    /\ \/ /\ mode[cur] = "katapult"
          /\ path' = "katapult"
          /\ pc' = "write"
          /\ UNCHANGED <<cur, results>>
       \/ Fail(TRUE) /\ UNCHANGED path
    /\ UNCHANGED <<devices, klipper, group, todo, session, moved, cancel,
                   raised, events>>

\* flashtool -f: there is nobody at a path that is not the board's own.
Reached ==
    CASE Kind[cur] = "usb" -> path = mode[cur]
      [] Kind[cur] = "dfu" -> mode[cur] = "rom"
      [] OTHER -> mode[cur] \in {"app", "katapult"}

Write ==
    /\ pc = "write"
    /\ Reached
    /\ holds' = [holds EXCEPT ![cur] = "new"]
    /\ mode' = [mode EXCEPT ![cur] = "rebooting"]
    /\ pc' = "record"
    /\ UNCHANGED <<jump, klipper, group, todo, session, cur, path, moved, results,
                   cancel, raised, events>>

\* The tool's exit code says that it failed.  Nothing was sent, or -f got no
\* further than the reboot, or the transfer broke off, or all of it was written
\* and the tool failed after that, with the board already on its way or not.
WriteFails ==
    /\ pc = "write"
    /\ \/ UNCHANGED <<mode, holds>>
       \/ /\ Reached
          /\ \E h \in {"old", "half", "new"} : holds' = [holds EXCEPT ![cur] = h]
          /\ \/ mode' = [mode EXCEPT ![cur] =
                           IF Kind[cur] = "dfu" THEN "rom" ELSE "katapult"]
             \/ /\ holds'[cur] = "new"
                /\ mode' = [mode EXCEPT ![cur] = "rebooting"]
    /\ Fail(FALSE)
    /\ UNCHANGED <<jump, klipper, group, todo, session, path, moved, cancel,
                   raised, events>>

\* Mutant: the record is filed once the board is seen running.
RecordIfBack ==
    /\ pc = "record"
    /\ ledger' = IF Kind[cur] # "dfu" /\ (Kind[cur] = "usb" => mode[cur] = "app")
                 THEN ledger \cup {cur} ELSE ledger
    /\ flashed' = flashed \cup {cur}
    /\ pc' = "settle"
    /\ UNCHANGED <<devices, klipper, group, todo, session, cur, path, moved,
                   unfiled, failures, told, late, cancel, raised, events>>

\* Straight after the write: a record that cannot be filed is only warned about,
\* and a bare board has none.
Record ==
    /\ pc = "record"
    /\ \/ Kind[cur] = "dfu" /\ UNCHANGED <<ledger, unfiled>>
       \/ Kind[cur] # "dfu" /\ ledger' = ledger \cup {cur} /\ UNCHANGED unfiled
       \/ Kind[cur] # "dfu" /\ unfiled' = unfiled \cup {cur} /\ UNCHANGED ledger
    /\ flashed' = flashed \cup {cur}
    /\ pc' = "settle"
    /\ UNCHANGED <<devices, klipper, group, todo, session, cur, path, moved,
                   failures, told, late, cancel, raised, events>>

\* A USB board is waited for; a board that does not come back is warned about.
Settle ==
    /\ pc = "settle"
    /\ \/ /\ Kind[cur] = "usb" => mode[cur] = "app"
          /\ UNCHANGED late
       \/ /\ Kind[cur] = "usb"
          /\ late' = late \cup {cur}
    /\ cur' = Nobody
    /\ pc' = "next"
    /\ UNCHANGED <<devices, klipper, group, todo, session, path, moved, flashed,
                   failures, told, ledger, unfiled, cancel, raised, events>>

-----------------------------------------------------------------------------
(* Outside *)

Step ==
    \/ OpenSession \/ NextBoard \/ CloseSession
    \/ EnterOutage \/ LeaveOutage \/ Unwind \/ Ready
    \/ Locate \/ Probe \/ ProbeSilent \/ Await
    \/ Write \/ WriteFails \/ Record \/ Settle

rest == <<holds, jump, klipper, pc, group, todo, session, cur, path, moved,
          results, raised>>

\* The board's new path appears.
Enumerate(b) ==
    /\ mode[b] \in {"leaving", "rebooting"}
    /\ mode' = [mode EXCEPT ![b] = IF @ = "leaving" THEN "katapult" ELSE "app"]
    /\ UNCHANGED <<rest, cancel, events>>

Unplug(b) ==
    /\ events < MaxEvents
    /\ events' = events + 1
    /\ mode' = [mode EXCEPT ![b] = "gone"]
    /\ UNCHANGED <<rest, cancel>>

\* Power comes back: the application starts, unless it is cut off or the boot
\* jumper of a bare board is still fitted.
PowerCycle(b) ==
    /\ events < MaxEvents
    /\ events' = events + 1
    /\ mode' = [mode EXCEPT ![b] =
                  IF Kind[b] = "dfu" /\ holds[b] # "new" THEN "rom"
                  ELSE IF holds[b] = "half" THEN "katapult" ELSE "app"]
    /\ UNCHANGED <<rest, cancel>>

RequestCancel ==
    /\ ~cancel
    /\ cancel' = TRUE
    /\ UNCHANGED <<rest, mode, events>>

Next ==
    \/ Step
    \/ \E b \in Board : Enumerate(b) \/ Unplug(b) \/ PowerCycle(b)
    \/ RequestCancel

Spec == Init /\ [][Next]_vars

\* The job's thread runs, and every wait it does has a timeout.  flashtool and
\* dfu-util have none (run_streamed, build.py:186): nothing obliges a probe or a
\* write to end.
Commanding == pc \in {"probe", "write"}

FairSpec == Spec /\ WF_vars(~Commanding /\ Step)

-----------------------------------------------------------------------------
(* Properties *)

TypeOK ==
    /\ mode \in [Board -> Mode]
    /\ holds \in [Board -> {"old", "new", "half"}]
    /\ jump \in [Board -> {"match", "other", "silent"}]
    /\ klipper \in {"up", "down"}
    /\ pc \in {"open", "next", "locate", "probe", "await", "write", "record",
               "settle", "ready", "unwind", "done"}
    /\ group \in {"free", "stopped"}
    /\ todo \in SUBSET Board
    /\ session \in Flasher \cup {Nobody}
    /\ cur \in Board \cup {Nobody}
    /\ path \in {"none", "app", "katapult", "bus"}
    /\ moved \in BOOLEAN
    /\ flashed \in SUBSET Board
    /\ failures \in SUBSET (Board \cup Refused)
    /\ told \in SUBSET Board
    /\ ledger \in SUBSET Board
    /\ unfiled \in SUBSET Board
    /\ late \in SUBSET Board
    /\ cancel \in BOOLEAN
    /\ raised \in {"no", "error", "cancelled"}
    /\ events \in 0 .. MaxEvents

\* A board whose bootloader would not start the image is not written, not in
\* part either: a USB board, or a CAN board known to be native (flash.py
\* _verify_offset_before_write, flash_katapult_can).
OffsetGuarded ==
    \A b \in Board :
        (/\ Linked
         /\ Kind[b] = "usb" \/ (Kind[b] = "native" /\ Known[b])
         /\ jump[b] # "match")
        => holds[b] = "old"

\* A board that needs the services stopped is never touched while they run, the
\* probe that reboots it included, and one that does not is not held up by them
\* (batch.py write_all).
TouchedInItsOutage ==
    [][\A b \in Board :
         (holds'[b] # holds[b] \/ (mode[b] = "app" /\ mode'[b] = "leaving"))
         => (klipper = "down") = Stops(b)]_vars

Written == {b \in Board : holds[b] = "new" /\ ~(pc = "record" /\ cur = b)}

\* The ledger has a board if and only if its image was written in full and no
\* failure of it was reported: whatever failed, was cancelled or gave up
\* afterwards (batch.py Ruling 12).
LedgerExact == ledger \cup unfiled = {b \in Written \ failures : Kind[b] # "dfu"}

\* A batch that ends normally accounts for every device once: flashed holds the
\* new image, everything else is among the failures, and one that is aborted has
\* not touched what it lists nowhere (batch.py write_all).  A failure may hold
\* the old image, half of one, or all of the new one: the tool's exit code is all
\* that is known of it.
ResultExact ==
    /\ flashed \cap failures = {}
    /\ (pc = "done" /\ raised = "no") => flashed \cup failures = Board \cup Refused
    /\ flashed = Written \ failures
    /\ \A b \in Board : holds[b] = "half" => b \in failures

\* What is filed and what is reported agree with what the boards hold, at every
\* moment of the batch and on every way out of it.
AccountExact == LedgerExact /\ ResultExact

\* A USB board the check rebooted, whose write was then refused, is never left in
\* its bootloader without the failure saying so (flash.py aftermath).
RefusalTellsWhere ==
    [][\A b \in Board :
         (/\ Kind[b] = "usb"
          /\ b \in failures' \ failures
          /\ pc \in {"probe", "await"}
          /\ moved' /\ mode'[b] \in {"leaving", "katapult"})
         => b \in told']_vars

\* Services start again only once every USB board that was written is back on
\* the bus, or was waited for in vain (flashtool.py settled).
SettledBeforeRestart ==
    [][(klipper = "down" /\ klipper' = "up") =>
         \A b \in flashed :
            (Kind[b] = "usb" /\ mode[b] = "rebooting") => b \in late]_vars

\* Whatever boards do, the batch ends, and with the services running, unless a
\* tool that was started hangs for ever.
BatchEnds == <>[](pc = "done" /\ klipper = "up") \/ <>[]Commanding
=============================================================================
