# mcu-updater: verification development

mcu-updater builds and flashes the firmware of every microcontroller of a
Klipper printer. It is used from a command line and, through Moonraker, from a
web panel served by a long-running agent. This directory holds TLA+ models of
the parts of it that are hard to test, the TLC runs that check them on small
instances, and TLAPS proofs of their main properties for every instance.

Paths below are relative to the repository; `mcu_updater/` stands for
`src/mcu_updater/`.

## 1. The system

| component | source | state it keeps | operations | who uses it |
| --- | --- | --- | --- | --- |
| operation lock | `lock.py` | an flock, the `{pid, label, since}` record in the file | acquire, release, holder | agent jobs, CLI, status, registry edits |
| service outage | `service.py` | the journal on disk, what is stopped (in systemd) | services_stopped, reconcile | flash jobs of the agent, the CLI; `ExecStopPost` of the unit |
| job runner | `jobs.py` | the slot, the shared cancel event, each job's state and log ring | submit, cancel, wait, the worker | every long RPC method, the agent's shutdown |
| flash batch | `flashers/batch.py`, `flash.py`, `flashtool.py` | the result, the current session, the boards themselves | write_all, flash_katapult(_can), settle | fw.flash, fw.flash_all, fw.update_all, CLI |
| build and provenance | `build.py`, `verdict.py`, `states.py` | staged image, sidecar, flash ledger, the Makefile patch | build, artifact_status, record, verdicts | build and bulk jobs, status |
| bulk jobs | `agent/methods/bulk.py` | what was selected | build, flash, flash_all, update_all | fw.* RPC |
| job log stream | `agent/events.py`, `agent/service.py`, `ui/src/store/agent.ts`, `ui/src/api/events.ts` | the batch, the connection, the panel's cursor and lines | add, flush, run_once, job.get, resync, ping | the panel |
| profiles, sessions | `profiles.py`, `providers/kconfig.py` | each .config and its .bak, the type's own profile, the profile record, open sessions | apply, derive, capture, forget, reseed, session open, save | build, the panel, CLI |
| agent connection | `agent/rpc.py` | pending futures, the dispatch pool | call, dispatch, reconnect | the agent |
| bus watcher, state emitter | `agent/events.py`, `provisioning.py` | the last fingerprint, the retry flag | poll, adopt, provision, notify | the agent |
| registry and config document | `config.py`, `cfgdoc.py`, `cfgsnapshot.py`, `typelist.py`, `firmware.py`, `settings.py`, `seed.py` | the file, the cached parse | read, Registry.mutate, settings.mutate, seed | everything |
| tracking, pairings, adoption | `tracking.py`, `flashers/pairings.py`, `agent/methods/flash.py` | the pairings file | track, record, adopt, prune | first installs, the bus watcher |
| providers | `providers/` | a build directory, the staged images, the build record | configure, build, record, judge | build, flash, status |
| discovery, helpers | `discovery/`, `helpers/` | none of their own (screens: a listener's cache) | scan, listen, confirm, provision, request BOOTSEL | status, flash |
| first-install and PlatformIO flashers, their choice | `flashers/bootsel.py`, `dfu_util.py`, `platformio.py`, `registry.py`, `spec.py` | a mounted volume | scan, select, write | write_all, add_mcu |
| status and targets | `agent/methods/status.py`, `inventory.py` | none | status, targets, plan | the panel |
| CLI, TUI, panel components | `cli.py`, `tui.py`, `ui/src/components` | none | commands | the user |

`PROJECT.json` lists the components with the files of each, what is modelled of
them and what is not.

**How they interact.** An RPC handler thread submits a job; the runner takes the
operation lock and the slot and starts a worker thread; the worker runs a body
which builds (Provenance, Builders) or writes boards (FlashBatch, Builders, or
FirstInstall for a bare one, by the flasher Selection names) inside an outage
(ServiceOutage). A board that was set up is adopted by the bus watcher (Adoption); what a
Kconfig build compiles is a .config that sessions and profiles own (Profiles). A
job's lines go through the ring buffer and the batcher to the
panel (JobStream). A CLI command is another process that uses the same lock,
journal, staged images and ledger. systemd may stop the agent at any moment
(JobRunner has the deferred shutdown, ServiceOutage the net behind it). The
user, git and hand builds change the inputs of a build whenever they like.

**What is hard.** Two processes and several threads share files (lock record,
journal, config, ledger, pairings) with few locks in common; a kill may fall
between any two steps and the recovery code must find a consistent disk; a board
disappears and comes back under another path in the middle of its write; the
build compares inputs that move while it runs; and the panel rebuilds a log from
events and replies that overtake each other. Each such place is a hazard in
`PROJECT.json`, with its line and the properties that catch it, or why none does.

## 2. The modules

Each component has a module; `MC<module>` instantiates it for TLC; the theorems
are in `<module>Proofs`, those of OpLock in JobRunnerProofs, those of JobStream in
FlashBatchProofs and those of ConfigStore in ProfilesProofs (hence the names `LockSpec`,
`LogSpec`, `StoreSpec` and so on in these three). No module has a recursive operator, so that each can be
proved about. Boards, units, threads and contents are model values; a hash of
a file is the file's content; the text of messages and logs is left out.

**OpLock** (`lock.py`). A client goes idle -> (retry) -> locked -> blank -> held
-> releasing: the flock, the truncation, the write of the record, and the unlock
are separate steps, as are the four of `holder()`'s probe (read, flock, clear,
unlock). A kill drops the flock and leaves the record; an I/O error may strike
the record's write. flock belongs to an open file, so a thread and a process are
the same kind of client. `throughout` is a history variable: who held the lock,
recorded, during the whole of a probe.

**ServiceOutage** (`service.py`, `scripts/mcu-updater.service`). `up` is what
systemd runs; `journal` the file; `frame` the stack of blocks a process is in;
`todo` the entry it read when it started. `Enter` filters the units, `RecordStop`
writes the journal, then each unit is stopped, asked about (`ConfirmDown`,
`StopTimeout`), the body writes, `RestartUnit` brings units back in reverse,
`WriteEnd` and the clear follow. `Launch` and `ReconcileUnit` are a process's
start. `ExecStopPost` starts Klipper after the agent died. `owed` is a history
variable: what the tool has stopped and not started. Faults are counted by kind.
**OutagePromise** is what all that is for: a unit goes down only after a durable
promise to bring it back, and a promise is struck out only when it is settled.
The block and its journal implement it (`KeepsPromise`, a refinement).

**JobRunner** (`jobs.py`, `agent/service.py`). A step is a critical section of
`_slot_lock`, or what lies between two. Publishing a job, making its thread,
looking at its state to cancel it, and setting the event are separate steps of
RPC threads; the worker's verdict, unlock and slot release are separate steps of
its own. The shutdown asks for the current job, waits for it if it is a flash,
and exits at the end of a grace period. A SIGTERM may reach the tool that writes,
too, as systemd's does; `torn` lists the writes that were cut off, and by what: the
signal, or the exit.

**Provenance** (`build.py`, `verdict.py`, `profiles.py`, `agent/methods/bulk.py`).
A build is: seed check, patch, make, restore, hash, stage, describe, sidecar,
clean; between any two of them an edit, a pull, a seed bump, a patch edit, a hand
build, a hand flash, an unplug or a kill may come. `artifact_status`, `decide` and
`needs_flash` are the code's own judgements as operators. `job.still`, `quiet`
and `sound` are history: nothing moved while this image was being described; the
same for the image on disk; this tool wrote the board last.

**FlashBatch** (`flashers/batch.py`, `flash.py`, `flashtool.py`). `write_all`'s two
groups, its loop, the offset probe that reboots a board, the wait for its
bootloader, the write, the ledger record and the settling wait, with cancel
between boards. Boards are unplugged and power-cycled at any moment, and every
step may fail; a write that is reported as failed leaves the old image, half of the
new one, or all of it, since the tool's exit code is all that is known. `services_stopped()` is one step in and one out: ServiceOutage has
its insides.

**JobStream** (`jobs.py`, `agent/events.py`, `agent/service.py`,
`agent/methods/status.py`, `ui/src/api/events.ts`, `ui/src/store/agent.ts`). A
worker adds a line to the ring and then to the batcher; the batcher flushes when
full, by its ticker, or before a change of state is announced; `run_once`
re-announces a job after a reconnect from a copy taken earlier, and `cancel()` flushes,
copies and tells in its RPC thread; the panel appends
a batch that continues its cursor, ignores an old one, and asks `fw.job.get` for a
gap. Moonraker is not part of the repository: it relays events in order and
replies at any later moment.

**ConfigStore** (`cfgsnapshot.py`, `config.py`, `settings.py`, `seed.py`). A text is
the set of entries in it, one per writer; a file is an inode with a text, an mtime
and a ctime, stamped by a clock coarser than `time_ns`; the path and the `.tmp`
name inodes, which are reused. A reader goes open, fstat, lookup, read, fstat,
store, each a step (the cache's own lock makes lookup and store atomic); a writer
goes lock, load, change, write `.tmp`, replace, invalidate, release. A writer in
another process invalidates nothing of the agent's. The user rewrites in place
(with an mtime of his choice, as `cp -p` does), replaces or deletes the file. All
texts have one size, the case in which the stat key tells least. `seen` is
history: the texts a reader's handle has had since its open; `crossed` marks a
writer under way during a hand edit.

**Adoption** (`tracking.py`, `flashers/pairings.py`, `provisioning.py`, the agent's
registry and identity methods, `agent/events.py`, `agent/methods/flash.py`). `declared` and `ids` are the
registry; a mutation of it is one step, because ConfigStore shows that they are
serialised, but what was read before it is a step of its own. `desk[a]` is the request
of an RPC thread or of a CLI command: checks, the operation lock, the write of a
board's new name, the record. The CLI has no identity lock. The add_mcu job and
the bus watcher read the pairings file, then write it, with no lock between.
`watcher` goes poll, adopt (each board), forget or prune, provision (each board),
and keeps its retry flag. Boards come and go, time passes, flashing is switched
off. A save may fail with an error of the tool's own, which carries the new name, or
with an OSError, which does not. `known`, `unsaid`, `dropped`, `owed`, `crossed` and `clash` are
history: the names anybody was told, those that such an OSError left unsaid, a
failed provision, what an install is owed, two updates of the pairings
file that crossed, an add of the CLI beside an identity write of the agent.

**Selection** (`flashers/registry.py`, `spec.py`, each flasher's `supports`,
`artifacts.py`, `helpers/`) has no state: who supports a device, whose image is staged,
who is chosen, and what a refusal advises, as operators over lists of flashers.

**FirstInstall** (`agent/methods/flash.py`, `flashers/flash.py`, `bootsel.py`,
`dfu_util.py`, `platformio.py`, `discovery/`, `helpers/klipper.py`) extends it: two boards
on a bench that are plugged, pulled, held in their ROM, mounted and reset while
add_mcu scans, refuses or submits, writes, records the pairing, and waits for who
appears; or while a running RP2040 is asked for BOOTSEL and written there. What a
board's flash holds (`low`, `old`, torn or whole, at which address) decides what it
starts. A PlatformIO board is written at the tty of the scan, whoever has it by then
(`OnTty`). `Follow` is a user who does what the last refusal said. `job.meant` is whom
the scan or the request meant; `moved` is who was plugged or reset since.

**Profiles** (`profiles.py`, `agent/methods/profiles.py`, `agent/methods/build.py`,
`providers/kconfig.py`, `build.py`). A .config is the set of answers that differ from a default; `Off`
are those a minimal config spells as a comment. `apply_seed`, `_keep_current_answers`,
`Parse`, `derive_bootloader`, `Aside`, `Place`, `Record`, `Note` are the job, one file
operation each; `Fails` and `Crash` may come between them, as may an editor, a pull
or a forget, which take no lock. Sessions open, change, save and are evicted. A status
compares hashes of files; one that is gone "cannot tell" (`SeedMoved`). `mine`
is history: the answers the user last gave that no profile gave, forgotten where the
code gives them up (`GivesUp`); `stale[f]`: the record does not tell what the last job
wrote.

**Builders** (`providers/cmake.py`, `providers/pio.py`, `flashers/platformio.py`,
`discovery/knomi_serial/`, `agent/methods/build.py`, `flash.py`, `bulk.py`, `status.py`)
extends Selection. One type, built by CMake or PlatformIO. A build samples its source,
configures, links, stages the .uf2 and the raw image, samples again and records. A
flash is the rows a user sees, the outage, a listen for screens, the port of each, the upload that
compiles what is stale, the record and the ledger entry. The tree, the target, the
staged files, the devices' sockets and Klipper change from outside. A screen whose
firmware does not speak the printer's protocol (`Speaks`) asks for a flash, whatever
its version. `flick` and `sound` are history. `flick`: something moved under a recorded
build that its record cannot show, which for PlatformIO is anything that moves while it
builds. `sound`: the devices this tool wrote last, whose write was noted and filed
without a failure.

## 3. What the runs check

| run | shows | instance and bounds | states |
| --- | --- | --- | --- |
| `lock` | the holder is alone and named; no probe hides a holder | 2 clients, 2 probers, 2 faults | 31 thousand |
| `outage_agent` | the journal covers what is down, writes are quiet, units come back unless a write hangs for ever; refinement of OutagePromise | one process, 3 units, 2 kills and 2 failing stops | 1.3 thousand |
| `outage_pair` | nothing stays down when nobody is under way; only the net starts a unit the tool had not stopped | agent and CLI, the CLI with nested blocks, every fault once | 154 thousand |
| `jobs` | one body at a time, owning the lock, which is free before the slot; an answered cancel stands; an awaited write is not cut off by the exit; jobs end unless a command hangs | 2 jobs (a build, a flash), 2 handler threads, the CLI, a shutdown | 309 thousand |
| `provenance` | status, ledger and verdict are true of image and board | 1 board, 2 contents, 2 commits, 1 patch line, 2 outside events | 1.7 million |
| `batch` | no write without its offset known; what result and ledger say of each board; that it ends unless a tool hangs | a DFU board, a CAN node, a USB board, a bridge, a refused device, 1 outside event | 1.6 million |
| `log` | order, the worker's verdict after its lines, the log arrives | 1 job of 2 lines, ring of 1, batch of 2, 1 lost connection, refresh or cancel | 592 thousand |
| `config` | the cached parse is the file's whenever its key is; a hit is a text the reader's handle had; saves keep each other's entries | 2 readers, 3 writers (one in its own process), 2 inodes, clock to 2, 2 edits, hand edits or kills | 4.5 million |
| `adoption` | no name is lost but by an OSError of the save, no tracked board is renamed by the agent, one owner, a pairing acts once and as what it was, a busy lock only delays a provision | 2 boards, 2 types, 2 RPC threads, the CLI, 2 requests, 1 outside event | 664 thousand |
| `first_install` | the board that was meant is written and reported, it comes back as what was installed, and following a refusal's advice ends it | 2 boards, 2 ports, 7 kinds of type, 3 lists of flashers, ROM ids apart or alike, 2 outside events | 1.3 million |
| `profiles` | clean means current, a derived pair boots, the user's answers are somewhere but in five named cases, a fork knows its parent | 2 seed files in 2 trees, 4 answers, 2 sessions, 4 operations of the user, git or a crash | 4.3 million |
| `builders` | current means built from this source and target (unless `flick`), a build and an update settle, the ledger names what a device holds, the device that answered is the one written | a CMake board that reports its digest or does not, or 2 PlatformIO devices; 3 commits, 2 targets, 3 sockets, any starting commit and edit, 1 outside event | 5.1 million |

**Why the bounds are enough.** Two clients and two probers make every pair of
operations of the lock meet, and a probe meet another probe. Two kills let one
strike the recovery from the other; three units make "reverse" mean something.
Two handler threads and two jobs let a cancel straddle a change of the slot, and
the jobs are one of each kind the shutdown tells apart. Two contents and two
commits are what an equality can tell apart; two events are a change and a second
one that hides or undoes it. The batch has one board of every kind the code
distinguishes, in both groups, with a refused device. A ring smaller than a batch
and a job longer than the ring make dropped lines happen. Two inodes are what the
file and a temporary or a moved one need, and make every reuse of an inode
happen; a clock of 0 to 2 with a window of 1 has an old file, a young one, and the
tick between; two events are an edit and the one that races it. In adoption there
is one type of each builder, one board the ROM can name and one that a helper
renames, and two requests (with a CLI among the askers) are a check and what slips
in behind it; the life of a pairing is one tick. Two bare boards are the one that
was meant and the other; one event moves a board away and the next brings another
in its place. Two seed files differ in whether the application is linked at the
other address, and the second tree moves one and drops the other; four operations
are a change, an apply, a change under it and a crash. Of the three commits one
touches nothing under the source directory and is a tagged release, and one drops
a target, makes no raw image and does not speak the printer's protocol; the third socket lets a device move without
displacing another. Where a property does
not depend on these numbers it is proved (section 4).

**Fairness.** make, cmake, pio, git, flashtool, dfu-util and the helpers of `klipper` are
run by `run_streamed`, whose timeout is None unless its caller gives one, and none of
these does (`build.py:186`): nothing obliges such a command to end. So no specification
has fairness of a step that waits for one, and the liveness properties name the case in
which it hangs for ever.
ServiceOutage: code under way goes on except in a write (`RunsOn`), because
`is_active()`, stop and start have timeouts; systemd restarts the agent (`Restart=always`)
after `ExecStopPost`; nobody has to run the CLI. `ServicesComeBack`: or a write goes on for
ever. JobRunner: RPC threads, the shutdown and a worker past its body run; a body and its
writes may go on for ever, and `JobsEnd` says so. FlashBatch: the worker's thread runs
except while a probe or a write has a tool under way (`Commanding`); boards are never
fair, and each wait for one has a timeout. JobStream: threads, the ticker and reconnection
go on, what is asked or sent gets through while the connection lasts, and a body need not
end; opening the page, losing the connection, cancelling and refreshing are never obliged.
Adoption: threads run, the helper of an identity write has its timeout
(`discovery/roadrunner.py`), the watcher polls and finishes its handler, and a job ends
once its image is written, which it need not be: `AutoProvisions` is about locks that are
not held for ever. Nobody has to ask, plug or switch anything.
The runs without liveness use no fairness.

`CHECK_DEADLOCK FALSE` stands where the system really stops or its bounded outside
world is used up: a batch that has ended (`batch`), a panel at rest with all jobs
submitted (`log`), and `adoption`, `first_install`, `profiles` and `builders`, where
nobody asks for anything more.

Every property of a run has a mutant in `PROJECT.json`: a plausible bug
put in the place of one definition, with which TLC finds the property violated.

## 4. What is proved

From the named assumptions on the constants of each module alone (`ActorAssumption`,
`OutageAssumption`, `JobAssumption`, `ProvenanceAssumption`, `BatchAssumption`,
`StreamAssumption`, `StoreAssumption`, `AdoptionAssumption`, `ProfilesAssumption`,
`BuildersAssumption`; `Names`, `Bounds` and `Shapes` of FirstInstall), for any number of actors, boards, units, faults and
events; three theorems of the outage have hypotheses of their own, given there.
Each proof takes the specification without fairness, finds an inductive
invariant, and has one lemma per action (or group of like actions) under it.

* **JobRunnerProofs**, the runner: `TypeOK`, `BodyOwnsEverything`, `FreeSlotFreeLock`,
  `AnsweredCancelStands`, `AwaitedNotTorn`. The slot and the lock change hands from the
  submitting thread to the worker (`SubmitterOwns`, `WorkerOwns`); at most one thread
  submits (`OneSubmitter`); the shared event stands for the job in the slot
  (`EventStands`). For the shutdown, what `wait()` joins has been started when it joins
  and is dead when it returns, unless the grace ran out (`Waited`); what is torn before
  the exit was torn by the signal, of which nothing is promised.
* **JobRunnerProofs**, the lock: `LockTypeOK`, `HolderIsNamed`, `NeverHidesHolder`. The
  invariant adds `Ownership` (the flock is with whoever is between flock and unlock,
  probers included), `HeldIsRecorded`, and that a probe's history keeps only holders. A
  probe that clears the file must own the flock, so no client can be past the
  write of its record.
* **ServiceOutageProofs**, for any processes, nesting and faults: `TypeOK` (with the stack
  of blocks: an inner block exists only inside an outer one), `LeavesStoppedAlone` and
  `RestoredWhenIdle`. `LeavesStoppedAlone` is not
  about one process: a unit named by the journal, by a block or by a process that
  is reconciling is running or owed (`NamedSafe`), and no step of anybody makes
  such a unit unsafe (`StaySafe`), so whoever starts it starts something the tool
  had stopped, or something that already runs. `RestoredWhenIdle` rests on `Owing`: what is
  down is in the list of a block under way that has yet to start it.
* **ServiceOutageProofs**, for one process at a time (`Alone`): `QuietDuringWrite` where
  `is_active()` sees what runs (`Sighted`), since `BlocksDown` then holds of every block on
  the stack; and, with one block per operation (`Flat`), starts that work and nobody at
  Ctrl-C (`Unbroken`), `JournalCovers` and the refinement `KeepsPromise` of OutagePromise.
  `Ledger` says at each control point what is owed, what the journal names and what the
  block has left, and every step is one of the kinds the promise allows (`Kind`).
  Without its hypotheses each of the three is false (section 5, items 1 and 2,
  and "Outage"). `outage_agent` meets all four; in the repository the agent's own jobs
  are flat, and one process at a time means that nobody uses the CLI beside them.
* **ProvenanceProofs**: `TypeOK`, `LedgerTruthful`, `CurrentMatches`,
  `VerdictExact`. `Honest` carries "made whole by this tool from these inputs"
  from make to the staged file to the sidecar, conditioned at each place on
  nothing having moved; `Written` carries it to the board.
* **FlashBatchProofs**, the batch: `TypeOK`, `OffsetGuarded`, `AccountExact`, and three action
  properties, `TouchedInItsOutage`, `RefusalTellsWhere`, `SettledBeforeRestart`. Every board is in
  exactly one place (`Fresh`, `Accounted`), what it holds agrees with that place
  (`Held`; a failed one may hold anything), and `Outage` ties the services to the group.
* **FlashBatchProofs**, the log: `LinesThenVerdict`, and the agent's part of
  the types. `Floor` is the first line of a job not handed to the connection yet:
  what is on the wire is ordered and below it (`Ordered`, `Below`), a batch holds
  what follows (`Appended`, `RingHeld`), and ended jobs have nothing below it
  (`EndInv`). `LinesThenVerdict` is about the end that the job's own thread announces:
  the copies of a job that `cancel()` and `run_once` send keep no order (section 5).
* **ProfilesProofs**, the configuration file: `StoreTypeOK`, `CacheExact`, `SavesKeepOthers`, `HitsAreReal`. `Vouched(key, doc)`
  says that the document is the text of the file if the file has that key, that the
  key is older than the window, and that the inode's ctime has not gone below it.
  Every step does to an inode one of four things (`FilesMove`): nothing, a new
  ctime, a write of now (whose mtime is too young to equal a vouched one, because
  the clock's grain is within the window: `StoreAssumption`), or a write under any
  mtime with a ctime it has not had. None gives a vouched key back to another text
  (`VouchStays`). `Held` says what the one holder of the registry lock has in hand. For
  `HitsAreReal`: what a handle's file has, it has had since the open (`Witnessed`), and
  under the key a reader looks up nothing else is offered, by the cache or by a reader
  about to fill it, than a text that handle has had (`Answers`).
* **AdoptionProofs**: `TypeOK`, `NameIsKnown`, `NeverRetiresTracked`, `OneOwner`,
  `AdoptsWhatIsOwed`. `Holds` (a request of the agent owns the identity lock from its
  check on) keeps any other request of the agent away, so the name it is about to write over
  stays `Untracked`; that needs `Replaced` (a name to be replaced is tracked under no type
  that would replace it), `Recording` (what is about to be recorded is a durable name
  just given, or needs none; `Given` are the names told and those left unsaid) and `Emptied` (a type no longer declared tracks nothing).
  `Paired` ties the pairings file to what is owed, until two updates of the file cross.
* **ProfilesProofs**, profiles and sessions: `TypeOK`, `BaseIsParents`, `CleanMeansCurrent`, `CleanPairBoots`,
  `KeepsMine`. What the job carries decides: `Ready` (it knows what it is to apply, and
  what it records is there), `JobGives` (the answers of a vendor's profile were those of a
  tree that there was), `JobTrue` (its source still says what it read, unless something
  moved under it) and, once it has recorded, `RecordTrue`: a record not known to be stale
  has the config its source gives, or one derived from it. For `KeepsMine`, `MineAt` names
  the one of .config, .bak and own profile that has the user's answers, and `JobKeeps`
  that a job about to replace a .config has put them away, unless it is one of those that
  give them up (`GivesUp`), where `mine` is forgotten.
* **FirstInstallProofs**: `TypeOK`, `WritesTheMeant`, `ReportsTheWritten`,
  `ComesBackAsInstalled`, `AdviceWorks`. Boards that are plugged in have each their port
  (`Seats`); the board that was meant, unless it was moved, is where the scan saw it
  (`InPlace`), and no other that stayed is on its port (`Aside`); so the write, which looks
  for "the one volume" or "the one serial" anew, meets the one meant or one that moved.
  `Installed` follows the image from the write to the end. `AdviceWorks` needs an
  invariant of its own (`AdviceInv`): for a bare board no refusal names what is already so
  (`AddFixIsOpen`), and for a flash each fix is named only where following it leaves some
  flasher able to write (`FlashNamed`, `FlashFixLeads`), which a later refusal contradicts.

* **BuildersProofs**: `TypeOK`, `WritesWhoAnswered`, `CurrentIsBuilt`, `LedgerNamesImage`,
  `BuildSettles`, each on an invariant that holds the one before. `AInv`: no two devices
  share a socket (`Seats`), and until something moves the one heard is where it was heard
  (`HeardStands`), so an upload, which writes whatever is in that socket, writes it
  (`WroteStands`). `BInv`: what each stage of a build hands to the next while nothing moved
  (`Unmoved`), what the build directory holds from earlier links (`DirTrue`), and so what
  a record of a clean build says (`RecordTrue`); the status is compared with that. `LInv`:
  between a write and its entry the staged file is what was written or somebody's
  (`WrittenStands`), and somebody's is nobody's record. `SInv`: for an update that nothing
  disturbed, each device that wants flashing, whether or not it can be asked just then
  (`Wants`), is still on the list or being filed (`Pending`); the image stays current
  (`Settled`); and a device is written in the socket its section names (`CalmAim`,
  `CalmHeard`). When the list is empty nobody wants anything; for PlatformIO that needs a
  commit that speaks the printer's protocol, since one that does not wants another flash
  as soon as it runs.

The type invariants are proved and not listed in the configurations of the runs,
nor are the three action properties of FlashBatch.

To be proved about, Profiles, Selection, FirstInstall and Builders spell choices as chains of
IF, which is what the code has (`elif`, early returns): the order decides where
two conditions hold.

**Only model-checked.** All liveness (`ServicesComeBack`, `JobsEnd`, `BatchEnds`,
`LogArrives`, `AutoProvisions`): beyond the prover. Every safety property of a run is
proved.

## 5. Where the code differs from what it says

What the models had to allow for, met while they were written. Each is in a model
as the code does it; where a property would otherwise be false, its comment names
the exception. Four of them a run refuted before it was restricted:

1. Every CLI command reconciles whatever journal it finds (`cli.py:1406` against
   `service.py:267`); a `list` during an agent's write starts Klipper under it. Hence
   `QuietDuringWrite` is checked for one process.
2. A nested `services_stopped()` that had nothing to stop clears the outer block's
   journal entry (`service.py:393` against 203, "cleared after they are all back"); a kill then leaves units down for good.
   Hence `JournalCovers` is checked without nesting.
3. The inputs are hashed after make (`build.py:827` against `states.py:71`, "Provably
   matches its inputs."); an edit or pull while it runs is recorded as what the image was made from,
   and the image is "current". `quiet` in `CurrentMatches` excludes it.
4. The panel's cursor starts at 0 for the first job only (`ui/src/store/agent.ts:304`
   against `docs/agent-api.md:2012`, 2019); the first batch of a later job is taken for a
   gap and its lines are not shown. Hence one job in `log`.

Four more that the models contain and the properties therefore do not promise:

5. A write can be cut off by stopping the agent. The unit sets no `KillMode`, so systemd
   signals every process of the control group, flashtool and dfu-util too, while
   `request_stop()` waits (`agent/service.py:173-177`, "never in the middle of a write";
   `scripts/mcu-updater.service:41-43`). `Signal` cuts such a write off, `torn` counts it,
   and `AwaitedNotTorn` speaks of the exit only.
6. `run_streamed` has no timeout unless it is given one (`build.py:186`), and no write or
   build gives one: a flashtool that hangs keeps the slot, the operation lock and the
   stopped services until somebody kills it. The liveness properties name that case.
7. A write that was complete and then reported as failed (a tool's exit code,
   `flash.py:258-264`, 756-765) leaves the new image on a board that is listed among the
   failures and not in the ledger. `ResultExact` and `LedgerExact` speak of writes that
   were not reported as failed.
8. "Any pending log lines belong before the state change that follows them"
   (`agent/service.py:116-118`), but `cancel()` takes its copy of the job after its flush
   (`jobs.py:374`), and `run_once` flushes nothing (`agent/service.py:279-281`): a copy
   that says "ended" may go out before the last lines, and one that says "running" after
   the end.

### Smaller things met while modelling

Lock. The probes of two `holder()` calls may meet; the second then reports the
dead holder as live (`lock.py:61` against its docstring at 107), and two probes in
a row may make `acquire()` refuse a free lock (`lock.py:157`, 167).

Outage. A restart that failed is warned about, yet the journal is cleared
(`service.py:393` against 203). `is_active()` answers "no" on a timeout (86 against
369-373). Ctrl-C in the stop loop escapes the block (395 against 360); during
`_restart_all` it clears the journal.

Jobs. `cancel()` looks at one job and then sets the event all jobs share
(`jobs.py:372` against 171, "Set when cancellation is requested"): a job submitted in
between, which nobody cancelled, can end as cancelled. `wait()` may join an earlier job's thread, since a job is published before its
thread is made (`jobs.py:379` against 378). A submit that arrives late in the
shutdown is torn (`agent/service.py:192` against 173). The worker may add an error
line after its state is terminal; a thread that cannot be started emits nothing
after "running".

Provenance. A ledger record without a hash cannot reveal a later rebuild; a kill
between a write and its record leaves the older record believed; a kill in staging
leaves half an image that can still be flashed; a kill before the Makefile is
restored leaves the patch line for later builds; `restore` writes back bytes read
before. With a falsely current image (item 3) a board reads as "source changed"
after every flash. `update_all` asks its "last moment" question before the group
that needs no outage has been written (`bulk.py` around 685).

Batch. A native CAN node whose role is unknown is written without the check when
the probe is not answered (`flash.py:632` against 513-514); `Known` in the model is
why `OffsetGuarded` excludes it. Over CAN, a probe that rebooted the board and
then failed gives a refusal that does not say where the board sits (636-642
against 585-597), hence "USB" in `RefusalTellsWhere`.

Panel. A page reset that crosses a call or refresh in flight can lose lines of a
first job with nothing marked as omitted: the stale answer moves the fresh cursor.
`crossed` marks exactly that, and `LogArrives` excludes it. A
`job.get` reply taken late overwrites `logOmitted` (`agent.ts:381`). With two jobs,
the first one's end may overtake the second's announcement, and a stale "running"
copy may be re-announced by `run_once` (`agent/service.py:279-281`).

Configuration. An editor that truncates before it writes is met by `settings.mutate`
as an empty file, which it then writes back with `[updater]` alone; `Registry.mutate`
likewise. What the user saves between a writer's load and its replace is erased:
`crossed` excludes it from `SavesKeepOthers`. Two rewrites in place that put the
same mtime back within one tick of the ctime are the gap the key accepts, and a
clock that is set back is another: neither is in the model.

Tracking and adoption. Two crossed updates of the pairings file lose a pairing or
bring one back (`pairings.py:81`); what it costs is in `crossed`. Late adoption looks
for another owner among Kconfig types only, and acts on a bus change only. A type
that tracks CAN uuids alone is removed without force, since only serials are
counted. `auto_provision` does not ask whether the serial is tracked, and the identity
lock is the agent's own: an `add-serial` of the CLI can track a name that a write is
retiring (`clash`). A wait for a board that ends in a timeout logs no new serial. When the
save of a newly provisioned serial fails with an OSError (`config.py:478-482`), the error does
not name it: only an `UpdaterError` is annotated (`tracking.py:135`); such names are in `unsaid`.

First installs. A first install through BOOTSEL writes the volume that is mounted at
write time, not the one of the scan. The erase of a Katapult install takes its address from the saved
.config, not from the build that is written (`flash.py:1147` against 1023): with answers
changed in between the board boots what it ran before. The advice of a refusal can
lead back to where it began when a build of the other kind is missing. A flash of a
Kconfig type without `chipset:` that staged a .bin is told to list a flasher that takes
it, and told the same again once it is listed: no flasher of a .bin is the device's
without a chipset, and the sentence does not ask for one (`registry.py:194-254`);
`AdviceWorks` speaks of types with a chipset for that. With Klipper
unreachable a port that its configuration names may be chosen unasked.

Profiles. A forced apply over a config with no record, a forced switch to the type's own
profile and a forced `derive` over a customised bootloader keep the old answers in the .bak
only (`profiles.py:544-560`), though the refusal that offers `force` says they are kept as
the type's own profile (1194-1199); an edit that lands after the job looked is kept in the .bak
only, too, and a .bak left by a job that died is not looked at again (`GivesUp`). A
derived bootloader whose application has no .config is reported clean, which here means
"cannot tell" (1157-1158, 1135). A file that changes between a job's reading and its
hashing is recorded as the profile's (`stale`). A record that is lost
(a crash, or an OSError that is swallowed) after the config was placed makes the vendor's
answers read as the user's, and the next forced apply overwrites the user's own profile with them.
The build reseeds from the type's own profile and so undoes answers restored by hand. Two clean
sessions of one config may be open; the last save wins. A missing .config with a
record makes even a forced apply fail. The one own profile is overwritten by a later
capture. `apply-profile` and `menuconfig` of the CLI take no lock. `minimal_answers` drops
"is not set" lines, so that switching back and forth is not quite lossless
(`kconfig.py:303` against `profiles.py:58`).

Builders. When the record cannot be written after an upload (`pio.py:713-723`), the flasher
files the older record's hash, and the ledger names the older image. The CMake ledger
stores the subtree's commit, while `running_sha` comes from a describe of the whole
repository, so records are discarded whenever HEAD does not touch the subtree.
`source_problem` asks a target list that may be stale and refuses a target that a
newer commit declares, until the build directory is cleaned. PlatformIO reads its
source state after the build only, so that what was pulled or edited while it ran is recorded
as what was built (`pio.py:611-616`, "the commit the binary was actually built from"); an edit made and undone between the two samples
of a CMake build is recorded as clean (`flick`); so is a staged file replaced between
the copy and the record. Screens of one prefix are listed under every type with that
lister. A row offers a flash that `select()` then refuses, and blocks one that the
handler would accept. One OSError ends a `build_all`. An unanswered port that is
only remembered is written. A screen whose tree is at a commit that does not speak the
printer's protocol goes on asking for a flash after each update.

Front end. `_last` is replaced before a bus event is serialised (`events.py:324`);
`rpc.py:303-307` may only warn about a response it could not send.

## 6. What is not modelled, and why

Inside the modelled parts: several types and families in one bulk job; `force` and
`dry_run` of a flash; exceptions other than the tool's own inside a batch; the loop over CAN interfaces (one
probe, one write); the 32 KiB trigger of the batcher, the 15-minute limit of a job called
recent, and the panel's own socket; the syntax of the configuration file and the
validation of a registry before it is saved (a refusal at any point); commit
prefixes in the ledger (equality here); the visibility rules of Kconfig menus; the
blocks of a .uf2 file; board manifests; the framing of a screen's beacon.

The connection (`agent/rpc.py`) and the coalesced state event are not modelled by
themselves: JobStream takes from them what the panel can see, events in order and
replies at any later time. The join of registry, buses and verdicts into rows
(`status.py`, `inventory.py`) is read-only; what its verdicts are is in Provenance and
Builders.

Left out for good: argument parsing, menus, Vue components, typed settings and
paths, error classes, installation files (no state or order of their own, or only
presentation), and the subprocesses themselves (make, cmake, pio, flashtool, dfu-util,
systemctl: environment).

## 7. Plan

Modelled, in order of what a failure would cost: the lock, the outage, the job
runner, provenance, the batch, the log stream, the configuration store, adoption,
first installs with the choice of a flasher, profiles and sessions, the other two
builders.

Next:

1. **Connection** (`agent/rpc.py`, `agent/events.py`): futures, the dispatch pool,
   reconnects and the coalesced state event. Every call is answered or failed once;
   the last state is announced in the end.
2. **Rows** (`agent/methods/status.py`, `inventory.py`): every device has one row and one
   verdict.
3. Compositions: the batch's outage replaced by ServiceOutage's block; jobs over the
   lock module instead of its one-step abstraction; the cached read over a read at
   one moment.
