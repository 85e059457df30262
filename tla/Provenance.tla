----------------------------- MODULE Provenance -----------------------------
(***************************************************************************)
(* What a built image was made from, and which board holds it              *)
(* (src/mcu_updater/build.py, verdict.py, profiles.reseed_if_moved and the *)
(* build, flash and update jobs of agent/methods/bulk.py), for one type    *)
(* that is built by Kconfig and make.                                      *)
(*                                                                         *)
(* The user and git change the inputs whenever they like, the job reads    *)
(* them one after another, and the verdicts compare what was written down. *)
(* A hash of a file is the file's content; a commit is a model value.  Of  *)
(* the image kinds only the .bin is modelled.                              *)
(***************************************************************************)
EXTENDS Integers

CONSTANTS
    Board,       \* tracked serials of the type
    Answer,      \* what a .config or a seed file answers
    Commit,      \* heads of the source tree
    Line,        \* makefile lines that may be configured as the patch
    None,        \* no file, no record, no line
    Event,       \* what may happen from outside
    MaxEvents,   \* and how often in all
    Op           \* jobs that may be submitted

AllEvents == {"edit", "pull", "bump", "repatch", "handbuild", "handflash",
              "unplug", "crash"}
AllOps == {"build", "flash", "flash_all", "update"}

Config == [ans : Answer, tree : Commit]

\* by: this tool or a hand; whole: FALSE of a file or a flash cut off half way.
Image == [by : {"tool", "hand"}, config : Config, head : Commit,
          lines : SUBSET Line, whole : BOOLEAN]
Sidecar == [fw_sha : Commit, config_sha256 : Config, bin_sha256 : Image]
Record == [fw_sha : Commit, bin_sha256 : Image \cup {None}]
Profile == [config : Config, seed : Answer]

ASSUME ProvenanceAssumption ==
    /\ None \notin Config \cup Commit \cup Image \cup Sidecar \cup Record
    /\ None \notin Profile \cup Line \cup Board
    /\ Event \subseteq AllEvents
    /\ MaxEvents \in Nat
    /\ Op \subseteq AllOps

VARIABLES
    config,      \* the saved .config; tree: whose Kconfig last expanded it
    seed,        \* the vendor's seed file
    profile,     \* the record beside the .config, or None
    head,        \* HEAD of the source tree
    cache,       \* the agent's git_head() cache: a commit, or None
    patch,       \* the configured makefile line, or None
    makefile,    \* which configured lines the tree's Makefile holds
    bin,         \* the staged image, or None
    sidecar,     \* its provenance, or None (missing or unreadable)
    board,       \* [Board -> [app, mode]]: the image it holds, what it runs
    ledger,      \* [Board -> Record or None]: the flash log
    job,         \* the agent's job and its local variables
    quiet,       \* history: no input moved while the sidecar was produced
    sound,       \* history: boards last written by this tool and recorded
    events       \* how many outside events have happened

inputs == <<config, seed, profile, head, patch>>
staging == <<bin, sidecar, quiet>>
devices == <<board, ledger, sound>>
vars == <<inputs, cache, makefile, staging, devices, job, events>>

Mode == {"app", "katapult", "offline"}

Idle == [op |-> "none", pc |-> "idle", out |-> None, saved |-> None,
         after |-> None, desc |-> None, todo |-> {}, cur |-> None,
         failed |-> FALSE, still |-> FALSE]

\* A job that is over keeps only what it was and whether anything failed.
Over(f) == [Idle EXCEPT !.op = job.op, !.failed = f]

At(l) == job.pc = l

Init ==
    /\ config \in Config
    /\ seed = config.ans
    /\ profile \in {None, [config |-> config, seed |-> seed]}
    /\ head = config.tree
    /\ cache = None
    /\ patch \in Line \cup {None}
    /\ makefile = {}
    /\ bin = None
    /\ sidecar = None
    /\ board = [b \in Board |->
                  [app |-> [by |-> "hand", config |-> config, head |-> head,
                            lines |-> {}, whole |-> TRUE],
                   mode |-> "app"]]
    /\ ledger = [b \in Board |-> None]
    /\ job = Idle
    /\ quiet = FALSE
    /\ sound = {}
    /\ events = 0

-----------------------------------------------------------------------------
(* The verdicts *)

\* A head asked for within the last five seconds is not asked for again.
git_head == IF cache = None THEN head ELSE cache
Ask == cache' = git_head
Fresh == cache \in {None, head}

\* Mutant: only the inputs are compared, never the bytes.
StatusTrustsFile ==
    IF bin = None THEN "never_built"
    ELSE IF sidecar = None THEN "no_provenance"
    ELSE IF sidecar.config_sha256 # config THEN "config_changed"
    ELSE IF sidecar.fw_sha # git_head THEN "source_changed"
    ELSE "current"

artifact_status ==
    IF bin = None THEN "never_built"
    ELSE IF sidecar = None THEN "no_provenance"
    ELSE IF sidecar.bin_sha256 # bin THEN "foreign_build"
    ELSE IF sidecar.config_sha256 # config THEN "config_changed"
    ELSE IF sidecar.fw_sha # git_head THEN "source_changed"
    ELSE "current"

running_sha(b) == board[b].app.head

\* A record the board's running commit contradicts is no evidence any more.
entry_for(b) ==
    IF ledger[b] = None THEN None
    ELSE IF ledger[b].fw_sha # running_sha(b) THEN None
    ELSE ledger[b]

\* Mutant: a matching commit is taken for the whole answer.
CommitDecides(b) == "current"

\* The same commit built twice: only our own record can tell.
_record_verdict(b) ==
    IF /\ entry_for(b) # None
       /\ entry_for(b).bin_sha256 # None
       /\ sidecar # None
       /\ entry_for(b).bin_sha256 # sidecar.bin_sha256
    THEN "artifact_changed" ELSE "current"

decide(b) ==
    IF board[b].mode = "offline" THEN "offline"
    ELSE IF board[b].mode = "katapult" THEN "in_bootloader"
    ELSE IF running_sha(b) # git_head THEN "source_changed"
    ELSE _record_verdict(b)

needs_flash(b) ==
    decide(b) \in {"in_bootloader", "source_changed", "artifact_changed"}

-----------------------------------------------------------------------------
(* The build *)

\* build_all and update_all select what is not provably current; a single
\* build asks for itself.
Submit(op) ==
    /\ At("idle")
    /\ op \in Op
    /\ job' = [Idle EXCEPT !.op = op,
                 !.pc = IF \/ op \in {"flash", "flash_all"}
                           \/ op = "update" /\ artifact_status = "current"
                        THEN "select" ELSE "check"]
    /\ Ask
    /\ UNCHANGED <<inputs, makefile, staging, devices, events>>

\* reseed_if_moved: only a config its profile still describes is replaced.
SeedCheck ==
    /\ At("check")
    /\ job' = [job EXCEPT !.pc =
                 IF /\ profile # None
                    /\ profile.config = config
                    /\ profile.seed # seed
                 THEN "seed" ELSE "patch"]
    /\ UNCHANGED <<inputs, cache, makefile, staging, devices, events>>

\* The seed is parsed with the current tree and emitted in full.
SeedSave ==
    /\ At("seed")
    /\ config' = [ans |-> seed, tree |-> head]
    /\ job' = [job EXCEPT !.pc = "seeded"]
    /\ UNCHANGED <<seed, profile, head, patch, cache, makefile, staging,
                   devices, events>>

SeedRecord ==
    /\ At("seeded")
    /\ profile' = [config |-> config, seed |-> seed]
    /\ job' = [job EXCEPT !.pc = "patch"]
    /\ UNCHANGED <<config, seed, head, patch, cache, makefile, staging,
                   devices, events>>

\* A line that is already there is left alone, and not taken away afterwards.
ApplyPatch ==
    /\ At("patch")
    /\ IF patch = None \/ patch \in makefile
       THEN /\ job' = [job EXCEPT !.pc = "make", !.saved = None]
            /\ UNCHANGED makefile
       ELSE /\ job' = [job EXCEPT !.pc = "make", !.saved = makefile]
            /\ makefile' = makefile \cup {patch}
    /\ UNCHANGED <<inputs, cache, staging, devices, events>>

\* make reads the inputs; olddefconfig may first rewrite a .config that another
\* tree expanded.
Make ==
    /\ At("make")
    /\ \E c \in {config, [config EXCEPT !.tree = head]} :
         /\ config' = c
         /\ job' = [job EXCEPT !.pc = "restore",
                      !.out = [by |-> "tool", config |-> c, head |-> head,
                               lines |-> makefile, whole |-> TRUE],
                      !.still = Fresh]
    /\ UNCHANGED <<seed, profile, head, patch, cache, makefile, staging,
                   devices, events>>

\* make fails, or is cancelled: a cancelled update does not go on to flash.
MakeFails ==
    /\ At("make")
    /\ \E op \in {job.op, "build"} :
         job' = [job EXCEPT !.pc = "restore", !.failed = TRUE, !.op = op]
    /\ UNCHANGED <<inputs, cache, makefile, staging, devices, events>>

Restore ==
    /\ At("restore")
    /\ makefile' = IF job.saved = None THEN makefile ELSE job.saved
    /\ job' = [job EXCEPT !.pc = IF job.out = None THEN "clean" ELSE "hash",
                          !.saved = None]
    /\ UNCHANGED <<inputs, cache, staging, devices, events>>

HashConfig ==
    /\ At("hash")
    /\ job' = [job EXCEPT !.pc = "stage", !.after = config]
    /\ UNCHANGED <<inputs, cache, makefile, staging, devices, events>>

Stage ==
    /\ At("stage")
    /\ bin' = job.out
    /\ job' = [job EXCEPT !.pc = "describe", !.out = None]
    /\ UNCHANGED <<inputs, cache, makefile, sidecar, quiet, devices, events>>

\* BuildResult: the head and the hash are taken now, not when make ran.
Describe ==
    /\ At("describe")
    /\ Ask
    /\ job' = [job EXCEPT !.pc = "sidecar", !.after = None,
                 !.desc = [fw_sha |-> git_head, config_sha256 |-> job.after,
                           bin_sha256 |-> bin]]
    /\ UNCHANGED <<inputs, makefile, staging, devices, events>>

\* A sidecar that cannot be written is only warned about.
WriteSidecar ==
    /\ At("sidecar")
    /\ \/ /\ sidecar' = job.desc
          /\ quiet' = job.still
          /\ job' = [job EXCEPT !.pc = "clean", !.desc = None]
       \/ /\ job' = [job EXCEPT !.pc = "clean", !.desc = None, !.failed = TRUE]
          /\ UNCHANGED <<sidecar, quiet>>
    /\ UNCHANGED <<inputs, cache, makefile, bin, devices, events>>

\* make clean on the way out; an update goes on whatever the build came to.
CleanTree ==
    /\ At("clean")
    /\ \E f \in {job.failed, TRUE} :
         job' = IF job.op = "update"
                THEN [job EXCEPT !.pc = "select", !.failed = f] ELSE Over(f)
    /\ UNCHANGED <<inputs, cache, makefile, staging, devices, events>>

-----------------------------------------------------------------------------
(* The flash *)

\* _boards_to_flash: an image must be staged, the board must be on the bus.
Selected ==
    {b \in Board : /\ bin # None
                   /\ board[b].mode # "offline"
                   /\ job.op = "flash_all" \/ needs_flash(b)}

\* After the build: a build is what makes a board stale.
Select ==
    /\ At("select")
    /\ job' = [job EXCEPT !.pc = "write", !.todo = Selected]
    /\ Ask
    /\ UNCHANGED <<inputs, makefile, staging, devices, events>>

\* A board that was given half an image, or all of a half image, does not run.
WriteBoard(b) ==
    /\ At("write")
    /\ b \in job.todo
    /\ board[b].mode # "offline"
    /\ board' = [board EXCEPT ![b] =
                   [app |-> bin, mode |-> IF bin.whole THEN "app" ELSE "offline"]]
    /\ job' = [job EXCEPT !.pc = "record", !.todo = @ \ {b}, !.cur = b,
                          !.still = TRUE]
    /\ sound' = sound \ {b}
    /\ UNCHANGED <<inputs, cache, makefile, staging, ledger, events>>

\* Refused before a byte was sent, or cut off in the middle.
WriteFails(b) ==
    /\ At("write")
    /\ b \in job.todo
    /\ job' = [job EXCEPT !.todo = @ \ {b}, !.failed = TRUE]
    /\ \/ UNCHANGED <<board, sound>>
       \/ /\ board[b].mode # "offline"
          /\ board' = [board EXCEPT ![b] = [app |-> [bin EXCEPT !.whole = FALSE],
                                            mode |-> "katapult"]]
          /\ sound' = sound \ {b}
    /\ UNCHANGED <<inputs, cache, makefile, staging, ledger, events>>

\* Mutant: the recorded hash is filed whatever the file holds.
RecordUnverified ==
    [fw_sha |-> IF sidecar = None THEN git_head ELSE sidecar.fw_sha,
     bin_sha256 |-> IF sidecar = None THEN None ELSE sidecar.bin_sha256]

\* staged_record: a hash is filed only while the file still matches it.
staged_record ==
    [fw_sha |-> IF sidecar = None THEN git_head ELSE sidecar.fw_sha,
     bin_sha256 |-> IF sidecar = None THEN None
                    ELSE IF sidecar.bin_sha256 # bin THEN None
                    ELSE sidecar.bin_sha256]

RecordBoard ==
    /\ At("record")
    /\ ledger' = [ledger EXCEPT ![job.cur] = staged_record]
    /\ cache' = IF sidecar = None THEN git_head ELSE cache
    /\ sound' = IF quiet /\ job.still THEN sound \cup {job.cur} ELSE sound
    /\ job' = [job EXCEPT !.pc = "write", !.cur = None, !.still = FALSE]
    /\ UNCHANGED <<inputs, makefile, staging, board, events>>

EndFlash ==
    /\ At("write")
    /\ job.todo = {}
    /\ job' = Over(job.failed)
    /\ UNCHANGED <<inputs, cache, makefile, staging, devices, events>>

-----------------------------------------------------------------------------
(* From outside *)

\* An input that moves between make and the sidecar is described wrongly.
Unsettle == job' = IF At("record") THEN job ELSE [job EXCEPT !.still = FALSE]

Happens(e) ==
    /\ e \in Event
    /\ events < MaxEvents
    /\ events' = events + 1

\* menuconfig over SSH, an editor, the panel.
Edit ==
    /\ Happens("edit")
    /\ \E a \in Answer : config' = [ans |-> a, tree |-> head]
    /\ Unsettle
    /\ UNCHANGED <<seed, profile, head, patch, cache, makefile, staging, devices>>

Pull ==
    /\ Happens("pull")
    /\ \E h \in Commit \ {head} : head' = h
    /\ Unsettle
    /\ UNCHANGED <<config, seed, profile, patch, cache, makefile, staging, devices>>

\* The vendor's seed file changes.
Bump ==
    /\ Happens("bump")
    /\ \E a \in Answer \ {seed} : seed' = a
    /\ UNCHANGED <<config, profile, head, patch, cache, makefile, staging,
                   devices, job>>

\* The makefile line of the type's section is edited.
Repatch ==
    /\ Happens("repatch")
    /\ \E l \in (Line \cup {None}) \ {patch} : patch' = l
    /\ UNCHANGED <<config, seed, profile, head, cache, makefile, staging,
                   devices, job>>

ByHand(h) == [by |-> "hand", config |-> config, head |-> h, lines |-> {},
              whole |-> TRUE]

\* Somebody else puts an image where the staged one is.
HandBuild ==
    /\ Happens("handbuild")
    /\ bin' = ByHand(head)
    /\ Unsettle
    /\ UNCHANGED <<inputs, cache, makefile, sidecar, quiet, devices>>

\* Somebody else writes a board, with an image of any commit.
HandFlash(b) ==
    /\ Happens("handflash")
    /\ \E h \in Commit : board' = [board EXCEPT ![b] = [app |-> ByHand(h), mode |-> "app"]]
    /\ sound' = sound \ {b}
    /\ job' = IF job.cur = b THEN [job EXCEPT !.still = FALSE] ELSE job
    /\ UNCHANGED <<inputs, cache, makefile, staging, ledger>>

Unplug(b) ==
    /\ Happens("unplug")
    /\ board' = [board EXCEPT ![b].mode = "offline"]
    /\ UNCHANGED <<inputs, cache, makefile, staging, ledger, sound, job>>

\* SIGKILL: a file being written is cut off, so is a board.
Crash ==
    /\ Happens("crash")
    /\ ~At("idle")
    /\ cache' = None
    /\ job' = Idle
    /\ \/ UNCHANGED <<staging, devices>>
       \/ /\ At("stage")
          /\ bin' = [job.out EXCEPT !.whole = FALSE]
          /\ UNCHANGED <<sidecar, quiet, devices>>
       \/ /\ At("sidecar")
          /\ sidecar' = None
          /\ UNCHANGED <<bin, quiet, devices>>
       \/ /\ At("write")
          /\ \E b \in job.todo :
               /\ board[b].mode # "offline"
               /\ board' = [board EXCEPT ![b] =
                              [app |-> [bin EXCEPT !.whole = FALSE],
                               mode |-> "katapult"]]
               /\ sound' = sound \ {b}
          /\ UNCHANGED <<staging, ledger>>
    /\ UNCHANGED <<inputs, makefile>>

\* A status poll asks for the head; five seconds later the answer is dropped.
Poll ==
    /\ Ask
    /\ UNCHANGED <<inputs, makefile, staging, devices, job, events>>
Expire ==
    /\ cache' = None
    /\ UNCHANGED <<inputs, makefile, staging, devices, job, events>>

Next ==
    \/ \E op \in AllOps : Submit(op)
    \/ SeedCheck \/ SeedSave \/ SeedRecord
    \/ ApplyPatch \/ Make \/ MakeFails \/ Restore
    \/ HashConfig \/ Stage \/ Describe \/ WriteSidecar \/ CleanTree
    \/ Select \/ RecordBoard \/ EndFlash
    \/ \E b \in Board : \/ WriteBoard(b) \/ WriteFails(b)
                        \/ HandFlash(b) \/ Unplug(b)
    \/ Edit \/ Pull \/ Bump \/ Repatch \/ HandBuild \/ Crash
    \/ Poll \/ Expire

Spec == Init /\ [][Next]_vars

-----------------------------------------------------------------------------
(* Properties *)

Pc == {"idle", "check", "seed", "seeded", "patch", "make", "restore", "hash",
       "stage", "describe", "sidecar", "clean", "select", "write", "record"}

Job == [op : AllOps \cup {"none"}, pc : Pc, out : Image \cup {None},
        saved : (SUBSET Line) \cup {None}, after : Config \cup {None},
        desc : Sidecar \cup {None}, todo : SUBSET Board,
        cur : Board \cup {None}, failed : BOOLEAN, still : BOOLEAN]

\* Every variable holds a value of its type.
TypeOK ==
    /\ config \in Config
    /\ seed \in Answer
    /\ profile \in Profile \cup {None}
    /\ head \in Commit
    /\ cache \in Commit \cup {None}
    /\ patch \in Line \cup {None}
    /\ makefile \in SUBSET Line
    /\ bin \in Image \cup {None}
    /\ sidecar \in Sidecar \cup {None}
    /\ board \in [Board -> [app : Image, mode : Mode]]
    /\ ledger \in [Board -> Record \cup {None}]
    /\ job \in Job
    /\ quiet \in BOOLEAN
    /\ sound \in SUBSET Board
    /\ events \in 0 .. MaxEvents

\* An image whose inputs did not move while it was being described, and that
\* artifact_status() calls current, was compiled in full, by this tool, from
\* the .config and the commit of now, whatever was edited, pulled, replaced by
\* hand or cut off by a crash in between (build.py artifact_status).
CurrentMatches ==
    (quiet /\ Fresh /\ artifact_status = "current") =>
        /\ bin.by = "tool" /\ bin.whole
        /\ bin.config = config
        /\ bin.head = head

\* What the ledger says of a board that this tool wrote last, and recorded, is
\* what the board holds: a hash is never filed for bytes that were not written
\* (batch.py write_all, build.py staged, _verified).
LedgerTruthful ==
    \A b \in sound :
        ledger[b] # None /\ (ledger[b].bin_sha256 # None =>
            /\ board[b].app = ledger[b].bin_sha256
            /\ running_sha(b) = ledger[b].fw_sha)

\* Against a current artifact, the verdict on such a board is exact: it is up
\* to date if and only if it holds the staged image, two builds of one commit
\* included ("only flash the stale ones", build.py:426).
VerdictExact ==
    \A b \in sound :
        (/\ ledger[b].bin_sha256 # None
         /\ board[b].mode = "app"
         /\ quiet /\ Fresh
         /\ artifact_status = "current")
        => (decide(b) = "current" <=> board[b].app = bin)

=============================================================================
