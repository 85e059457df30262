---------------------------- MODULE FirstInstall ----------------------------
(* Putting a first image on a bare board (agent/methods/flash.py           *)
(* add_mcu_start, flashers/flash.py flash_initial_bootloader), and writing *)
(* a running RP2040 through BOOTSEL (helpers/klipper.py): what is scanned  *)
(* and decided before a job exists, and what the job then finds, while     *)
(* boards are plugged, pulled and held in their boot ROM, the family's     *)
(* section and answers are edited, and another process builds.             *)
EXTENDS Selection, FiniteSets

CONSTANTS
    Board, NoBoard,
    Port, NoPort,
    Id, NoId,        \* what a boot ROM calls its board
    Types,           \* [die, boot, builder, helper, configured]
    Lists,           \* `flashers:` lines of the install family
    RomIds,          \* which board says which Id
    MaxEvents        \* moves of boards, edits and builds by others

ASSUME Names == NoBoard \notin Board /\ NoPort \notin Port /\ NoId \notin Id
ASSUME Bounds == MaxEvents \in Nat
\* A boot ROM may name its board nothing, and two of them may say the same.
ASSUME Shapes ==
    /\ Types \subseteq [die : {"stm32", "rp2040", "esp32"}, boot : BOOLEAN, helper : Helpers,
                       builder : {"kconfig", "cmake", "platformio"}, configured : SUBSET Board]
    /\ Lists \subseteq Seq(FLASHERS) /\ RomIds \subseteq [Board -> Id \cup {NoId}]

VARIABLES
    type,     \* the type being set up: its die, whether it has a bootloader...
    cfg,      \* [listed, chip, helper, answer, staged]: config and builds
    rid,      \* Board -> Id
    board,    \* [mode, port, low, old]: where it is, and what its flash holds
    mounted,  \* the boards whose BOOTSEL volume is mounted
    job,      \* the add_mcu or flash job
    advice,   \* [goal, fixes]: what was asked last, and the fixes its refusal named
    tried,    \* those followed since, for that goal
    moved,    \* the boards plugged, pulled or reset since the scan
    events

vars == <<type, cfg, rid, board, mounted, job, advice, tried, moved, events>>

Modes == {"off", "rom", "run", "katapult", "reset"}
\* What starts at the base of flash; `old` is where an application sits above.
Low == {"empty", "torn", "app", "katapult1", "katapult2"}
Address == {1, 2}
Image == [kind : {"bin", "uf2", "pio_env"}, at : Address]

Stages == {"idle", "asked", "queued", "wrote", "waiting", "upload", "announce",
           "request", "handoff", "settling", "done", "failed"}

NoJob == [pc |-> "idle", flasher |-> "nobody", meant |-> NoBoard, id |-> NoId, port |-> NoPort,
          before |-> {}, wrote |-> NoBoard, image |-> 0, erased |-> 0, paired |-> NoId,
          told |-> {}]

On(b) == board[b].mode \notin {"off", "reset"}
InRom == {b \in Board : board[b].mode = "rom"}
Running == {b \in Board : board[b].mode \in {"run", "katapult"}}
NoAdvice == [goal |-> "", fixes |-> {}]
Sole(S) == \E x \in S : S = {x}

\* A build of the type's install family with the answer it has now: an RP2040
\* makes a .uf2 only with no offset, and a bootloader both.
Build(answer) ==
    IF type.builder = "platformio" THEN {[kind |-> "pio_env", at |-> 1]}
    ELSE IF type.builder = "cmake" THEN {[kind |-> "uf2", at |-> answer]}
    ELSE IF type.die = "stm32" THEN {[kind |-> "bin", at |-> answer]}
    ELSE IF type.boot THEN {[kind |-> "bin", at |-> answer], [kind |-> "uf2", at |-> answer]}
    ELSE {[kind |-> IF answer = 1 THEN "uf2" ELSE "bin", at |-> answer]}

\* For an application, address 2 is above a bootloader offset.
offset_mismatch(image) == image.kind \in {"bin", "uf2"} /\ ~type.boot /\ image.at # 1

-----------------------------------------------------------------------------
(* The scans: what each flasher can see, and which board it would write.   *)

no_scan == [devices |-> {}, ready |-> FALSE, chosen |-> NoBoard]

dfu_scan ==
    [devices |-> InRom, ready |-> Sole(InRom),
     chosen |-> IF Sole(InRom) THEN CHOOSE b \in InRom : TRUE ELSE NoBoard]

\* Mutant: whichever board is found first, when several are in the ROM.
BootselScanFirst(table) ==
    [devices |-> InRom, ready |-> Sole(mounted),
     chosen |-> IF Sole(mounted) THEN CHOOSE b \in InRom : TRUE ELSE NoBoard]

\* table: the kernel's mount table says which board a volume belongs to.
bootsel_scan(table) ==
    [devices |-> InRom, ready |-> Sole(mounted),
     chosen |-> IF ~Sole(mounted) THEN NoBoard
                ELSE IF Sole(InRom) THEN CHOOSE b \in InRom : TRUE
                ELSE IF table THEN CHOOSE b \in mounted : TRUE ELSE NoBoard]

\* hwids: the board's manifest could be asked which USB ids to list. klipper:
\* it is reachable, so the boards its configuration names are left out.
platformio_scan(hwids, klipper) ==
    LET devices == {b \in Board : On(b)}
        free == devices \ (IF klipper THEN type.configured ELSE {})
    IN  [devices |-> devices, ready |-> hwids /\ Sole(free),
         chosen |-> IF hwids /\ Sole(free) THEN CHOOSE b \in free : TRUE ELSE NoBoard]

\* What a scan may go without: the host's tables, or Klipper's configuration.
Known == {"all", "no_table", "no_klipper"}

scan(f, known) ==
    IF f = "dfu_util" THEN dfu_scan
    ELSE IF f = "bootsel" THEN bootsel_scan(known # "no_table")
    ELSE IF f = "platformio" THEN platformio_scan(known # "no_table", known # "no_klipper")
    ELSE no_scan

\* The boards a request may mean: one named by its DFU serial, one picked by
\* its USB interface, or the one the scan chose. {} refuses.
candidates(f, seen, named, picked) ==
    IF named # NoId THEN {b \in seen.devices : f = "dfu_util" /\ rid[b] = named}
    ELSE IF picked # NoPort THEN {b \in seen.devices : f = "platformio" /\ board[b].port = picked}
    ELSE IF seen.ready THEN {seen.chosen} ELSE {}

\* A refusal of the configuration; those of the bus change nothing.
Refuse(goal, fixes) ==
    /\ advice' = [goal |-> goal, fixes |-> fixes]
    /\ tried' = IF goal = advice.goal THEN tried ELSE {}
    /\ UNCHANGED <<type, cfg, rid, board, mounted, job, moved, events>>

\* Everything the handler refuses before it looks at the bus: no flasher, no
\* image for it, or one a bare board cannot boot.
unready ==
    LET choice == first_install(cfg.listed, cfg.chip)
        f == choice.flasher
        writer == resolve(cfg.listed, bare(cfg.chip, f), "none", cfg.staged)
        no(fix) == [flasher |-> "nobody", fix |-> fix]
    IN  IF f = "nobody" THEN no(choice.fix)
        ELSE IF writer = "nobody"
             THEN no(IF /\ ~type.boot /\ type.builder = "kconfig" /\ accepts[f] = "uf2"
                        /\ \E image \in cfg.staged : image.kind = "bin"
                     THEN {"no_offset"} ELSE {"build"})
        ELSE IF writer # f THEN no({})
        ELSE IF offset_mismatch(first_of(cfg.staged, accepts[f])) THEN no({"no_offset"})
        ELSE [flasher |-> f, fix |-> {}]

-----------------------------------------------------------------------------
(* The handlers.                                                           *)

\* fw.add_mcu.start up to the snapshot of the bus it will be compared with.
add_mcu_start(named, picked, known) ==
    /\ job.pc = "idle"
    /\ IF unready.flasher = "nobody" THEN Refuse("add_mcu", unready.fix)
       ELSE LET f == unready.flasher
                seen == scan(f, known)
                meant == candidates(f, seen, named, picked)
            IN  \/ meant = {} /\ UNCHANGED vars
                \/ \E b \in meant :
                     /\ f \in first_writer => b # NoBoard
                     /\ job' = [NoJob EXCEPT
                          !.pc = "asked", !.flasher = f, !.meant = b, !.before = Running,
                          !.id = IF b = NoBoard \/ f = "platformio" THEN NoId ELSE rid[b],
                          !.port = IF b = NoBoard THEN NoPort ELSE board[b].port]
                     /\ moved' = {}
                     /\ UNCHANGED <<type, cfg, rid, board, mounted, advice, tried, events>>

\* fw.flash of a board running an application, when its family's choice is
\* bootsel. Flashtool's writes are FlashBatch's.
flash(b) ==
    LET device == [kind |-> "serial", chip |-> cfg.chip, state |-> "klipper"]
        target == IF cfg.staged = {} THEN [flasher |-> "nobody", fix |-> {"build"}]
                  ELSE select(cfg.listed, device, cfg.helper, cfg.staged, type.builder)
    IN  /\ job.pc = "idle" /\ ~type.boot /\ b \in Running
        /\ IF target.flasher = "nobody" THEN Refuse("flash", target.fix)
           ELSE IF target.flasher # "bootsel" THEN UNCHANGED vars
           ELSE /\ job' = [NoJob EXCEPT !.pc = "request", !.flasher = "bootsel", !.meant = b,
                                        !.port = board[b].port]
                /\ moved' = {}
                /\ UNCHANGED <<type, cfg, rid, board, mounted, advice, tried, events>>

Submit == /\ job.pc = "asked"
          /\ job' = [job EXCEPT !.pc = IF job.flasher \in first_writer THEN "upload" ELSE "queued"]
          /\ UNCHANGED <<type, cfg, rid, board, mounted, advice, tried, moved, events>>

Step(pc) == job' = [job EXCEPT !.pc = pc]
Quiet == UNCHANGED <<type, cfg, rid, advice, tried, events>>
Fail == Step("failed") /\ Quiet /\ UNCHANGED <<board, mounted, moved>>

\* Mutant: the .uf2 is copied as it was built.
EraseNothing(image) == {}

\* The .uf2 of a bootloader is extended with an erased sector, where its
\* saved answers say it looks for an application.
erasing(image) == IF image.kind = "uf2" /\ type.boot THEN {cfg.answer} ELSE {}

\* What an image leaves on a board: a .bin goes to the base of an erased flash,
\* a .uf2's blocks go where they say.
Flashed(b, image, erased) ==
    [board[b] EXCEPT
        !.mode = "reset",
        !.low = IF type.boot THEN (IF image.at = 1 THEN "katapult1" ELSE "katapult2")
                ELSE IF image.at = 1 THEN "app" ELSE IF image.kind = "bin" THEN "torn" ELSE @,
        !.old = IF image.kind = "bin" THEN {}
                ELSE IF ~type.boot /\ image.at # 1 THEN @ \cup {image.at} ELSE @ \ erased]

\* Writing a board: it takes the image and resets, it is left half written,
\* or the copy ended and the board never took it (a warning).
Written(b, image, pc) ==
    /\ Quiet /\ moved' = moved
    /\ \/ /\ board' = [board EXCEPT ![b] = Flashed(b, image, erasing(image))]
          /\ mounted' = mounted \ {b}
          /\ job' = [job EXCEPT !.pc = pc, !.wrote = b, !.image = image.at, !.erased = cfg.answer]
       \/ /\ board' = [board EXCEPT ![b].low = "torn"] /\ UNCHANGED mounted
          /\ job' = [job EXCEPT !.pc = "failed", !.wrote = b]
       \/ /\ job.flasher = "bootsel" /\ UNCHANGED <<board, mounted>>
          /\ job' = [job EXCEPT !.pc = pc]

-----------------------------------------------------------------------------
(* The job. flash_initial_bootloader chooses again, from the family as it  *)
(* is now, for the one file it was handed, and checks that file again.     *)

initial_bootloader(f) ==
    LET built == {image \in cfg.staged : image.kind = accepts[f]}
        writer == resolve(cfg.listed, bare(cfg.chip, f), "none", built)
    IN  IF writer = "nobody" THEN {}
        ELSE {image \in built : ~offset_mismatch(image)}

\* Mutant: the first board that answers to the serial.
WriteFirstDfu ==
    LET matches == IF job.id = NoId THEN InRom ELSE {b \in InRom : rid[b] = job.id}
        images == initial_bootloader("dfu_util")
    IN  /\ job.pc = "queued" /\ job.flasher = "dfu_util"
        /\ IF images = {} \/ matches = {} THEN Fail
           ELSE \E b \in matches, image \in images : Written(b, image, "wrote")

\* dfu-util, pinned to the port of the one board that answers to the serial.
write_dfu ==
    LET matches == IF job.id = NoId THEN InRom ELSE {b \in InRom : rid[b] = job.id}
        images == initial_bootloader("dfu_util")
    IN  /\ job.pc = "queued" /\ job.flasher = "dfu_util"
        /\ IF images = {} \/ ~Sole(matches) THEN Fail
           ELSE \E b \in matches, image \in images : Written(b, image, "wrote")

\* A copy to the one mounted volume, whichever board's that now is.
write_bootsel ==
    LET images == initial_bootloader("bootsel")
    IN  /\ job.pc = "queued" /\ job.flasher = "bootsel"
        /\ IF images = {} \/ ~Sole(mounted) THEN Fail
           ELSE \E b \in mounted, image \in images : Written(b, image, "wrote")

record_pairing ==
    /\ job.pc = "wrote"
    /\ job' = [job EXCEPT !.pc = "waiting", !.paired = job.id]
    /\ Quiet /\ UNCHANGED <<board, mounted, moved>>

\* The wait for a new serial on the port, and the report of what appeared.
wait_for_new_device ==
    LET appeared == {b \in Running \ job.before : job.port = NoPort \/ board[b].port = job.port}
    IN  /\ job.pc = "waiting"
        /\ job' = [job EXCEPT !.pc = "done", !.told = appeared]
        /\ Quiet /\ UNCHANGED <<board, mounted, moved>>

\* Who may have the tty that the scan found, whatever socket it is in by now:
\* the kernel gives the name to another board once the first has left.
OnTty == {b \in Board : On(b) /\ (b = job.meant \/ {b, job.meant} \subseteq moved)}

\* A first install that is an ordinary write, at the tty the scan found; the
\* device is then asked who it is, at that tty.
upload ==
    /\ job.pc = "upload"
    /\ \/ Fail
       \/ \E b \in OnTty, image \in cfg.staged :
              /\ board' = [board EXCEPT ![b].low = "app"]
              /\ job' = [job EXCEPT !.pc = "announce", !.wrote = b, !.image = image.at]
              /\ Quiet /\ UNCHANGED <<mounted, moved>>

announced ==
    /\ job.pc = "announce"
    /\ \E heard \in {{}} \cup {{b} : b \in OnTty} :
         job' = [job EXCEPT !.pc = "done", !.told = heard]
    /\ Quiet /\ UNCHANGED <<board, mounted, moved>>

\* The klipper helper: the board is found running Klipper, its port noted, and
\* asked for BOOTSEL. One built for Katapult that has it lands there instead.
request_bootsel ==
    LET images == {image \in cfg.staged : image.kind = "uf2"}
        b == job.meant
    IN  /\ job.pc = "request"
        /\ IF \/ ~\E image \in images : image.at = 1
              \/ cfg.chip # "rp2040" \/ board[b].mode # "run"
           THEN Fail
           ELSE /\ board' = [board EXCEPT ![b].mode =
                     IF board[b].low \in {"katapult1", "katapult2"} THEN "katapult" ELSE "rom"]
                /\ job' = [job EXCEPT !.pc = "handoff", !.port = board[b].port]
                /\ Quiet /\ UNCHANGED <<mounted, moved>>

\* Then exactly one volume on that port, or a time-out that writes nothing.
mount_for_topology ==
    LET there == {b \in mounted : board[b].port = job.port}
    IN  /\ job.pc = "handoff"
        /\ \/ ~Sole(there) /\ Fail
           \/ \E b \in there, image \in cfg.staged :
                image.kind = "uf2" /\ Written(b, image, "settling")

\* The board comes back, under whatever serial, on the port it had; a time-out
\* is a warning, since the copy was made.
wait_ready ==
    LET back == {b \in Board : board[b].mode = "run" /\ board[b].port = job.port}
    IN  /\ job.pc = "settling"
        /\ job' = [job EXCEPT !.pc = "done", !.told = back]
        /\ Quiet /\ UNCHANGED <<board, mounted, moved>>

-----------------------------------------------------------------------------
(* The bench: boards, the automounter, edits and builds.                   *)

katapult_at(low) == IF low = "katapult1" THEN 1 ELSE IF low = "katapult2" THEN 2 ELSE 0

\* Where a board ends when it starts: a bootloader hands over to the
\* application at its address when there is one.
Boots(b) ==
    IF board[b].low = "app" \/ katapult_at(board[b].low) \in board[b].old THEN "run"
    ELSE IF katapult_at(board[b].low) # 0 THEN "katapult"
    ELSE IF type.die = "esp32" THEN "run"
    ELSE IF type.die = "rp2040" THEN "rom" ELSE "off"

Event == events < MaxEvents /\ events' = events + 1

Free == Port \ {board[b].port : b \in {c \in Board : board[c].mode # "off"}}

PlugIn(b, p, mode) ==
    /\ Event
    /\ board[b].mode = "off" /\ p \in Free /\ mode # "off"
    /\ board' = [board EXCEPT ![b].mode = mode, ![b].port = p]
    /\ moved' = moved \cup {b}
    /\ UNCHANGED <<type, cfg, rid, mounted, job, advice, tried>>

\* Plugged in to start, or with its boot button held.
Plug(b, p) == PlugIn(b, p, Boots(b))
Hold(b, p) == type.die # "esp32" /\ PlugIn(b, p, "rom")

Pull(b) == /\ Event
           /\ board[b].mode # "off"
           /\ board' = [board EXCEPT ![b].mode = "off"]
           /\ mounted' = mounted \ {b} /\ moved' = moved \cup {b}
           /\ UNCHANGED <<type, cfg, rid, job, advice, tried>>

\* A board just written starts what it holds, on its port.
Reset(b) == /\ board[b].mode = "reset"
            /\ board' = [board EXCEPT ![b].mode = Boots(b)]
            /\ UNCHANGED <<type, cfg, rid, mounted, job, advice, tried, moved, events>>

Mount(b) == /\ type.die = "rp2040" /\ b \in InRom \ mounted
            /\ mounted' = mounted \cup {b}
            /\ UNCHANGED <<type, cfg, rid, board, job, advice, tried, moved, events>>

\* The operation lock is free: no job of ours is running.
LockFree == job.pc \in {"idle", "asked", "done", "failed"}

\* Another process sets the answers and builds, while no job of ours runs.
Rebuild(answer) ==
    /\ Event /\ LockFree
    /\ cfg' = [cfg EXCEPT !.answer = answer, !.staged = Build(answer)]
    /\ advice' = NoAdvice /\ tried' = {}
    /\ UNCHANGED <<type, rid, board, mounted, job, moved>>

\* The user saves other answers, or another list, whatever runs.
Edit == /\ Event
        /\ \/ type.builder # "platformio" /\ cfg' = [cfg EXCEPT !.answer = 3 - @]
           \/ \E l \in Lists \ {cfg.listed} : cfg' = [cfg EXCEPT !.listed = l]
        /\ advice' = NoAdvice /\ tried' = {}
        /\ UNCHANGED <<type, rid, board, mounted, job, moved>>

\* The line a fix adds, unless the list has it.
Adds == [list_platformio |-> "platformio", list_dfu_util |-> "dfu_util", list_flashtool |-> "flashtool",
         list_bootsel |-> "bootsel", list_bootsel_and_helper |-> "bootsel"]
Listed(f) == \E i \in DOMAIN cfg.listed : cfg.listed[i] = f
Adding(fix) ==
    IF fix \notin DOMAIN Adds THEN cfg.listed
    ELSE IF Listed(Adds[fix]) THEN cfg.listed ELSE Append(cfg.listed, Adds[fix])

\* The user does what the refusal said, before going back to the bench.
Follow(fix) ==
    LET answer == IF fix = "no_offset" THEN 1 ELSE IF fix = "some_offset" THEN 2 ELSE cfg.answer
    IN  /\ job.pc = "idle" /\ events = 0 /\ fix \in advice.fixes
        /\ cfg' = [cfg EXCEPT
             !.listed = Adding(fix),
             !.helper = IF fix \in {"add_helper", "list_bootsel_and_helper"} THEN "klipper" ELSE @,
             !.chip = IF fix = "set_chipset" THEN type.die ELSE @,
             !.answer = answer,
             !.staged = IF fix \in {"build", "no_offset", "some_offset"} THEN Build(answer) ELSE @]
        /\ tried' = tried \cup {fix} /\ advice' = [advice EXCEPT !.fixes = {}]
        /\ UNCHANGED <<type, rid, board, mounted, job, moved, events>>

-----------------------------------------------------------------------------
Init ==
    /\ type \in Types
    /\ \E l \in Lists, chip \in {type.die, ""}, answer \in Address, built \in BOOLEAN :
         cfg = [listed |-> l, chip |-> chip, helper |-> type.helper, answer |-> answer,
                staged |-> IF built THEN Build(answer) ELSE {}]
    /\ rid \in RomIds
    \* Blank, or with what they ran before: one large application, or Katapult's.
    /\ \E l \in {"empty", "app", "katapult1"}, start \in [Board -> {"off", "on"}], seat \in [Board -> Port] :
         /\ \A b, c \in Board : b # c => seat[b] # seat[c]
         /\ board = [b \in Board |->
                [low |-> l, old |-> IF l = "empty" THEN {} ELSE {1}, port |-> seat[b],
                 mode |-> IF start[b] = "off" THEN "off" ELSE IF l = "empty" /\ type.die # "esp32" THEN "rom" ELSE "run"]]
    /\ mounted = {} /\ job = NoJob /\ advice = NoAdvice /\ tried = {} /\ moved = {}
    /\ events = 0

Job == \/ Submit \/ write_dfu \/ write_bootsel \/ record_pairing \/ wait_for_new_device
       \/ upload \/ announced \/ request_bootsel \/ mount_for_topology \/ wait_ready
Bench == \/ \E b \in Board : Pull(b) \/ Reset(b) \/ Mount(b) \/ \E p \in Port : Plug(b, p) \/ Hold(b, p)
         \/ (\E answer \in Address : Rebuild(answer)) \/ Edit \/ \E fix \in advice.fixes : Follow(fix)
Next == \/ \E named \in Id \cup {NoId}, picked \in Port \cup {NoPort}, known \in Known :
             (named = NoId \/ picked = NoPort) /\ add_mcu_start(named, picked, known)
        \/ \E b \in Board : flash(b)
        \/ Job \/ Bench

Spec == Init /\ [][Next]_vars

-----------------------------------------------------------------------------
Config == [listed : Seq(FLASHERS), chip : {"stm32", "rp2040", "esp32", ""}, helper : Helpers,
           answer : Address, staged : SUBSET Image]
BoardState == [mode : Modes, port : Port, low : Low, old : SUBSET Address]
JobState == [pc : Stages, flasher : FLASHERS \cup {"nobody"}, meant : Board \cup {NoBoard},
             id : Id \cup {NoId}, port : Port \cup {NoPort}, before : SUBSET Board,
             wrote : Board \cup {NoBoard}, image : 0..2, erased : 0..2,
             paired : Id \cup {NoId}, told : SUBSET Board]

\* The shape of the bench, the configuration and the job.
TypeOK ==
    /\ type \in Types
    /\ cfg \in Config /\ cfg.chip \in {type.die, ""}
    /\ rid \in [Board -> Id \cup {NoId}]
    /\ board \in [Board -> BoardState]
    /\ mounted \subseteq InRom /\ moved \subseteq Board
    /\ job \in JobState
    /\ events \in 0..MaxEvents

\* A write reaches the board that was meant, or that board was unplugged or
\* plugged since: a second board that is held in its ROM, mounted, or pulled
\* meanwhile never takes its place.
WritesTheMeant ==
    job.wrote # NoBoard /\ job.meant # NoBoard => job.wrote = job.meant \/ job.meant \in moved

\* The note that a board was given this type's image names the board that was,
\* unless a BOOTSEL volume was copied to after the board the scan saw had gone,
\* and on a port the scan knew no other board is reported as the one just set
\* up in place of one that stayed there.
ReportsTheWritten ==
    /\ job.paired # NoId /\ job.wrote # NoBoard =>
           rid[job.wrote] = job.paired \/ (job.flasher = "bootsel" /\ job.meant \in moved)
    /\ job.pc = "done" /\ job.port # NoPort =>
           \A b \in job.told : b = job.meant \/ {b, job.meant} \subseteq moved

\* A board set up comes back as what was installed: in its new bootloader,
\* not in what it ran before, or running an application that nothing has to
\* boot. A bootloader copied over BOOTSEL is spoken for as long as its answers
\* are those it was built with: what is erased is where the answers of the
\* moment say, and an edit since the build leaves an old application to start.
ComesBackAsInstalled ==
    job.pc \in {"wrote", "waiting", "settling", "done"} /\ job.wrote # NoBoard /\ type.die # "esp32" =>
        IF ~type.boot THEN Boots(job.wrote) = "run"
        ELSE job.erased = job.image \/ job.flasher = "dfu_util" => Boots(job.wrote) = "katapult"

\* What a refusal tells the user to do, done, is never what the next refusal of
\* the same request tells them to do (registry._refusal_error, _bootsel_route):
\* for a Kconfig build, and for a flash of the RP2040 its BOOTSEL route is about.
\* A flash is only spoken for when the type has a chipset: no flasher of a .bin
\* is the device's without one, and the sentence does not name it.
AdviceWorks ==
    /\ type.builder = "kconfig" /\ type.die # "esp32"
    /\ advice.goal = "flash" => type.die = "rp2040" /\ cfg.chip # ""
    => advice.fixes \cap tried = {}
=============================================================================
