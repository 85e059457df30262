------------------------ MODULE FirstInstallProofs ------------------------
(***************************************************************************)
(* The safety properties of FirstInstall for any boards, ports, boot ROM   *)
(* names, types and lists of flashers, and any number of moves and edits.  *)
(*                                                                         *)
(* None of the four is inductive.  IInv is, for the three about the write: *)
(* no two boards plugged in share a port (Seats), what the job has done by *)
(* where it is (Course), that a board nobody moved is still where the scan *)
(* saw it (InPlace) and that nobody else who stayed is on its port (Aside).*)
(* With these the write, which looks for "the one volume" or "the one      *)
(* serial" anew, can only meet the board that was meant or one that moved  *)
(* (ReachesMeant), and what it leaves on it starts (Installed).            *)
(*                                                                         *)
(* AdviceWorks needs another invariant, AdviceInv, over the configuration, *)
(* the refusal and the fixes followed since: each fix is named only where  *)
(* following it leads to a flasher that writes, and what was followed is   *)
(* still so.                                                               *)
(***************************************************************************)
EXTENDS FirstInstall, TLAPS, SequenceTheorems, WellFoundedInduction

\* Boards that are plugged in have each their port.
Seats ==
    \A b, c \in Board :
        board[b].mode # "off" /\ board[c].mode # "off" /\ board[b].port = board[c].port => b = c

\* Volumes are an RP2040's.
Volumes == mounted # {} => type.die = "rp2040"

\* A board that was just written comes back somewhere.
Starts == \A b \in Board : board[b].mode = "reset" => Boots(b) # "off"

\* A build stages one image of a kind: to look for it is to find it.
OnePerKind == \A i, j \in cfg.staged : i.kind = j.kind => i = j

\* What the job has and has not done, by where it is.
Course ==
    /\ job.pc \in {"idle", "asked", "queued", "upload", "request", "handoff"} => job.wrote = NoBoard /\ job.paired = NoId
    /\ job.pc # "done" => job.told = {}
    /\ job.pc \in {"asked", "queued", "upload"} => job.erased = 0
    /\ job.pc = "upload" => job.flasher = "platformio"
    /\ job.pc \in {"request", "handoff"} => job.id = NoId /\ ~type.boot /\ job.meant # NoBoard /\ job.flasher = "bootsel"
    /\ job.pc = "handoff" => \E image \in cfg.staged : image.kind = "uf2" /\ image.at = 1
    /\ job.flasher = "platformio" => job.id = NoId
    /\ job.pc # "idle" => (job.meant = NoBoard <=> job.port = NoPort)
    /\ job.id # NoId => job.meant # NoBoard /\ rid[job.meant] = job.id
    /\ job.paired \in {NoId, job.id}

\* The board that was meant, unless it moved, is where the job saw it, as the
\* job saw it until it is written.
InPlace ==
    job.pc # "idle" /\ job.meant \in Board \ moved =>
        /\ board[job.meant].mode # "off" /\ board[job.meant].port = job.port
        /\ job.pc \in {"asked", "queued"} /\ job.flasher = "dfu_util" =>
               board[job.meant].mode = "rom" /\ rid[job.meant] = job.id
        /\ job.pc \in {"asked", "queued"} /\ job.flasher = "bootsel" => job.meant \in mounted
        /\ job.pc \in {"asked", "upload"} /\ job.flasher = "platformio" => On(job.meant)

\* No other board that did not move is on its port.
Aside ==
    job.pc # "idle" /\ job.port # NoPort =>
        \A b \in Board \ (moved \cup {job.meant}) : board[b].mode # "off" => board[b].port # job.port

\* The board written is the one meant, or one that answers to its name, and the
\* one reported too, unless the meant one was moved.
ReachesMeant ==
    /\ WritesTheMeant
    /\ job.wrote # NoBoard /\ job.id # NoId =>
           rid[job.wrote] = job.id \/ (job.flasher = "bootsel" /\ job.meant \in moved)
    /\ job.port # NoPort => \A b \in job.told : b = job.meant \/ {b, job.meant} \subseteq moved

\* From the write to the end the board holds what was installed.
Installed ==
    job.pc \in {"wrote", "waiting", "announce", "settling", "done"} /\ job.wrote # NoBoard =>
        IF ~type.boot THEN board[job.wrote].low = "app"
        ELSE job.erased = job.image \/ job.flasher = "dfu_util" => Boots(job.wrote) = "katapult"

IInv == /\ TypeOK /\ Seats /\ Volumes /\ Starts /\ OnePerKind
        /\ Course /\ InPlace /\ Aside /\ ReachesMeant /\ Installed

-----------------------------------------------------------------------------
LEMMA BootsTyped ==
  ASSUME TypeOK, NEW b \in Board
  PROVE  /\ Boots(b) \in {"run", "katapult", "rom", "off"}
         /\ type.die \in {"rp2040", "esp32"} \/ board[b].low \in {"app", "katapult1", "katapult2"} => Boots(b) # "off"
  <1>1. board[b].low \in Low
    BY DEF TypeOK, BoardState
  <1>2. CASE board[b].low = "app" \/ katapult_at(board[b].low) \in board[b].old
    BY <1>2 DEF Boots
  <1>3. CASE ~(board[b].low = "app" \/ katapult_at(board[b].low) \in board[b].old)
    BY <1>1, <1>3 DEF Boots, katapult_at, Low
  <1>4. QED
    BY <1>2, <1>3

LEMMA BuildTyped ==
  ASSUME NEW answer \in Address
  PROVE  Build(answer) \in SUBSET Image /\ \A i, j \in Build(answer) : i.kind = j.kind => i = j
  BY DEF Build, Image, Address

LEMMA EventTyped ==
  ASSUME TypeOK, Event
  PROVE  events' \in 0..MaxEvents
  <1>1. events \in 0..MaxEvents
    BY DEF TypeOK, Config
  <1>2. QED
    BY <1>1, Bounds DEF Event

LEMMA TypeTyped ==
  ASSUME TypeOK
  PROVE  /\ type.die \in {"stm32", "rp2040", "esp32"} /\ type.boot \in BOOLEAN
         /\ type.helper \in Helpers /\ type.configured \in SUBSET Board
  BY Shapes DEF TypeOK, Config

\* A step that changes nothing but the configuration, what a refusal said and
\* the count of events.
LEMMA ConfigOnly ==
  ASSUME IInv, UNCHANGED <<type, rid, board, mounted, job, moved>>,
         cfg' \in Config, cfg'.chip \in {type.die, ""},
         events' \in 0..MaxEvents,
         \A i, j \in cfg'.staged : i.kind = j.kind => i = j,
         job.pc = "handoff" => cfg'.staged = cfg.staged
  PROVE  IInv'
  <1>1. TypeOK' /\ Seats' /\ Volumes' /\ OnePerKind'
    BY DEF IInv, TypeOK, Config, Seats, Volumes, OnePerKind, InRom
  <1>2. Starts' /\ Course'
    BY DEF IInv, Starts, Course, Boots
  <1>3. InPlace' /\ Aside' /\ ReachesMeant' /\ Installed'
    BY DEF IInv, InPlace, Aside, ReachesMeant, WritesTheMeant, Installed, On, Boots
  <1>4. QED
    BY <1>1, <1>2, <1>3 DEF IInv

LEMMA StutterIInv ==
  ASSUME IInv, UNCHANGED vars
  PROVE  IInv'
  <1>1. OnePerKind /\ TypeOK
    BY DEF IInv
  <1>2. QED
    BY <1>1, ConfigOnly DEF vars, OnePerKind, TypeOK, Config

LEMMA RefuseIInv ==
  ASSUME IInv, NEW goal, NEW fixes, Refuse(goal, fixes)
  PROVE  IInv'
  <1>1. OnePerKind /\ TypeOK
    BY DEF IInv
  <1>2. QED
    BY <1>1, ConfigOnly DEF Refuse, OnePerKind, TypeOK, Config

LEMMA RebuildIInv ==
  ASSUME IInv, NEW answer \in Address, Rebuild(answer)
  PROVE  IInv'
  <1>1. TypeOK
    BY DEF IInv
  <1>2. events' \in 0..MaxEvents /\ job.pc # "handoff"
    BY <1>1, EventTyped DEF Rebuild, LockFree
  <1>3. cfg' = [cfg EXCEPT !.answer = answer, !.staged = Build(answer)]
    BY DEF Rebuild
  <1>4. cfg' \in Config /\ cfg'.chip \in {type.die, ""} /\ cfg'.staged = Build(answer)
    BY <1>1, <1>3, BuildTyped DEF TypeOK, Config
  <1>5. UNCHANGED <<type, rid, board, mounted, job, moved>>
    BY DEF Rebuild
  <1>6. \A i, j \in cfg'.staged : i.kind = j.kind => i = j
    <2>1. \A i, j \in Build(answer) : i.kind = j.kind => i = j
      BY BuildTyped
    <2>2. cfg'.staged = Build(answer)
      BY <1>4
    <2>3. QED
      BY <2>1, <2>2
  <1>7. QED
    BY <1>2, <1>4, <1>5, <1>6, ConfigOnly

LEMMA EditIInv ==
  ASSUME IInv, Edit
  PROVE  IInv'
  <1>1. TypeOK /\ OnePerKind
    BY DEF IInv
  <1>2. events' \in 0..MaxEvents
    BY <1>1, EventTyped DEF Edit
  <1>3. cfg' \in Config /\ cfg'.chip \in {type.die, ""} /\ cfg'.staged = cfg.staged
    <2>1. CASE cfg' = [cfg EXCEPT !.answer = 3 - @]
      <3>1. cfg.answer \in Address
        BY <1>1 DEF TypeOK, Config
      <3>2. 3 - cfg.answer \in Address
        BY <3>1 DEF Address
      <3>3. QED
        BY <1>1, <2>1, <3>2 DEF TypeOK, Config
    <2>2. CASE \E l \in Lists \ {cfg.listed} : cfg' = [cfg EXCEPT !.listed = l]
      BY <1>1, <2>2, Shapes DEF TypeOK, Config
    <2>3. QED
      BY <2>1, <2>2 DEF Edit
  <1>4. QED
    BY <1>1, <1>2, <1>3, ConfigOnly DEF Edit, OnePerKind

LEMMA FollowIInv ==
  ASSUME IInv, NEW fix, Follow(fix)
  PROVE  IInv'
  <1>1. TypeOK /\ OnePerKind
    BY DEF IInv
  <1> DEFINE answer == IF fix = "no_offset" THEN 1 ELSE IF fix = "some_offset" THEN 2 ELSE cfg.answer
             staged == IF fix \in {"build", "no_offset", "some_offset"} THEN Build(answer) ELSE cfg.staged
             listed == Adding(fix)
             helper == IF fix \in {"add_helper", "list_bootsel_and_helper"} THEN "klipper" ELSE cfg.helper
             chip == IF fix = "set_chipset" THEN type.die ELSE cfg.chip
  <1>2. answer \in Address
    BY <1>1 DEF TypeOK, Config, Address
  <1>3. staged \in SUBSET Image /\ \A i, j \in staged : i.kind = j.kind => i = j
    <2> HIDE DEF answer
    <2> QED
      BY <1>1, <1>2, BuildTyped DEF TypeOK, Config, OnePerKind
  <1>4. listed \in Seq(FLASHERS)
    <2>1. cfg.listed \in Seq(FLASHERS)
      BY <1>1 DEF TypeOK, Config
    <2>2. \A f \in FLASHERS : Append(cfg.listed, f) \in Seq(FLASHERS)
      BY <2>1
    <2>3. fix \in DOMAIN Adds => Adds[fix] \in FLASHERS
      BY DEF Adds, FLASHERS
    <2>4. QED
      BY <2>1, <2>2, <2>3 DEF Adding
  <1>5. helper \in Helpers /\ chip \in {type.die, ""} /\ chip \in {"stm32", "rp2040", "esp32", ""}
    BY <1>1, TypeTyped DEF TypeOK, Config, Helpers
  <1>6. cfg' = [cfg EXCEPT !.listed = listed, !.helper = helper, !.chip = chip, !.answer = answer,
                           !.staged = staged]
    BY DEF Follow
  <1>7. /\ events' \in 0..MaxEvents /\ job.pc # "handoff"
        /\ UNCHANGED <<type, rid, board, mounted, job, moved>>
    BY <1>1 DEF Follow, TypeOK, Config
  <1> HIDE DEF answer, staged, listed, helper, chip
  <1>8. cfg' \in Config /\ cfg'.chip \in {type.die, ""} /\ cfg'.staged = staged
    BY <1>1, <1>2, <1>3, <1>4, <1>5, <1>6 DEF TypeOK, Config
  <1>9. QED
    BY <1>3, <1>7, <1>8, ConfigOnly
-----------------------------------------------------------------------------
\* The bench moves a board or mounts its volume, and leaves the job alone.
LEMMA JobAlone ==
  ASSUME IInv, UNCHANGED <<type, cfg, rid, job>>, board' \in [Board -> BoardState],
         \A c \in Board : board'[c].low = board[c].low /\ board'[c].old = board[c].old,
         moved \subseteq moved'
  PROVE  OnePerKind' /\ Course' /\ ReachesMeant' /\ Installed'
  <1>1. OnePerKind' /\ Course'
    BY DEF IInv, OnePerKind, Course
  <1>2. ReachesMeant'
    BY DEF IInv, ReachesMeant, WritesTheMeant
  <1>3. Installed'
    <2>1. job.wrote \in Board \cup {NoBoard}
      BY DEF IInv, TypeOK, JobState
    <2>2. ASSUME job.wrote \in Board
          PROVE  board'[job.wrote].low = board[job.wrote].low /\ Boots(job.wrote)' = Boots(job.wrote)
      BY <2>2 DEF Boots
    <2>3. QED
      BY <2>1, <2>2 DEF IInv, Installed
  <1>4. QED
    BY <1>1, <1>2, <1>3

LEMMA PlugInIInv ==
  ASSUME IInv, NEW b \in Board, NEW p \in Port, NEW mode \in {"run", "katapult", "rom", "off"}, PlugIn(b, p, mode)
  PROVE  IInv'
  <1>1. TypeOK /\ events' \in 0..MaxEvents
    BY EventTyped DEF IInv, PlugIn
  <1>2. /\ board' = [board EXCEPT ![b].mode = mode, ![b].port = p] /\ mode # "off"
        /\ board[b].mode = "off" /\ moved' = moved \cup {b}
        /\ UNCHANGED <<type, cfg, rid, mounted, job>>
    BY DEF PlugIn
  <1>3. \A c \in Board : board[c].mode # "off" => board[c].port # p
    BY DEF PlugIn, Free
  <1>4. /\ board' \in [Board -> BoardState]
        /\ board'[b].mode = mode /\ board'[b].port = p
        /\ \A c \in Board \ {b} : board'[c] = board[c]
        /\ \A c \in Board : board'[c].low = board[c].low /\ board'[c].old = board[c].old
    <2>1. board \in [Board -> BoardState] /\ mode \in Modes
      BY <1>1 DEF TypeOK, Modes
    <2>2. QED
      BY <1>2, <2>1 DEF BoardState
  <1>5. b \notin mounted /\ mounted \subseteq Board
    BY <1>1, <1>2 DEF TypeOK, InRom
  <1>6. TypeOK'
    <2>1. (mounted \subseteq InRom)'
      BY <1>1, <1>2, <1>4, <1>5 DEF TypeOK, InRom
    <2>2. QED
      BY <1>1, <1>2, <1>4, <2>1 DEF TypeOK
  <1>7. Seats'
    BY <1>3, <1>4 DEF IInv, Seats
  <1>8. Volumes' /\ Starts'
    <2>1. Volumes'
      BY <1>2 DEF IInv, Volumes
    <2>2. ASSUME NEW c \in Board, board'[c].mode = "reset"
          PROVE  Boots(c)' # "off"
      <3>1. c # b
        BY <1>4, <2>2
      <3>2. Boots(c) # "off"
        BY <1>4, <2>2, <3>1 DEF IInv, Starts
      <3>3. QED
        BY <1>2, <1>4, <3>1, <3>2 DEF Boots
    <2>3. QED
      BY <2>1, <2>2 DEF Starts
  <1>9. InPlace' /\ Aside'
    <2>1. InPlace'
      BY <1>2, <1>4, <1>5 DEF IInv, InPlace, On
    <2>2. Aside'
      BY <1>2, <1>4 DEF IInv, Aside
    <2>3. QED
      BY <2>1, <2>2
  <1>10. OnePerKind' /\ Course' /\ ReachesMeant' /\ Installed'
    BY <1>2, <1>4, JobAlone
  <1>11. QED
    BY <1>6, <1>7, <1>8, <1>9, <1>10 DEF IInv

LEMMA PullIInv ==
  ASSUME IInv, NEW b \in Board, Pull(b)
  PROVE  IInv'
  <1>1. TypeOK /\ events' \in 0..MaxEvents
    BY EventTyped DEF IInv, Pull
  <1>2. /\ board' = [board EXCEPT ![b].mode = "off"] /\ mounted' = mounted \ {b}
        /\ moved' = moved \cup {b} /\ UNCHANGED <<type, cfg, rid, job>>
    BY DEF Pull
  <1>3. /\ board' \in [Board -> BoardState]
        /\ board'[b].mode = "off"
        /\ \A c \in Board \ {b} : board'[c] = board[c]
        /\ \A c \in Board : board'[c].low = board[c].low /\ board'[c].old = board[c].old
    <2>1. board \in [Board -> BoardState] /\ "off" \in Modes
      BY <1>1 DEF TypeOK, Modes
    <2>2. QED
      BY <1>2, <2>1 DEF BoardState
  <1>4. TypeOK'
    <2>1. (mounted \subseteq InRom)'
      BY <1>1, <1>2, <1>3 DEF TypeOK, InRom
    <2>2. QED
      BY <1>1, <1>2, <1>3, <2>1 DEF TypeOK
  <1>5. Seats' /\ Volumes'
    BY <1>2, <1>3 DEF IInv, Seats, Volumes
  <1>6. Starts'
    <2>1. SUFFICES ASSUME NEW c \in Board, board'[c].mode = "reset"
                   PROVE  Boots(c)' # "off"
      BY DEF Starts
    <2>2. c # b
      BY <1>3, <2>1
    <2>3. Boots(c) # "off"
      BY <1>3, <2>1, <2>2 DEF IInv, Starts
    <2>4. QED
      BY <1>2, <1>3, <2>2, <2>3 DEF Boots
  <1>7. InPlace'
    BY <1>2, <1>3 DEF IInv, InPlace, On
  <1>8. Aside'
    BY <1>2, <1>3 DEF IInv, Aside
  <1>9. OnePerKind' /\ Course' /\ ReachesMeant' /\ Installed'
    BY <1>2, <1>3, JobAlone
  <1>10. QED
    BY <1>4, <1>5, <1>6, <1>7, <1>8, <1>9 DEF IInv

LEMMA ResetIInv ==
  ASSUME IInv, NEW b \in Board, Reset(b)
  PROVE  IInv'
  <1>1. TypeOK
    BY DEF IInv
  <1>2. /\ board' = [board EXCEPT ![b].mode = Boots(b)] /\ board[b].mode = "reset"
        /\ UNCHANGED <<type, cfg, rid, mounted, job, moved, events>>
    BY DEF Reset
  <1>3. Boots(b) \in {"run", "katapult", "rom"}
    BY <1>1, <1>2, BootsTyped DEF IInv, Starts
  <1>4. /\ board' \in [Board -> BoardState]
        /\ board'[b].mode \in {"run", "katapult", "rom"}
        /\ \A c \in Board \ {b} : board'[c] = board[c]
        /\ \A c \in Board : /\ board'[c].low = board[c].low /\ board'[c].old = board[c].old
                            /\ board'[c].port = board[c].port
    <2>1. board \in [Board -> BoardState]
          /\ {"run", "katapult", "rom"} \subseteq Modes
      BY <1>1 DEF TypeOK, Modes
    <2>2. QED
      BY <1>2, <1>3, <2>1 DEF BoardState
  <1>5. TypeOK'
    <2>1. (mounted \subseteq InRom)'
      BY <1>1, <1>2, <1>4 DEF TypeOK, InRom
    <2>2. QED
      BY <1>1, <1>2, <1>4, <2>1 DEF TypeOK
  <1>6. Seats' /\ Volumes'
    BY <1>2, <1>4 DEF IInv, Seats, Volumes
  <1>7. Starts'
    <2>1. SUFFICES ASSUME NEW c \in Board, board'[c].mode = "reset"
                   PROVE  Boots(c)' # "off"
      BY DEF Starts
    <2>2. c # b
      BY <1>4, <2>1
    <2>3. Boots(c) # "off"
      BY <1>4, <2>1, <2>2 DEF IInv, Starts
    <2>4. QED
      BY <1>2, <1>4, <2>2, <2>3 DEF Boots
  <1>8. InPlace'
    BY <1>2, <1>4 DEF IInv, InPlace, On
  <1>9. Aside'
    BY <1>2, <1>4 DEF IInv, Aside
  <1>10. OnePerKind' /\ Course' /\ ReachesMeant' /\ Installed'
    BY <1>2, <1>4, JobAlone
  <1>11. QED
    BY <1>5, <1>6, <1>7, <1>8, <1>9, <1>10 DEF IInv

LEMMA MountIInv ==
  ASSUME IInv, NEW b \in Board, Mount(b)
  PROVE  IInv'
  <1>1. TypeOK
    BY DEF IInv
  <1>2. /\ type.die = "rp2040" /\ b \in InRom /\ mounted' = mounted \cup {b}
        /\ UNCHANGED <<type, cfg, rid, board, job, moved, events>>
    BY DEF Mount
  <1>3. TypeOK'
    BY <1>1, <1>2 DEF TypeOK, InRom
  <1>4. Seats' /\ Volumes' /\ Starts'
    BY <1>2 DEF IInv, Seats, Volumes, Starts, Boots
  <1>5. InPlace' /\ Aside'
    BY <1>2 DEF IInv, InPlace, Aside, On
  <1>6. OnePerKind' /\ Course' /\ ReachesMeant' /\ Installed'
    BY <1>1, <1>2, JobAlone DEF TypeOK
  <1>7. QED
    BY <1>3, <1>4, <1>5, <1>6 DEF IInv
-----------------------------------------------------------------------------
\* The job goes on, and nothing moves.
LEMMA BenchAlone ==
  ASSUME IInv, UNCHANGED <<type, cfg, rid, board, mounted, moved, events>>
  PROVE  Seats' /\ Volumes' /\ Starts' /\ OnePerKind'
  BY DEF IInv, Seats, Volumes, Starts, OnePerKind, Boots

LEMMA FailIInv ==
  ASSUME IInv, Fail, job.pc # "idle", job.pc # "done"
  PROVE  IInv'
  <1>1. /\ job' = [job EXCEPT !.pc = "failed"]
        /\ UNCHANGED <<type, cfg, rid, board, mounted, moved, events>>
    BY DEF Fail, Step, Quiet
  <1>2. TypeOK'
    BY <1>1 DEF IInv, TypeOK, JobState, InRom, Stages
  <1>3. Course'
    BY <1>1 DEF IInv, TypeOK, JobState, Course
  <1>4. InPlace' /\ Aside'
    BY <1>1 DEF IInv, TypeOK, JobState, InPlace, Aside
  <1>5. ReachesMeant' /\ Installed'
    BY <1>1 DEF IInv, TypeOK, JobState, ReachesMeant, WritesTheMeant, Installed
  <1>6. QED
    BY <1>1, <1>2, <1>3, <1>4, <1>5, BenchAlone DEF IInv

LEMMA SubmitIInv ==
  ASSUME IInv, Submit
  PROVE  IInv'
  <1>1. /\ job.pc = "asked"
        /\ job' = [job EXCEPT !.pc = IF job.flasher \in first_writer THEN "upload" ELSE "queued"]
        /\ UNCHANGED <<type, cfg, rid, board, mounted, moved, events>>
    BY DEF Submit
  <1>2. TypeOK'
    BY <1>1 DEF IInv, TypeOK, JobState, InRom, Stages
  <1>3. Course'
    BY <1>1 DEF IInv, TypeOK, JobState, Course, first_writer
  <1>4. InPlace' /\ Aside'
    BY <1>1 DEF IInv, TypeOK, JobState, InPlace, Aside, On, first_writer
  <1>5. ReachesMeant' /\ Installed'
    BY <1>1 DEF IInv, TypeOK, JobState, ReachesMeant, WritesTheMeant, Installed
  <1>6. QED
    BY <1>1, <1>2, <1>3, <1>4, <1>5, BenchAlone DEF IInv

LEMMA record_pairingIInv ==
  ASSUME IInv, record_pairing
  PROVE  IInv'
  <1>1. /\ job.pc = "wrote" /\ job' = [job EXCEPT !.pc = "waiting", !.paired = job.id]
        /\ UNCHANGED <<type, cfg, rid, board, mounted, moved, events>>
    BY DEF record_pairing, Quiet
  <1>2. TypeOK'
    BY <1>1 DEF IInv, TypeOK, JobState, InRom, Stages
  <1>3. Course'
    BY <1>1 DEF IInv, TypeOK, JobState, Course
  <1>4. InPlace' /\ Aside'
    BY <1>1 DEF IInv, TypeOK, JobState, InPlace, Aside
  <1>5. ReachesMeant'
    BY <1>1 DEF IInv, TypeOK, JobState, ReachesMeant, WritesTheMeant
  <1>6. Installed'
    BY <1>1 DEF IInv, TypeOK, JobState, Installed, Boots
  <1>7. QED
    BY <1>1, <1>2, <1>3, <1>4, <1>5, <1>6, BenchAlone DEF IInv

\* Whoever is found on the job's port at its end is the board that was meant,
\* or both have moved.
LEMMA FoundOnPort ==
  ASSUME IInv, job.pc # "idle", job.port # NoPort,
         NEW b \in Board, board[b].mode # "off", board[b].port = job.port
  PROVE  b = job.meant \/ {b, job.meant} \subseteq moved
  <1>1. job.meant \in Board
    BY DEF IInv, TypeOK, JobState, Course
  <1>2. b # job.meant => b \in moved
    BY DEF IInv, Aside
  <1>3. job.meant \notin moved => b = job.meant
    BY <1>1 DEF IInv, InPlace, Seats
  <1>4. QED
    BY <1>2, <1>3

LEMMA TellIInv ==
  ASSUME IInv, job.pc \in {"waiting", "announce", "settling"},
         NEW heard \in SUBSET Board, job' = [job EXCEPT !.pc = "done", !.told = heard],
         job.port # NoPort => \A b \in heard : b = job.meant \/ {b, job.meant} \subseteq moved,
         UNCHANGED <<type, cfg, rid, board, mounted, moved, events>>
  PROVE  IInv'
  <1>1. TypeOK'
    BY DEF IInv, TypeOK, JobState, InRom, Stages
  <1>2. Course'
    BY DEF IInv, TypeOK, JobState, Course
  <1>3. InPlace' /\ Aside'
    BY DEF IInv, TypeOK, JobState, InPlace, Aside
  <1>4. ReachesMeant'
    BY DEF IInv, TypeOK, JobState, ReachesMeant, WritesTheMeant
  <1>5. Installed'
    BY DEF IInv, TypeOK, JobState, Installed, Boots
  <1>6. QED
    BY <1>1, <1>2, <1>3, <1>4, <1>5, BenchAlone DEF IInv

LEMMA wait_for_new_deviceIInv ==
  ASSUME IInv, wait_for_new_device
  PROVE  IInv'
  <1> DEFINE appeared == {b \in Running \ job.before : job.port = NoPort \/ board[b].port = job.port}
  <1>1. appeared \in SUBSET Board /\ \A b \in appeared : board[b].mode # "off"
    BY DEF Running
  <1>2. job.port # NoPort => \A b \in appeared : board[b].port = job.port
    OBVIOUS
  <1>3. /\ job.pc = "waiting" /\ job' = [job EXCEPT !.pc = "done", !.told = appeared]
        /\ UNCHANGED <<type, cfg, rid, board, mounted, moved, events>>
    BY DEF wait_for_new_device, Quiet
  <1> HIDE DEF appeared
  <1>4. job.port # NoPort => \A b \in appeared : b = job.meant \/ {b, job.meant} \subseteq moved
    BY <1>1, <1>2, <1>3, FoundOnPort
  <1>5. QED
    BY <1>1, <1>3, <1>4, TellIInv

LEMMA announcedIInv ==
  ASSUME IInv, announced
  PROVE  IInv'
  <1>1. PICK heard \in {{}} \cup {{b} : b \in OnTty} :
             job' = [job EXCEPT !.pc = "done", !.told = heard]
    BY DEF announced
  <1>2. heard \in SUBSET Board /\ \A b \in heard : b = job.meant \/ {b, job.meant} \subseteq moved
    BY <1>1 DEF OnTty
  <1>3. job.pc = "announce" /\ UNCHANGED <<type, cfg, rid, board, mounted, moved, events>>
    BY DEF announced, Quiet
  <1>4. QED
    BY <1>1, <1>2, <1>3, TellIInv

LEMMA wait_readyIInv ==
  ASSUME IInv, wait_ready
  PROVE  IInv'
  <1> DEFINE back == {b \in Board : board[b].mode = "run" /\ board[b].port = job.port}
  <1>1. back \in SUBSET Board /\ \A b \in back : board[b].mode # "off" /\ board[b].port = job.port
    OBVIOUS
  <1>2. /\ job.pc = "settling" /\ job' = [job EXCEPT !.pc = "done", !.told = back]
        /\ UNCHANGED <<type, cfg, rid, board, mounted, moved, events>>
    BY DEF wait_ready, Quiet
  <1> HIDE DEF back
  <1>3. job.port # NoPort => \A b \in back : b = job.meant \/ {b, job.meant} \subseteq moved
    BY <1>1, <1>2, FoundOnPort
  <1>4. QED
    BY <1>1, <1>2, <1>3, TellIInv
-----------------------------------------------------------------------------
\* What a job begins with.
LEMMA Candidate ==
  ASSUME TypeOK, NEW f, NEW known, NEW named, NEW picked,
         NEW b \in candidates(f, scan(f, known), named, picked)
  PROVE  /\ b \in Board \cup {NoBoard} /\ f \in {"dfu_util", "bootsel", "platformio"}
         /\ f = "dfu_util" => b \in InRom
         /\ f = "bootsel" /\ b # NoBoard => b \in mounted
         /\ f = "platformio" => b \in Board /\ On(b)
  <1>1. mounted \subseteq InRom
    BY DEF TypeOK
  <1>2. \A S : Sole(S) => (CHOOSE c \in S : TRUE) \in S
    BY DEF Sole
  <1>3. CASE f = "dfu_util"
    BY <1>2, <1>3 DEF scan, dfu_scan, candidates, InRom
  <1>4. CASE f = "bootsel"
    <2>1. b = NoBoard \/ b \in mounted
      <3>1. CASE Sole(InRom) /\ Sole(mounted)
        <4>1. (CHOOSE c \in InRom : TRUE) \in mounted
          <5>1. InRom = mounted
            BY <1>1, <3>1 DEF Sole
          <5>2. QED
            BY <1>2, <3>1, <5>1
        <4>2. QED
          BY <1>4, <3>1, <4>1 DEF scan, bootsel_scan, candidates
      <3>2. CASE ~Sole(InRom) /\ Sole(mounted)
        BY <1>2, <1>4, <3>2 DEF scan, bootsel_scan, candidates
      <3>3. CASE ~Sole(mounted)
        BY <1>4, <3>3 DEF scan, bootsel_scan, candidates
      <3>4. QED
        BY <3>1, <3>2, <3>3
    <2>2. QED
      BY <1>1, <1>4, <2>1 DEF InRom
  <1>5. CASE f = "platformio"
    <2> DEFINE devices == {c \in Board : On(c)}
               free == devices \ (IF known # "no_klipper" THEN type.configured ELSE {})
               seen == scan(f, known)
    <2>1. free \subseteq devices
      OBVIOUS
    <2>2. seen = [devices |-> devices, ready |-> known # "no_table" /\ Sole(free),
                  chosen |-> IF known # "no_table" /\ Sole(free)
                             THEN CHOOSE c \in free : TRUE ELSE NoBoard]
      BY <1>5 DEF scan, platformio_scan
    <2> HIDE DEF free
    <2>3. /\ seen.devices = devices /\ seen.ready = (known # "no_table" /\ Sole(free))
          /\ seen.chosen = IF known # "no_table" /\ Sole(free) THEN CHOOSE c \in free : TRUE ELSE NoBoard
      <3> HIDE DEF devices, seen
      <3>1. QED
        BY <2>2, Zenon
    <2>4. seen.ready => seen.chosen \in devices
      <3> HIDE DEF devices, seen
      <3>1. CASE known # "no_table" /\ Sole(free)
        BY <1>2, <2>1, <2>3, <3>1
      <3>2. CASE ~(known # "no_table" /\ Sole(free))
        BY <2>3, <3>2
      <3>3. QED
        BY <3>1, <3>2
    <2>5. b \in candidates(f, seen, named, picked)
      OBVIOUS
    <2>6. b \in devices
      <3>1. seen.devices = devices /\ (seen.ready => seen.chosen \in devices)
        BY <2>3, <2>4
      <3> HIDE DEF devices, seen
      <3>2. QED
        BY <1>5, <2>5, <3>1 DEF candidates
    <2>7. QED
      BY <1>5, <2>6
  <1>6. CASE f \notin {"dfu_util", "bootsel", "platformio"}
    BY <1>6 DEF scan, no_scan, candidates
  <1>7. QED
    BY <1>3, <1>4, <1>5, <1>6

LEMMA add_mcu_startIInv ==
  ASSUME IInv, NEW named, NEW picked, NEW known, add_mcu_start(named, picked, known)
  PROVE  IInv'
  <1>1. TypeOK /\ job.pc = "idle"
    BY DEF IInv, add_mcu_start
  <1>2. CASE unready.flasher = "nobody"
    BY <1>2, RefuseIInv DEF add_mcu_start
  <1>3. CASE unready.flasher # "nobody"
    <2> DEFINE f == unready.flasher
               meant == candidates(f, scan(f, known), named, picked)
    <2>1. CASE UNCHANGED vars
      BY <2>1, StutterIInv
    <2>2. ASSUME NEW b \in meant,
                 job' = [NoJob EXCEPT
                          !.pc = "asked", !.flasher = f, !.meant = b, !.before = Running,
                          !.id = IF b = NoBoard \/ f = "platformio" THEN NoId ELSE rid[b],
                          !.port = IF b = NoBoard THEN NoPort ELSE board[b].port],
                 moved' = {},
                 UNCHANGED <<type, cfg, rid, board, mounted, advice, tried, events>>
          PROVE  IInv'
      <3>1. /\ b \in Board \cup {NoBoard} /\ f \in {"dfu_util", "bootsel", "platformio"}
            /\ f = "dfu_util" => b \in InRom
            /\ f = "bootsel" /\ b # NoBoard => b \in mounted
            /\ f = "platformio" => b \in Board /\ On(b)
        BY <1>1, Candidate
      <3> DEFINE id == IF b = NoBoard \/ f = "platformio" THEN NoId ELSE rid[b]
                 port == IF b = NoBoard THEN NoPort ELSE board[b].port
      <3>2. /\ Running \in SUBSET Board
            /\ id \in Id \cup {NoId} /\ port \in Port \cup {NoPort}
            /\ (b = NoBoard <=> port = NoPort) /\ f \in FLASHERS
        <4>1. Running \in SUBSET Board /\ f \in FLASHERS
          BY <3>1 DEF Running, FLASHERS
        <4>2. b \in Board => rid[b] \in Id \cup {NoId} /\ board[b].port \in Port
          BY <1>1 DEF TypeOK, BoardState
        <4>3. b \in Board => board[b].port # NoPort
          BY <4>2, Names
        <4>4. QED
          BY <3>1, <4>1, <4>2, <4>3
      <3>3. b # NoBoard => board[b].mode # "off"
        BY <1>1, <3>1 DEF TypeOK, InRom, On
      <3>4. job' = [pc |-> "asked", flasher |-> f, meant |-> b, id |-> id, port |-> port,
                    before |-> Running, wrote |-> NoBoard, image |-> 0, erased |-> 0,
                    paired |-> NoId, told |-> {}]
        BY <2>2 DEF NoJob
      <3>5. /\ id # NoId => b # NoBoard /\ f # "platformio" /\ rid[b] = id
            /\ f = "dfu_util" => rid[b] = id
            /\ b # NoBoard => board[b].port = port
        BY <1>1, <3>1, Names DEF TypeOK, InRom
      <3> HIDE DEF f, meant, id, port
      <3>4a. /\ job'.pc = "asked" /\ job'.flasher = f /\ job'.meant = b /\ job'.id = id
             /\ job'.port = port /\ job'.wrote = NoBoard /\ job'.erased = 0
             /\ job'.paired = NoId /\ job'.told = {}
        BY <3>4
      <3>4b. job' \in JobState
        BY <3>1, <3>2, <3>4 DEF JobState, Stages
      <3>4c. moved' = {} /\ UNCHANGED <<type, cfg, rid, board, mounted, events>>
        BY <2>2
      <3>6. TypeOK'
        BY <1>1, <3>4b, <3>4c DEF TypeOK, InRom
      <3>7. Seats' /\ Volumes' /\ Starts' /\ OnePerKind'
        BY <3>4c DEF IInv, Seats, Volumes, Starts, OnePerKind, Boots
      <3>8. Course'
        BY <3>4c, <3>1, <3>2, <3>4a, <3>5 DEF Course
      <3>9. InPlace'
        <4>1. b \in Board => /\ board[b].mode # "off" /\ board[b].port = port
                             /\ f = "dfu_util" => board[b].mode = "rom" /\ rid[b] = id
                             /\ f = "bootsel" => b \in mounted
                             /\ f = "platformio" => On(b)
          BY <3>1, <3>2, <3>3, <3>5, Names DEF InRom
        <4>2. On(b)' = On(b)
          BY <3>4c DEF On
        <4>3. QED
          BY <3>4a, <3>4c, <4>1, <4>2 DEF InPlace
      <3>10. Aside'
        <4>1. SUFFICES ASSUME port # NoPort, NEW c \in Board \ {b}, board[c].mode # "off"
                       PROVE  board[c].port # port
          BY <3>4c, <3>4a DEF Aside
        <4>2. b \in Board /\ board[b].mode # "off" /\ board[b].port = port
          BY <3>1, <3>2, <3>3, <3>5, <4>1
        <4>3. QED
          BY <4>1, <4>2 DEF IInv, Seats
      <3>11. ReachesMeant' /\ Installed'
        BY <3>4c, <3>4a DEF ReachesMeant, WritesTheMeant, Installed
      <3>12. QED
        BY <3>6, <3>7, <3>8, <3>9, <3>10, <3>11 DEF IInv
    <2>3. QED
      BY <1>3, <2>1, <2>2 DEF add_mcu_start
  <1>4. QED
    BY <1>2, <1>3

LEMMA flashIInv ==
  ASSUME IInv, NEW b \in Board, flash(b)
  PROVE  IInv'
  <1>1. TypeOK /\ job.pc = "idle" /\ ~type.boot /\ b \in Running
    BY DEF IInv, flash
  <1>2. CASE \E fixes : Refuse("flash", fixes)
    BY <1>2, RefuseIInv
  <1>3. CASE UNCHANGED vars
    BY <1>3, StutterIInv
  <1>4. CASE /\ job' = [NoJob EXCEPT !.pc = "request", !.flasher = "bootsel", !.meant = b,
                                      !.port = board[b].port]
             /\ moved' = {}
             /\ UNCHANGED <<type, cfg, rid, board, mounted, advice, tried, events>>
    <2>1. job' = [pc |-> "request", flasher |-> "bootsel", meant |-> b, id |-> NoId, port |-> board[b].port,
                  before |-> {}, wrote |-> NoBoard, image |-> 0, erased |-> 0,
                  paired |-> NoId, told |-> {}]
      BY <1>4 DEF NoJob
    <2>2. board[b].mode # "off" /\ board[b].port \in Port
      BY <1>1 DEF Running, TypeOK, BoardState
    <2>2a. board[b].port # NoPort /\ b # NoBoard
      BY <2>2, Names
    <2>2b. /\ job'.pc = "request" /\ job'.flasher = "bootsel" /\ job'.meant = b /\ job'.id = NoId
           /\ job'.port = board[b].port /\ job'.wrote = NoBoard /\ job'.paired = NoId /\ job'.told = {}
      BY <2>1
    <2>2c. job' \in JobState
      BY <2>1, <2>2 DEF JobState, Stages, FLASHERS
    <2>2d. moved' = {} /\ UNCHANGED <<type, cfg, rid, board, mounted, events>>
      BY <1>4
    <2>3. TypeOK'
      BY <1>1, <2>2c, <2>2d DEF TypeOK, InRom
    <2>4. Seats' /\ Volumes' /\ Starts' /\ OnePerKind'
      BY <2>2d DEF IInv, Seats, Volumes, Starts, OnePerKind, Boots
    <2>5. Course'
      BY <1>1, <2>2a, <2>2b, <2>2d DEF Course
    <2>6. InPlace'
      BY <2>2, <2>2b, <2>2d DEF InPlace
    <2>7. Aside'
      BY <2>2, <2>2b, <2>2d DEF IInv, Seats, Aside
    <2>8. ReachesMeant' /\ Installed'
      BY <2>2b, <2>2d DEF ReachesMeant, WritesTheMeant, Installed
    <2>9. QED
      BY <2>3, <2>4, <2>5, <2>6, <2>7, <2>8 DEF IInv
  <1>5. QED
    BY <1>2, <1>3, <1>4 DEF flash
-----------------------------------------------------------------------------
\* A write of a board in its ROM: the one that was meant, or that one moved.
LEMMA WrittenIInv ==
  ASSUME IInv, NEW b \in InRom, NEW image \in cfg.staged, NEW pc,
         Written(b, image, pc),
         <<job.pc, pc>> \in {<<"queued", "wrote">>, <<"handoff", "settling">>},
         <<job.flasher, image.kind>> \in {<<"dfu_util", "bin">>, <<"bootsel", "uf2">>},
         job.flasher = "bootsel" => b \in mounted,
         ~type.boot => image.at = 1,
         job.meant # NoBoard => b = job.meant \/ job.meant \in moved,
         job.id # NoId => rid[b] = job.id \/ (job.flasher = "bootsel" /\ job.meant \in moved)
  PROVE  IInv'
  <1>1. TypeOK /\ b \in Board /\ board[b].mode = "rom" /\ job.wrote = NoBoard
    BY DEF IInv, InRom, Course
  <1>2. image.at \in Address /\ cfg.answer \in Address /\ b # NoBoard
    BY <1>1, Names DEF TypeOK, Config, Image
  <1>3. UNCHANGED <<type, cfg, rid, moved, events>>
    BY DEF Written, Quiet
  <1>4. OnePerKind'
    BY <1>3 DEF IInv, OnePerKind
  <1>5. ASSUME board' = [board EXCEPT ![b] = Flashed(b, image, erasing(image))],
               mounted' = mounted \ {b},
               job' = [job EXCEPT !.pc = pc, !.wrote = b, !.image = image.at, !.erased = cfg.answer]
        PROVE  IInv'
    <2>1. erasing(image) \in SUBSET Address
      BY <1>2 DEF erasing
    <2> DEFINE low == IF type.boot THEN (IF image.at = 1 THEN "katapult1" ELSE "katapult2") ELSE "app"
               old == Flashed(b, image, erasing(image)).old
    <2>2. /\ Flashed(b, image, erasing(image)) = [board[b] EXCEPT !.mode = "reset", !.low = low, !.old = old]
          /\ old \in SUBSET Address
          /\ type.boot /\ image.kind = "bin" => old = {}
          /\ type.boot /\ image.kind = "uf2" => cfg.answer \notin old
      <3>1. board[b] \in BoardState
        BY <1>1 DEF TypeOK
      <3>2. board[b].old \in SUBSET Address
        BY <3>1 DEF BoardState
      <3>3. old = IF image.kind = "bin" THEN {}
                  ELSE IF ~type.boot /\ image.at # 1 THEN board[b].old \cup {image.at}
                  ELSE board[b].old \ erasing(image)
        BY <3>1 DEF Flashed, BoardState
      <3>4. Flashed(b, image, erasing(image)) = [board[b] EXCEPT !.mode = "reset", !.low = low, !.old = old]
        BY <3>1, <3>3 DEF Flashed, BoardState
      <3>5. old \in SUBSET Address
        BY <1>2, <3>2, <3>3
      <3>6. type.boot /\ image.kind = "uf2" => cfg.answer \notin old
        BY <3>3 DEF erasing
      <3>7. QED
        BY <3>3, <3>4, <3>5, <3>6
    <2>3. /\ board' \in [Board -> BoardState]
          /\ board'[b].mode = "reset" /\ board'[b].port = board[b].port
          /\ board'[b].low = low /\ board'[b].old = old
          /\ \A c \in Board \ {b} : board'[c] = board[c]
      <3>1. board \in [Board -> BoardState] /\ low \in Low /\ "reset" \in Modes
        BY <1>1 DEF TypeOK, Low, Modes
      <3> HIDE DEF low, old
      <3>2. [board[b] EXCEPT !.mode = "reset", !.low = low, !.old = old] \in BoardState
        <4>1. board[b] \in BoardState /\ old \in SUBSET Address
          BY <1>1, <2>2, <3>1
        <4>2. QED
          BY <3>1, <4>1 DEF BoardState
      <3>3. QED
        BY <1>1, <1>5, <2>2, <3>1, <3>2 DEF BoardState
    <2>4. /\ job'.pc = pc /\ job'.wrote = b /\ job'.image = image.at /\ job'.erased = cfg.answer
          /\ job'.flasher = job.flasher /\ job'.meant = job.meant /\ job'.id = job.id
          /\ job'.port = job.port /\ job'.paired = job.paired /\ job'.told = job.told
          /\ job' \in JobState
      <3>1. job \in JobState /\ pc \in Stages /\ b \in Board
        BY <1>1 DEF TypeOK, Stages
      <3>1a. image.at \in 0..2 /\ cfg.answer \in 0..2
        BY <1>2 DEF Address
      <3>2. QED
        BY <1>5, <3>1, <3>1a DEF JobState
    <2> HIDE DEF low, old
    <2>5. TypeOK'
      <3>1. (mounted \subseteq InRom)'
        BY <1>1, <1>5, <2>3 DEF TypeOK, InRom
      <3>2. QED
        BY <1>1, <1>3, <2>3, <2>4, <3>1 DEF TypeOK
    <2>6. Seats' /\ Volumes'
      BY <1>1, <1>3, <1>5, <2>3 DEF IInv, Seats, Volumes
    <2>7. board'[b].low \in {"app", "katapult1", "katapult2"} /\ (~type.boot => board'[b].low = "app")
      BY <2>3 DEF low
    <2>8. Starts'
      <3>1. SUFFICES ASSUME NEW c \in Board, board'[c].mode = "reset"
                     PROVE  Boots(c)' # "off"
        BY DEF Starts
      <3>2. CASE c = b
        BY <2>7, <3>2 DEF Boots, katapult_at
      <3>3. CASE c # b
        <4>1. Boots(c) # "off"
          BY <2>3, <3>1, <3>3 DEF IInv, Starts
        <4>2. QED
          BY <1>3, <2>3, <3>3, <4>1 DEF Boots
      <3>4. QED
        BY <3>2, <3>3
    <2>9. Course'
      BY <1>1, <1>3, <2>4 DEF IInv, Course
    <2>10. InPlace' /\ Aside'
      <3>1. InPlace'
        BY <1>1, <1>3, <2>3, <2>4 DEF IInv, InPlace
      <3>2. Aside'
        BY <1>1, <1>3, <2>3, <2>4 DEF IInv, Aside
      <3>3. QED
        BY <3>1, <3>2
    <2>11. ReachesMeant'
      BY <1>2, <1>3, <2>4 DEF IInv, Course, ReachesMeant, WritesTheMeant
    <2>12. Installed'
      <3>1. ASSUME type.boot, job'.erased = job'.image \/ job'.flasher = "dfu_util"
            PROVE  Boots(b)' = "katapult"
        <4>1. image.at \notin old
          BY <2>2, <2>4, <3>1
        <4>2. katapult_at(low) = image.at /\ low # "app" /\ image.at # 0
          BY <1>2, <3>1 DEF low, katapult_at, Address
        <4>3. QED
          BY <2>3, <4>1, <4>2 DEF Boots
      <3>2. QED
        BY <1>3, <2>4, <2>7, <3>1 DEF Installed
    <2>13. QED
      BY <1>4, <2>5, <2>6, <2>8, <2>9, <2>10, <2>11, <2>12 DEF IInv
  <1>6. ASSUME board' = [board EXCEPT ![b].low = "torn"], UNCHANGED mounted,
               job' = [job EXCEPT !.pc = "failed", !.wrote = b]
        PROVE  IInv'
    <2>1. /\ board' \in [Board -> BoardState]
          /\ board'[b].low = "torn"
          /\ \A c \in Board : board'[c].mode = board[c].mode /\ board'[c].port = board[c].port
          /\ \A c \in Board \ {b} : board'[c] = board[c]
      <3>1. board \in [Board -> BoardState] /\ "torn" \in Low
        BY <1>1 DEF TypeOK, Low
      <3>2. QED
        BY <1>1, <1>6, <3>1 DEF BoardState
    <2>2. /\ job'.pc = "failed" /\ job'.wrote = b
          /\ job'.flasher = job.flasher /\ job'.meant = job.meant /\ job'.id = job.id
          /\ job'.port = job.port /\ job'.paired = job.paired /\ job'.told = job.told
          /\ job' \in JobState
      <3>1. job \in JobState /\ "failed" \in Stages
        BY <1>1 DEF TypeOK, Stages
      <3>2. QED
        BY <1>1, <1>6, <3>1 DEF JobState
    <2>3. TypeOK'
      BY <1>1, <1>3, <1>6, <2>1, <2>2 DEF TypeOK, InRom
    <2>4. Seats' /\ Volumes'
      BY <1>3, <1>6, <2>1 DEF IInv, Seats, Volumes
    <2>5. Starts'
      <3>1. SUFFICES ASSUME NEW c \in Board, board'[c].mode = "reset"
                     PROVE  Boots(c)' # "off"
        BY DEF Starts
      <3>2. c # b /\ Boots(c) # "off"
        BY <1>1, <2>1, <3>1 DEF IInv, Starts
      <3>3. QED
        BY <1>3, <2>1, <3>2 DEF Boots
    <2>6. Course'
      BY <1>1, <1>3, <2>2 DEF IInv, Course
    <2>7. InPlace' /\ Aside'
      <3>1. InPlace'
        BY <1>3, <2>1, <2>2 DEF IInv, InPlace
      <3>2. Aside'
        BY <1>3, <2>1, <2>2 DEF IInv, Aside
      <3>3. QED
        BY <3>1, <3>2
    <2>8. ReachesMeant'
      BY <1>2, <1>3, <2>2 DEF IInv, Course, ReachesMeant, WritesTheMeant
    <2>9. Installed'
      BY <2>2 DEF Installed
    <2>10. QED
      BY <1>4, <2>3, <2>4, <2>5, <2>6, <2>7, <2>8, <2>9 DEF IInv
  <1>7. ASSUME UNCHANGED <<board, mounted>>, job' = [job EXCEPT !.pc = pc]
        PROVE  IInv'
    <2>1. /\ job'.pc = pc /\ job'.wrote = job.wrote
          /\ job'.flasher = job.flasher /\ job'.meant = job.meant /\ job'.id = job.id
          /\ job'.port = job.port /\ job'.paired = job.paired /\ job'.told = job.told
          /\ job' \in JobState
      <3>1. job \in JobState /\ pc \in Stages
        BY <1>1 DEF TypeOK, Stages
      <3>2. QED
        BY <1>7, <3>1 DEF JobState
    <2>2. TypeOK'
      BY <1>1, <1>3, <1>7, <2>1 DEF TypeOK, InRom
    <2>3. Seats' /\ Volumes' /\ Starts'
      BY <1>3, <1>7 DEF IInv, Seats, Volumes, Starts, Boots
    <2>4. Course'
      BY <1>1, <1>3, <2>1 DEF IInv, Course
    <2>5. InPlace'
      BY <1>3, <1>7, <2>1 DEF IInv, InPlace
    <2>6. Aside'
      BY <1>3, <1>7, <2>1 DEF IInv, Aside
    <2>7. ReachesMeant'
      BY <1>3, <2>1 DEF IInv, ReachesMeant, WritesTheMeant
    <2>8. Installed'
      BY <1>1, <2>1 DEF Installed
    <2>9. QED
      BY <1>4, <2>2, <2>3, <2>4, <2>5, <2>6, <2>7, <2>8 DEF IInv
  <1>8. QED
    BY <1>5, <1>6, <1>7 DEF Written

\* What is left of a first image once it is chosen again: one kind, bootable.
LEMMA ChosenAgain ==
  ASSUME TypeOK, NEW f \in {"dfu_util", "bootsel"}, NEW image \in initial_bootloader(f)
  PROVE  /\ image \in cfg.staged /\ image.kind = accepts[f]
         /\ ~type.boot => image.at = 1
  BY DEF initial_bootloader, offset_mismatch, accepts

LEMMA write_dfuIInv ==
  ASSUME IInv, write_dfu
  PROVE  IInv'
  <1> DEFINE matches == IF job.id = NoId THEN InRom ELSE {b \in InRom : rid[b] = job.id}
             images == initial_bootloader("dfu_util")
  <1>1. job.pc = "queued" /\ job.flasher = "dfu_util"
    BY DEF write_dfu
  <1>2. CASE Fail
    BY <1>1, <1>2, FailIInv
  <1>3. ASSUME NEW b \in matches, NEW image \in images, Sole(matches), Written(b, image, "wrote")
        PROVE  IInv'
    <2>1. b \in InRom /\ (job.id # NoId => rid[b] = job.id)
      OBVIOUS
    <2>2. image \in cfg.staged /\ image.kind = "bin" /\ (~type.boot => image.at = 1)
      BY ChosenAgain DEF IInv, accepts
    <2>3. job.meant # NoBoard => b = job.meant \/ job.meant \in moved
      <3>1. SUFFICES ASSUME job.meant \in Board \ moved
                     PROVE  b = job.meant
        BY DEF IInv, TypeOK, JobState
      <3>2. board[job.meant].mode = "rom" /\ rid[job.meant] = job.id
        BY <1>1, <3>1 DEF IInv, InPlace
      <3>3. job.meant \in matches
        BY <3>1, <3>2 DEF InRom
      <3> HIDE DEF matches
      <3>4. QED
        BY <1>3, <3>3 DEF Sole
    <2> HIDE DEF matches, images
    <2>4. QED
      BY <1>1, <1>3, <2>1, <2>2, <2>3, WrittenIInv, Zenon
  <1>4. QED
    BY <1>2, <1>3 DEF write_dfu

LEMMA write_bootselIInv ==
  ASSUME IInv, write_bootsel
  PROVE  IInv'
  <1>1. job.pc = "queued" /\ job.flasher = "bootsel"
    BY DEF write_bootsel
  <1>2. CASE Fail
    BY <1>1, <1>2, FailIInv
  <1>3. ASSUME NEW b \in mounted, NEW image \in initial_bootloader("bootsel"), Sole(mounted),
               Written(b, image, "wrote")
        PROVE  IInv'
    <2>1. b \in InRom
      BY DEF IInv, TypeOK
    <2>2. image \in cfg.staged /\ image.kind = "uf2" /\ (~type.boot => image.at = 1)
      BY ChosenAgain DEF IInv, accepts
    <2>3. job.meant # NoBoard => b = job.meant \/ job.meant \in moved
      <3>1. SUFFICES ASSUME job.meant \in Board \ moved
                     PROVE  b = job.meant
        BY DEF IInv, TypeOK, JobState
      <3>2. job.meant \in mounted
        BY <1>1, <3>1 DEF IInv, InPlace
      <3>3. QED
        BY <1>3, <3>2 DEF Sole
    <2>4. job.id # NoId => rid[b] = job.id \/ job.meant \in moved
      BY <2>3 DEF IInv, Course
    <2>5. QED
      BY <1>1, <1>3, <2>1, <2>2, <2>3, <2>4, WrittenIInv
  <1>4. QED
    BY <1>2, <1>3 DEF write_bootsel

LEMMA mount_for_topologyIInv ==
  ASSUME IInv, mount_for_topology
  PROVE  IInv'
  <1> DEFINE there == {b \in mounted : board[b].port = job.port}
  <1>1. job.pc = "handoff" /\ job.flasher = "bootsel" /\ job.id = NoId /\ job.meant \in Board
    BY DEF IInv, mount_for_topology, Course, TypeOK, JobState
  <1>2. CASE Fail
    BY <1>1, <1>2, FailIInv
  <1>3. ASSUME NEW b \in there, NEW image \in cfg.staged, image.kind = "uf2", Written(b, image, "settling")
        PROVE  IInv'
    <2>1. b \in mounted /\ b \in InRom
      BY DEF IInv, TypeOK
    <2>2. image.at = 1
      BY <1>1, <1>3 DEF IInv, Course, OnePerKind
    <2>3. job.meant # NoBoard => b = job.meant \/ job.meant \in moved
      <3>1. SUFFICES ASSUME job.meant \in Board \ moved
                     PROVE  b = job.meant
        BY <1>1
      <3>2. board[job.meant].mode # "off" /\ board[job.meant].port = job.port
        BY <1>1, <3>1 DEF IInv, InPlace
      <3>3. QED
        BY <2>1, <3>1, <3>2 DEF IInv, Seats, InRom
    <2>4. QED
      BY <1>1, <1>3, <2>1, <2>2, <2>3, WrittenIInv, Zenon
  <1>4. QED
    BY <1>2, <1>3 DEF mount_for_topology

LEMMA uploadIInv ==
  ASSUME IInv, upload
  PROVE  IInv'
  <1>1. /\ TypeOK /\ job.pc = "upload" /\ job.flasher = "platformio" /\ job.id = NoId
        /\ job.wrote = NoBoard /\ job.erased = 0
    BY DEF IInv, upload, Course
  <1>2. CASE Fail
    BY <1>1, <1>2, FailIInv
  <1>3. ASSUME NEW b \in OnTty, NEW image \in cfg.staged,
               board' = [board EXCEPT ![b].low = "app"],
               job' = [job EXCEPT !.pc = "announce", !.wrote = b, !.image = image.at],
               UNCHANGED <<type, cfg, rid, mounted, moved, events>>
        PROVE  IInv'
    <2>1. /\ b \in Board /\ board[b].mode \notin {"off", "reset"} /\ b # NoBoard
          /\ b = job.meant \/ {b, job.meant} \subseteq moved
      BY Names DEF On, OnTty
    <2>2. image.at \in 0..2 /\ image.at # 0
      <3>1. cfg.staged \in SUBSET Image
        BY <1>1 DEF TypeOK, Config
      <3>2. image.at \in Address
        BY <3>1 DEF Image
      <3>3. QED
        BY <3>2 DEF Address
    <2>3. /\ board' \in [Board -> BoardState]
          /\ board'[b].low = "app"
          /\ \A c \in Board : board'[c].mode = board[c].mode /\ board'[c].port = board[c].port
          /\ \A c \in Board \ {b} : board'[c] = board[c]
      <3>1. board \in [Board -> BoardState] /\ "app" \in Low
        BY <1>1 DEF TypeOK, Low
      <3>2. QED
        BY <1>3, <2>1, <3>1 DEF BoardState
    <2>4. /\ job'.pc = "announce" /\ job'.wrote = b /\ job'.image = image.at /\ job'.erased = job.erased
          /\ job'.flasher = job.flasher /\ job'.meant = job.meant /\ job'.id = job.id
          /\ job'.port = job.port /\ job'.paired = job.paired /\ job'.told = job.told
          /\ job' \in JobState
      <3>1. job \in JobState /\ "announce" \in Stages
        BY <1>1 DEF TypeOK, Stages
      <3>2. QED
        BY <1>3, <2>1, <2>2, <3>1 DEF JobState
    <2>5. TypeOK'
      BY <1>1, <1>3, <2>3, <2>4 DEF TypeOK, InRom
    <2>6. Seats' /\ Volumes' /\ OnePerKind'
      BY <1>3, <2>3 DEF IInv, Seats, Volumes, OnePerKind
    <2>7. Starts'
      <3>1. SUFFICES ASSUME NEW c \in Board, board'[c].mode = "reset"
                     PROVE  Boots(c)' # "off"
        BY DEF Starts
      <3>2. c # b /\ Boots(c) # "off"
        BY <2>1, <2>3, <3>1 DEF IInv, Starts
      <3>3. QED
        BY <1>3, <2>3, <3>2 DEF Boots
    <2>8. Course'
      BY <1>1, <1>3, <2>4 DEF IInv, Course
    <2>9. InPlace'
      BY <1>1, <1>3, <2>3, <2>4 DEF IInv, InPlace
    <2>10. Aside'
      BY <1>1, <1>3, <2>3, <2>4 DEF IInv, Aside
    <2>11. job.meant # NoBoard => b = job.meant \/ job.meant \in moved
      BY <2>1
    <2>12. ReachesMeant'
      BY <1>1, <1>3, <2>4, <2>11 DEF IInv, Course, ReachesMeant, WritesTheMeant
    <2>13. Installed'
      BY <1>1, <1>3, <2>2, <2>3, <2>4 DEF Installed
    <2>14. QED
      BY <2>5, <2>6, <2>7, <2>8, <2>9, <2>10, <2>12, <2>13 DEF IInv
  <1>4. QED
    BY <1>2, <1>3 DEF upload, Quiet

LEMMA request_bootselIInv ==
  ASSUME IInv, request_bootsel
  PROVE  IInv'
  <1> DEFINE b == job.meant
             mode == IF board[b].low \in {"katapult1", "katapult2"} THEN "katapult" ELSE "rom"
  <1>1. /\ TypeOK /\ job.pc = "request" /\ job.id = NoId /\ job.wrote = NoBoard /\ b \in Board
        /\ ~type.boot /\ b # NoBoard /\ job.flasher = "bootsel" /\ job.paired = NoId
    BY DEF IInv, request_bootsel, Course, TypeOK, JobState
  <1>2. CASE Fail
    BY <1>1, <1>2, FailIInv
  <1>3. ASSUME \E image \in {i \in cfg.staged : i.kind = "uf2"} : image.at = 1,
               board[b].mode = "run",
               board' = [board EXCEPT ![b].mode = mode],
               job' = [job EXCEPT !.pc = "handoff", !.port = board[b].port],
               UNCHANGED <<type, cfg, rid, mounted, moved, events>>
        PROVE  IInv'
    <2>1. mode \in {"katapult", "rom"}
      OBVIOUS
    <2> HIDE DEF mode
    <2>2. /\ board' \in [Board -> BoardState]
          /\ board'[b].mode = mode
          /\ \A c \in Board : board'[c].low = board[c].low /\ board'[c].old = board[c].old /\ board'[c].port = board[c].port
          /\ \A c \in Board \ {b} : board'[c] = board[c]
      <3>1. board \in [Board -> BoardState] /\ mode \in Modes
        BY <1>1, <2>1 DEF TypeOK, Modes
      <3> HIDE DEF b
      <3>2. QED
        BY <1>1, <1>3, <3>1 DEF BoardState
    <2>3. board[b].port \in Port /\ board[b].port # NoPort
      <3>1. board[b].port \in Port
        BY <1>1 DEF TypeOK, BoardState
      <3>2. QED
        BY <3>1, Names
    <2>4. /\ job'.pc = "handoff" /\ job'.wrote = NoBoard /\ job'.port = board[b].port
          /\ job'.flasher = job.flasher /\ job'.meant = b /\ job'.id = NoId
          /\ job'.paired = NoId /\ job'.told = job.told
          /\ job' \in JobState
      <3>1. job \in JobState /\ "handoff" \in Stages
        BY <1>1 DEF TypeOK, Stages
      <3>2. QED
        BY <1>1, <1>3, <2>3, <3>1 DEF JobState
    <2>5. TypeOK'
      <3>1. (mounted \subseteq InRom)'
        <4>1. b \notin mounted
          BY <1>1, <1>3 DEF TypeOK, InRom
        <4>2. QED
          BY <1>1, <1>3, <2>2, <4>1 DEF TypeOK, InRom
      <3>2. QED
        BY <1>1, <1>3, <2>2, <2>4, <3>1 DEF TypeOK
    <2>6. Seats' /\ Volumes' /\ OnePerKind'
      BY <1>3, <2>2 DEF IInv, Seats, Volumes, OnePerKind
    <2>7. Starts'
      <3>1. SUFFICES ASSUME NEW c \in Board, board'[c].mode = "reset"
                     PROVE  Boots(c)' # "off"
        BY DEF Starts
      <3>2. c # b
        BY <2>1, <2>2, <3>1
      <3>3. Boots(c) # "off"
        BY <2>2, <3>1, <3>2 DEF IInv, Starts
      <3>4. QED
        BY <1>3, <2>2, <3>2, <3>3 DEF Boots
    <2>8. Course'
      <3>1. job.told = {}
        BY <1>1 DEF IInv, Course
      <3>2. QED
        BY <1>1, <1>3, <2>3, <2>4, <3>1 DEF Course
    <2>9. InPlace'
      BY <1>3, <2>1, <2>2, <2>4 DEF InPlace
    <2>10. Aside'
      BY <1>1, <1>3, <2>2, <2>4 DEF IInv, Seats, Aside
    <2>11. ReachesMeant'
      <3>1. job.told = {}
        BY <1>1 DEF IInv, Course
      <3>2. QED
        BY <2>4, <3>1 DEF ReachesMeant, WritesTheMeant
    <2>12. Installed'
      BY <2>4 DEF Installed
    <2>13. QED
      BY <2>5, <2>6, <2>7, <2>8, <2>9, <2>10, <2>11, <2>12 DEF IInv
  <1>4. QED
    BY <1>2, <1>3 DEF request_bootsel, Quiet

-----------------------------------------------------------------------------
LEMMA InitIInv ==
  ASSUME Init
  PROVE  IInv
  <1>1. /\ type \in Types /\ rid \in RomIds /\ mounted = {} /\ moved = {} /\ events = 0
        /\ job = NoJob
    BY DEF Init
  <1>2. cfg \in Config /\ cfg.chip \in {type.die, ""} /\ OnePerKind
    <2>1. PICK l \in Lists, chip \in {type.die, ""}, answer \in Address, built \in BOOLEAN :
            cfg = [listed |-> l, chip |-> chip, helper |-> type.helper, answer |-> answer,
                   staged |-> IF built THEN Build(answer) ELSE {}]
      BY DEF Init
    <2>2. type.die \in {"stm32", "rp2040", "esp32"} /\ type.helper \in Helpers /\ l \in Seq(FLASHERS)
      BY <1>1, Shapes
    <2> DEFINE staged == IF built THEN Build(answer) ELSE {}
    <2>3. staged \in SUBSET Image /\ \A i, j \in staged : i.kind = j.kind => i = j
      BY BuildTyped
    <2>4. cfg = [listed |-> l, chip |-> chip, helper |-> type.helper, answer |-> answer, staged |-> staged]
      BY <2>1
    <2> HIDE DEF staged
    <2>5. cfg.staged = staged /\ cfg.chip = chip
      BY <2>4
    <2>6. cfg \in Config
      BY <2>2, <2>3, <2>4 DEF Config
    <2>7. QED
      BY <2>3, <2>5, <2>6 DEF OnePerKind
  <1>3. board \in [Board -> BoardState] /\ Seats /\ \A b \in Board : board[b].mode # "reset"
    <2>1. PICK l \in {"empty", "app", "katapult1"}, start \in [Board -> {"off", "on"}], seat \in [Board -> Port] :
            /\ \A b, c \in Board : b # c => seat[b] # seat[c]
            /\ board = [b \in Board |->
                 [low |-> l, old |-> IF l = "empty" THEN {} ELSE {1}, port |-> seat[b],
                  mode |-> IF start[b] = "off" THEN "off"
                           ELSE IF l = "empty" /\ type.die # "esp32" THEN "rom" ELSE "run"]]
      BY DEF Init
    <2> DEFINE old == IF l = "empty" THEN {} ELSE {1}
               mode(b) == IF start[b] = "off" THEN "off"
                          ELSE IF l = "empty" /\ type.die # "esp32" THEN "rom" ELSE "run"
    <2>2. l \in Low /\ old \in SUBSET Address /\ \A b \in Board : mode(b) \in Modes /\ mode(b) # "reset"
      BY DEF Low, Address, Modes
    <2>3. board = [b \in Board |-> [low |-> l, old |-> old, port |-> seat[b], mode |-> mode(b)]]
      BY <2>1
    <2> HIDE DEF old, mode
    <2>4. board \in [Board -> BoardState]
      BY <2>2, <2>3 DEF BoardState
    <2>5. QED
      BY <2>1, <2>2, <2>3, <2>4 DEF Seats
  <1>4. /\ job.pc = "idle" /\ job.wrote = NoBoard /\ job.paired = NoId /\ job.told = {} /\ job.id = NoId
        /\ job.flasher = "nobody" /\ job \in JobState
    BY <1>1 DEF NoJob, JobState, Stages
  <1>5. TypeOK
    <2>1. rid \in [Board -> Id \cup {NoId}] /\ events \in 0..MaxEvents
      BY <1>1, Shapes, Bounds
    <2>2. QED
      BY <1>1, <1>2, <1>3, <1>4, <2>1 DEF TypeOK
  <1>6. Volumes /\ Starts
    BY <1>1, <1>3 DEF Volumes, Starts
  <1>7. Course /\ InPlace /\ Aside /\ ReachesMeant /\ Installed
    BY <1>4 DEF Course, InPlace, Aside, ReachesMeant, WritesTheMeant, Installed
  <1>8. QED
    BY <1>2, <1>3, <1>5, <1>6, <1>7 DEF IInv

LEMMA NextIInv ==
  ASSUME IInv, [Next]_vars
  PROVE  IInv'
  <1>1. CASE \E named \in Id \cup {NoId}, picked \in Port \cup {NoPort}, known \in Known :
               (named = NoId \/ picked = NoPort) /\ add_mcu_start(named, picked, known)
    BY <1>1, add_mcu_startIInv
  <1>2. CASE \E b \in Board : flash(b)
    BY <1>2, flashIInv
  <1>3. CASE Job
    BY <1>3, SubmitIInv, write_dfuIInv, write_bootselIInv, record_pairingIInv,
       wait_for_new_deviceIInv, uploadIInv, announcedIInv, request_bootselIInv,
       mount_for_topologyIInv, wait_readyIInv DEF Job
  <1>4. CASE Bench
    <2>1. ASSUME NEW b \in Board, NEW p \in Port, Plug(b, p) \/ Hold(b, p)
          PROVE  IInv'
      <3>1. Boots(b) \in {"run", "katapult", "rom", "off"}
        BY BootsTyped DEF IInv
      <3>2. QED
        BY <2>1, <3>1, PlugInIInv DEF Plug, Hold
    <2>2. QED
      BY <1>4, <2>1, PullIInv, ResetIInv, MountIInv, RebuildIInv, EditIInv, FollowIInv DEF Bench
  <1>5. CASE UNCHANGED vars
    BY <1>5, StutterIInv
  <1>6. QED
    BY <1>1, <1>2, <1>3, <1>4, <1>5 DEF Next

LEMMA Invariant == Spec => []IInv
  BY InitIInv, NextIInv, PTL DEF Spec

-----------------------------------------------------------------------------
\* The shape of the bench, the configuration and the job.
THEOREM TypeCorrect == Spec => []TypeOK
  <1>1. IInv => TypeOK
    BY DEF IInv
  <1>2. QED
    BY <1>1, Invariant, PTL

\* For any boards, ports and lists: a write reaches the board that was meant, or
\* that board was unplugged or plugged since, whatever else is held in its ROM,
\* mounted or pulled between the scan and the write.
THEOREM TheMeantIsWritten == Spec => []WritesTheMeant
  <1>1. IInv => WritesTheMeant
    BY DEF IInv, ReachesMeant
  <1>2. QED
    BY <1>1, Invariant, PTL

\* For any number of boards that give any names, the same ones included: the
\* pairing that is kept names the board that was written, and the device that
\* is reported is the one that was meant or came in its place.
THEOREM TheWrittenIsReported == Spec => []ReportsTheWritten
  <1>1. IInv => ReportsTheWritten
    BY DEF IInv, ReachesMeant, Course, ReportsTheWritten
  <1>2. QED
    BY <1>1, Invariant, PTL

\* A board set up starts what was installed, whatever its flash held before, and
\* for a bootloader copied over BOOTSEL as long as the answers that are saved when
\* it is copied are those it was built with.
THEOREM TheInstalledStarts == Spec => []ComesBackAsInstalled
  <1>1. IInv => ComesBackAsInstalled
    BY DEF IInv, Installed, ComesBackAsInstalled, Boots
  <1>2. QED
    BY <1>1, Invariant, PTL

-----------------------------------------------------------------------------
Spoken == type.builder = "kconfig" /\ type.die # "esp32"

\* What the two requests may tell the user to do.
AddFixes == {"set_chipset", "list_platformio", "list_dfu_util", "list_bootsel", "build", "no_offset"}
FlashFixes == {"build", "no_offset", "some_offset", "list_flashtool", "list_bootsel", "add_helper",
               "list_bootsel_and_helper"}

HasKind(kind) == \E image \in cfg.staged : image.kind = kind

\* Before the first edit, and while fixes are tried, a build is of the answers.
AnswersBuilt == events = 0 \/ tried # {} => cfg.staged \in {{}, Build(cfg.answer)}

Asked ==
    /\ advice = [goal |-> advice.goal, fixes |-> advice.fixes]
    /\ advice.goal \in {"", "add_mcu", "flash"}
    /\ advice.goal = "" => advice.fixes = {} /\ tried = {}
    /\ Spoken /\ advice.goal = "add_mcu" => advice.fixes \cup tried \subseteq AddFixes
    /\ advice.goal = "flash" => advice.fixes \cup tried \subseteq FlashFixes /\ ~type.boot

\* What following a fix leads to, when a bare board is to be set up.
AddTried ==
    Spoken /\ advice.goal = "add_mcu" =>
        /\ "set_chipset" \in tried => cfg.chip = type.die
        /\ \A fix \in tried \cap DOMAIN Adds : Listed(Adds[fix])
        /\ tried \cap {"build", "no_offset"} # {} => cfg.staged = Build(cfg.answer)
        /\ "no_offset" \in tried => cfg.answer = 1

Running2040 == [kind |-> "serial", chip |-> "rp2040", state |-> "klipper"]
Flashing == Spoken /\ advice.goal = "flash" /\ cfg.chip = "rp2040"

\* A fix of a flash's refusal is named where it leads to a writer.
FlashNamed ==
    Flashing =>
        /\ "no_offset" \in advice.fixes => Listed("bootsel") /\ cfg.helper = "klipper"
        /\ "list_flashtool" \in advice.fixes => HasKind("bin")
        /\ "some_offset" \in advice.fixes => Listed("flashtool")
        /\ "list_bootsel" \in advice.fixes => HasKind("uf2") /\ cfg.helper = "klipper"
        /\ "add_helper" \in advice.fixes => HasKind("uf2") /\ Listed("bootsel")
        /\ "list_bootsel_and_helper" \in advice.fixes => HasKind("uf2")

FlashTried ==
    Flashing =>
        /\ "build" \in tried => cfg.staged = Build(cfg.answer)
        /\ tried \ {"build"} # {} =>
               advice.fixes = {} /\ writers(cfg.listed, Running2040, cfg.helper, cfg.staged) # {}

AdviceInv == AnswersBuilt /\ Asked /\ AddTried /\ FlashNamed /\ FlashTried /\ AdviceWorks

LEMMA EarliestIsOne ==
  ASSUME NEW S \in SUBSET Nat, S # {}
  PROVE  earliest(S) \in S
  <1> DEFINE below == OpToRel(<, Nat)
  <1>1. \A m, n \in Nat : m < n => <<m, n>> \in below
    BY DEF OpToRel
  <1>2. IsWellFoundedOn(below, Nat)
    BY NatLessThanWellFounded
  <1> HIDE DEF below
  <1>3. PICK i \in S : \A j \in S : ~(<<j, i>> \in below)
    BY <1>2, WFMin
  <1>4. \A j \in S : i <= j
    <2>1. SUFFICES ASSUME NEW j \in S
                   PROVE  i <= j
      OBVIOUS
    <2>2. i \in Nat /\ j \in Nat
      OBVIOUS
    <2>3. ~(j < i)
      BY <1>1, <1>3, <2>2, Zenon
    <2>4. QED
      BY <2>2, <2>3
  <1>5. QED
    BY <1>4 DEF earliest

LEMMA ResolveFinds ==
  ASSUME NEW listed \in Seq(FLASHERS), NEW device, NEW helper, NEW staged
  PROVE  /\ writers(listed, device, helper, staged) = {} => resolve(listed, device, helper, staged) = "nobody"
         /\ writers(listed, device, helper, staged) # {} =>
                \E i \in writers(listed, device, helper, staged) :
                    resolve(listed, device, helper, staged) = listed[i] /\ listed[i] \in FLASHERS
  <1> DEFINE able == writers(listed, device, helper, staged)
  <1>1. able \in SUBSET Nat /\ \A i \in able : listed[i] \in FLASHERS
    BY DEF writers
  <1>2. resolve(listed, device, helper, staged) = IF able = {} THEN "nobody" ELSE listed[earliest(able)]
    BY DEF resolve
  <1> HIDE DEF able
  <1>3. able # {} => earliest(able) \in able
    BY <1>1, EarliestIsOne
  <1>4. (able = {} => resolve(listed, device, helper, staged) = "nobody")
        /\ (able # {} => \E i \in able : resolve(listed, device, helper, staged) = listed[i] /\ listed[i] \in FLASHERS)
    BY <1>1, <1>2, <1>3
  <1>5. QED
    BY <1>4 DEF able

\* A choice is of a flasher that sets the bare board up; none comes with a fix
\* that the list or the chipset lacks.
Chosen(listed, chip, c) ==
    /\ c.flasher \in candidate_scanner /\ \E i \in DOMAIN listed : listed[i] = c.flasher
    /\ supports(c.flasher, bare(chip, c.flasher), "none")
Unchosen(listed, chip, c) ==
    /\ c.flasher = "nobody"
    /\ \/ c.fix = {}
       \/ c.fix = {"set_chipset"} /\ chip = ""
       \/ \E f \in candidate_scanner : /\ \A i \in DOMAIN listed : listed[i] # f
                                     /\ c.fix = no_first_install_writer(f)

LEMMA ChoiceOrFix ==
  ASSUME NEW listed \in Seq(FLASHERS), NEW chip
  PROVE  \/ Chosen(listed, chip, first_install(listed, chip))
         \/ Unchosen(listed, chip, first_install(listed, chip))
  <1> DEFINE c == first_install(listed, chip)
             scanners == {i \in DOMAIN listed : listed[i] \in candidate_scanner}
             able == {i \in scanners : supports(listed[i], bare(chip, listed[i]), "none")}
             others == {f \in candidate_scanner \ {listed[i] : i \in DOMAIN listed} :
                            supports(f, bare(chip, f), "none")}
             fix == IF scanners # {} /\ chip = "" THEN {"set_chipset"}
                    ELSE IF others # {} THEN no_first_install_writer(CHOOSE f \in others : TRUE)
                    ELSE {}
  <1>1. c = IF able # {} THEN [flasher |-> listed[earliest(able)], fix |-> {}]
            ELSE [flasher |-> "nobody", fix |-> fix]
    BY DEF first_install
  <1>2. able \in SUBSET Nat
    OBVIOUS
  <1>3. \A i \in able : /\ listed[i] \in candidate_scanner /\ i \in DOMAIN listed
                        /\ supports(listed[i], bare(chip, listed[i]), "none")
    OBVIOUS
  <1>4. \A f \in others : f \in candidate_scanner /\ \A i \in DOMAIN listed : listed[i] # f
    OBVIOUS
  <1>5. fix = {} \/ (fix = {"set_chipset"} /\ chip = "") \/ (others # {} /\ fix = no_first_install_writer(CHOOSE f \in others : TRUE))
    <2> HIDE DEF others, scanners
    <2>1. QED
      OBVIOUS
  <1>6. others # {} => (CHOOSE f \in others : TRUE) \in others
    OBVIOUS
  <1>b. c = first_install(listed, chip)
    OBVIOUS
  <1> HIDE DEF able, others, fix, c
  <1>7. CASE able # {}
    <2>1. earliest(able) \in able
      BY <1>2, <1>7, EarliestIsOne
    <2>2. c.flasher = listed[earliest(able)]
      BY <1>1, <1>7
    <2>3. /\ c.flasher \in candidate_scanner /\ supports(c.flasher, bare(chip, c.flasher), "none")
          /\ \E i \in DOMAIN listed : listed[i] = c.flasher
      BY <1>3, <2>1, <2>2
    <2>4. QED
      BY <1>b, <2>3 DEF Chosen
  <1>8. CASE able = {}
    <2>1. c.flasher = "nobody" /\ c.fix = fix
      BY <1>1, <1>8
    <2>2. \/ fix = {}
          \/ fix = {"set_chipset"} /\ chip = ""
          \/ \E g \in candidate_scanner : (\A i \in DOMAIN listed : listed[i] # g) /\ fix = no_first_install_writer(g)
      BY <1>4, <1>5, <1>6
    <2>3. QED
      BY <1>b, <2>1, <2>2 DEF Unchosen
  <1>9. QED
    BY <1>7, <1>8

-----------------------------------------------------------------------------
\* What a first install is told: a fix that is not yet so.
LEMMA KconfigBuilds ==
  ASSUME TypeOK, Spoken, NEW answer \in Address
  PROVE  /\ Build(answer) # {} /\ \A image \in Build(answer) : image.at = answer
         /\ type.die = "stm32" => \E image \in Build(answer) : image.kind = "bin"
         /\ type.die = "rp2040" /\ (type.boot \/ answer = 1) => \E image \in Build(answer) : image.kind = "uf2"
         /\ type.die = "rp2040" /\ ~type.boot /\ answer = 1 => Build(answer) = {[kind |-> "uf2", at |-> 1]}
         /\ type.die = "rp2040" /\ ~type.boot /\ answer = 2 => Build(answer) = {[kind |-> "bin", at |-> 2]}
         /\ type.die \in {"stm32", "rp2040"}
  <1>1. type.die \in {"stm32", "rp2040"}
    BY TypeTyped DEF Spoken
  <1>2. CASE type.die = "stm32"
    BY <1>1, <1>2 DEF Build, Spoken
  <1>3. CASE type.die = "rp2040" /\ type.boot
    <2>1. Build(answer) = {[kind |-> "bin", at |-> answer], [kind |-> "uf2", at |-> answer]}
      BY <1>3 DEF Build, Spoken
    <2>2. [kind |-> "uf2", at |-> answer] \in Build(answer)
      BY <2>1
    <2>3. \A image \in Build(answer) : image.at = answer
      BY <2>1
    <2>4. QED
      BY <1>1, <1>3, <2>2, <2>3
  <1>4. CASE type.die = "rp2040" /\ ~type.boot
    <2>1. Build(answer) = {[kind |-> IF answer = 1 THEN "uf2" ELSE "bin", at |-> answer]}
      BY <1>4 DEF Build, Spoken
    <2>2. CASE answer = 1
      BY <1>4, <2>1, <2>2
    <2>3. CASE answer = 2
      BY <1>4, <2>1, <2>3
    <2>4. QED
      BY <2>2, <2>3 DEF Address
  <1>5. QED
    BY <1>1, <1>2, <1>3, <1>4

\* What a request that is not ready is told, when f was chosen.
NotBuilt(f) ==
    /\ f # "nobody" /\ resolve(cfg.listed, bare(cfg.chip, f), "none", cfg.staged) = "nobody"
    /\ \/ ~type.boot /\ accepts[f] = "uf2" /\ unready.fix = {"no_offset"}
       \/ /\ ~(/\ ~type.boot /\ type.builder = "kconfig" /\ accepts[f] = "uf2"
               /\ \E image \in cfg.staged : image.kind = "bin")
          /\ unready.fix = {"build"}
NotBootable(f) ==
    /\ f # "nobody" /\ resolve(cfg.listed, bare(cfg.chip, f), "none", cfg.staged) = f
    /\ unready.fix = {"no_offset"} /\ offset_mismatch(first_of(cfg.staged, accepts[f]))

LEMMA UnreadyIs ==
  ASSUME TypeOK, unready.flasher = "nobody", NEW choice, choice = first_install(cfg.listed, cfg.chip)
  PROVE  \/ choice.flasher = "nobody" /\ unready.fix = choice.fix
         \/ NotBuilt(choice.flasher)
         \/ unready.fix = {}
         \/ NotBootable(choice.flasher)
  <1> DEFINE f == choice.flasher
             writer == resolve(cfg.listed, bare(cfg.chip, f), "none", cfg.staged)
             wants == IF /\ ~type.boot /\ type.builder = "kconfig" /\ accepts[f] = "uf2"
                        /\ \E image \in cfg.staged : image.kind = "bin"
                     THEN {"no_offset"} ELSE {"build"}
  <1>1. unready = IF f = "nobody" THEN [flasher |-> "nobody", fix |-> choice.fix]
                  ELSE IF writer = "nobody" THEN [flasher |-> "nobody", fix |-> wants]
                  ELSE IF writer # f THEN [flasher |-> "nobody", fix |-> {}]
                  ELSE IF offset_mismatch(first_of(cfg.staged, accepts[f]))
                       THEN [flasher |-> "nobody", fix |-> {"no_offset"}]
                  ELSE [flasher |-> f, fix |-> {}]
    BY DEF unready
  <1>2. \/ wants = {"no_offset"} /\ ~type.boot /\ accepts[f] = "uf2"
        \/ /\ wants = {"build"}
           /\ ~(/\ ~type.boot /\ type.builder = "kconfig" /\ accepts[f] = "uf2"
                /\ \E image \in cfg.staged : image.kind = "bin")
    OBVIOUS
  <1> HIDE DEF wants, f, writer
  <1>3. CASE f = "nobody"
    BY <1>1, <1>3 DEF f
  <1>4. CASE f # "nobody" /\ writer = "nobody"
    <2>1. unready.fix = wants
      BY <1>1, <1>4
    <2>2. NotBuilt(f)
      BY <1>2, <1>4, <2>1 DEF NotBuilt, writer
    <2>3. QED
      BY <2>2 DEF f
  <1>5. CASE f # "nobody" /\ writer # "nobody" /\ writer # f
    BY <1>1, <1>5
  <1>6. CASE f # "nobody" /\ writer = f
    <2>1. unready.fix = {"no_offset"} /\ offset_mismatch(first_of(cfg.staged, accepts[f]))
      BY <1>1, <1>6
    <2>2. NotBootable(f)
      BY <1>6, <2>1 DEF NotBootable, writer
    <2>3. QED
      BY <2>2 DEF f
  <1>7. QED
    BY <1>3, <1>4, <1>5, <1>6

LEMMA AddFixIsOpen ==
  ASSUME TypeOK, Spoken, unready.flasher = "nobody", NEW fix \in unready.fix
  PROVE  /\ fix \in AddFixes
         /\ fix = "set_chipset" => cfg.chip = ""
         /\ fix \in DOMAIN Adds => ~Listed(Adds[fix])
         /\ fix = "build" => cfg.staged # Build(cfg.answer)
         /\ fix = "no_offset" => cfg.staged # Build(1)
  <1> DEFINE choice == first_install(cfg.listed, cfg.chip)
             f == choice.flasher
             writer == resolve(cfg.listed, bare(cfg.chip, f), "none", cfg.staged)
             device == bare(cfg.chip, f)
  <1>1. /\ cfg.listed \in Seq(FLASHERS) /\ cfg.chip \in {type.die, ""} /\ cfg.answer \in Address
        /\ type.builder = "kconfig" /\ type.die \in {"stm32", "rp2040"}
    BY TypeTyped DEF TypeOK, Config, Spoken
  <1>a. /\ choice = first_install(cfg.listed, cfg.chip) /\ f = choice.flasher
        /\ writer = resolve(cfg.listed, device, "none", cfg.staged) /\ device = bare(cfg.chip, f)
    OBVIOUS
  <1> HIDE DEF choice, f, writer, device
  <1>2. Chosen(cfg.listed, cfg.chip, choice) \/ Unchosen(cfg.listed, cfg.chip, choice)
    BY <1>1, <1>a, ChoiceOrFix
  <1>3. (f = "nobody" /\ unready.fix = choice.fix) \/ NotBuilt(f) \/ NotBootable(f)
    BY <1>a, UnreadyIs
  <1>4. NotBuilt(f) => writers(cfg.listed, device, "none", cfg.staged) = {}
    BY <1>1, <1>a, ResolveFinds DEF FLASHERS, NotBuilt
  <1>5. NotBootable(f) => \E i \in writers(cfg.listed, device, "none", cfg.staged) : cfg.listed[i] = f
    <2>1. SUFFICES ASSUME NotBootable(f)
                   PROVE  \E i \in writers(cfg.listed, device, "none", cfg.staged) : cfg.listed[i] = f
      OBVIOUS
    <2>2. writer = f /\ f # "nobody"
      BY <1>a, <2>1 DEF NotBootable
    <2>3. writers(cfg.listed, device, "none", cfg.staged) # {}
      BY <1>1, <1>a, <2>2, ResolveFinds
    <2>4. \E i \in writers(cfg.listed, device, "none", cfg.staged) :
              resolve(cfg.listed, device, "none", cfg.staged) = cfg.listed[i] /\ cfg.listed[i] \in FLASHERS
      BY <1>1, <2>3, ResolveFinds
    <2>5. QED
      BY <1>a, <2>2, <2>4
  <1>6. CASE f = "nobody" /\ unready.fix = choice.fix
    <2>0. \/ choice.fix = {"set_chipset"} /\ cfg.chip = ""
          \/ \E g \in candidate_scanner : ~Listed(g) /\ choice.fix = no_first_install_writer(g)
      <3>1. f \notin candidate_scanner
        BY <1>6 DEF candidate_scanner, rom
      <3>2. Unchosen(cfg.listed, cfg.chip, choice)
        BY <1>2, <1>a, <3>1 DEF Chosen
      <3>3. QED
        BY <1>6, <3>2 DEF Unchosen, Listed
    <2>1. CASE choice.fix = {"set_chipset"} /\ cfg.chip = ""
      BY <1>6, <2>1 DEF AddFixes, Adds
    <2>2. CASE \E g \in candidate_scanner : ~Listed(g) /\ choice.fix = no_first_install_writer(g)
      <3>1. PICK g \in candidate_scanner : ~Listed(g) /\ choice.fix = no_first_install_writer(g)
        BY <2>2
      <3>2. <<g, fix>> \in {<<"platformio", "list_platformio">>, <<"dfu_util", "list_dfu_util">>,
                            <<"bootsel", "list_bootsel">>}
        BY <1>6, <3>1 DEF candidate_scanner, rom, no_first_install_writer
      <3>3. fix \in AddFixes /\ fix \notin {"set_chipset", "build", "no_offset"} /\ Adds[fix] = g
        BY <3>2 DEF AddFixes, Adds
      <3>4. QED
        BY <3>1, <3>3
    <2>3. QED
      BY <2>0, <2>1, <2>2
  <1>7. CASE NotBuilt(f)
    <2>1. f \in candidate_scanner /\ supports(f, device, "none") /\ \E i \in DOMAIN cfg.listed : cfg.listed[i] = f
      BY <1>2, <1>7, <1>a DEF NotBuilt, Chosen, Unchosen
    <2>2. \A image \in cfg.staged : image.kind # accepts[f]
      BY <1>4, <1>7, <2>1 DEF writers
    <2>3. \/ f = "dfu_util" /\ cfg.chip = "stm32" /\ accepts[f] = "bin"
          \/ f = "bootsel" /\ cfg.chip = "rp2040" /\ accepts[f] = "uf2"
      <3>1. f # "platformio"
        BY <1>1, <1>a, <2>1 DEF supports, platformio_supports, bare, rom
      <3>2. f \in {"dfu_util", "bootsel"}
        BY <2>1, <3>1 DEF candidate_scanner, rom
      <3>3. QED
        BY <1>a, <2>1, <3>2 DEF supports, dfu_util_supports, bootsel_supports, bare, rom, accepts
    <2>4. unready.fix = {"no_offset"} => ~type.boot /\ accepts[f] = "uf2"
      BY <1>1, <1>7 DEF NotBuilt
    <2>5. unready.fix = {"build"} => ~(~type.boot /\ accepts[f] = "uf2" /\ \E image \in cfg.staged : image.kind = "bin")
      BY <1>1, <1>7 DEF NotBuilt
    <2>6. unready.fix \in {{"no_offset"}, {"build"}}
      BY <1>1, <1>7 DEF NotBuilt
    <2>7. ASSUME fix = "build"
          PROVE  cfg.staged # Build(cfg.answer)
      <3>1. CASE f = "dfu_util"
        <4>1. type.die = "stm32" /\ accepts[f] = "bin"
          BY <1>1, <2>3, <3>1
        <4>2. \E image \in Build(cfg.answer) : image.kind = "bin"
          BY <1>1, <4>1, KconfigBuilds
        <4>3. QED
          BY <2>2, <4>1, <4>2
      <3>2. CASE f = "bootsel" /\ (type.boot \/ cfg.answer = 1)
        <4>1. type.die = "rp2040" /\ accepts[f] = "uf2"
          BY <1>1, <2>3, <3>2
        <4>2. \E image \in Build(cfg.answer) : image.kind = "uf2"
          BY <1>1, <3>2, <4>1, KconfigBuilds
        <4>3. QED
          BY <2>2, <4>1, <4>2
      <3>3. CASE f = "bootsel" /\ ~type.boot /\ cfg.answer = 2
        <4>1. ~\E image \in cfg.staged : image.kind = "bin"
          BY <2>3, <2>5, <2>6, <2>7, <3>3
        <4>2. [kind |-> "bin", at |-> 2] \in Build(cfg.answer)
          BY <1>1, <2>3, <3>3, KconfigBuilds
        <4>3. QED
          BY <4>1, <4>2
      <3>4. QED
        BY <1>1, <2>3, <3>1, <3>2, <3>3 DEF Address
    <2>8. ASSUME fix = "no_offset"
          PROVE  cfg.staged # Build(1)
      <3>1. f = "bootsel" /\ cfg.chip = "rp2040" /\ ~type.boot /\ accepts[f] = "uf2"
        BY <2>3, <2>4, <2>6, <2>8
      <3>2. [kind |-> "uf2", at |-> 1] \in Build(1)
        BY <1>1, <3>1, KconfigBuilds DEF Address
      <3>3. QED
        BY <2>2, <3>1, <3>2
    <2>9. QED
      BY <2>6, <2>7, <2>8 DEF AddFixes, Adds
  <1>8. CASE NotBootable(f)
    <2>1. \E image \in cfg.staged : image.kind = accepts[f]
      BY <1>5, <1>8 DEF writers
    <2>2. first_of(cfg.staged, accepts[f]) \in cfg.staged
      BY <2>1 DEF first_of
    <2>3. first_of(cfg.staged, accepts[f]).at # 1
      BY <1>8 DEF NotBootable, offset_mismatch
    <2>4. \A image \in Build(1) : image.at = 1
      BY KconfigBuilds DEF Address
    <2>5. cfg.staged # Build(1)
      BY <2>2, <2>3, <2>4
    <2>6. QED
      BY <1>8, <2>5 DEF NotBootable, AddFixes, Adds
  <1>9. QED
    BY <1>3, <1>6, <1>7, <1>8

-----------------------------------------------------------------------------
\* What the flash of a running board is told.
Speaking(chip) == [kind |-> "serial", chip |-> chip, state |-> "klipper"]
FlashFix ==
    IF cfg.staged = {} THEN {"build"}
    ELSE select(cfg.listed, Speaking(cfg.chip), cfg.helper, cfg.staged, type.builder).fix

\* A flash is refused with these fixes when nothing can write what is staged.
LEMMA FlashTold ==
  ASSUME TypeOK, NEW b \in Board, flash(b), advice' # advice \/ tried' # tried
  PROVE  /\ Refuse("flash", FlashFix) /\ ~type.boot
         /\ writers(cfg.listed, Speaking(cfg.chip), cfg.helper, cfg.staged) = {}
  <1> DEFINE s == select(cfg.listed, Speaking(cfg.chip), cfg.helper, cfg.staged, type.builder)
             target == IF cfg.staged = {} THEN [flasher |-> "nobody", fix |-> {"build"}] ELSE s
  <1>1. target.flasher = "nobody" /\ Refuse("flash", target.fix) /\ ~type.boot
    <2> HIDE DEF s
    <2>1. /\ ~type.boot
          /\ IF target.flasher = "nobody" THEN Refuse("flash", target.fix)
             ELSE advice' = advice /\ tried' = tried
      BY DEF flash, Speaking, vars, s
    <2>2. QED
      BY <2>1
  <1>2. target.fix = FlashFix
    BY DEF FlashFix
  <1>3. writers(cfg.listed, Speaking(cfg.chip), cfg.helper, cfg.staged) = {}
    <2>1. CASE cfg.staged = {}
      BY <2>1 DEF writers
    <2>2. CASE cfg.staged # {}
      <3>1. resolve(cfg.listed, Speaking(cfg.chip), cfg.helper, cfg.staged) = "nobody"
        BY <1>1, <2>2 DEF select
      <3>2. cfg.listed \in Seq(FLASHERS)
        BY DEF TypeOK, Config
      <3>3. QED
        BY <3>1, <3>2, ResolveFinds DEF FLASHERS
    <2>3. QED
      BY <2>1, <2>2
  <1>4. QED
    BY <1>1, <1>2, <1>3

LEMMA FlashFixIsKnown ==
  FlashFix \subseteq FlashFixes
  BY DEF FlashFix, select, refusal_error, bootsel_route, FlashFixes

\* Of a Kconfig RP2040: what a refusal names would have it written.
LEMMA FlashFixLeads ==
  ASSUME TypeOK, Spoken, cfg.chip = "rp2040", ~type.boot,
         writers(cfg.listed, Running2040, cfg.helper, cfg.staged) = {}
  PROVE  /\ "no_offset" \in FlashFix => Listed("bootsel") /\ cfg.helper = "klipper"
         /\ "list_flashtool" \in FlashFix => HasKind("bin")
         /\ "some_offset" \in FlashFix => Listed("flashtool")
         /\ "list_bootsel" \in FlashFix => HasKind("uf2") /\ cfg.helper = "klipper"
         /\ "add_helper" \in FlashFix => HasKind("uf2") /\ Listed("bootsel")
         /\ "list_bootsel_and_helper" \in FlashFix => HasKind("uf2")
         /\ "build" \in FlashFix => cfg.staged # Build(cfg.answer)
  <1> DEFINE waiting == unstaged(cfg.listed, Running2040, cfg.helper)
             kinds == {image.kind : image \in cfg.staged}
             route == bootsel_route(cfg.listed, Running2040, cfg.helper)
             refusal == refusal_error(cfg.listed, Running2040, cfg.helper, cfg.staged, type.builder)
  <1>0. /\ cfg.listed \in Seq(FLASHERS) /\ cfg.answer \in Address /\ type.die = "rp2040"
        /\ type.builder = "kconfig" /\ Speaking(cfg.chip) = Running2040
    BY DEF TypeOK, Config, Spoken, Speaking, Running2040
  <1>1. resolve(cfg.listed, Running2040, cfg.helper, cfg.staged) = "nobody"
    BY <1>0, ResolveFinds
  <1>2. FlashFix = IF cfg.staged = {} THEN {"build"} ELSE refusal
    BY <1>0, <1>1 DEF FlashFix, select
  <1>3. refusal = IF waiting = {} THEN {}
                  ELSE IF "bin" \in kinds /\ "uf2" \notin kinds THEN {"no_offset", "list_flashtool"}
                  ELSE IF "uf2" \in kinds /\ "bin" \notin kinds THEN {"some_offset"} \cup route
                  ELSE {"build"}
    BY <1>0 DEF refusal_error
  <1>4. ("bin" \in kinds <=> HasKind("bin")) /\ ("uf2" \in kinds <=> HasKind("uf2"))
    BY DEF HasKind
  <1>5. waiting # {} => \/ Listed("flashtool") /\ ~HasKind("bin")
                        \/ Listed("bootsel") /\ cfg.helper = "klipper" /\ ~HasKind("uf2")
    <2>1. SUFFICES ASSUME NEW i \in DOMAIN cfg.listed, supports(cfg.listed[i], Running2040, cfg.helper)
                   PROVE  \/ Listed("flashtool") /\ ~HasKind("bin")
                          \/ Listed("bootsel") /\ cfg.helper = "klipper" /\ ~HasKind("uf2")
      BY DEF unstaged
    <2>2. \/ cfg.listed[i] = "flashtool"
          \/ cfg.listed[i] = "bootsel" /\ cfg.helper = "klipper"
      BY <2>1 DEF supports, platformio_supports, dfu_util_supports, bootsel_supports, bootsel_requester, Running2040
    <2>3. ~\E image \in cfg.staged : image.kind = accepts[cfg.listed[i]]
      BY <2>1 DEF writers
    <2>4. accepts["flashtool"] = "bin" /\ accepts["bootsel"] = "uf2"
      BY DEF accepts
    <2>5. QED
      BY <2>2, <2>3, <2>4 DEF Listed, HasKind
  <1>6. route = IF cfg.helper = "klipper" THEN {"list_bootsel"}
                ELSE IF cfg.helper # "none" THEN {}
                ELSE IF Listed("bootsel") THEN {"add_helper"} ELSE {"list_bootsel_and_helper"}
    BY DEF bootsel_route, bootsel_requester, Running2040, Listed
  <1>7. Build(cfg.answer) \in {{[kind |-> "uf2", at |-> 1]}, {[kind |-> "bin", at |-> 2]}}
    BY <1>0, KconfigBuilds DEF Address
  <1>8. cfg.staged = Build(cfg.answer) => cfg.staged # {} /\ (HasKind("bin") <=> ~HasKind("uf2"))
    <2>1. cfg.staged = {[kind |-> "uf2", at |-> 1]} => HasKind("uf2") /\ ~HasKind("bin")
      BY DEF HasKind
    <2>2. cfg.staged = {[kind |-> "bin", at |-> 2]} => HasKind("bin") /\ ~HasKind("uf2")
      BY DEF HasKind
    <2>3. QED
      BY <1>7, <2>1, <2>2
  <1> HIDE DEF waiting, kinds, route, refusal
  <1>9. CASE FlashFix = {}
    BY <1>9
  <1>10. CASE FlashFix = {"no_offset", "list_flashtool"} /\ waiting # {} /\ HasKind("bin") /\ ~HasKind("uf2")
    BY <1>5, <1>10
  <1>11. CASE FlashFix = {"some_offset"} \cup route /\ waiting # {} /\ HasKind("uf2") /\ ~HasKind("bin")
    BY <1>5, <1>6, <1>11
  <1>12. CASE FlashFix = {"build"} /\ (cfg.staged = {} \/ (HasKind("bin") <=> HasKind("uf2")))
    BY <1>8, <1>12
  <1>13. QED
    BY <1>2, <1>3, <1>4, <1>9, <1>10, <1>11, <1>12

-----------------------------------------------------------------------------
LEMMA AdviceAlone ==
  ASSUME TypeOK, AdviceInv, UNCHANGED <<type, cfg, advice, tried>>, events' \in {events, events + 1}
  PROVE  AdviceInv'
  <1>1. events' = 0 => events = 0
    <2>1. events \in 0..MaxEvents
      BY DEF TypeOK
    <2>2. QED
      BY <2>1, Bounds
  <1>2. AnswersBuilt' /\ Asked'
    BY <1>1 DEF AdviceInv, AnswersBuilt, Asked, Build, Spoken
  <1>3. AddTried' /\ FlashNamed' /\ FlashTried' /\ AdviceWorks'
    BY DEF AdviceInv, AddTried, FlashNamed, FlashTried, AdviceWorks, Spoken, Flashing, Listed, HasKind, Build
  <1>4. QED
    BY <1>2, <1>3 DEF AdviceInv

LEMMA AdviceDropped ==
  ASSUME TypeOK, advice' = NoAdvice, tried' = {}, AnswersBuilt'
  PROVE  AdviceInv'
  BY DEF AdviceInv, Asked, AddTried, FlashNamed, FlashTried, AdviceWorks, Flashing, NoAdvice

LEMMA RebuildAdvice ==
  ASSUME TypeOK, NEW answer \in Address, Rebuild(answer)
  PROVE  AdviceInv'
  <1>1. cfg'.answer = answer /\ cfg'.staged = Build(answer) /\ type' = type
    BY DEF Rebuild, TypeOK, Config
  <1>2. AnswersBuilt'
    BY <1>1 DEF AnswersBuilt, Build
  <1>3. QED
    BY <1>2, AdviceDropped DEF Rebuild

LEMMA EditAdvice ==
  ASSUME TypeOK, Edit
  PROVE  AdviceInv'
  <1>1. events' # 0 /\ tried' = {} /\ advice' = NoAdvice
    <2>1. events \in 0..MaxEvents
      BY DEF TypeOK
    <2>2. QED
      BY <2>1, Bounds DEF Edit, Event
  <1>2. AnswersBuilt'
    BY <1>1 DEF AnswersBuilt
  <1>3. QED
    BY <1>1, <1>2, AdviceDropped

\* What a refusal leaves true of the answers and of what was asked.
LEMMA RefusalAsked ==
  ASSUME AdviceInv, NEW goal \in {"add_mcu", "flash"}, NEW fixes, Refuse(goal, fixes),
         goal = "add_mcu" /\ Spoken => fixes \subseteq AddFixes,
         goal = "flash" => fixes \subseteq FlashFixes /\ ~type.boot
  PROVE  /\ AnswersBuilt' /\ Asked' /\ UNCHANGED <<type, cfg>>
         /\ advice'.goal = goal /\ advice'.fixes = fixes
         /\ tried' = IF goal = advice.goal THEN tried ELSE {}
  <1>1. /\ UNCHANGED <<type, cfg, events>> /\ advice'.goal = goal /\ advice'.fixes = fixes
        /\ tried' = IF goal = advice.goal THEN tried ELSE {}
        /\ advice' = [goal |-> goal, fixes |-> fixes]
    BY DEF Refuse
  <1>2. AnswersBuilt'
    BY <1>1 DEF AdviceInv, AnswersBuilt, Build
  <1>3. Asked'
    BY <1>1 DEF AdviceInv, Asked, Spoken
  <1>4. QED
    BY <1>1, <1>2, <1>3

LEMMA AddRefusal ==
  ASSUME TypeOK, AdviceInv, unready.flasher = "nobody", Refuse("add_mcu", unready.fix)
  PROVE  AdviceInv'
  <1>1. Spoken => unready.fix \subseteq AddFixes
    BY AddFixIsOpen
  <1>2. /\ AnswersBuilt' /\ Asked' /\ UNCHANGED <<type, cfg>>
        /\ advice'.goal = "add_mcu" /\ advice'.fixes = unready.fix
        /\ tried' = IF advice.goal = "add_mcu" THEN tried ELSE {}
    BY <1>1, RefusalAsked
  <1>3. AddTried'
    BY <1>2 DEF AdviceInv, AddTried, Spoken, Listed, Build
  <1>4. FlashNamed' /\ FlashTried'
    BY <1>2 DEF FlashNamed, FlashTried, Flashing
  <1>5. AdviceWorks'
    <2>1. SUFFICES ASSUME Spoken, advice.goal = "add_mcu", NEW fix \in unready.fix, fix \in tried
                   PROVE  FALSE
      BY <1>2 DEF AdviceWorks, Spoken
    <2>2. /\ fix = "set_chipset" => cfg.chip = type.die
          /\ fix \in DOMAIN Adds => Listed(Adds[fix])
          /\ fix \in {"build", "no_offset"} => cfg.staged = Build(cfg.answer)
          /\ fix = "no_offset" => cfg.answer = 1
      BY <2>1 DEF AdviceInv, AddTried
    <2>3. /\ fix \in AddFixes
          /\ fix = "set_chipset" => cfg.chip = ""
          /\ fix \in DOMAIN Adds => ~Listed(Adds[fix])
          /\ fix = "build" => cfg.staged # Build(cfg.answer)
          /\ fix = "no_offset" => cfg.staged # Build(1)
      BY <2>1, AddFixIsOpen
    <2>4. type.die # ""
      BY TypeTyped
    <2>5. fix \in {"set_chipset", "build", "no_offset"} \cup DOMAIN Adds
      BY <2>3 DEF AddFixes, Adds
    <2>6. QED
      BY <2>2, <2>3, <2>4, <2>5
  <1>6. QED
    BY <1>2, <1>3, <1>4, <1>5 DEF AdviceInv

LEMMA FlashRefusal ==
  ASSUME TypeOK, AdviceInv, NEW b \in Board, flash(b), advice' # advice \/ tried' # tried
  PROVE  AdviceInv'
  <1>1. /\ Refuse("flash", FlashFix) /\ ~type.boot
        /\ writers(cfg.listed, Speaking(cfg.chip), cfg.helper, cfg.staged) = {}
    BY FlashTold
  <1>2. /\ AnswersBuilt' /\ Asked' /\ UNCHANGED <<type, cfg>>
        /\ advice'.goal = "flash" /\ advice'.fixes = FlashFix
        /\ tried' = IF advice.goal = "flash" THEN tried ELSE {}
    BY <1>1, FlashFixIsKnown, RefusalAsked
  <1>3. AddTried'
    BY <1>2 DEF AddTried
  <1>4. CASE ~(Spoken /\ cfg.chip = "rp2040")
    <2>1. ~Flashing'
      BY <1>2, <1>4 DEF Flashing, Spoken
    <2>2. FlashNamed' /\ FlashTried'
      BY <2>1 DEF FlashNamed, FlashTried
    <2>3. AdviceWorks'
      BY <1>2, <1>4 DEF AdviceWorks, Spoken, TypeOK
    <2>4. QED
      BY <1>2, <1>3, <2>2, <2>3 DEF AdviceInv
  <1>5. CASE Spoken /\ cfg.chip = "rp2040"
    <2>1. writers(cfg.listed, Running2040, cfg.helper, cfg.staged) = {}
      BY <1>1, <1>5 DEF Speaking, Running2040
    <2>2. /\ "no_offset" \in FlashFix => Listed("bootsel") /\ cfg.helper = "klipper"
          /\ "list_flashtool" \in FlashFix => HasKind("bin")
          /\ "some_offset" \in FlashFix => Listed("flashtool")
          /\ "list_bootsel" \in FlashFix => HasKind("uf2") /\ cfg.helper = "klipper"
          /\ "add_helper" \in FlashFix => HasKind("uf2") /\ Listed("bootsel")
          /\ "list_bootsel_and_helper" \in FlashFix => HasKind("uf2")
          /\ "build" \in FlashFix => cfg.staged # Build(cfg.answer)
      BY <1>1, <1>5, <2>1, FlashFixLeads
    <2>3. tried' \subseteq {"build"} /\ ("build" \in tried' => cfg.staged = Build(cfg.answer))
      BY <1>2, <1>5, <2>1 DEF AdviceInv, FlashTried, Flashing
    <2>4. FlashNamed'
      BY <1>2, <2>2 DEF FlashNamed, Listed, HasKind
    <2>5. FlashTried'
      BY <1>2, <2>3 DEF FlashTried, Build
    <2>6. AdviceWorks'
      BY <1>2, <2>2, <2>3 DEF AdviceWorks
    <2>7. QED
      BY <1>2, <1>3, <2>4, <2>5, <2>6 DEF AdviceInv
  <1>6. QED
    BY <1>4, <1>5

\* Following a fix changes what it names, and nothing else.
LEMMA Followed ==
  ASSUME TypeOK, Asked, NEW fix, Follow(fix)
  PROVE  /\ cfg'.answer = IF fix = "no_offset" THEN 1 ELSE IF fix = "some_offset" THEN 2 ELSE cfg.answer
         /\ cfg'.staged = IF fix \in {"build", "no_offset", "some_offset"} THEN Build(cfg'.answer) ELSE cfg.staged
         /\ cfg'.chip = IF fix = "set_chipset" THEN type.die ELSE cfg.chip
         /\ cfg'.helper = IF fix \in {"add_helper", "list_bootsel_and_helper"} THEN "klipper" ELSE cfg.helper
         /\ cfg'.listed = Adding(fix) /\ type' = type /\ events' = events /\ events = 0
         /\ tried' = tried \cup {fix} /\ advice'.goal = advice.goal /\ advice'.fixes = {}
  <1> DEFINE answer == IF fix = "no_offset" THEN 1 ELSE IF fix = "some_offset" THEN 2 ELSE cfg.answer
             staged == IF fix \in {"build", "no_offset", "some_offset"} THEN Build(answer) ELSE cfg.staged
             helper == IF fix \in {"add_helper", "list_bootsel_and_helper"} THEN "klipper" ELSE cfg.helper
             chip == IF fix = "set_chipset" THEN type.die ELSE cfg.chip
  <1>1. cfg' = [cfg EXCEPT !.listed = Adding(fix), !.helper = helper, !.chip = chip, !.answer = answer,
                           !.staged = staged]
    BY DEF Follow
  <1>2. /\ type' = type /\ events' = events /\ events = 0 /\ tried' = tried \cup {fix}
        /\ advice' = [advice EXCEPT !.fixes = {}]
    BY DEF Follow
  <1>3. advice'.goal = advice.goal /\ advice'.fixes = {}
    BY <1>2 DEF Asked
  <1>4. cfg \in Config
    BY DEF TypeOK
  <1>a. /\ answer = IF fix = "no_offset" THEN 1 ELSE IF fix = "some_offset" THEN 2 ELSE cfg.answer
        /\ staged = IF fix \in {"build", "no_offset", "some_offset"} THEN Build(answer) ELSE cfg.staged
        /\ helper = IF fix \in {"add_helper", "list_bootsel_and_helper"} THEN "klipper" ELSE cfg.helper
        /\ chip = IF fix = "set_chipset" THEN type.die ELSE cfg.chip
    OBVIOUS
  <1> HIDE DEF answer, staged, helper, chip
  <1>5. /\ cfg'.listed = Adding(fix) /\ cfg'.helper = helper /\ cfg'.chip = chip /\ cfg'.answer = answer
        /\ cfg'.staged = staged
    BY <1>1, <1>4 DEF Config
  <1>6. QED
    BY <1>a, <1>2, <1>3, <1>5

\* A line stays in the list, and one a fix adds is in it.
LEMMA AddingLists ==
  ASSUME TypeOK, NEW fix, cfg'.listed = Adding(fix)
  PROVE  /\ cfg'.listed \in Seq(FLASHERS)
         /\ \A f : Listed(f) => Listed(f)'
         /\ fix \in DOMAIN Adds => Listed(Adds[fix])'
  <1> DEFINE l == cfg.listed
  <1>1. l \in Seq(FLASHERS)
    BY DEF TypeOK, Config
  <1>2. fix \in DOMAIN Adds => Adds[fix] \in FLASHERS
    BY DEF Adds, FLASHERS
  <1>3. CASE fix \in DOMAIN Adds /\ ~Listed(Adds[fix])
    <2>1. cfg'.listed = Append(l, Adds[fix])
      BY <1>3 DEF Adding
    <2>2. /\ cfg'.listed \in Seq(FLASHERS) /\ DOMAIN cfg'.listed = 1 .. Len(l) + 1
          /\ \A i \in DOMAIN l : cfg'.listed[i] = l[i] /\ i \in DOMAIN cfg'.listed
          /\ cfg'.listed[Len(l) + 1] = Adds[fix] /\ Len(l) + 1 \in DOMAIN cfg'.listed
      <3> HIDE DEF l
      <3> QED BY <1>1, <1>2, <1>3, <2>1
    <2>3. QED
      BY <2>2 DEF Listed
  <1>4. CASE ~(fix \in DOMAIN Adds /\ ~Listed(Adds[fix]))
    BY <1>1, <1>4 DEF Adding, Listed
  <1>5. QED
    BY <1>3, <1>4

\* Following a fix keeps what following the earlier ones led to.
LEMMA FollowAdd ==
  ASSUME TypeOK, AdviceInv, NEW fix \in advice.fixes, Follow(fix)
  PROVE  AnswersBuilt' /\ Asked' /\ AddTried' /\ FlashNamed' /\ AdviceWorks'
  <1>1. /\ cfg'.answer = IF fix = "no_offset" THEN 1 ELSE IF fix = "some_offset" THEN 2 ELSE cfg.answer
        /\ cfg'.staged = IF fix \in {"build", "no_offset", "some_offset"} THEN Build(cfg'.answer) ELSE cfg.staged
        /\ cfg'.chip = IF fix = "set_chipset" THEN type.die ELSE cfg.chip
        /\ cfg'.listed = Adding(fix) /\ type' = type /\ events' = events /\ events = 0
        /\ tried' = tried \cup {fix} /\ advice'.goal = advice.goal /\ advice'.fixes = {}
    BY Followed DEF AdviceInv
  <1>2. AnswersBuilt'
    BY <1>1 DEF AdviceInv, AnswersBuilt, Build
  <1>3. Asked'
    <2>1. advice' = [advice EXCEPT !.fixes = {}]
      BY DEF Follow
    <2>2. QED
      BY <1>1, <2>1 DEF AdviceInv, Asked, Spoken
  <1>4. AddTried'
    <2>1. SUFFICES ASSUME Spoken, advice.goal = "add_mcu"
                   PROVE  /\ "set_chipset" \in tried' => cfg'.chip = type'.die
                          /\ \A f \in tried' \cap DOMAIN Adds : Listed(Adds[f])'
                          /\ tried' \cap {"build", "no_offset"} # {} => cfg'.staged = Build(cfg.answer)'
                          /\ "no_offset" \in tried' => cfg'.answer = 1
      BY <1>1 DEF AddTried, Spoken
    <2>2. fix \in AddFixes
      BY <2>1 DEF AdviceInv, Asked
    <2>3. "set_chipset" \in tried' => cfg'.chip = type'.die
      BY <1>1, <2>1 DEF AdviceInv, AddTried
    <2>4. \A f \in tried' \cap DOMAIN Adds : Listed(Adds[f])'
      BY <1>1, <2>1, AddingLists DEF AdviceInv, AddTried
    <2>5. Build(cfg.answer)' = Build(cfg'.answer)
      BY <1>1 DEF Build
    <2>6. tried' \cap {"build", "no_offset"} # {} => cfg'.staged = Build(cfg'.answer)
      <3>1. fix \in {"build", "no_offset"} => cfg'.staged = Build(cfg'.answer)
        BY <1>1
      <3>2. fix \notin {"build", "no_offset"} => cfg'.staged = cfg.staged /\ cfg'.answer = cfg.answer
        BY <1>1, <2>2 DEF AddFixes
      <3>3. QED
        BY <1>1, <2>1, <3>1, <3>2 DEF AdviceInv, AddTried
    <2>7. "no_offset" \in tried' => cfg'.answer = 1
      BY <1>1, <2>1, <2>2 DEF AddFixes, AdviceInv, AddTried
    <2>8. QED
      BY <2>3, <2>4, <2>5, <2>6, <2>7
  <1>5. FlashNamed' /\ AdviceWorks'
    BY <1>1 DEF FlashNamed, AdviceWorks
  <1>6. QED
    BY <1>2, <1>3, <1>4, <1>5

\* Of a Kconfig RP2040: what a refusal names, done, leaves somebody to write it.
LEMMA FollowFlash ==
  ASSUME TypeOK, AdviceInv, NEW fix \in advice.fixes, Follow(fix)
  PROVE  FlashTried'
  <1>0. /\ cfg'.answer = IF fix = "no_offset" THEN 1 ELSE IF fix = "some_offset" THEN 2 ELSE cfg.answer
        /\ cfg'.staged = IF fix \in {"build", "no_offset", "some_offset"} THEN Build(cfg'.answer) ELSE cfg.staged
        /\ cfg'.chip = IF fix = "set_chipset" THEN type.die ELSE cfg.chip
        /\ cfg'.helper = IF fix \in {"add_helper", "list_bootsel_and_helper"} THEN "klipper" ELSE cfg.helper
        /\ cfg'.listed = Adding(fix) /\ type' = type
        /\ tried' = tried \cup {fix} /\ advice'.goal = advice.goal /\ advice'.fixes = {}
    BY Followed DEF AdviceInv
  <1>1. SUFFICES ASSUME Flashing'
                 PROVE  /\ "build" \in tried' => cfg'.staged = Build(cfg.answer)'
                        /\ tried' \ {"build"} # {} =>
                               writers(cfg'.listed, Running2040, cfg'.helper, cfg'.staged) # {}
    BY <1>0 DEF FlashTried, Running2040
  <1>2. advice.goal = "flash" /\ fix \in FlashFixes /\ ~type.boot
    BY <1>0, <1>1 DEF AdviceInv, Asked, Flashing
  <1>3. fix # "set_chipset"
    BY <1>2 DEF FlashFixes
  <1>4. Flashing
    BY <1>0, <1>1, <1>2, <1>3 DEF Flashing, Spoken
  <1>5. /\ fix = "no_offset" => Listed("bootsel") /\ cfg.helper = "klipper"
        /\ fix = "list_flashtool" => HasKind("bin")
        /\ fix = "some_offset" => Listed("flashtool")
        /\ fix = "list_bootsel" => HasKind("uf2") /\ cfg.helper = "klipper"
        /\ fix = "add_helper" => HasKind("uf2") /\ Listed("bootsel")
        /\ fix = "list_bootsel_and_helper" => HasKind("uf2")
    BY <1>4 DEF AdviceInv, FlashNamed
  <1>6. tried \subseteq {"build"} /\ ("build" \in tried => cfg.staged = Build(cfg.answer))
    BY <1>4 DEF AdviceInv, FlashTried
  <1>7. Build(cfg.answer)' = Build(cfg'.answer)
    BY <1>0 DEF Build
  <1>8. cfg'.listed \in Seq(FLASHERS) /\ (\A f : Listed(f) => Listed(f)') /\ (fix \in DOMAIN Adds => Listed(Adds[fix])')
    BY <1>0, AddingLists
  <1>9. "build" \in tried' => cfg'.staged = Build(cfg'.answer)
    <2>1. fix \in {"build", "no_offset", "some_offset"} => cfg'.staged = Build(cfg'.answer)
      BY <1>0
    <2>2. fix \notin {"build", "no_offset", "some_offset"} => cfg'.staged = cfg.staged /\ cfg'.answer = cfg.answer
      BY <1>0
    <2>3. fix # "build" /\ "build" \in tried' => "build" \in tried
      BY <1>0
    <2>4. QED
      BY <1>6, <2>1, <2>2, <2>3
  <1>10. Listed("flashtool")' /\ HasKind("bin")' => writers(cfg'.listed, Running2040, cfg'.helper, cfg'.staged) # {}
    <2>1. SUFFICES ASSUME NEW i \in DOMAIN cfg'.listed, cfg'.listed[i] = "flashtool", HasKind("bin")'
                   PROVE  i \in writers(cfg'.listed, Running2040, cfg'.helper, cfg'.staged)
      BY DEF Listed
    <2>2. supports("flashtool", Running2040, cfg'.helper)
      BY DEF supports, flashtool_supports, Running2040
    <2>3. accepts["flashtool"] = "bin"
      BY DEF accepts
    <2>4. QED
      BY <2>1, <2>2, <2>3 DEF writers, HasKind
  <1>11. Listed("bootsel")' /\ cfg'.helper = "klipper" /\ HasKind("uf2")' =>
             writers(cfg'.listed, Running2040, cfg'.helper, cfg'.staged) # {}
    <2>1. SUFFICES ASSUME NEW i \in DOMAIN cfg'.listed, cfg'.listed[i] = "bootsel", HasKind("uf2")',
                          cfg'.helper = "klipper"
                   PROVE  i \in writers(cfg'.listed, Running2040, cfg'.helper, cfg'.staged)
      BY DEF Listed
    <2>2. supports("bootsel", Running2040, "klipper")
      BY DEF supports, bootsel_supports, bootsel_requester, Running2040
    <2>3. accepts["bootsel"] = "uf2"
      BY DEF accepts
    <2>4. QED
      BY <2>1, <2>2, <2>3 DEF writers, HasKind
  <1>12. fix # "build" => \/ (Listed("flashtool")' /\ HasKind("bin")')
                         \/ (Listed("bootsel")' /\ cfg'.helper = "klipper" /\ HasKind("uf2")')
    <2>1. type.die = "rp2040"
      BY <1>4 DEF Flashing, TypeOK
    <2>2. CASE fix = "no_offset"
      <3>1. cfg'.staged = Build(1) /\ cfg'.helper = cfg.helper
        BY <1>0, <2>2
      <3>2. [kind |-> "uf2", at |-> 1] \in Build(1)
        BY <1>2, <1>4, <2>1, KconfigBuilds DEF Flashing, Address
      <3>3. HasKind("uf2")'
        BY <3>1, <3>2 DEF HasKind
      <3>4. QED
        BY <1>5, <1>8, <2>2, <3>1, <3>3
    <2>3. CASE fix = "some_offset"
      <3>1. cfg'.staged = Build(2)
        BY <1>0, <2>3
      <3>2. [kind |-> "bin", at |-> 2] \in Build(2)
        BY <1>2, <1>4, <2>1, KconfigBuilds DEF Flashing, Address
      <3>3. HasKind("bin")'
        BY <3>1, <3>2 DEF HasKind
      <3>4. Listed("flashtool")'
        BY <1>5, <1>8, <2>3
      <3>5. QED
        BY <3>3, <3>4
    <2>4. CASE fix \in {"list_flashtool", "list_bootsel", "add_helper", "list_bootsel_and_helper"}
      <3>1. cfg'.staged = cfg.staged
        BY <1>0, <2>4
      <3>2. (HasKind("bin") => HasKind("bin")') /\ (HasKind("uf2") => HasKind("uf2")')
        BY <3>1 DEF HasKind
      <3>3. /\ fix = "list_flashtool" => Listed("flashtool")'
            /\ fix \in {"list_bootsel", "list_bootsel_and_helper"} => Listed("bootsel")'
        BY <1>8 DEF Adds
      <3>4. fix = "list_bootsel" => cfg'.helper = cfg.helper
        BY <1>0
      <3>5. fix \in {"add_helper", "list_bootsel_and_helper"} => cfg'.helper = "klipper"
        BY <1>0
      <3>6. CASE fix = "list_flashtool"
        BY <1>5, <3>2, <3>3, <3>6
      <3>7. CASE fix = "list_bootsel"
        BY <1>5, <3>2, <3>3, <3>4, <3>7
      <3>8. CASE fix = "add_helper"
        <4>1. Listed("bootsel")'
          BY <1>5, <1>8, <3>8
        <4>2. QED
          BY <1>5, <3>2, <3>5, <3>8, <4>1
      <3>9. CASE fix = "list_bootsel_and_helper"
        BY <1>5, <3>2, <3>3, <3>5, <3>9
      <3>10. QED
        BY <2>4, <3>6, <3>7, <3>8, <3>9
    <2>5. QED
      BY <1>2, <2>2, <2>3, <2>4 DEF FlashFixes
  <1>13. tried' \ {"build"} # {} => fix # "build"
    BY <1>0, <1>6
  <1>14. QED
    BY <1>7, <1>9, <1>10, <1>11, <1>12, <1>13

LEMMA FollowAdvice ==
  ASSUME TypeOK, AdviceInv, NEW fix \in advice.fixes, Follow(fix)
  PROVE  AdviceInv'
  BY FollowAdd, FollowFlash DEF AdviceInv

LEMMA AdviceInitially == Init => AdviceInv
  <1>1. SUFFICES ASSUME Init
                 PROVE  AdviceInv
    OBVIOUS
  <1>2. cfg.staged \in {{}, Build(cfg.answer)} /\ advice = NoAdvice /\ tried = {}
    <2>1. PICK l \in Lists, chip \in {type.die, ""}, answer \in Address, built \in BOOLEAN :
              cfg = [listed |-> l, chip |-> chip, helper |-> type.helper, answer |-> answer,
                     staged |-> IF built THEN Build(answer) ELSE {}]
      BY <1>1 DEF Init
    <2>2. cfg.answer = answer /\ cfg.staged = IF built THEN Build(answer) ELSE {}
      BY <2>1
    <2>3. cfg.staged \in {{}, Build(cfg.answer)}
      BY <2>2
    <2>4. QED
      BY <1>1, <2>3 DEF Init
  <1>3. QED
    BY <1>2 DEF AdviceInv, AnswersBuilt, Asked, AddTried, FlashNamed, FlashTried, AdviceWorks, Flashing, NoAdvice

LEMMA AdviceInductive == TypeOK /\ AdviceInv /\ [Next]_vars => AdviceInv'
  <1>1. SUFFICES ASSUME TypeOK, AdviceInv, [Next]_vars
                 PROVE  AdviceInv'
    OBVIOUS
  <1>2. CASE UNCHANGED vars
    BY <1>1, <1>2, AdviceAlone DEF vars
  <1>3. ASSUME NEW named, NEW picked, NEW known, add_mcu_start(named, picked, known)
        PROVE  AdviceInv'
    <2>1. CASE unready.flasher = "nobody"
      <3>1. Refuse("add_mcu", unready.fix)
        BY <1>3, <2>1 DEF add_mcu_start
      <3>2. QED
        BY <1>1, <2>1, <3>1, AddRefusal
    <2>2. CASE unready.flasher # "nobody"
      <3>1. UNCHANGED <<type, cfg, advice, tried, events>>
        BY <1>3, <2>2 DEF add_mcu_start, vars
      <3>2. QED
        BY <1>1, <3>1, AdviceAlone
    <2>3. QED
      BY <2>1, <2>2
  <1>4. ASSUME NEW b \in Board, flash(b)
        PROVE  AdviceInv'
    <2>1. CASE advice' # advice \/ tried' # tried
      BY <1>1, <1>4, <2>1, FlashRefusal
    <2>2. CASE advice' = advice /\ tried' = tried
      <3>1. UNCHANGED <<type, cfg, events>>
        BY <1>4 DEF flash, Refuse, vars
      <3>2. QED
        BY <1>1, <2>2, <3>1, AdviceAlone
    <2>3. QED
      BY <2>1, <2>2
  <1>5. ASSUME Job
        PROVE  AdviceInv'
    <2>1. UNCHANGED <<type, cfg, advice, tried, events>>
      BY <1>5 DEF Job, Submit, write_dfu, write_bootsel, record_pairing, wait_for_new_device, upload, announced,
                  request_bootsel, mount_for_topology, wait_ready, Written, Fail, Quiet
    <2>2. QED
      BY <1>1, <2>1, AdviceAlone
  <1>6. ASSUME Bench
        PROVE  AdviceInv'
    <2>1. CASE \E b \in Board : Pull(b) \/ Reset(b) \/ Mount(b) \/ \E p \in Port : Plug(b, p) \/ Hold(b, p)
      <3>1. UNCHANGED <<type, cfg, advice, tried>> /\ events' \in {events, events + 1}
        BY <2>1 DEF Pull, Reset, Mount, Plug, Hold, PlugIn, Event
      <3>2. QED
        BY <1>1, <3>1, AdviceAlone
    <2>2. CASE \E answer \in Address : Rebuild(answer)
      BY <1>1, <2>2, RebuildAdvice
    <2>3. CASE Edit
      BY <1>1, <2>3, EditAdvice
    <2>4. CASE \E fix \in advice.fixes : Follow(fix)
      BY <1>1, <2>4, FollowAdvice
    <2>5. QED
      BY <1>6, <2>1, <2>2, <2>3, <2>4 DEF Bench
  <1>7. QED
    BY <1>1, <1>2, <1>3, <1>4, <1>5, <1>6 DEF Next

\* For any list of flashers, helper, chipset, answers and build of a Kconfig type:
\* a fix that was followed is not what the next refusal of the same request names
\* (registry._refusal_error and _bootsel_route, add_mcu_start's refusals).
THEOREM AdviceIsNotRepeated == Spec => []AdviceWorks
  <1>1. AdviceInv => AdviceWorks
    BY DEF AdviceInv
  <1>2. QED
    BY <1>1, AdviceInitially, AdviceInductive, TypeCorrect, PTL DEF Spec
=============================================================================
