-------------------------- MODULE ProvenanceProofs --------------------------
(***************************************************************************)
(* Theorems about Provenance, for any boards, answers, commits and lines   *)
(* and any number of outside events.                                       *)
(*                                                                         *)
(* The argument: while a build that nothing disturbed is under way, the    *)
(* image in hand was made from the inputs of now (Honest), so the sidecar  *)
(* written at its end describes its image; a sidecar that describes an     *)
(* image of this tool never matches a file put there by hand, so a hash    *)
(* that is filed is the hash of what was written.                          *)
(***************************************************************************)
EXTENDS TLAPS, Provenance

\* The local variables a control point relies on are set.
Shape ==
    /\ (At("hash") \/ At("stage")) => job.out \in Image
    /\ At("stage") => job.after \in Config
    /\ At("describe") => job.after \in Config /\ bin \in Image
    /\ At("sidecar") => job.desc \in Sidecar
    /\ At("record") => job.cur \in Board \ sound /\ bin \in Image
    /\ job.todo # {} => bin \in Image
    /\ job.pc \in {"check", "seed", "seeded", "patch", "make"} => job.out = None

\* The image was made whole by this tool, from config c and commit h.
MadeFrom(i, c, h) == i.by = "tool" /\ i.whole /\ i.config = c /\ i.head = h

\* While nothing disturbs the build, the image in hand is of the inputs of now.
InHand ==
    (/\ At("restore") \/ At("hash") \/ At("stage")
     /\ job.still
     /\ job.out # None)
    => Fresh /\ MadeFrom(job.out, config, head)
Hashed == (At("stage") /\ job.still) => job.after = config
Staged ==
    (At("describe") /\ job.still)
    => Fresh /\ job.after = config /\ MadeFrom(bin, config, head)

\* So what is about to be written, and what was written, describes its image.
Described ==
    (At("sidecar") /\ job.still)
    => MadeFrom(job.desc.bin_sha256, job.desc.config_sha256, job.desc.fw_sha)
Vouched ==
    (quiet /\ sidecar # None)
    => MadeFrom(sidecar.bin_sha256, sidecar.config_sha256, sidecar.fw_sha)

\* A board just written holds the staged image, or a hand has replaced it since.
Written ==
    (At("record") /\ job.still) => board[job.cur].app = bin \/ bin.by = "hand"

Honest == InHand /\ Hashed /\ Staged /\ Described /\ Vouched /\ Written

Base == TypeOK /\ Shape
IInv == Base /\ Honest /\ LedgerTruthful

USE ProvenanceAssumption

LEMMA BaseInit == Init => Base
<1> SUFFICES ASSUME Init PROVE Base
  OBVIOUS
<1>1. config \in Config /\ config.ans \in Answer /\ config.tree \in Commit
  BY DEF Init, Config
<1>2. TypeOK
  <2>1. job \in Job
    BY DEF Init, Idle, Job, Pc
  <2>2. board \in [Board -> [app : Image, mode : Mode]]
    BY <1>1 DEF Init, Image, Mode
  <2>3. profile \in Profile \cup {None} /\ seed \in Answer
    BY <1>1 DEF Init, Profile
  <2>4. 0 \in 0 .. MaxEvents
    <3>1. MaxEvents \in Nat
      BY DEF ProvenanceAssumption
    <3> QED
      BY <3>1
  <2> QED
    BY <1>1, <2>1, <2>2, <2>3, <2>4 DEF Init, TypeOK
<1>3. Shape
  BY DEF Init, Shape, At, Idle
<1> QED
  BY <1>2, <1>3 DEF Base

LEMMA HappensType ==
    ASSUME TypeOK, NEW e, Happens(e)
    PROVE  events' \in 0 .. MaxEvents
<1>1. MaxEvents \in Nat
  BY DEF ProvenanceAssumption
<1> QED
  BY <1>1, SMT DEF TypeOK, Happens

\* One board changes: the others keep their type.
LEMMA BoardType ==
    ASSUME TypeOK, NEW b \in Board, NEW i \in Image, NEW m \in Mode,
           board' = [board EXCEPT ![b] = [app |-> i, mode |-> m]]
    PROVE  board' \in [Board -> [app : Image, mode : Mode]]
  BY DEF TypeOK

LEMMA HalfImage ==
    ASSUME NEW i \in Image
    PROVE  [i EXCEPT !.whole = FALSE] \in Image
  BY DEF Image

LEMMA HandImage ==
    ASSUME TypeOK, NEW h \in Commit
    PROVE  ByHand(h) \in Image
  BY DEF TypeOK, ByHand, Image

LEMMA BaseStep == Base /\ [Next]_vars => Base'
<1> SUFFICES ASSUME Base, [Next]_vars PROVE Base'
  OBVIOUS
<1> USE DEF inputs, staging, devices, At
<1>0. TypeOK /\ Shape
  BY DEF Base
<1>1. ASSUME NEW op \in AllOps, Submit(op) PROVE Base'
  <2>1. job' \in Job
    BY <1>0, <1>1 DEF Submit, TypeOK, Job, Pc, Idle
  <2>2. TypeOK'
    BY <1>0, <1>1, <2>1 DEF Submit, Ask, git_head, TypeOK, Fresh
  <2>3. Shape'
    BY <1>0, <1>1 DEF Submit, Shape, Idle
  <2> QED
    BY <2>2, <2>3 DEF Base
<1>2. CASE SeedCheck
  <2>1. job' \in Job
    BY <1>0, <1>2 DEF SeedCheck, TypeOK, Job, Pc
  <2>2. TypeOK'
    BY <1>0, <1>2, <2>1 DEF SeedCheck, TypeOK
  <2>3. Shape'
    BY <1>0, <1>2 DEF SeedCheck, TypeOK, Shape, Job
  <2> QED
    BY <2>2, <2>3 DEF Base
<1>3. CASE SeedSave
  <2>1. job' \in Job
    BY <1>0, <1>3 DEF SeedSave, TypeOK, Job, Pc
  <2>2. TypeOK'
    BY <1>0, <1>3, <2>1 DEF SeedSave, TypeOK, Config
  <2>3. Shape'
    BY <1>0, <1>3 DEF SeedSave, TypeOK, Shape, Job
  <2> QED
    BY <2>2, <2>3 DEF Base
<1>4. CASE SeedRecord
  <2>1. job' \in Job
    BY <1>0, <1>4 DEF SeedRecord, TypeOK, Job, Pc
  <2>2. TypeOK'
    BY <1>0, <1>4, <2>1 DEF SeedRecord, TypeOK, Profile
  <2>3. Shape'
    BY <1>0, <1>4 DEF SeedRecord, TypeOK, Shape, Job
  <2> QED
    BY <2>2, <2>3 DEF Base
<1>5. CASE ApplyPatch
  <2>1. CASE job' = [job EXCEPT !.pc = "make", !.saved = None] /\ UNCHANGED makefile
    <3>1. job' \in Job
      BY <1>0, <2>1 DEF TypeOK, Job, Pc
    <3>2. TypeOK'
      BY <1>0, <1>5, <2>1, <3>1 DEF ApplyPatch, TypeOK
    <3>3. Shape'
      BY <1>0, <1>5, <2>1 DEF ApplyPatch, TypeOK, Shape, Job
    <3> QED
      BY <3>2, <3>3 DEF Base
  <2>2. CASE /\ job' = [job EXCEPT !.pc = "make", !.saved = makefile]
             /\ makefile' = makefile \cup {patch}
             /\ patch # None
    <3>1. job' \in Job
      BY <1>0, <2>2 DEF TypeOK, Job, Pc
    <3>2. TypeOK'
      BY <1>0, <1>5, <2>2, <3>1 DEF ApplyPatch, TypeOK
    <3>3. Shape'
      BY <1>0, <1>5, <2>2 DEF ApplyPatch, TypeOK, Shape, Job
    <3> QED
      BY <3>2, <3>3 DEF Base
  <2> QED
    BY <1>5, <2>1, <2>2 DEF ApplyPatch
<1>6. CASE Make
  <2>0. PICK c \in {config, [config EXCEPT !.tree = head]} :
           /\ config' = c
           /\ job' = [job EXCEPT !.pc = "restore",
                        !.out = [by |-> "tool", config |-> c, head |-> head,
                                 lines |-> makefile, whole |-> TRUE],
                        !.still = Fresh]
    BY <1>6 DEF Make
  <2>a. c \in Config
    BY <1>0 DEF TypeOK, Config
  <2>b. [by |-> "tool", config |-> c, head |-> head, lines |-> makefile,
         whole |-> TRUE] \in Image
    BY <1>0, <2>a DEF TypeOK, Image
  <2>c. Fresh \in BOOLEAN
    BY DEF Fresh
  <2>1. job' \in Job
    BY <1>0, <2>0, <2>b, <2>c DEF TypeOK, Job, Pc
  <2>2. TypeOK'
    BY <1>0, <1>6, <2>0, <2>a, <2>1 DEF Make, TypeOK
  <2>3. Shape'
    BY <1>0, <1>6, <2>0 DEF Make, TypeOK, Shape, Job
  <2> QED
    BY <2>2, <2>3 DEF Base
<1>7. CASE MakeFails
  <2>0. PICK op \in {job.op, "build"} :
           job' = [job EXCEPT !.pc = "restore", !.failed = TRUE, !.op = op]
    BY <1>7 DEF MakeFails
  <2>a. op \in AllOps \cup {"none"}
    BY <1>0 DEF TypeOK, Job, AllOps
  <2>1. job' \in Job
    BY <1>0, <2>0, <2>a DEF TypeOK, Job, Pc
  <2>2. TypeOK'
    BY <1>0, <1>7, <2>1 DEF MakeFails, TypeOK
  <2>3. Shape'
    BY <1>0, <1>7, <2>0 DEF MakeFails, TypeOK, Shape, Job
  <2> QED
    BY <2>2, <2>3 DEF Base
<1>8. CASE Restore
  <2>1. job' \in Job
    BY <1>0, <1>8 DEF Restore, TypeOK, Job, Pc
  <2>a. makefile' \in SUBSET Line
    BY <1>0, <1>8 DEF Restore, TypeOK, Job
  <2>2. TypeOK'
    BY <1>0, <1>8, <2>1, <2>a DEF Restore, TypeOK
  <2>3. Shape'
    BY <1>0, <1>8 DEF Restore, TypeOK, Shape, Job
  <2> QED
    BY <2>2, <2>3 DEF Base
<1>9. CASE HashConfig
  <2>1. job' \in Job
    BY <1>0, <1>9 DEF HashConfig, TypeOK, Job, Pc
  <2>2. TypeOK'
    BY <1>0, <1>9, <2>1 DEF HashConfig, TypeOK
  <2>3. Shape'
    BY <1>0, <1>9 DEF HashConfig, TypeOK, Shape, Job
  <2> QED
    BY <2>2, <2>3 DEF Base
<1>10. CASE Stage
  <2>1. job' \in Job
    BY <1>0, <1>10 DEF Stage, TypeOK, Job, Pc
  <2>a. bin' \in Image
    BY <1>0, <1>10 DEF Stage, Shape
  <2>2. TypeOK'
    BY <1>0, <1>10, <2>1, <2>a DEF Stage, TypeOK
  <2>b. job.after \in Config
    BY <1>0, <1>10 DEF Stage, Shape
  <2>3. Shape'
    BY <1>0, <1>10, <2>a, <2>b DEF Stage, TypeOK, Shape, Job
  <2> QED
    BY <2>2, <2>3 DEF Base
<1>11. CASE Describe
  <2>a. git_head \in Commit
    BY <1>0 DEF git_head, TypeOK
  <2>b. [fw_sha |-> git_head, config_sha256 |-> job.after,
         bin_sha256 |-> bin] \in Sidecar
    BY <1>0, <1>11, <2>a DEF Describe, Shape, Sidecar
  <2>1. job' \in Job
    BY <1>0, <1>11, <2>b DEF Describe, TypeOK, Job, Pc
  <2>2. TypeOK'
    BY <1>0, <1>11, <2>a, <2>1 DEF Describe, Ask, TypeOK
  <2>3. Shape'
    BY <1>0, <1>11, <2>b DEF Describe, TypeOK, Shape, Job
  <2> QED
    BY <2>2, <2>3 DEF Base
<1>12. CASE WriteSidecar
  <2>a. CASE /\ sidecar' = job.desc
             /\ quiet' = job.still
             /\ job' = [job EXCEPT !.pc = "clean", !.desc = None]
    <3>1. job' \in Job
      BY <1>0, <2>a DEF TypeOK, Job, Pc
    <3>2. sidecar' \in Sidecar /\ quiet' \in BOOLEAN
      BY <1>0, <1>12, <2>a DEF WriteSidecar, Shape, TypeOK, Job
    <3>3. TypeOK'
      BY <1>0, <1>12, <3>1, <3>2 DEF WriteSidecar, TypeOK
    <3>4. Shape'
      BY <1>0, <1>12, <2>a DEF WriteSidecar, TypeOK, Shape, Job
    <3> QED
      BY <3>3, <3>4 DEF Base
  <2>b. CASE /\ job' = [job EXCEPT !.pc = "clean", !.desc = None, !.failed = TRUE]
             /\ UNCHANGED <<sidecar, quiet>>
    <3>1. job' \in Job
      BY <1>0, <2>b DEF TypeOK, Job, Pc
    <3>2. TypeOK'
      BY <1>0, <1>12, <2>b, <3>1 DEF WriteSidecar, TypeOK
    <3>3. Shape'
      BY <1>0, <1>12, <2>b DEF WriteSidecar, TypeOK, Shape, Job
    <3> QED
      BY <3>2, <3>3 DEF Base
  <2> QED
    BY <1>12, <2>a, <2>b DEF WriteSidecar
<1>13. CASE CleanTree
  <2>0. PICK f \in {job.failed, TRUE} :
           job' = IF job.op = "update"
                  THEN [job EXCEPT !.pc = "select", !.failed = f] ELSE Over(f)
    BY <1>13 DEF CleanTree
  <2>a. f \in BOOLEAN
    BY <1>0 DEF TypeOK, Job
  <2>1. job' \in Job
    <3>1. [job EXCEPT !.pc = "select", !.failed = f] \in Job
      BY <1>0, <2>a DEF TypeOK, Job, Pc
    <3>2. Over(f) \in Job
      BY <1>0, <2>a DEF TypeOK, Job, Pc, Over, Idle
    <3> QED
      BY <2>0, <3>1, <3>2
  <2>b. job'.pc \in {"select", "idle"} /\ job'.todo \in {job.todo, {}}
    <3>1. CASE job.op = "update"
      BY <1>0, <2>0, <3>1 DEF TypeOK, Job
    <3>2. CASE job.op # "update"
      BY <2>0, <3>2 DEF Over, Idle
    <3> QED
      BY <3>1, <3>2
  <2>2. TypeOK'
    BY <1>0, <1>13, <2>1 DEF CleanTree, TypeOK
  <2>3. Shape'
    BY <1>0, <1>13, <2>b DEF CleanTree, Shape
  <2> QED
    BY <2>2, <2>3 DEF Base
<1>14. CASE Select
  <2>1. job' \in Job
    BY <1>0, <1>14 DEF Select, Ask, git_head, Selected, TypeOK, Job, Pc
  <2>2. TypeOK'
    BY <1>0, <1>14, <2>1 DEF Select, Ask, git_head, Selected, TypeOK
  <2>3. Shape'
    BY <1>0, <1>14 DEF Select, Ask, git_head, Selected, TypeOK, Shape, Job
  <2> QED
    BY <2>2, <2>3 DEF Base
<1>15. CASE RecordBoard
  <2>1. job' \in Job
    BY <1>0, <1>15 DEF RecordBoard, git_head, staged_record, TypeOK, Job, Pc
  <2>2. TypeOK'
    BY <1>0, <1>15, <2>1 DEF RecordBoard, git_head, staged_record, TypeOK, Record, Sidecar, Shape
  <2>3. Shape'
    BY <1>0, <1>15 DEF RecordBoard, git_head, staged_record, TypeOK, Shape, Job
  <2> QED
    BY <2>2, <2>3 DEF Base
<1>16. CASE EndFlash
  <2>1. job' \in Job
    BY <1>0, <1>16 DEF EndFlash, TypeOK, Job, Pc, Over, Idle
  <2>2. TypeOK'
    BY <1>0, <1>16, <2>1 DEF EndFlash, TypeOK
  <2>3. Shape'
    BY <1>0, <1>16 DEF EndFlash, Shape, Over, Idle
  <2> QED
    BY <2>2, <2>3 DEF Base
<1>17. ASSUME NEW b \in Board, WriteBoard(b) PROVE Base'
  <2>0. bin \in Image /\ (IF bin.whole THEN "app" ELSE "offline") \in Mode
    BY <1>0, <1>17 DEF WriteBoard, Shape, Mode
  <2>1. job' \in Job
    BY <1>0, <1>17 DEF WriteBoard, TypeOK, Job, Pc
  <2>a. board' \in [Board -> [app : Image, mode : Mode]]
    BY <1>0, <1>17, <2>0, BoardType DEF WriteBoard
  <2>2. TypeOK'
    BY <1>0, <1>17, <2>1, <2>a DEF WriteBoard, TypeOK
  <2>3. Shape'
    BY <1>0, <1>17, <2>0 DEF WriteBoard, TypeOK, Shape, Job
  <2> QED
    BY <2>2, <2>3 DEF Base
<1>18. ASSUME NEW b \in Board, WriteFails(b) PROVE Base'
  <2>0. bin \in Image /\ [bin EXCEPT !.whole = FALSE] \in Image
    BY <1>0, <1>18, HalfImage DEF WriteFails, Shape
  <2>1. job' \in Job
    BY <1>0, <1>18 DEF WriteFails, TypeOK, Job, Pc
  <2>a. /\ board' \in [Board -> [app : Image, mode : Mode]]
        /\ sound' \in SUBSET Board
    <3>1. CASE UNCHANGED <<board, sound>>
      BY <1>0, <3>1 DEF TypeOK
    <3>2. CASE /\ board' = [board EXCEPT ![b] = [app |-> [bin EXCEPT !.whole = FALSE],
                                               mode |-> "katapult"]]
               /\ sound' = sound \ {b}
      BY <1>0, <2>0, <3>2, BoardType DEF TypeOK, Mode
    <3> QED
      BY <1>18, <3>1, <3>2 DEF WriteFails
  <2>2. TypeOK'
    BY <1>0, <1>18, <2>1, <2>a DEF WriteFails, TypeOK
  <2>3. Shape'
    BY <1>0, <1>18, <2>0 DEF WriteFails, TypeOK, Shape, Job
  <2> QED
    BY <2>2, <2>3 DEF Base
<1>19. ASSUME NEW b \in Board, HandFlash(b) PROVE Base'
  <2>1. job' \in Job
    BY <1>0, <1>19 DEF HandFlash, TypeOK, Job
  <2>a. board' \in [Board -> [app : Image, mode : Mode]]
    BY <1>0, <1>19, HandImage, BoardType DEF HandFlash, Mode
  <2>2. TypeOK'
    BY <1>0, <1>19, <2>1, <2>a, HappensType DEF HandFlash, TypeOK
  <2>3. Shape'
    BY <1>0, <1>19 DEF HandFlash, TypeOK, Shape, Job
  <2> QED
    BY <2>2, <2>3 DEF Base
<1>20. ASSUME NEW b \in Board, Unplug(b) PROVE Base'
  <2>1. job' \in Job
    BY <1>0, <1>20 DEF Unplug, TypeOK
  <2>a. board' \in [Board -> [app : Image, mode : Mode]]
    BY <1>0, <1>20 DEF Unplug, TypeOK, Mode
  <2>2. TypeOK'
    BY <1>0, <1>20, <2>1, <2>a, HappensType DEF Unplug, TypeOK
  <2>3. Shape'
    BY <1>0, <1>20 DEF Unplug, TypeOK, Shape, Job
  <2> QED
    BY <2>2, <2>3 DEF Base
<1>21. CASE Edit
  <2>1. job' \in Job
    BY <1>0, <1>21 DEF Edit, Unsettle, TypeOK, Job
  <2>a. config' \in Config
    BY <1>0, <1>21 DEF Edit, TypeOK, Config
  <2>2. TypeOK'
    BY <1>0, <1>21, <2>1, <2>a, HappensType DEF Edit, TypeOK
  <2>3. Shape'
    BY <1>0, <1>21 DEF Edit, Unsettle, TypeOK, Shape, Job
  <2> QED
    BY <2>2, <2>3 DEF Base
<1>22. CASE Pull
  <2>1. job' \in Job
    BY <1>0, <1>22 DEF Pull, Unsettle, TypeOK, Job
  <2>2. TypeOK'
    BY <1>0, <1>22, <2>1, HappensType DEF Pull, TypeOK
  <2>3. Shape'
    BY <1>0, <1>22 DEF Pull, Unsettle, TypeOK, Shape, Job
  <2> QED
    BY <2>2, <2>3 DEF Base
<1>23. CASE Bump
  <2>1. job' \in Job
    BY <1>0, <1>23 DEF Bump, TypeOK, Job
  <2>2. TypeOK'
    BY <1>0, <1>23, <2>1, HappensType DEF Bump, TypeOK
  <2>3. Shape'
    BY <1>0, <1>23 DEF Bump, TypeOK, Shape, Job
  <2> QED
    BY <2>2, <2>3 DEF Base
<1>24. CASE Repatch
  <2>1. job' \in Job
    BY <1>0, <1>24 DEF Repatch, TypeOK, Job
  <2>2. TypeOK'
    BY <1>0, <1>24, <2>1, HappensType DEF Repatch, TypeOK
  <2>3. Shape'
    BY <1>0, <1>24 DEF Repatch, TypeOK, Shape, Job
  <2> QED
    BY <2>2, <2>3 DEF Base
<1>25. CASE HandBuild
  <2>1. job' \in Job
    BY <1>0, <1>25 DEF HandBuild, Unsettle, TypeOK, Job
  <2>a. bin' \in Image
    BY <1>0, <1>25, HandImage DEF HandBuild, TypeOK
  <2>2. TypeOK'
    BY <1>0, <1>25, <2>1, <2>a, HappensType DEF HandBuild, TypeOK
  <2>3. Shape'
    BY <1>0, <1>25, <2>a DEF HandBuild, Unsettle, TypeOK, Shape, Job
  <2> QED
    BY <2>2, <2>3 DEF Base
<1>26. CASE Crash
  <2>1. job' \in Job
    BY <1>26 DEF Crash, Idle, Job, Pc
  <2>a. bin' \in Image \cup {None}
    BY <1>0, <1>26, HalfImage DEF Crash, TypeOK, Shape
  <2>b. sidecar' \in Sidecar \cup {None} /\ quiet' \in BOOLEAN
    BY <1>0, <1>26 DEF Crash, TypeOK
  <2>c. /\ board' \in [Board -> [app : Image, mode : Mode]]
        /\ ledger' \in [Board -> Record \cup {None}]
        /\ sound' \in SUBSET Board
    <3>1. CASE UNCHANGED devices
      BY <1>0, <3>1 DEF TypeOK
    <3>2. ASSUME NEW b \in job.todo,
                 /\ board' = [board EXCEPT ![b] = [app |-> [bin EXCEPT !.whole = FALSE],
                                                 mode |-> "katapult"]]
                 /\ sound' = sound \ {b}
                 /\ UNCHANGED ledger
          PROVE  /\ board' \in [Board -> [app : Image, mode : Mode]]
                 /\ ledger' \in [Board -> Record \cup {None}]
                 /\ sound' \in SUBSET Board
      <4>1. b \in Board /\ [bin EXCEPT !.whole = FALSE] \in Image
        BY <1>0, HalfImage DEF TypeOK, Job, Shape
      <4> QED
        BY <1>0, <3>2, <4>1, BoardType DEF TypeOK, Mode
    <3> QED
      BY <1>26, <3>1, <3>2 DEF Crash
  <2>2. TypeOK'
    BY <1>0, <1>26, <2>1, <2>a, <2>b, <2>c, HappensType DEF Crash, TypeOK
  <2>3. Shape'
    BY <1>26 DEF Crash, Shape, Idle
  <2> QED
    BY <2>2, <2>3 DEF Base
<1>27. CASE Poll
  <2>1. job' \in Job
    BY <1>0, <1>27 DEF Poll, Ask, git_head, TypeOK, Job
  <2>2. TypeOK'
    BY <1>0, <1>27, <2>1 DEF Poll, Ask, git_head, TypeOK
  <2>3. Shape'
    BY <1>0, <1>27 DEF Poll, Ask, git_head, TypeOK, Shape, Job
  <2> QED
    BY <2>2, <2>3 DEF Base
<1>28. CASE Expire
  <2>1. job' \in Job
    BY <1>0, <1>28 DEF Expire, TypeOK, Job
  <2>2. TypeOK'
    BY <1>0, <1>28, <2>1 DEF Expire, TypeOK
  <2>3. Shape'
    BY <1>0, <1>28 DEF Expire, TypeOK, Shape, Job
  <2> QED
    BY <2>2, <2>3 DEF Base
<1>29. CASE UNCHANGED vars
  BY <1>29 DEF vars, Base, TypeOK, Shape
<1> QED
  BY <1>1, <1>2, <1>3, <1>4, <1>5, <1>6, <1>7, <1>8, <1>9, <1>10, <1>11,
     <1>12, <1>13, <1>14, <1>15, <1>16, <1>17, <1>18, <1>19, <1>20, <1>21,
     <1>22, <1>23, <1>24, <1>25, <1>26, <1>27, <1>28, <1>29 DEF Next

LEMMA HonestInit == Init => Honest /\ LedgerTruthful
  BY DEF Init, Idle, At, Honest, InHand, Hashed, Staged, Described, Vouched,
         Written, LedgerTruthful

\* A step that leaves the ledger and the boards in sound alone.
LEMMA LedgerKept ==
    ASSUME LedgerTruthful, UNCHANGED ledger, sound' \subseteq sound,
           \A b \in sound' : board'[b].app = board[b].app
    PROVE  LedgerTruthful'
  BY DEF LedgerTruthful, running_sha

LEMMA HonestStep == Base /\ Base' /\ Honest /\ [Next]_vars => Honest'
<1> SUFFICES ASSUME Base, Base', Honest, [Next]_vars PROVE Honest'
  OBVIOUS
<1> USE DEF inputs, staging, devices, At
<1>0. TypeOK /\ Shape /\ TypeOK' /\ Shape'
  BY DEF Base
<1>1. ASSUME NEW op \in AllOps, Submit(op) PROVE Honest'
  <2>1. job'.pc \in {"select", "check"} /\ ~job'.still
    BY <1>1 DEF Submit, Idle
  <2> QED
    BY <1>1, <2>1 DEF Submit, Honest, InHand, Hashed, Staged, Described, Vouched, Written, MadeFrom, Fresh
<1>2. CASE SeedCheck
  BY <1>0, <1>2 DEF SeedCheck, TypeOK, Shape, Job, Honest, InHand, Hashed, Staged, Described, Vouched, Written, MadeFrom, Fresh
<1>3. CASE SeedSave
  BY <1>0, <1>3 DEF SeedSave, TypeOK, Shape, Job, Honest, InHand, Hashed, Staged, Described, Vouched, Written, MadeFrom, Fresh
<1>4. CASE SeedRecord
  BY <1>0, <1>4 DEF SeedRecord, TypeOK, Shape, Job, Honest, InHand, Hashed, Staged, Described, Vouched, Written, MadeFrom, Fresh
<1>5. CASE ApplyPatch
  <2>1. job'.pc = "make"
    BY <1>0, <1>5 DEF ApplyPatch, TypeOK, Job
  <2> QED
    BY <1>5, <2>1 DEF ApplyPatch, Honest, InHand, Hashed, Staged, Described, Vouched, Written, MadeFrom, Fresh
<1>6. CASE Make
  <2>1. PICK c \in {config, [config EXCEPT !.tree = head]} :
           /\ config' = c
           /\ job' = [job EXCEPT !.pc = "restore",
                        !.out = [by |-> "tool", config |-> c, head |-> head,
                                 lines |-> makefile, whole |-> TRUE],
                        !.still = Fresh]
    BY <1>6 DEF Make
  <2>2. /\ job'.pc = "restore" /\ job'.still = Fresh
        /\ job'.out = [by |-> "tool", config |-> config', head |-> head,
                       lines |-> makefile, whole |-> TRUE]
    BY <1>0, <2>1 DEF TypeOK, Job
  <2>3. MadeFrom(job'.out, config', head)
    BY <2>2 DEF MadeFrom
  <2>4. UNCHANGED <<head, cache, sidecar, quiet>>
    BY <1>6 DEF Make
  <2> QED
    BY <2>2, <2>3, <2>4 DEF Honest, InHand, Hashed, Staged, Described, Vouched, Written, MadeFrom, Fresh
<1>7. CASE MakeFails
  <2>1. job'.pc = "restore" /\ job'.out = None
    BY <1>0, <1>7 DEF MakeFails, TypeOK, Shape, Job
  <2> QED
    BY <1>7, <2>1 DEF MakeFails, Honest, InHand, Hashed, Staged, Described, Vouched, Written, MadeFrom, Fresh
<1>8. CASE Restore
  BY <1>0, <1>8 DEF Restore, TypeOK, Shape, Job, Honest, InHand, Hashed, Staged, Described, Vouched, Written, MadeFrom, Fresh
<1>9. CASE HashConfig
  BY <1>0, <1>9 DEF HashConfig, TypeOK, Shape, Job, Honest, InHand, Hashed, Staged, Described, Vouched, Written, MadeFrom, Fresh
<1>10. CASE Stage
  BY <1>0, <1>10 DEF Stage, TypeOK, Shape, Job, Honest, InHand, Hashed, Staged, Described, Vouched, Written, MadeFrom, Fresh
<1>11. CASE Describe
  <2>1. /\ job'.pc = "sidecar" /\ job'.still = job.still
        /\ job'.desc = [fw_sha |-> git_head, config_sha256 |-> job.after,
                        bin_sha256 |-> bin]
    BY <1>0, <1>11 DEF Describe, TypeOK, Job
  <2>2. Described'
    <3>1. job.still => git_head = head
      BY <1>11 DEF Honest, Staged, Fresh, git_head, Describe
    <3> QED
      BY <1>11, <2>1, <3>1 DEF Describe, Honest, Staged, Described, MadeFrom
  <2> QED
    BY <1>11, <2>1, <2>2 DEF Describe, Honest, InHand, Hashed, Staged, Described, Vouched, Written, MadeFrom, Fresh
<1>12. CASE WriteSidecar
  <2>1. job'.pc = "clean"
    BY <1>0, <1>12 DEF WriteSidecar, TypeOK, Job
  <2>2. Vouched'
    BY <1>12 DEF WriteSidecar, Honest, Described, Vouched, MadeFrom
  <2> QED
    BY <1>12, <2>1, <2>2 DEF WriteSidecar, Honest, InHand, Hashed, Staged, Described, Vouched, Written, MadeFrom, Fresh
<1>13. CASE CleanTree
  <2>1. job'.pc \in {"select", "idle"}
    <3>1. PICK f \in {job.failed, TRUE} :
             job' = IF job.op = "update"
                    THEN [job EXCEPT !.pc = "select", !.failed = f] ELSE Over(f)
      BY <1>13 DEF CleanTree
    <3>2. CASE job.op = "update"
      BY <1>0, <3>1, <3>2 DEF TypeOK, Job
    <3>3. CASE job.op # "update"
      BY <3>1, <3>3 DEF Over, Idle
    <3> QED
      BY <3>2, <3>3
  <2> QED
    BY <1>13, <2>1 DEF CleanTree, Honest, InHand, Hashed, Staged, Described, Vouched, Written, MadeFrom, Fresh
<1>14. CASE Select
  BY <1>0, <1>14 DEF Select, TypeOK, Shape, Job, Honest, InHand, Hashed, Staged, Described, Vouched, Written, MadeFrom, Fresh
<1>15. CASE RecordBoard
  BY <1>0, <1>15 DEF RecordBoard, TypeOK, Shape, Job, Honest, InHand, Hashed, Staged, Described, Vouched, Written, MadeFrom, Fresh
<1>16. CASE EndFlash
  <2>1. job'.pc = "idle"
    BY <1>16 DEF EndFlash, Over, Idle
  <2> QED
    BY <1>16, <2>1 DEF EndFlash, Honest, InHand, Hashed, Staged, Described, Vouched, Written, MadeFrom, Fresh
<1>17. ASSUME NEW b \in Board, WriteBoard(b) PROVE Honest'
  BY <1>0, <1>17 DEF WriteBoard, TypeOK, Shape, Job, Honest, InHand, Hashed, Staged, Described, Vouched, Written, MadeFrom, Fresh
<1>18. ASSUME NEW b \in Board, WriteFails(b) PROVE Honest'
  BY <1>0, <1>18 DEF WriteFails, TypeOK, Shape, Job, Honest, InHand, Hashed, Staged, Described, Vouched, Written, MadeFrom, Fresh
<1>19. ASSUME NEW b \in Board, HandFlash(b) PROVE Honest'
  BY <1>0, <1>19 DEF HandFlash, TypeOK, Shape, Job, Honest, InHand, Hashed, Staged, Described, Vouched, Written, MadeFrom, Fresh
<1>20. ASSUME NEW b \in Board, Unplug(b) PROVE Honest'
  BY <1>0, <1>20 DEF Unplug, TypeOK, Shape, Job, Honest, InHand, Hashed, Staged, Described, Vouched, Written, MadeFrom, Fresh
<1>21. CASE Edit
  <2>1. CASE At("record")
    BY <1>21, <2>1 DEF Edit, Unsettle, Honest, InHand, Hashed, Staged, Described, Vouched, Written, MadeFrom, Fresh
  <2>2. CASE ~At("record")
    <3>1. ~job'.still /\ job'.pc = job.pc
      BY <1>0, <1>21, <2>2 DEF Edit, Unsettle, TypeOK, Job
    <3> QED
      BY <1>21, <2>2, <3>1 DEF Edit, Honest, InHand, Hashed, Staged, Described, Vouched, Written, MadeFrom, Fresh
  <2> QED
    BY <2>1, <2>2
<1>22. CASE Pull
  <2>1. CASE At("record")
    BY <1>22, <2>1 DEF Pull, Unsettle, Honest, InHand, Hashed, Staged, Described, Vouched, Written, MadeFrom, Fresh
  <2>2. CASE ~At("record")
    <3>1. ~job'.still /\ job'.pc = job.pc
      BY <1>0, <1>22, <2>2 DEF Pull, Unsettle, TypeOK, Job
    <3> QED
      BY <1>22, <2>2, <3>1 DEF Pull, Honest, InHand, Hashed, Staged, Described, Vouched, Written, MadeFrom, Fresh
  <2> QED
    BY <2>1, <2>2
<1>23. CASE Bump
  BY <1>0, <1>23 DEF Bump, TypeOK, Shape, Job, Honest, InHand, Hashed, Staged, Described, Vouched, Written, MadeFrom, Fresh
<1>24. CASE Repatch
  BY <1>0, <1>24 DEF Repatch, TypeOK, Shape, Job, Honest, InHand, Hashed, Staged, Described, Vouched, Written, MadeFrom, Fresh
<1>25. CASE HandBuild
  <2>1. CASE At("record")
    BY <1>25, <2>1 DEF HandBuild, Unsettle, ByHand, Honest, InHand, Hashed, Staged, Described, Vouched, Written, MadeFrom, Fresh
  <2>2. CASE ~At("record")
    <3>1. ~job'.still /\ job'.pc = job.pc
      BY <1>0, <1>25, <2>2 DEF HandBuild, Unsettle, TypeOK, Job
    <3> QED
      BY <1>25, <2>2, <3>1 DEF HandBuild, Honest, InHand, Hashed, Staged, Described, Vouched, Written, MadeFrom, Fresh
  <2> QED
    BY <2>1, <2>2
<1>26. CASE Crash
  <2>1. job'.pc = "idle"
    BY <1>26 DEF Crash, Idle
  <2>2. Vouched'
    BY <1>26 DEF Crash, Honest, Vouched, MadeFrom
  <2> QED
    BY <2>1, <2>2 DEF Honest, InHand, Hashed, Staged, Described, Vouched, Written, MadeFrom, Fresh
<1>27. CASE Poll
  <2>1. Fresh => Fresh'
    BY <1>27 DEF Poll, Ask, git_head, Fresh
  <2> QED
    BY <1>27, <2>1 DEF Poll, Honest, InHand, Hashed, Staged, Described, Vouched,
       Written, MadeFrom
<1>28. CASE Expire
  BY <1>0, <1>28 DEF Expire, TypeOK, Shape, Job, Honest, InHand, Hashed, Staged, Described, Vouched, Written, MadeFrom, Fresh
<1>29. CASE UNCHANGED vars
  BY <1>29 DEF vars, Honest, InHand, Hashed, Staged, Described, Vouched, Written, MadeFrom, Fresh
<1> QED
  BY <1>1, <1>2, <1>3, <1>4, <1>5, <1>6, <1>7, <1>8, <1>9, <1>10, <1>11, <1>12, <1>13, <1>14, <1>15, <1>16, <1>17, <1>18, <1>19, <1>20, <1>21, <1>22, <1>23, <1>24, <1>25, <1>26, <1>27, <1>28, <1>29 DEF Next

LEMMA LedgerStep ==
    Base /\ Honest /\ LedgerTruthful /\ [Next]_vars => LedgerTruthful'
<1> SUFFICES ASSUME Base, Honest, LedgerTruthful, [Next]_vars
             PROVE  LedgerTruthful'
  OBVIOUS
<1> USE DEF inputs, staging, devices, At
<1>0. TypeOK /\ Shape
  BY DEF Base
<1>1. CASE UNCHANGED devices
  BY <1>1, LedgerKept
<1>2. CASE RecordBoard
  <2>1. job.cur \in Board /\ bin \in Image
    BY <1>0, <1>2 DEF RecordBoard, Shape
  <2>2. ledger'[job.cur] = staged_record
    BY <1>0, <1>2, <2>1 DEF RecordBoard, TypeOK
  <2>3. staged_record # None
    <3>1. staged_record \in Record
      BY <1>0, <2>1 DEF staged_record, git_head, TypeOK, Record, Sidecar
    <3> QED
      BY <3>1 DEF ProvenanceAssumption
  <2>4. ASSUME quiet, job.still, staged_record.bin_sha256 # None
        PROVE  /\ board[job.cur].app = staged_record.bin_sha256
               /\ board[job.cur].app.head = staged_record.fw_sha
    <3>1. sidecar # None /\ sidecar.bin_sha256 = bin
      BY <2>4 DEF staged_record
    <3>2. bin.by = "tool" /\ bin.head = sidecar.fw_sha
      BY <2>4, <3>1 DEF Honest, Vouched, MadeFrom
    <3>3. board[job.cur].app = bin
      BY <1>2, <2>4, <3>2 DEF RecordBoard, Honest, Written
    <3> QED
      BY <3>1, <3>2, <3>3 DEF staged_record
  <2>5. ASSUME NEW b \in sound'
        PROVE  ledger'[b] # None /\ (ledger'[b].bin_sha256 # None =>
                 /\ board'[b].app = ledger'[b].bin_sha256
                 /\ board'[b].app.head = ledger'[b].fw_sha)
    <3>1. CASE b = job.cur /\ quiet /\ job.still
      BY <1>2, <2>2, <2>3, <2>4, <3>1 DEF RecordBoard
    <3>2. CASE b = job.cur /\ ~(quiet /\ job.still)
      BY <1>0, <1>2, <3>2 DEF RecordBoard, Shape
    <3>3. CASE b # job.cur
      <4>1. b \in sound /\ ledger'[b] = ledger[b] /\ board'[b] = board[b]
        BY <1>0, <1>2, <3>3 DEF RecordBoard, TypeOK
      <4> QED
        BY <4>1 DEF LedgerTruthful, running_sha
    <3> QED
      BY <3>1, <3>2, <3>3
  <2> QED
    BY <2>5 DEF LedgerTruthful, running_sha
<1>3. ASSUME NEW b \in Board, WriteBoard(b) \/ WriteFails(b) \/ HandFlash(b)
      PROVE  LedgerTruthful'
  <2>1. UNCHANGED ledger /\ sound' \subseteq sound
    BY <1>3 DEF WriteBoard, WriteFails, HandFlash
  <2>2. \A c \in sound' : board'[c].app = board[c].app
    BY <1>0, <1>3 DEF WriteBoard, WriteFails, HandFlash, TypeOK
  <2> QED
    BY <2>1, <2>2, LedgerKept
<1>4. ASSUME NEW b \in Board, Unplug(b) PROVE LedgerTruthful'
  <2>1. \A c \in sound' : board'[c].app = board[c].app
    BY <1>0, <1>4 DEF Unplug, TypeOK
  <2> QED
    BY <1>4, <2>1, LedgerKept DEF Unplug
<1>5. CASE Crash
  <2>1. UNCHANGED ledger /\ sound' \subseteq sound
    BY <1>5 DEF Crash
  <2>2. \A c \in sound' : board'[c].app = board[c].app
    BY <1>0, <1>5 DEF Crash, TypeOK
  <2> QED
    BY <2>1, <2>2, LedgerKept
<1>6. ASSUME \/ \E op \in AllOps : Submit(op)
             \/ SeedCheck \/ SeedSave \/ SeedRecord
             \/ ApplyPatch \/ Make \/ MakeFails \/ Restore
             \/ HashConfig \/ Stage \/ Describe \/ WriteSidecar \/ CleanTree
             \/ Select \/ EndFlash
             \/ Edit \/ Pull \/ Bump \/ Repatch \/ HandBuild
             \/ Poll \/ Expire
      PROVE  UNCHANGED devices
  BY <1>6 DEF Submit, SeedCheck, SeedSave, SeedRecord, ApplyPatch, Make, MakeFails, Restore, HashConfig, Stage, Describe, WriteSidecar, CleanTree, Select, EndFlash, Edit, Pull, Bump, Repatch, HandBuild, Poll, Expire
<1>7. CASE UNCHANGED vars
  BY <1>1, <1>7 DEF vars
<1> QED
  BY <1>1, <1>2, <1>3, <1>4, <1>5, <1>6, <1>7 DEF Next

\* Every reachable value has its type: build.py, verdict.py and bulk.py handle
\* one type's inputs, image, sidecar, boards and records as modelled.
THEOREM TypeCorrect == Spec => []TypeOK
<1>1. Base => TypeOK
  BY DEF Base
<1> QED
  BY BaseInit, BaseStep, <1>1, PTL DEF Spec

LEMMA Inductive == Spec => [](Base /\ Honest /\ LedgerTruthful)
<1>1. Init => Base /\ Honest /\ LedgerTruthful
  BY BaseInit, HonestInit
<1>2. Base /\ Honest /\ LedgerTruthful /\ [Next]_vars
      => (Base /\ Honest /\ LedgerTruthful)'
  BY BaseStep, HonestStep, LedgerStep
<1> QED
  BY <1>1, <1>2, PTL DEF Spec

\* The flash log never names other bytes than those a board holds, of a board
\* this tool wrote last (FlashLog.record, staged_record).
THEOREM LedgerHolds == Spec => []LedgerTruthful
  BY Inductive, PTL

\* An image described undisturbed and called current by artifact_status() was
\* made, in full and by this tool, from the inputs of now.
THEOREM CurrentIsCurrent == Spec => []CurrentMatches
<1>1. Base /\ Honest => CurrentMatches
  <2> SUFFICES ASSUME Base, Honest, quiet, Fresh, artifact_status = "current"
               PROVE  /\ bin.by = "tool" /\ bin.whole
                      /\ bin.config = config /\ bin.head = head
    BY DEF CurrentMatches
  <2>1. /\ sidecar # None /\ sidecar.bin_sha256 = bin
        /\ sidecar.config_sha256 = config /\ sidecar.fw_sha = git_head
    BY DEF artifact_status
  <2>2. git_head = head
    BY DEF Fresh, git_head
  <2> QED
    BY <2>1, <2>2 DEF Honest, Vouched, MadeFrom
<1> QED
  BY Inductive, <1>1, PTL

\* Against a current artifact the verdict on such a board is exact
\* (verdict.decide with the record of FlashLog.entry_for).
THEOREM VerdictIsExact == Spec => []VerdictExact
<1>1. Base /\ Honest /\ LedgerTruthful => VerdictExact
  <2> SUFFICES ASSUME Base, Honest, LedgerTruthful, NEW b \in sound,
                      ledger[b].bin_sha256 # None, board[b].mode = "app",
                      quiet, Fresh, artifact_status = "current"
               PROVE  decide(b) = "current" <=> board[b].app = bin
    BY DEF VerdictExact
  <2>1. /\ sidecar # None /\ sidecar.bin_sha256 = bin /\ sidecar.fw_sha = git_head
    BY DEF artifact_status
  <2>2. /\ ledger[b] # None
        /\ board[b].app = ledger[b].bin_sha256
        /\ running_sha(b) = ledger[b].fw_sha
    BY DEF LedgerTruthful
  <2>3. entry_for(b) = ledger[b]
    BY <2>2 DEF entry_for
  <2>4. decide(b) = IF running_sha(b) # git_head THEN "source_changed"
                    ELSE IF board[b].app # bin THEN "artifact_changed"
                    ELSE "current"
    BY <2>1, <2>2, <2>3 DEF decide, _record_verdict
  <2>5. board[b].app = bin => running_sha(b) = git_head
    BY <2>1 DEF Honest, Vouched, MadeFrom, running_sha
  <2> QED
    BY <2>4, <2>5
<1> QED
  BY Inductive, <1>1, PTL
=============================================================================
