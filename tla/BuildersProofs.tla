--------------------------- MODULE BuildersProofs ---------------------------
(***************************************************************************)
(* For any types, devices, sockets, commits, targets and lists of          *)
(* flashers, whatever moves, fails or is cut short: what reads as current  *)
(* was compiled from the commit, a device written under an id is the one   *)
(* that answered for it, the ledger names the image a device holds, and a  *)
(* job that nothing disturbed leaves nothing stale behind.                 *)
(*                                                                         *)
(* None of the four is inductive.  Each rests on the one before it:        *)
(*   AInv  what was heard is where it was heard, and a write goes there;   *)
(*   BInv  what each stage of a build hands to the next, while nothing has *)
(*         moved, and what a clean record therefore says (RecordTrue);     *)
(*   LInv  what lies between a write and its entry in the ledger;          *)
(*   SInv  for a job still calm, which devices want flashing and have not  *)
(*         had it (Pending), and that the image stays current (Settled).   *)
(***************************************************************************)
EXTENDS Builders, TLAPS, SequenceTheorems, WellFoundedInduction

\* What the job's variables are, by where it is.
Shape ==
    /\ job.pc \in Building /\ cmake => job.target \in Target
    /\ job.pc \in {"sample", "configure", "stage", "stage_bin"} => cmake
    /\ job.pc \in Building \ {"sample"} /\ cmake => job.state \in State
    /\ job.pc = "stage" => build.elf[job.target] # None
    /\ job.pc \in {"stage_bin", "record", "note"} => image # None
    /\ job.pc \in {"stop", "listen", "note"} => ~cmake
    /\ job.pc = "listen" => job.map \in [Device -> Port \cup {None}]
    /\ job.pc \in {"write", "note", "file"} => job.cur \in Detail
    /\ job.wrote # None <=> job.pc \in {"note", "file"}
    /\ job.settled => ~cmake /\ job.pc \in {"write", "note", "file"}

TInv == TypeOK /\ Shape

\* No two devices are in one socket.
Seats == \A d, e \in Device : where[d] = where[e] /\ where[d] # None => d = e

\* While nothing has moved since the listen, what answered is where it was heard.
HeardStands ==
    ~cmake /\ job.settled =>
        \/ \A h \in job.heard : ~h.answered
        \/ \A h \in job.heard : where[h.id] = h.port /\ h.port # None

\* A write goes to whatever sits in the socket the device was found at.
WroteStands ==
    ~cmake /\ job.settled /\ job.wrote # None => job.wrote \in occupants(port_for(job.cur))

AInv == TInv /\ Seats /\ HeardStands /\ WroteStands

-----------------------------------------------------------------------------
(* What the record says *)

Compiling == {"link", "stage", "stage_bin", "record"}

\* What the build directory holds was linked from something, for its target,
\* and a raw image that is fresh is of the same link.
DirTrue ==
    /\ \A t \in Target :
          /\ build.elf[t] # None =>
                 build.elf[t].whole /\ build.elf[t].target = t /\ build.elf[t].src # {}
          /\ build.fresh[t] => build.elf[t] # None /\ build.bin[t] = build.elf[t]
    /\ ~Args => build.version = None
    /\ job.pc = "link" => job.from # {}

\* A build nothing moved under has compiled the tree as it is.
Unmoved ==
    job.pc \in Building /\ ~job.moved =>
        /\ job.pc = "link" => job.from = {content}
        /\ cmake /\ job.pc # "sample" => job.state = source_state
        /\ cmake /\ job.pc \in Compiling => build.version = expand_args(source_state)
        /\ cmake /\ job.pc \in Compiling \ {"link"} =>
               /\ build.elf[job.target] # None /\ build.elf[job.target].src = {content}
               /\ build.elf[job.target].version = build.version
        /\ cmake /\ job.pc \in {"stage_bin", "record"} => image = build.elf[job.target]
        /\ cmake /\ job.pc = "record" => bin \in {None, image}
        /\ ~cmake /\ job.pc = "record" =>
               image.whole /\ image.src = {content} /\ image.version = source_state.version

\* A record of a clean build is of that commit.
RecordTrue ==
    rec # None /\ ~rec.dirty /\ ~flick =>
        /\ rec.image.whole /\ rec.image.src = {Clean(rec.sha)}
        /\ ~rec.version.dirty
        /\ rec.image.version = IF cmake THEN expand_args(rec) ELSE rec.version
        /\ cmake => rec.image.target = rec.target /\ (rec.bin # None => rec.bin = rec.image)

BInv == AInv /\ DirTrue /\ Unmoved /\ RecordTrue

-----------------------------------------------------------------------------
(* What the ledger says *)

kind_file(t) == IF accepts[t.flasher] = "bin" THEN bin ELSE image

Unnoted == job.noted => job.pc = "file"

\* Between the write and its entry: the file may be replaced, the device is not.
WrittenStands ==
    /\ job.pc = "file" /\ cmake => kind_file(job.cur) \in {app[job.wrote], foreign}
    /\ job.pc = "file" /\ job.noted => rec # None /\ rec.image = app[job.wrote]

LInv == BInv /\ Unnoted /\ WrittenStands /\ LedgerNamesImage

-----------------------------------------------------------------------------
(* What a job that nothing disturbed leaves *)

\* The devices that want flashing, heard or not, and that a flash will content.
answering(s) == klipper /\ present(s) /\ \A d \in answers(s) : whole(d)
Wants(s) ==
    /\ answering(s)
    /\ IF cmake
       THEN IF s \in type.measures /\ sidecar # None THEN app[s] # sidecar.image
            ELSE /\ version(s) # None /\ ~version(s).dirty /\ sidecar # None
                 /\ version(s) # sidecar.version \/ _record_verdict(s) = "artifact_changed"
       ELSE \/ tree.head \in Speaks /\ ~compatible(s)
            \/ /\ version(s) # None /\ ~version(s).dirty
               /\ version(s).head # tree.head \/ (tree.head \in Tagged /\ dirty)

\* Calm is what a job remembers of being undisturbed.
CalmBuild ==
    job.calm /\ job.pc \in Building => ~job.moved /\ (cmake => job.target = target)

\* Where a job's devices are, for as long as nothing moves.
CalmAim ==
    job.calm /\ job.pc \in Stopped \cup {"stop"} =>
        \A t \in job.todo :
           /\ cmake => t.id = t.sec
           /\ cmake /\ accepts[t.flasher] = "bin" => rec # None /\ rec.bin # None /\ bin # None
           /\ ~cmake => t.port = port_of(t.sec) /\ (t.id # None => where[t.id] = t.port)

\* What is heard is where its device sits.
CalmHeard ==
    job.calm /\ ~cmake =>
        /\ job.pc = "listen" => job.map = where
        /\ job.pc \in {"write", "note", "file"} => \A h \in job.heard : h.port = where[h.id]

\* An update that is still good, of a tree with nothing uncommitted: it built the
\* image or found it current, and does not lose it on the way to the devices.
Updating == job.op = "update" /\ job.calm /\ ~job.failed /\ ~dirty
Settled == Updating /\ ~flick /\ job.pc \in {"select", "stop", "listen", "write", "file"} =>
    artifact_status = "current"

\* Of the devices that want flashing each is still on the job's list, or was
\* written and is about to be filed.
Left == IF job.pc \in {"note", "file"} THEN job.todo \ {job.cur} ELSE job.todo
Pending ==
    Updating /\ (cmake => ~flick) /\ job.pc \in Stopped \cup {"stop"} =>
        /\ \A s \in type.devices : Wants(s) =>
               \/ \E t \in Left : t.sec = s
               \/ cmake /\ job.pc = "file" /\ s = job.cur.sec
        /\ cmake /\ job.pc = "file" => app[job.cur.sec] = rec.image

\* There is an image to select for, and the device in hand is on the list.
Made == job.op = "update" /\ job.calm /\ ~job.failed /\ job.pc = "select" => image # None
CurIsDue == job.pc \in {"write", "note", "file"} => job.cur \in job.todo

\* A build that writes nothing is over when it is recorded.
BuildsOnly == job.op = "build" => job.pc \in Building \cup {"idle"}

Calm == CurIsDue /\ CalmBuild /\ CalmAim /\ CalmHeard /\ Made
SInv == LInv /\ Calm /\ BuildsOnly /\ Settled /\ Pending /\ BuildSettles

-----------------------------------------------------------------------------
(* Types *)

LEMMA TypeTyped ==
  ASSUME TypeOK
  PROVE  type.by \in Builder /\ type.devices \in SUBSET Device
  BY BuildersAssumption DEF TypeOK

LEMMA TreeTyped ==
  ASSUME tree \in [head : Commit, edit : BOOLEAN, sub : BOOLEAN]
  PROVE  /\ sha(tree.head) \in Commit /\ dirty \in BOOLEAN
         /\ content \in Content /\ source_state \in State
         /\ source_state = [sha |-> sha(tree.head), dirty |-> dirty,
                            version |-> [head |-> tree.head, dirty |-> dirty]]
  <1>1. sha(tree.head) \in Commit
    BY BuildersAssumption DEF sha
  <1>2. dirty \in BOOLEAN
    BY DEF dirty
  <1>3. content \in Content
    BY <1>1 DEF content, content_of, Content
  <1>4. source_state \in State
    BY <1>1, <1>2 DEF source_state, State, Version
  <1>5. QED
    BY <1>1, <1>2, <1>3, <1>4 DEF source_state

LEMMA IdleTyped ==
  ASSUME NEW o \in {"none", "build", "update", "flash"}, NEW t \in Target \cup {None}
  PROVE  [Idle EXCEPT !.op = o] \in JobState /\ [Idle EXCEPT !.op = o, !.target = t] \in JobState
  BY DEF Idle, JobState

LEMMA OverIs ==
  ASSUME NEW f \in BOOLEAN, job \in JobState
  PROVE  /\ \E o \in {"none", "build", "update"} : Over(f) = [Idle EXCEPT !.op = o]
         /\ Over(f).op # "none" => ~f /\ job.calm /\ Over(f).op = job.op
         /\ Over(f) \in JobState /\ Over(f).pc = "idle" /\ Over(f).wrote = None /\ ~Over(f).settled
         /\ Over(f).state = None /\ Over(f).todo = {}
  <1>1. \E o \in {"none", "build", "update"} :
            Over(f) = [Idle EXCEPT !.op = o] /\ (o # "none" => ~f /\ job.calm /\ o = job.op)
    BY DEF Over
  <1>2. PICK o \in {"none", "build", "update"} :
            Over(f) = [Idle EXCEPT !.op = o] /\ (o # "none" => ~f /\ job.calm /\ o = job.op)
    BY <1>1
  <1>3. [Idle EXCEPT !.op = o] \in JobState
    BY IdleTyped
  <1>4. [Idle EXCEPT !.op = o].op = o /\ [Idle EXCEPT !.op = o].pc = "idle"
        /\ [Idle EXCEPT !.op = o].wrote = None /\ ~[Idle EXCEPT !.op = o].settled
        /\ [Idle EXCEPT !.op = o].state = None /\ [Idle EXCEPT !.op = o].todo = {}
    BY DEF Idle
  <1>5. QED
    BY <1>2, <1>3, <1>4

LEMMA AfterBuildIs ==
  ASSUME NEW f \in BOOLEAN, job \in JobState
  PROVE  /\ AfterBuild(f) \in JobState
         /\ AfterBuild(f).pc \in {"idle", "select"}
         /\ job.wrote = None => AfterBuild(f).wrote = None
         /\ ~job.settled => ~AfterBuild(f).settled
  <1>1. CASE job.op = "update"
    <2>1. AfterBuild(f) = [job EXCEPT !.pc = "select", !.failed = @ \/ f, !.from = {},
                                      !.state = None, !.moved = FALSE, !.target = None]
      BY <1>1 DEF AfterBuild
    <2>2. QED
      BY <2>1 DEF JobState
  <1>2. CASE job.op # "update"
    <2>1. AfterBuild(f) = Over(job.failed \/ f) /\ (job.failed \/ f) \in BOOLEAN
      BY <1>2 DEF AfterBuild, JobState
    <2>2. QED
      BY <2>1, OverIs
  <1>3. QED
    BY <1>1, <1>2

LEMMA NextIs ==
  ASSUME NEW f \in BOOLEAN, job \in JobState
  PROVE  /\ Next_(f) \in JobState
         /\ Next_(f).wrote = None
         /\ \/ Next_(f).pc = "idle" /\ ~Next_(f).settled /\ Next_(f) = Over(job.failed \/ f)
               /\ job.todo \ {job.cur} = {}
            \/ /\ Next_(f).pc = "write" /\ Next_(f).settled = job.settled
               /\ Next_(f).heard = job.heard /\ Next_(f).cur \in Next_(f).todo
               /\ Next_(f).todo = job.todo \ {job.cur} /\ Next_(f).cur \in Detail
               /\ Next_(f).op = job.op /\ Next_(f).calm = job.calm
               /\ Next_(f).failed = (job.failed \/ f)
  <1> DEFINE left == job.todo \ {job.cur}
             t == CHOOSE x \in left : TRUE
  <1>1. CASE left = {}
    <2>1. Next_(f) = Over(job.failed \/ f) /\ (job.failed \/ f) \in BOOLEAN
      BY <1>1 DEF Next_, JobState
    <2>2. QED
      BY <1>1, <2>1, OverIs
  <1>2. CASE left # {}
    <2>1. t \in left
      BY <1>2
    <2>2. left \in SUBSET Detail
      BY DEF JobState
    <2>3. Next_(f) = [job EXCEPT !.pc = "write", !.todo = left, !.cur = t,
                                 !.wrote = None, !.noted = FALSE, !.failed = @ \/ f]
      BY <1>2 DEF Next_
    <2> HIDE DEF left, t
    <2>a. left \in SUBSET Detail /\ t \in Detail /\ (job.failed \/ f) \in BOOLEAN
      BY <2>1, <2>2 DEF JobState
    <2>b. Next_(f) \in JobState
      BY <2>a, <2>3 DEF JobState, Stopped
    <2>4. /\ Next_(f).wrote = None
          /\ Next_(f).pc = "write" /\ Next_(f).settled = job.settled
          /\ Next_(f).heard = job.heard /\ Next_(f).cur = t /\ Next_(f).todo = left
          /\ Next_(f).op = job.op /\ Next_(f).calm = job.calm
          /\ Next_(f).failed = (job.failed \/ f)
      BY <2>3 DEF JobState
    <2>6. QED
      BY <2>1, <2>a, <2>b, <2>4 DEF left
  <1>3. QED
    BY <1>1, <1>2

LEMMA DisturbedIs ==
  ASSUME job \in JobState
  PROVE  /\ Disturbed \in JobState
         /\ \/ job.pc = "idle" /\ Disturbed = Idle
            \/ job.pc # "idle" /\ Disturbed = [job EXCEPT !.calm = FALSE]
  <1>1. Idle \in JobState
    BY DEF Idle, JobState
  <1>2. [job EXCEPT !.calm = FALSE] \in JobState
    BY DEF JobState
  <1>3. CASE job.pc = "idle"
    BY <1>1, <1>3 DEF Disturbed, At
  <1>4. CASE job.pc # "idle"
    BY <1>2, <1>4 DEF Disturbed, At
  <1>5. QED
    BY <1>3, <1>4

LEMMA MovedIs ==
  ASSUME job \in JobState, NEW also \in SUBSET Content
  PROVE  /\ Moved(also) \in JobState
         /\ \/ job.pc = "idle" /\ Moved(also) = Idle
            \/ job.pc \notin Building /\ job.pc # "idle" /\ Moved(also) = [job EXCEPT !.calm = FALSE]
            \/ job.pc \in Building /\ Moved(also) = [job EXCEPT !.calm = FALSE, !.moved = TRUE, !.from = @ \cup also]
  <1>1. CASE job.pc \notin Building
    BY <1>1, DisturbedIs DEF Moved
  <1>2. CASE job.pc \in Building
    <2>1. Disturbed = [job EXCEPT !.calm = FALSE]
      BY <1>2 DEF Disturbed, At, Building
    <2>2. Moved(also) = [[job EXCEPT !.calm = FALSE] EXCEPT !.moved = TRUE, !.from = @ \cup also]
      BY <1>2, <2>1 DEF Moved
    <2>3. [[job EXCEPT !.calm = FALSE] EXCEPT !.moved = TRUE, !.from = @ \cup also]
          = [job EXCEPT !.calm = FALSE, !.moved = TRUE, !.from = @ \cup also]
      BY DEF JobState
    <2>4. [job EXCEPT !.calm = FALSE, !.moved = TRUE, !.from = @ \cup also] \in JobState
      BY DEF JobState
    <2>5. QED
      BY <1>2, <2>2, <2>3, <2>4
  <1>3. QED
    BY <1>1, <1>2

LEMMA EarliestIsOne ==
  ASSUME NEW S \in SUBSET Nat, S # {}
  PROVE  earliest(S) \in S
  <1> DEFINE below == OpToRel(<, Nat)
  <1>1. \A m, n \in Nat : m < n => <<m, n>> \in below
    BY DEF OpToRel
  <1>2. IsWellFoundedOn(below, Nat)
    BY NatLessThanWellFounded
  <1> HIDE DEF below
  <1>3. PICK i \in S : \A j \in S : ~(<<j, i>> \in below)
    BY <1>2, WFMin
  <1>4. \A j \in S : i <= j
    <2>1. SUFFICES ASSUME NEW j \in S
                   PROVE  i <= j
      OBVIOUS
    <2>2. i \in Nat /\ j \in Nat
      OBVIOUS
    <2>3. ~(j < i)
      BY <1>1, <1>3, <2>2, Zenon
    <2>4. QED
      BY <2>2, <2>3
  <1>5. QED
    BY <1>4 DEF earliest

LEMMA ResolveFinds ==
  ASSUME NEW fs \in Seq(FLASHERS), NEW dev, NEW helper, NEW made
  PROVE  /\ writers(fs, dev, helper, made) = {} => resolve(fs, dev, helper, made) = "nobody"
         /\ writers(fs, dev, helper, made) # {} =>
                \E i \in writers(fs, dev, helper, made) :
                    resolve(fs, dev, helper, made) = fs[i] /\ fs[i] \in FLASHERS
  <1> DEFINE able == writers(fs, dev, helper, made)
  <1>1. able \in SUBSET Nat /\ \A i \in able : fs[i] \in FLASHERS
    BY DEF writers
  <1>2. resolve(fs, dev, helper, made) = IF able = {} THEN "nobody" ELSE fs[earliest(able)]
    BY DEF resolve
  <1> HIDE DEF able
  <1>3. able # {} => earliest(able) \in able
    BY <1>1, EarliestIsOne
  <1>4. (able = {} => resolve(fs, dev, helper, made) = "nobody")
        /\ (able # {} => \E i \in able : resolve(fs, dev, helper, made) = fs[i] /\ fs[i] \in FLASHERS)
    BY <1>1, <1>2, <1>3
  <1>5. QED
    BY <1>4 DEF able

LEMMA ChoiceTyped ==
  ASSUME TypeOK
  PROVE  choice.flasher \in FLASHERS \cup {"nobody"}
  <1> DEFINE l == Listed[type.by]  d == device(None)  h == IF cmake THEN Helper ELSE "none"
  <1>1. l \in Seq(FLASHERS)
    BY TypeTyped, BuildersAssumption
  <1>2. choice.flasher = resolve(l, d, h, staged_kinds)
    BY DEF choice, select
  <1> HIDE DEF l, d, h
  <1>3. resolve(l, d, h, staged_kinds) \in FLASHERS \cup {"nobody"}
    BY <1>1, ResolveFinds
  <1>4. QED
    BY <1>2, <1>3

LEMMA BuildFromIs ==
  ASSUME TypeOK, NEW o \in {"build", "update"}
  PROVE  /\ BuildFrom(Asked(o)) \in JobState
         /\ BuildFrom(Asked(o)) =
                IF cmake THEN [Idle EXCEPT !.op = o, !.target = target, !.pc = "sample"]
                ELSE [Idle EXCEPT !.op = o, !.target = None, !.pc = "link", !.from = {content}]
  <1>1. tree \in [head : Commit, edit : BOOLEAN, sub : BOOLEAN] /\ (cmake => target \in Target)
    BY DEF TypeOK
  <1>2. content \in Content
    BY <1>1, TreeTyped
  <1>3. CASE cmake
    <2>1. BuildFrom(Asked(o)) = [Idle EXCEPT !.op = o, !.target = target, !.pc = "sample"]
      BY <1>3 DEF BuildFrom, Asked, Idle
    <2>2. [Idle EXCEPT !.op = o, !.target = target, !.pc = "sample"] \in JobState
      BY <1>1, <1>3 DEF Idle, JobState, Building
    <2>3. QED
      BY <1>3, <2>1, <2>2
  <1>4. CASE ~cmake
    <2>1. BuildFrom(Asked(o)) = [Idle EXCEPT !.op = o, !.target = None, !.pc = "link", !.from = {content}]
      <3>1. Asked(o) = [Idle EXCEPT !.op = o, !.target = None]
        BY <1>4 DEF Asked
      <3>2. BuildFrom(Asked(o)) = [[Idle EXCEPT !.op = o, !.target = None] EXCEPT !.pc = "link", !.from = {content}]
        BY <1>4, <3>1 DEF BuildFrom
      <3>3. QED
        BY <3>2 DEF Idle
    <2>2. [Idle EXCEPT !.op = o, !.target = None, !.pc = "link", !.from = {content}] \in JobState
      BY <1>2 DEF Idle, JobState, Building
    <2>3. QED
      BY <1>4, <2>1, <2>2
  <1>5. QED
    BY <1>3, <1>4

LEMMA DetailTyped ==
  ASSUME TypeOK, NEW s \in type.devices
  PROVE  port_detail(s) \in Detail
  <1>1. s \in Device /\ type.devices \in SUBSET Device
    BY TypeTyped
  <1>2. where \in [Device -> Port \cup {None}]
    BY DEF TypeOK
  <1>3. device_id(s) \in Device \cup {None}
    <2>1. CASE cmake \/ s \in Named
      BY <1>1, <2>1 DEF device_id
    <2>2. CASE ~(cmake \/ s \in Named) /\ reports(s)
      <3>1. answers(s) # {} /\ answers(s) \in SUBSET Device
        BY <1>1, <2>2 DEF reports, present, answers, occupants
      <3>2. (CHOOSE d \in answers(s) : TRUE) \in answers(s)
        BY <3>1
      <3>3. device_id(s) = CHOOSE d \in answers(s) : TRUE
        BY <2>2 DEF device_id
      <3>4. QED
        BY <3>1, <3>2, <3>3
    <2>3. CASE ~(cmake \/ s \in Named) /\ ~reports(s)
      BY <2>3 DEF device_id
    <2>4. QED
      BY <2>1, <2>2, <2>3
  <1>4. port_of(s) \in Port \cup {None}
    BY <1>1, <1>2, BuildersAssumption DEF port_of
  <1>5. choice.flasher \in FLASHERS \cup {"nobody"}
    BY ChoiceTyped
  <1>6. QED
    BY <1>1, <1>3, <1>4, <1>5 DEF port_detail, Detail

\* Where a job goes once its devices are chosen.
LEMMA ChosenIs ==
  ASSUME TypeOK, NEW S \in SUBSET type.devices, NEW j \in JobState
  PROVE  \/ /\ S = {} \/ choice.flasher = "nobody"
            /\ Chosen(j, S) = Over(j.failed \/ S # {})
         \/ /\ S # {} /\ choice.flasher # "nobody" /\ cmake
            /\ \E t \in {port_detail(s) : s \in S} :
                  Chosen(j, S) = [j EXCEPT !.todo = {port_detail(s) : s \in S}, !.pc = "write", !.cur = t]
         \/ /\ S # {} /\ choice.flasher # "nobody" /\ ~cmake
            /\ Chosen(j, S) = [j EXCEPT !.todo = {port_detail(s) : s \in S}, !.pc = "stop", !.cur = None]
  <1> DEFINE todo == {port_detail(s) : s \in S}
             t == CHOOSE x \in todo : TRUE
  <1>1. CASE S = {} \/ choice.flasher = "nobody"
    BY <1>1 DEF Chosen
  <1>2. CASE ~(S = {} \/ choice.flasher = "nobody")
    <2>1. Chosen(j, S) = [j EXCEPT !.todo = todo, !.pc = IF cmake THEN "write" ELSE "stop",
                                   !.cur = IF cmake THEN t ELSE None]
      BY <1>2 DEF Chosen
    <2>2. todo # {}
      BY <1>2
    <2>3. t \in todo
      BY <2>2
    <2> HIDE DEF t
    <2>4. CASE cmake
      <3>1. Chosen(j, S) = [j EXCEPT !.todo = todo, !.pc = "write", !.cur = t]
        BY <2>1, <2>4
      <3>2. QED
        BY <1>2, <2>3, <2>4, <3>1
    <2>5. CASE ~cmake
      <3>1. Chosen(j, S) = [j EXCEPT !.todo = todo, !.pc = "stop", !.cur = None]
        BY <2>1, <2>5
      <3>2. QED
        BY <1>2, <2>5, <3>1
    <2>6. QED
      BY <2>4, <2>5
  <1>3. QED
    BY <1>1, <1>2

LEMMA AimedTyped ==
  ASSUME NEW j \in JobState, NEW S \in SUBSET Detail, NEW t \in Detail
  PROVE  [j EXCEPT !.todo = S, !.pc = "write", !.cur = t] \in JobState
  <1>1. "write" \in Building \cup Stopped \cup {"idle", "select", "stop"}
    BY DEF Stopped
  <1>2. QED
    BY <1>1 DEF JobState

LEMMA ChosenTyped ==
  ASSUME TypeOK, NEW S \in SUBSET type.devices, NEW j \in JobState, j.wrote = None, ~j.settled
  PROVE  /\ Chosen(j, S) \in JobState /\ Chosen(j, S).wrote = None /\ ~Chosen(j, S).settled
         /\ \/ Chosen(j, S).pc = "idle"
            \/ cmake /\ Chosen(j, S).pc = "write" /\ Chosen(j, S).cur \in Detail
            \/ ~cmake /\ Chosen(j, S).pc = "stop"
  <1>1. {port_detail(s) : s \in S} \in SUBSET Detail
    BY DetailTyped
  <1>2. job \in JobState
    BY DEF TypeOK
  <1>3. CASE Chosen(j, S) = Over(j.failed \/ S # {})
    <2>1. (j.failed \/ S # {}) \in BOOLEAN
      BY DEF JobState
    <2>2. QED
      BY <1>2, <1>3, <2>1, OverIs
  <1>4. CASE cmake /\ \E t \in {port_detail(s) : s \in S} :
                  Chosen(j, S) = [j EXCEPT !.todo = {port_detail(s) : s \in S}, !.pc = "write", !.cur = t]
    <2> DEFINE todo == {port_detail(s) : s \in S}
    <2>1. todo \in SUBSET Detail
      BY <1>1
    <2>2. PICK t \in todo : Chosen(j, S) = [j EXCEPT !.todo = todo, !.pc = "write", !.cur = t]
      BY <1>4
    <2> HIDE DEF todo
    <2>3. t \in Detail
      BY <2>1
    <2>4. Chosen(j, S) \in JobState
      <3>1. [j EXCEPT !.todo = todo, !.pc = "write", !.cur = t] \in JobState
        BY <2>1, <2>3, AimedTyped
      <3>2. QED
        BY <2>2, <3>1, Zenon
    <2>5. /\ Chosen(j, S).wrote = None /\ ~Chosen(j, S).settled
          /\ Chosen(j, S).pc = "write" /\ Chosen(j, S).cur = t
      BY <2>2 DEF JobState
    <2>6. QED
      BY <1>4, <2>3, <2>4, <2>5
  <1>5. CASE ~cmake /\ Chosen(j, S) = [j EXCEPT !.todo = {port_detail(s) : s \in S}, !.pc = "stop", !.cur = None]
    <2> DEFINE todo == {port_detail(s) : s \in S}
    <2>1. todo \in SUBSET Detail
      BY <1>1
    <2>2. Chosen(j, S) = [j EXCEPT !.todo = todo, !.pc = "stop", !.cur = None]
      BY <1>5
    <2> HIDE DEF todo
    <2>3. QED
      BY <1>5, <2>1, <2>2 DEF JobState
  <1>6. QED
    BY <1>3, <1>4, <1>5, ChosenIs

LEMMA ImagesTyped ==
  ASSUME TInv
  PROVE  /\ job.pc = "link" => compiled \in Image
         /\ rebuilt \in Image
         /\ \A i \in Image : torn(i) \in Image
         /\ cmake /\ job.target \in Target =>
                /\ build.elf[job.target] \in Image \cup {None}
                /\ fresh_bin(job.target) \in Image \cup {None}
  <1>1. content \in Content /\ source_state \in State
    BY TreeTyped DEF TInv, TypeOK
  <1>2. source_state.version \in Version
    BY <1>1 DEF State
  <1>3. build \in BuildDir /\ job \in JobState /\ image \in Image \cup {None}
    BY DEF TInv, TypeOK
  <1>4. job.pc = "link" => compiled \in Image
    <2>1. job.from \in SUBSET Content /\ job.target \in Target \cup {None}
      BY <1>3 DEF JobState
    <2>2. (IF cmake THEN build.version ELSE source_state.version) \in Version \cup {None}
      BY <1>2, <1>3 DEF BuildDir
    <2>3. QED
      BY <2>1, <2>2 DEF compiled, Image
  <1>5. rebuilt \in Image
    <2> DEFINE now == [src |-> {content}, target |-> None, version |-> source_state.version, whole |-> TRUE]
    <2>1. now \in Image
      BY <1>1, <1>2 DEF Image
    <2>2. rebuilt = IF image = now THEN image ELSE now
      BY DEF rebuilt
    <2> HIDE DEF now
    <2>3. QED
      BY <2>1, <2>2
  <1>6. \A i \in Image : torn(i) \in Image
    BY DEF torn, Image
  <1>7. cmake /\ job.target \in Target =>
            /\ build.elf[job.target] \in Image \cup {None}
            /\ fresh_bin(job.target) \in Image \cup {None}
    BY <1>3 DEF BuildDir, fresh_bin
  <1>8. QED
    BY <1>4, <1>5, <1>6, <1>7

LEMMA RecordTyped ==
  ASSUME TypeOK, NEW x \in State, image # None
  PROVE  record_build(x) \in Record
  <1>1. x.sha \in Commit /\ x.version \in Version /\ x.dirty \in BOOLEAN
    BY DEF State
  <1>2. image \in Image /\ bin \in Image \cup {None} /\ job.target \in Target \cup {None}
    BY DEF TypeOK, JobState
  <1>3. record_build(x) = [sha |-> x.sha, version |-> x.version, dirty |-> x.dirty, image |-> image,
                           target |-> job.target, bin |-> IF cmake THEN bin ELSE None]
    BY DEF record_build
  <1>4. QED
    BY <1>1, <1>2, <1>3 DEF Record

LEMMA CutTyped ==
  ASSUME TInv, CutBuild
  PROVE  image' \in Image \cup {None} /\ bin' \in Image \cup {None}
  <1>1. image \in Image \cup {None} /\ bin \in Image \cup {None}
    BY DEF TInv, TypeOK
  <1>2. CASE At("stage") /\ image' = torn(build.elf[job.target]) /\ UNCHANGED bin
    <2>1. cmake /\ job.target \in Target /\ build.elf[job.target] # None
      BY <1>2 DEF At, TInv, Shape, Building
    <2>2. build.elf[job.target] \in Image
      BY <2>1, ImagesTyped
    <2>3. QED
      BY <1>1, <1>2, <2>2, ImagesTyped
  <1>3. CASE At("link") /\ ~cmake /\ image' = torn(compiled) /\ UNCHANGED bin
    BY <1>1, <1>3, ImagesTyped DEF At
  <1>4. CASE At("stage_bin") /\ fresh_bin(job.target) # None /\ bin' = torn(fresh_bin(job.target)) /\ UNCHANGED image
    <2>1. cmake /\ job.target \in Target
      BY <1>4 DEF At, TInv, Shape, Building
    <2>2. fresh_bin(job.target) \in Image
      BY <1>4, <2>1, ImagesTyped
    <2>3. QED
      BY <1>1, <1>4, <2>2, ImagesTyped
  <1>5. QED
    BY <1>1, <1>2, <1>3, <1>4 DEF CutBuild

LEMMA InitTyped ==
  ASSUME Init
  PROVE  AInv
  <1>1. type \in Types /\ (cmake => target \in Target) /\ target \in Target \cup {None}
    BY DEF Init
  <1>2. tree \in [head : Commit, edit : BOOLEAN, sub : BOOLEAN]
    BY DEF Init
  <1>3. build \in BuildDir
    BY DEF Init, EmptyDir, BuildDir
  <1>4. Idle \in JobState
    BY DEF Idle, JobState
  <1>5. where \in [Device -> Port \cup {None}] /\ app \in [Device -> Image \cup {None}]
        /\ ledger \in [Device -> Entry \cup {None}]
    BY BuildersAssumption DEF Init
  <1>a. job \in JobState /\ image = None /\ bin = None /\ rec = None /\ flick = FALSE /\ klipper = TRUE
    BY <1>4 DEF Init
  <1>b. sound \subseteq Device /\ events \in 0..MaxEvents
    BY BuildersAssumption DEF Init
  <1>6. TypeOK
    BY <1>1, <1>2, <1>3, <1>a, <1>b, <1>5 DEF TypeOK
  <1>7. Shape
    BY DEF Init, Idle, Shape, Building
  <1>8. Seats
    BY BuildersAssumption DEF Init, Seats
  <1>9. QED
    BY <1>6, <1>7, <1>8 DEF AInv, TInv, HeardStands, WroteStands, Init, Idle

\* A step of the job that builds, writes and moves nothing.
LEMMA JobTyped ==
  ASSUME TInv, job' \in JobState, UNCHANGED <<type, source, staging, devices, log, events>>
  PROVE  TypeOK'
  BY DEF TInv, TypeOK, cmake, source, staging, devices, log

LEMMA StartTyped ==
  ASSUME TInv, build_type \/ build_all \/ update_all
  PROVE  TInv' /\ ~job'.settled /\ job'.wrote = None
  <1>1. UNCHANGED <<type, source, staging, devices, log, events>>
    BY DEF build_type, build_all, update_all
  <1>2. \/ \E o \in {"build", "update"} : job' = BuildFrom(Asked(o))
        \/ job' = [Idle EXCEPT !.op = "update", !.pc = "select", !.failed = source_problem]
    BY DEF build_type, build_all, update_all
  <1>3. CASE \E o \in {"build", "update"} : job' = BuildFrom(Asked(o))
    <2>1. PICK o \in {"build", "update"} : job' = BuildFrom(Asked(o))
      BY <1>3
    <2>2. TypeOK
      BY DEF TInv
    <2>3. job' \in JobState
      BY <2>1, <2>2, BuildFromIs
    <2>4. job' = IF cmake THEN [Idle EXCEPT !.op = o, !.target = target, !.pc = "sample"]
                 ELSE [Idle EXCEPT !.op = o, !.target = None, !.pc = "link", !.from = {content}]
      BY <2>1, <2>2, BuildFromIs
    <2>5. /\ job'.pc = (IF cmake THEN "sample" ELSE "link") /\ (cmake => job'.target = target)
          /\ job'.wrote = None /\ ~job'.settled
      BY <2>4 DEF Idle
    <2>6. Shape'
      BY <1>1, <2>2, <2>5 DEF Shape, TypeOK, cmake, Building, source
    <2>7. QED
      BY <1>1, <2>3, <2>5, <2>6, JobTyped DEF TInv
  <1>4. CASE job' = [Idle EXCEPT !.op = "update", !.pc = "select", !.failed = source_problem]
    <2>1. source_problem \in BOOLEAN
      BY DEF source_problem
    <2>2. job' \in JobState
      BY <1>4, <2>1 DEF Idle, JobState
    <2>3. job'.pc = "select" /\ job'.wrote = None /\ ~job'.settled
      BY <1>4 DEF Idle
    <2>4. Shape'
      BY <2>3 DEF Shape, Building
    <2>5. QED
      BY <1>1, <2>2, <2>3, <2>4, JobTyped DEF TInv
  <1>5. QED
    BY <1>2, <1>3, <1>4

LEMMA ChooseTyped ==
  ASSUME TInv, Select \/ flash_all \/ \E s \in type.devices : flash(s)
  PROVE  TInv' /\ ~job'.settled /\ job'.wrote = None /\ job'.pc \in {"idle", "write", "stop"}
  <1>1. UNCHANGED <<type, source, staging, devices, log, events>>
    BY DEF Select, flash_all, flash
  <1>2. TypeOK
    BY DEF TInv
  <1>3. to_flash \in SUBSET type.devices
    BY DEF to_flash, listed
  <1>4. [Idle EXCEPT !.op = "flash"] \in JobState /\ [Idle EXCEPT !.op = "flash"].wrote = None
        /\ ~[Idle EXCEPT !.op = "flash"].settled
    BY DEF Idle, JobState
  <1>5. \E S \in SUBSET type.devices, j \in JobState : j.wrote = None /\ ~j.settled /\ job' = Chosen(j, S)
    <2>1. CASE Select
      <3>1. job \in JobState /\ job.wrote = None /\ ~job.settled
        BY <2>1 DEF Select, At, TInv, TypeOK, Shape
      <3>2. job' = Chosen(job, to_flash)
        BY <2>1 DEF Select
      <3>3. QED
        BY <1>3, <3>1, <3>2, Zenon
    <2>2. CASE flash_all
      <3>1. job' = Chosen([Idle EXCEPT !.op = "flash"], to_flash)
        BY <2>2 DEF flash_all
      <3>2. QED
        BY <1>3, <1>4, <3>1, Zenon
    <2>3. CASE \E s \in type.devices : flash(s)
      <3>1. PICK s \in type.devices : flash(s)
        BY <2>3
      <3>2. job' = Chosen([Idle EXCEPT !.op = "flash"], {s})
        BY <3>1 DEF flash, _cmake_flash, _pio_flash
      <3>3. {s} \in SUBSET type.devices
        OBVIOUS
      <3>4. QED
        BY <1>4, <3>2, <3>3, Zenon
    <2>4. QED
      BY <2>1, <2>2, <2>3
  <1>6. PICK S \in SUBSET type.devices, j \in JobState : j.wrote = None /\ ~j.settled /\ job' = Chosen(j, S)
    BY <1>5
  <1>7. /\ job' \in JobState /\ job'.wrote = None /\ ~job'.settled
        /\ \/ job'.pc = "idle"
           \/ cmake /\ job'.pc = "write" /\ job'.cur \in Detail
           \/ ~cmake /\ job'.pc = "stop"
    BY <1>2, <1>6, ChosenTyped
  <1>8. Shape'
    BY <1>1, <1>7 DEF Shape, Building, cmake
  <1>9. QED
    BY <1>1, <1>7, <1>8, JobTyped DEF TInv

LEMMA AfterBuildTyped ==
  ASSUME TInv, job.pc \in Building, NEW f \in BOOLEAN, job' = AfterBuild(f)
  PROVE  job' \in JobState /\ ~job'.settled /\ job'.wrote = None /\ Shape'
  <1>1. job \in JobState /\ job.wrote = None /\ ~job.settled
    BY DEF TInv, TypeOK, Shape, Building
  <1>2. job' \in JobState /\ ~job'.settled /\ job'.wrote = None /\ job'.pc \in {"idle", "select"}
    BY <1>1, AfterBuildIs
  <1>3. QED
    BY <1>2 DEF Shape, Building

LEMMA LinkingTyped ==
  ASSUME job \in JobState, NEW S \in SUBSET Content, job' = [job EXCEPT !.pc = "link", !.from = S]
  PROVE  job' \in JobState /\ job'.pc = "link" /\ job'.state = job.state /\ job'.target = job.target
          /\ job'.wrote = job.wrote /\ job'.settled = job.settled
  <1>1. "link" \in Building \cup Stopped \cup {"idle", "select", "stop"}
    BY DEF Building
  <1>2. QED
    BY <1>1 DEF JobState

LEMMA BuildTyped ==
  ASSUME TInv, Sample \/ Configure \/ LinkCmake \/ LinkPio \/ Stage \/ StageBin \/ RecordBuild \/ BuildFails
  PROVE  TInv' /\ ~job'.settled /\ job'.wrote = None
  <1>0. /\ TypeOK /\ job.pc \in Building /\ job \in JobState /\ job.wrote = None /\ ~job.settled
    <2>1. job.pc \in Building
      BY DEF Sample, Configure, LinkCmake, LinkPio, Stage, StageBin, RecordBuild, BuildFails, At, Building
    <2>2. QED
      BY <2>1 DEF TInv, TypeOK, Shape, Building
  <1>a. content \in Content /\ source_state \in State /\ dirty \in BOOLEAN
    BY TreeTyped DEF TInv, TypeOK
  <1>1. CASE Sample
    <2>1. tree' \in [head : Commit, edit : BOOLEAN, sub : BOOLEAN]
      BY <1>0, <1>1 DEF Sample, TypeOK
    <2>2. source_state' \in State
      <3>1. type' = type
        BY <1>1 DEF Sample
      <3>2. source_state' = [sha |-> sha(tree'.head), dirty |-> dirty', version |-> [head |-> tree'.head, dirty |-> dirty']]
        BY <3>1 DEF source_state, sha, cmake
      <3>3. sha(tree'.head) \in Commit /\ dirty' \in BOOLEAN
        BY <2>1, BuildersAssumption DEF sha, dirty
      <3>4. QED
        BY <2>1, <3>2, <3>3 DEF State, Version
    <2>3. job' = [job EXCEPT !.pc = "configure", !.state = source_state', !.moved = FALSE]
      BY <1>1 DEF Sample
    <2>4. job' \in JobState /\ job'.pc = "configure" /\ job'.state \in State /\ job'.target = job.target
          /\ job'.wrote = None /\ ~job'.settled
      <3>1. PICK x \in State : x = source_state'
        BY <2>2
      <3>2. job' = [job EXCEPT !.pc = "configure", !.state = x, !.moved = FALSE]
        BY <2>3, <3>1
      <3>3. "configure" \in Building \cup Stopped \cup {"idle", "select", "stop"}
        BY DEF Building
      <3>4. /\ job'.pc = "configure" /\ job'.state = x /\ job'.target = job.target
            /\ job'.wrote = job.wrote /\ job'.settled = job.settled
        BY <1>0, <3>2 DEF JobState
      <3>5. [job EXCEPT !.pc = "configure"] \in JobState
        BY <1>0, <3>3 DEF JobState
      <3>6. [[job EXCEPT !.pc = "configure"] EXCEPT !.state = x, !.moved = FALSE] \in JobState
        BY <3>1, <3>5 DEF JobState
      <3>7. QED
        BY <1>0, <2>2, <3>2, <3>4, <3>6, <3>1
    <2>5. TypeOK'
      BY <1>0, <1>1, <2>1, <2>4 DEF Sample, TypeOK, staging, devices, log, cmake
    <2>6. Shape'
      BY <1>0, <1>1, <2>4 DEF Sample, TInv, Shape, cmake, Building, At
    <2>7. QED
      BY <2>4, <2>5, <2>6 DEF TInv
  <1>2. CASE Configure
    <2>1. job.state \in State /\ cmake /\ job.target \in Target
      BY <1>2 DEF Configure, At, TInv, Shape, Building
    <2>2. expand_args(job.state) \in Version \cup {None}
      BY <2>1 DEF expand_args, State
    <2>3. build' \in BuildDir
      <3>1. [build EXCEPT !.configured = TRUE, !.list = Declares[tree.head], !.version = expand_args(job.state)] \in BuildDir
        BY <1>0, <2>2, BuildersAssumption DEF BuildDir, TypeOK
      <3>2. build \in BuildDir
        BY <1>0 DEF TypeOK
      <3>3. QED
        BY <1>2, <3>1, <3>2 DEF Configure
    <2>4. job' = [job EXCEPT !.pc = "link", !.from = {content}]
      BY <1>2 DEF Configure
    <2>5. job' \in JobState /\ job'.pc = "link" /\ job'.state = job.state /\ job'.target = job.target
          /\ job'.wrote = None /\ ~job'.settled
      <3>1. {content} \in SUBSET Content /\ job \in JobState /\ job.wrote = None /\ ~job.settled
        BY <1>0, <1>a
      <3>2. QED
        BY <2>4, <3>1, LinkingTyped
    <2>6. TypeOK'
      BY <1>0, <1>2, <2>3, <2>5 DEF Configure, TypeOK, staging, devices, log, cmake
    <2>7. Shape'
      BY <1>2, <2>1, <2>5 DEF Configure, Shape, cmake, Building
    <2>8. QED
      BY <2>5, <2>6, <2>7 DEF TInv
  <1>3. CASE LinkCmake
    <2> DEFINE b == [build EXCEPT !.list = Declares[tree.head]]
               c == [b EXCEPT !.elf[job.target] = compiled,
                              !.bin[job.target] = IF tree.head \in WithBin THEN compiled ELSE @,
                              !.fresh[job.target] = tree.head \in WithBin]
    <2>1. cmake /\ job.pc = "link" /\ job.target \in Target /\ job.state \in State
      BY <1>3 DEF LinkCmake, At, TInv, Shape, Building
    <2>2. compiled \in Image
      BY <2>1, ImagesTyped
    <2>3. b \in BuildDir /\ b.list = Declares[tree.head] /\ b.elf = build.elf
      BY <1>0, BuildersAssumption DEF BuildDir, TypeOK
    <2>4. build' = IF up_to_date(b.elf[job.target]) \/ job.target \notin b.list THEN b ELSE c
      BY <1>3 DEF LinkCmake
    <2>5. c \in BuildDir /\ c.elf[job.target] = compiled
      <3> HIDE DEF b
      <3>1. (tree.head \in WithBin) \in BOOLEAN
        OBVIOUS
      <3>2. QED
        BY <2>1, <2>2, <2>3, <3>1 DEF BuildDir
    <2>6. build' \in BuildDir /\ (job.target \in Declares[tree.head] => build'.elf[job.target] # None)
      <3>1. up_to_date(b.elf[job.target]) => b.elf[job.target] # None
        BY DEF up_to_date
      <3>2. compiled # None
        BY <2>2, BuildersAssumption
      <3> HIDE DEF b, c
      <3>3. QED
        BY <2>3, <2>4, <2>5, <3>1, <3>2
    <2>7. CASE job.target \in Declares[tree.head]
      <3>1. job' = [job EXCEPT !.pc = "stage"]
        BY <1>3, <2>7 DEF LinkCmake, Step
      <3>2. job' \in JobState /\ job'.pc = "stage" /\ job'.state = job.state /\ job'.target = job.target
            /\ job'.wrote = None /\ ~job'.settled
        BY <1>0, <3>1 DEF JobState, Building
      <3>3. TypeOK'
        BY <1>0, <1>3, <2>6, <3>2 DEF LinkCmake, TypeOK, staging, devices, log, cmake
      <3>4. Shape'
        BY <1>3, <2>1, <2>6, <2>7, <3>2 DEF LinkCmake, Shape, cmake, Building
      <3>5. QED
        BY <3>2, <3>3, <3>4 DEF TInv
    <2>8. CASE job.target \notin Declares[tree.head]
      <3>1. job' = AfterBuild(TRUE)
        BY <1>3, <2>8 DEF LinkCmake
      <3>2. job' \in JobState /\ ~job'.settled /\ job'.wrote = None /\ Shape'
        BY <1>0, <3>1, AfterBuildTyped
      <3>3. TypeOK'
        BY <1>0, <1>3, <2>6, <3>2 DEF LinkCmake, TypeOK, staging, devices, log, cmake
      <3>4. QED
        BY <3>2, <3>3 DEF TInv
    <2>9. QED
      BY <2>7, <2>8
  <1>4. CASE LinkPio
    <2>1. ~cmake /\ job.pc = "link"
      BY <1>4 DEF LinkPio, At
    <2>2. compiled \in Image
      BY <2>1, ImagesTyped
    <2>3. image' \in Image \cup {None}
      BY <1>0, <1>4, <2>2 DEF LinkPio, TypeOK
    <2>4. job' = [job EXCEPT !.pc = "record"]
      BY <1>4 DEF LinkPio, Step
    <2>5. job' \in JobState /\ job'.pc = "record" /\ job'.wrote = None /\ ~job'.settled
      BY <1>0, <2>4 DEF JobState, Building
    <2>6. TypeOK'
      BY <1>0, <1>4, <2>3, <2>5 DEF LinkPio, TypeOK, source, devices, log, cmake
    <2>a. image' # None
      <3>1. up_to_date(image) => image # None
        BY DEF up_to_date
      <3>2. QED
        BY <1>4, <2>2, <3>1, BuildersAssumption DEF LinkPio
    <2>7. Shape'
      BY <1>4, <2>1, <2>5, <2>a DEF LinkPio, Shape, cmake
    <2>8. QED
      BY <2>5, <2>6, <2>7 DEF TInv
  <1>5. CASE Stage
    <2>1. cmake /\ job.pc = "stage" /\ job.target \in Target /\ job.state \in State
      BY <1>5 DEF Stage, At, TInv, Shape, Building
    <2>2. image' \in Image \cup {None}
      BY <1>5, <2>1, ImagesTyped DEF Stage
    <2>3. job' = [job EXCEPT !.pc = "stage_bin"]
      BY <1>5 DEF Stage, Step
    <2>4. job' \in JobState /\ job'.pc = "stage_bin" /\ job'.state = job.state /\ job'.target = job.target
          /\ job'.wrote = None /\ ~job'.settled
      BY <1>0, <2>3 DEF JobState, Building
    <2>5. TypeOK'
      BY <1>0, <1>5, <2>2, <2>4 DEF Stage, TypeOK, source, devices, log, cmake
    <2>a. image' # None
      BY <1>5, <2>1 DEF Stage, TInv, Shape
    <2>6. Shape'
      BY <1>5, <2>1, <2>4, <2>a DEF Stage, Shape, cmake, Building, source
    <2>7. QED
      BY <2>4, <2>5, <2>6 DEF TInv
  <1>6. CASE StageBin
    <2>1. cmake /\ job.pc = "stage_bin" /\ job.target \in Target /\ job.state \in State
      BY <1>6 DEF StageBin, At, TInv, Shape, Building
    <2>2. bin' \in Image \cup {None}
      BY <1>6, <2>1, ImagesTyped DEF StageBin
    <2>3. job' = [job EXCEPT !.pc = "record"]
      BY <1>6 DEF StageBin, Step
    <2>4. job' \in JobState /\ job'.pc = "record" /\ job'.state = job.state /\ job'.target = job.target
          /\ job'.wrote = None /\ ~job'.settled
      BY <1>0, <2>3 DEF JobState, Building
    <2>5. TypeOK'
      BY <1>0, <1>6, <2>2, <2>4 DEF StageBin, TypeOK, source, devices, log, cmake
    <2>a. image # None
      BY <2>1 DEF TInv, Shape
    <2>6. Shape'
      BY <1>6, <2>1, <2>4, <2>a DEF StageBin, Shape, cmake, Building
    <2>7. QED
      BY <2>4, <2>5, <2>6 DEF TInv
  <1>7. CASE RecordBuild
    <2>1. job' \in JobState /\ ~job'.settled /\ job'.wrote = None /\ Shape'
      BY <1>0, <1>7, AfterBuildTyped DEF RecordBuild
    <2>2. rec' \in Record \cup {None} /\ flick' \in BOOLEAN
      <3>1. rec' = record_build(IF cmake THEN recorded ELSE source_state)
            /\ flick' = (job.moved /\ (cmake => ~job.state.dirty /\ job.state.sha = source_state.sha))
        BY <1>7 DEF RecordBuild
      <3>2. cmake => recorded \in State
        <4>1. cmake => job.state \in State
          BY <1>7 DEF RecordBuild, At, TInv, Shape, Building
        <4>2. QED
          BY <1>a, <4>1 DEF recorded, State
      <3>3. (IF cmake THEN recorded ELSE source_state) \in State
        BY <1>a, <3>2
      <3>4. image # None
        BY <1>7 DEF RecordBuild, At, TInv, Shape
      <3>5. QED
        BY <1>0, <3>1, <3>3, <3>4, RecordTyped DEF TypeOK
    <2>3. TypeOK'
      BY <1>0, <1>7, <2>1, <2>2 DEF RecordBuild, TypeOK, source, devices, log, cmake
    <2>4. QED
      BY <2>1, <2>3 DEF TInv
  <1>8. CASE BuildFails
    <2>1. job' \in JobState /\ ~job'.settled /\ job'.wrote = None /\ Shape'
      BY <1>0, <1>8, AfterBuildTyped DEF BuildFails
    <2>2. image' \in Image \cup {None} /\ bin' \in Image \cup {None}
      BY <1>8, CutTyped DEF BuildFails
    <2>3. TypeOK'
      BY <1>0, <1>8, <2>1, <2>2 DEF BuildFails, TypeOK, source, devices, log, cmake
    <2>4. QED
      BY <2>1, <2>3 DEF TInv
  <1>9. QED
    BY <1>1, <1>2, <1>3, <1>4, <1>5, <1>6, <1>7, <1>8

LEMMA HeardTyped ==
  ASSUME TInv, job.map \in [Device -> Port \cup {None}], NEW S \in identify
  PROVE  /\ S \in SUBSET Heard
         /\ (\A h \in S : ~h.answered) \/ (\A h \in S : where[h.id] = h.port /\ h.port # None)
  <1>1. type.devices \in SUBSET Device /\ where \in [Device -> Port \cup {None}]
    BY TypeTyped DEF TInv, TypeOK
  <1>2. CASE S = {}
    BY <1>2
  <1>3. CASE S = device_map
    <2>1. ASSUME NEW h \in S
          PROVE  h \in Heard /\ ~h.answered
      <3>1. PICK d \in type.devices : h = here(d, job.map[d], FALSE)
        BY <1>3 DEF device_map
      <3>2. d \in Device /\ job.map[d] \in Port \cup {None}
        BY <1>1
      <3>3. QED
        BY <3>1, <3>2 DEF here, Heard
    <2>2. QED
      BY <2>1
  <1>4. CASE \E D \in SUBSET {d \in type.devices : where[d] # None /\ whole(d)} :
                 S = {here(d, where[d], TRUE) : d \in D}
    <2>1. PICK D \in SUBSET {d \in type.devices : where[d] # None /\ whole(d)} :
                 S = {here(d, where[d], TRUE) : d \in D}
      BY <1>4
    <2>2. ASSUME NEW h \in S
          PROVE  h \in Heard /\ where[h.id] = h.port /\ h.port # None
      <3>1. PICK d \in D : h = here(d, where[d], TRUE)
        BY <2>1
      <3>2. d \in Device /\ where[d] # None /\ where[d] \in Port \cup {None}
        BY <1>1
      <3>3. QED
        BY <3>1, <3>2 DEF here, Heard
    <2>3. QED
      BY <2>2
  <1>5. S = {} \/ S = device_map
        \/ \E D \in SUBSET {d \in type.devices : where[d] # None /\ whole(d)} :
                 S = {here(d, where[d], TRUE) : d \in D}
    BY DEF identify
  <1>6. QED
    BY <1>2, <1>3, <1>4, <1>5

LEMMA WroteTyped ==
  ASSUME TInv, NEW d \in Device, NEW i \in Image, Wrote(d, i)
  PROVE  app' \in [Device -> Image \cup {None}] /\ sound' \subseteq Device
  BY DEF TInv, TypeOK, Wrote

LEMMA OccupantsTyped ==
  ASSUME TypeOK, NEW p, NEW d \in occupants(p)
  PROVE  d \in Device /\ d \in type.devices /\ where[d] = p /\ p # None
  BY TypeTyped DEF occupants

LEMMA MappedTyped ==
  ASSUME job \in JobState, NEW m \in [Device -> Port \cup {None}], job' = [job EXCEPT !.pc = "listen", !.map = m]
  PROVE  job' \in JobState /\ job'.pc = "listen" /\ job'.map = m
          /\ job'.wrote = job.wrote /\ job'.settled = job.settled
  <1>1. "listen" \in Building \cup Stopped \cup {"idle", "select", "stop"}
    BY DEF Stopped
  <1>2. QED
    BY <1>1 DEF JobState

LEMMA WriteTyped ==
  ASSUME TInv, Stop \/ Listen \/ WriteCmake \/ Upload
  PROVE  TInv'
  <1>0. TypeOK /\ job \in JobState /\ image \in Image \cup {None} /\ bin \in Image \cup {None}
    BY DEF TInv, TypeOK
  <1>1. CASE Stop
    <2>1. job.pc = "stop" /\ job.wrote = None /\ ~job.settled /\ ~cmake
      BY <1>1 DEF Stop, At, TInv, Shape
    <2>2. job' = [job EXCEPT !.pc = "listen", !.map = where] /\ where \in [Device -> Port \cup {None}]
      BY <1>0, <1>1 DEF Stop, TypeOK
    <2>3. job' \in JobState /\ job'.pc = "listen" /\ job'.map = where /\ job'.wrote = None /\ ~job'.settled
      BY <1>0, <2>1, <2>2, MappedTyped
    <2>4. Shape'
      BY <1>1, <2>1, <2>2, <2>3 DEF Stop, Shape, Building, cmake
    <2>5. QED
      BY <1>1, <2>3, <2>4, JobTyped DEF Stop, TInv
  <1>2. CASE Listen
    <2>1. job.pc = "listen" /\ job.wrote = None /\ ~job.settled /\ ~cmake /\ job.map \in [Device -> Port \cup {None}]
      BY <1>2 DEF Listen, At, TInv, Shape
    <2>2. PICK heard \in identify, t \in job.todo :
              job' = [job EXCEPT !.pc = "write", !.heard = heard, !.settled = TRUE, !.cur = t]
      BY <1>2 DEF Listen
    <2>3. heard \in SUBSET Heard /\ t \in Detail
      BY <1>0, <2>1, <2>2, HeardTyped DEF JobState
    <2>4. job' \in JobState /\ job'.pc = "write" /\ job'.cur \in Detail /\ job'.wrote = None
      BY <1>0, <2>1, <2>2, <2>3 DEF JobState, Stopped
    <2>5. Shape'
      BY <1>2, <2>1, <2>4 DEF Listen, Shape, Building, cmake
    <2>6. QED
      BY <1>2, <2>4, <2>5, JobTyped DEF Listen, TInv
  <1>3. CASE WriteCmake
    <2> DEFINE i == IF accepts[job.cur.flasher] = "bin" THEN bin ELSE image
    <2>1. job.pc = "write" /\ cmake /\ job.cur \in Detail /\ ~job.settled
      BY <1>3 DEF WriteCmake, At, TInv, Shape
    <2>2. i \in Image /\ Wrote(job.cur.sec, i)
      BY <1>0, <1>3 DEF WriteCmake
    <2>3. job.cur.sec \in Device
      BY <2>1 DEF Detail
    <2> HIDE DEF i
    <2>4. app' \in [Device -> Image \cup {None}] /\ sound' \subseteq Device
      BY <2>2, <2>3, WroteTyped
    <2>5. job' = [job EXCEPT !.pc = "file", !.wrote = job.cur.sec] /\ job.cur.sec # None
      BY <1>3, <2>3, BuildersAssumption DEF WriteCmake
    <2>6. job' \in JobState /\ job'.pc = "file" /\ job'.cur = job.cur /\ job'.wrote # None /\ ~job'.settled
      BY <1>0, <2>1, <2>3, <2>5 DEF JobState, Stopped
    <2>7. TypeOK'
      BY <1>0, <1>3, <2>4, <2>6 DEF WriteCmake, TypeOK, source, staging, cmake
    <2>8. Shape'
      BY <1>3, <2>1, <2>6 DEF WriteCmake, Shape, Building, cmake
    <2>9. QED
      BY <2>7, <2>8 DEF TInv
  <1>4. CASE Upload
    <2>1. job.pc = "write" /\ ~cmake /\ job.cur \in Detail
      BY <1>4 DEF Upload, At, TInv, Shape
    <2>2. PICK d \in occupants(port_for(job.cur)) :
             image' = rebuilt /\ Wrote(d, rebuilt) /\ job' = [job EXCEPT !.pc = "note", !.wrote = d]
      BY <1>4 DEF Upload
    <2>3. d \in Device /\ rebuilt \in Image /\ d # None /\ rebuilt # None
      BY <1>0, <2>2, OccupantsTyped, ImagesTyped, BuildersAssumption
    <2>4. app' \in [Device -> Image \cup {None}] /\ sound' \subseteq Device
      BY <2>2, <2>3, WroteTyped
    <2>5. job' \in JobState /\ job'.pc = "note" /\ job'.cur = job.cur /\ job'.wrote # None /\ (job'.settled <=> job.settled)
      BY <1>0, <2>2, <2>3 DEF JobState, Stopped
    <2>6. image' \in Image \cup {None} /\ image' # None
      BY <2>2, <2>3
    <2>7. TypeOK'
      BY <1>0, <1>4, <2>4, <2>5, <2>6 DEF Upload, TypeOK, source, cmake
    <2>8. Shape'
      BY <1>4, <2>1, <2>5, <2>6 DEF Upload, Shape, Building, cmake
    <2>9. QED
      BY <2>7, <2>8 DEF TInv
  <1>5. QED
    BY <1>1, <1>2, <1>3, <1>4

LEMMA CutWriteTyped ==
  ASSUME TInv, CutWrite
  PROVE  /\ app' \in [Device -> Image \cup {None}] /\ sound' \subseteq Device
         /\ image' \in Image \cup {None} /\ (image # None => image' # None)
  <1>0. TypeOK /\ image \in Image \cup {None} /\ app \in [Device -> Image \cup {None}] /\ sound \subseteq Device
    BY DEF TInv, TypeOK
  <1>1. CASE UNCHANGED <<image, app, sound>>
    BY <1>0, <1>1
  <1>2. CASE /\ At("write") /\ cmake /\ image # None /\ where[job.cur.sec] # None
             /\ Wrote(job.cur.sec, torn(image)) /\ UNCHANGED image
    <2>1. job.cur.sec \in Device
      BY <1>2 DEF At, TInv, Shape, Detail
    <2>2. torn(image) \in Image
      BY <1>0, <1>2, ImagesTyped
    <2>3. QED
      BY <1>0, <1>2, <2>1, <2>2, WroteTyped
  <1>3. CASE /\ \E d \in occupants(port_for(job.cur)) : Wrote(d, torn(rebuilt))
             /\ image' = rebuilt
    <2>1. PICK d \in occupants(port_for(job.cur)) : Wrote(d, torn(rebuilt))
      BY <1>3
    <2>2. d \in Device /\ rebuilt \in Image /\ torn(rebuilt) \in Image
      BY <1>0, OccupantsTyped, ImagesTyped
    <2>3. QED
      BY <1>3, <2>1, <2>2, WroteTyped, BuildersAssumption
  <1>4. QED
    BY <1>1, <1>2, <1>3 DEF CutWrite

LEMMA NextTyped ==
  ASSUME TInv, NEW f \in BOOLEAN, job' = Next_(f), job.pc \in {"write", "note", "file"}, UNCHANGED type
  PROVE  job' \in JobState /\ Shape'
  <1>1. job \in JobState
    BY DEF TInv, TypeOK
  <1>2. /\ job' \in JobState /\ job'.wrote = None
        /\ \/ job'.pc = "idle" /\ ~job'.settled
           \/ job'.pc = "write" /\ (job'.settled <=> job.settled) /\ job'.cur \in Detail
    BY <1>1, NextIs
  <1>3. job.settled => ~cmake
    BY DEF TInv, Shape
  <1>4. QED
    BY <1>2, <1>3 DEF Shape, Building, cmake

LEMMA NotedTyped ==
  ASSUME job \in JobState, NEW b \in BOOLEAN,
         job' = [job EXCEPT !.pc = "file", !.noted = b] \/ job' = [job EXCEPT !.pc = "file", !.failed = TRUE]
  PROVE  job' \in JobState /\ job'.pc = "file" /\ job'.cur = job.cur /\ job'.wrote = job.wrote
         /\ (job'.settled <=> job.settled)
  <1>1. "file" \in Building \cup Stopped \cup {"idle", "select", "stop"}
    BY DEF Stopped
  <1>2. CASE job' = [job EXCEPT !.pc = "file", !.noted = b]
    BY <1>1, <1>2 DEF JobState
  <1>3. CASE job' = [job EXCEPT !.pc = "file", !.failed = TRUE]
    BY <1>1, <1>3 DEF JobState
  <1>4. QED
    BY <1>2, <1>3

LEMMA EntryTyped ==
  ASSUME TypeOK
  PROVE  staged_record \in Entry /\ side_record \in Entry
  <1>1. image \in Image \cup {None} /\ bin \in Image \cup {None} /\ rec \in Record \cup {None}
    BY DEF TypeOK
  <1>2. rec # None => rec.image \in Image /\ rec.sha \in Commit /\ rec.version \in Version
    BY <1>1 DEF Record
  <1>3. side_record \in Entry
    BY <1>2 DEF side_record, Entry
  <1>4. staged(accepts[job.cur.flasher]) \in Image \cup {None}
    BY <1>1 DEF staged
  <1>5. staged_record \in Entry
    <2> DEFINE side == IF rec = None \/ rec.dirty \/ rec.image # image THEN None ELSE rec
    <2>1. side = None \/ (side = rec /\ rec # None)
      OBVIOUS
    <2>2. staged_record = [image |-> staged(accepts[job.cur.flasher]),
                           sha |-> IF side = None THEN None ELSE side.sha,
                           version |-> IF side = None THEN None ELSE side.version]
      BY DEF staged_record
    <2> HIDE DEF side
    <2>3. QED
      BY <1>2, <1>4, <2>1, <2>2 DEF Entry
  <1>6. QED
    BY <1>3, <1>5

LEMMA FileTyped ==
  ASSUME TInv, Note \/ File \/ FileFails \/ WriteFails
  PROVE  TInv'
  <1>0. TypeOK /\ job \in JobState
    BY DEF TInv, TypeOK
  <1>1. CASE Note
    <2>1. job.pc = "note" /\ ~cmake /\ job.cur \in Detail /\ job.wrote # None /\ image # None
      BY <1>1 DEF Note, At, TInv, Shape
    <2>2. rec' \in Record \cup {None} /\ flick' \in BOOLEAN
      <3>1. source_state \in State
        BY <1>0, TreeTyped DEF TypeOK
      <3>2. noted_record \in Record
        BY <1>0, <2>1, <3>1, RecordTyped DEF noted_record
      <3>3. QED
        BY <1>0, <1>1, <3>2 DEF Note, TypeOK
    <2>3. \/ job' = [job EXCEPT !.pc = "file", !.noted = image = app[job.wrote]]
          \/ job' = [job EXCEPT !.pc = "file", !.failed = TRUE]
      BY <1>1 DEF Note
    <2>4. job' \in JobState /\ job'.pc = "file" /\ job'.cur = job.cur /\ job'.wrote = job.wrote
          /\ (job'.settled <=> job.settled)
      <3>1. (image = app[job.wrote]) \in BOOLEAN
        OBVIOUS
      <3>2. QED
        BY <1>0, <2>3, <3>1, NotedTyped
    <2>5. TypeOK'
      BY <1>0, <1>1, <2>2, <2>4 DEF Note, TypeOK, source, devices, log, cmake
    <2>6. Shape'
      BY <1>1, <2>1, <2>4 DEF Note, Shape, Building, cmake
    <2>7. QED
      BY <2>5, <2>6 DEF TInv
  <1>2. CASE File
    <2>1. job' \in JobState /\ Shape'
      BY <1>2, NextTyped DEF File, At
    <2>1a. job.cur \in Detail
      BY <1>2 DEF File, At, TInv, Shape
    <2>2. ledger' \in [Device -> Entry \cup {None}] /\ sound' \subseteq Device
      BY <1>0, <1>2, <2>1a, EntryTyped DEF File, TypeOK, log, Detail
    <2>3. TypeOK'
      BY <1>0, <1>2, <2>1, <2>2 DEF File, TypeOK, source, staging, devices, cmake
    <2>4. QED
      BY <2>1, <2>3 DEF TInv
  <1>3. CASE FileFails
    BY <1>3, NextTyped, JobTyped DEF FileFails, At, TInv
  <1>4. CASE WriteFails
    <2>1. job' \in JobState /\ Shape'
      BY <1>4, NextTyped DEF WriteFails, At
    <2>2. /\ app' \in [Device -> Image \cup {None}] /\ sound' \subseteq Device
          /\ image' \in Image \cup {None}
      BY <1>4, CutWriteTyped DEF WriteFails
    <2>3. TypeOK'
      BY <1>0, <1>4, <2>1, <2>2 DEF WriteFails, TypeOK, source, cmake
    <2>4. QED
      BY <2>1, <2>3 DEF TInv
  <1>5. QED
    BY <1>1, <1>2, <1>3, <1>4

LEMMA EventTyped ==
  ASSUME TypeOK, NEW k, Event(k)
  PROVE  events' \in 0..MaxEvents
  BY BuildersAssumption DEF TypeOK, Event

\* What an event from outside leaves of a job.
LEMMA EventJobTyped ==
  ASSUME TInv, UNCHANGED <<type, build>>, image # None => image' # None,
         NEW also \in SUBSET Content, job' \in {Disturbed, Moved(also)}
  PROVE  job' \in JobState /\ Shape'
  <1>1. job \in JobState
    BY DEF TInv, TypeOK
  <1>2. Disturbed \in JobState /\ Moved(also) \in JobState
    BY <1>1, DisturbedIs, MovedIs
  <1>3. \/ job' = Idle
        \/ job' = [job EXCEPT !.calm = FALSE]
        \/ job' = [job EXCEPT !.calm = FALSE, !.moved = TRUE, !.from = @ \cup also]
    BY <1>1, DisturbedIs, MovedIs
  <1>4. CASE job' = Idle
    BY <1>2, <1>4 DEF Idle, Shape, Building
  <1>5. CASE job' # Idle
    <2>1. /\ job'.pc = job.pc /\ job'.target = job.target /\ job'.state = job.state
          /\ job'.map = job.map /\ job'.cur = job.cur /\ job'.wrote = job.wrote
          /\ (job'.settled <=> job.settled)
      BY <1>1, <1>3, <1>5 DEF JobState
    <2>2. Shape'
      BY <2>1 DEF TInv, Shape, cmake
    <2>3. QED
      BY <1>2, <2>2
  <1>6. QED
    BY <1>4, <1>5

LEMMA TreeMovesTyped ==
  ASSUME TInv, Saved \/ Pull
  PROVE  \E t \in [head : Commit, edit : BOOLEAN, sub : BOOLEAN] : TreeMoves(t)
  <1>0. tree \in [head : Commit, edit : BOOLEAN, sub : BOOLEAN]
    BY DEF TInv, TypeOK
  <1>1. CASE Saved
    <2>1. [tree EXCEPT !.edit = ~@] \in [head : Commit, edit : BOOLEAN, sub : BOOLEAN]
      BY <1>0
    <2>2. QED
      BY <1>1, <2>1 DEF Saved
  <1>2. CASE Pull
    <2>1. PICK h \in Commit : TreeMoves([tree EXCEPT !.head = h, !.sub = ~(Submodules /\ cmake)])
      BY <1>2 DEF Pull
    <2>2. [tree EXCEPT !.head = h, !.sub = ~(Submodules /\ cmake)] \in [head : Commit, edit : BOOLEAN, sub : BOOLEAN]
      BY <1>0
    <2>3. QED
      BY <2>1, <2>2
  <1>3. QED
    BY <1>1, <1>2

\* An event ends nothing and moves the job nowhere: it marks it.
LEMMA EventLeaves ==
  ASSUME TInv, Saved \/ Pull \/ Retarget \/ HandStage \/ Toggle
               \/ \E d \in type.devices : HandFlash(d) \/ Move(d)
  PROVE  \/ job'.pc = "idle" /\ job'.op = "none" /\ ~job'.noted /\ job'.wrote = None /\ job'.cur = None
         \/ /\ ~job'.calm /\ job'.pc = job.pc /\ job'.op = job.op /\ job'.todo = job.todo
            /\ job'.cur = job.cur /\ job'.wrote = job.wrote /\ job'.noted = job.noted
            /\ job.pc # "idle"
  <1>0. job \in JobState /\ {} \in SUBSET Content
    BY DEF TInv, TypeOK
  <1>1. \/ job' = [Disturbed EXCEPT !.settled = FALSE] \/ job' = Disturbed
        \/ \E also \in SUBSET Content : job' = Moved(also)
    <2>1. CASE Saved \/ Pull
      <3>1. PICK t \in [head : Commit, edit : BOOLEAN, sub : BOOLEAN] : TreeMoves(t)
        BY <2>1, TreeMovesTyped
      <3>2. content_of(t) \in Content
        BY BuildersAssumption DEF content_of, Content, sha
      <3>3. QED
        BY <3>1, <3>2 DEF TreeMoves
    <2>2. CASE ~(Saved \/ Pull)
      BY <1>0, <2>2 DEF Retarget, HandStage, Toggle, HandFlash, Move
    <2>3. QED
      BY <2>1, <2>2
  <1>2. \/ job.pc = "idle" /\ job' \in {Idle, [Idle EXCEPT !.settled = FALSE]}
        \/ job.pc # "idle" /\ job' \in {[job EXCEPT !.calm = FALSE], [[job EXCEPT !.calm = FALSE] EXCEPT !.settled = FALSE]}
        \/ job.pc # "idle" /\ \E also \in SUBSET Content :
               job' = [job EXCEPT !.calm = FALSE, !.moved = TRUE, !.from = @ \cup also]
    <2>1. CASE \E also \in SUBSET Content : job' = Moved(also)
      BY <1>0, <2>1, MovedIs DEF Building
    <2>2. CASE job' = [Disturbed EXCEPT !.settled = FALSE] \/ job' = Disturbed
      BY <1>0, <2>2, DisturbedIs
    <2>3. QED
      BY <1>1, <2>1, <2>2
  <1>3. CASE job.pc = "idle"
    BY <1>2, <1>3 DEF Idle
  <1>4. CASE job.pc # "idle"
    BY <1>0, <1>2, <1>4 DEF JobState
  <1>5. QED
    BY <1>3, <1>4

LEMMA OutsideTyped ==
  ASSUME TInv, clean_build_dir \/ Saved \/ Pull \/ Retarget \/ HandStage \/ Toggle \/ Crash
               \/ \E d \in type.devices : HandFlash(d) \/ Move(d)
  PROVE  TInv'
  <1>0. TypeOK /\ job \in JobState /\ image \in Image \cup {None} /\ bin \in Image \cup {None}
        /\ tree \in [head : Commit, edit : BOOLEAN, sub : BOOLEAN]
    BY DEF TInv, TypeOK
  <1>e. {} \in SUBSET Content
    OBVIOUS
  <1>f. foreign \in Image /\ foreign # None /\ rebuilt \in Image /\ rebuilt # None
    <2>1. foreign \in Image
      BY DEF foreign, Image
    <2>2. QED
      BY <2>1, ImagesTyped, BuildersAssumption
  <1>1. CASE clean_build_dir
    <2>1. build' \in BuildDir
      BY <1>1 DEF clean_build_dir, EmptyDir, BuildDir
    <2>2. TypeOK'
      BY <1>0, <1>1, <2>1 DEF clean_build_dir, TypeOK, staging, devices, log, cmake
    <2>3. Shape'
      BY <1>1 DEF clean_build_dir, TInv, Shape, Building, cmake, At, staging
    <2>4. QED
      BY <2>2, <2>3 DEF TInv
  <1>2. ASSUME NEW t \in [head : Commit, edit : BOOLEAN, sub : BOOLEAN], NEW k, Event(k), TreeMoves(t)
        PROVE  TInv'
    <2>1. content_of(t) \in Content
      BY BuildersAssumption DEF content_of, Content, sha
    <2> DEFINE also == IF At("link") THEN {content_of(t)} ELSE {}
    <2>2. also \in SUBSET Content
      BY <2>1
    <2>3. job' = Moved(also)
      BY <1>2 DEF TreeMoves
    <2> HIDE DEF also
    <2>4. job' \in JobState /\ Shape'
      BY <1>2, <2>2, <2>3, EventJobTyped DEF TreeMoves, staging
    <2>5. TypeOK'
      BY <1>0, <1>2, <2>4, EventTyped DEF TreeMoves, TypeOK, staging, devices, log, cmake
    <2>6. QED
      BY <2>4, <2>5 DEF TInv
  <1>3. CASE Saved \/ Pull
    <2>1. \E t \in [head : Commit, edit : BOOLEAN, sub : BOOLEAN] : TreeMoves(t)
      BY <1>3, TreeMovesTyped
    <2>2. \E k : Event(k)
      BY <1>3 DEF Saved, Pull
    <2>3. QED
      BY <1>2, <2>1, <2>2
  <1>5. CASE Retarget
    <2>1. job' \in JobState /\ Shape'
      BY <1>e, <1>5, EventJobTyped DEF Retarget, staging
    <2>2. TypeOK'
      BY <1>0, <1>5, <2>1, EventTyped DEF Retarget, TypeOK, staging, devices, log, cmake
    <2>3. QED
      BY <2>1, <2>2 DEF TInv
  <1>6. CASE HandStage
    <2>1. image' \in Image \cup {None} /\ bin' \in Image \cup {None} /\ (image # None => image' # None)
      BY <1>0, <1>f, <1>6 DEF HandStage
    <2>2. job' \in JobState /\ Shape'
      BY <1>e, <1>6, <2>1, EventJobTyped DEF HandStage, source
    <2>3. TypeOK'
      BY <1>0, <1>6, <2>1, <2>2, EventTyped DEF HandStage, TypeOK, source, devices, log, cmake
    <2>4. QED
      BY <2>2, <2>3 DEF TInv
  <1>7. CASE Toggle
    <2>1. job' \in JobState /\ Shape'
      BY <1>e, <1>7, EventJobTyped DEF Toggle, staging, source
    <2>2. klipper' \in BOOLEAN
      BY <1>0, <1>7 DEF Toggle
    <2>3. TypeOK'
      BY <1>0, <1>7, <2>1, <2>2, EventTyped DEF Toggle, TypeOK, staging, source, log, cmake
    <2>4. QED
      BY <2>1, <2>3 DEF TInv
  <1>8. CASE Crash
    <2>1. job' \in JobState /\ Shape'
      BY <1>8 DEF Crash, Idle, JobState, Shape, Building
    <2>2. /\ app' \in [Device -> Image \cup {None}] /\ sound' \subseteq Device
          /\ image' \in Image \cup {None} /\ bin' \in Image \cup {None}
      BY <1>0, <1>8, CutTyped, CutWriteTyped DEF Crash, TypeOK
    <2>3. TypeOK'
      BY <1>0, <1>8, <2>1, <2>2, EventTyped DEF Crash, TypeOK, source, cmake
    <2>4. QED
      BY <2>1, <2>3 DEF TInv
  <1>9. ASSUME NEW d \in type.devices, HandFlash(d)
        PROVE  TInv'
    <2>1. d \in Device
      BY <1>0, TypeTyped
    <2>2. app' \in [Device -> Image \cup {None}] /\ sound' \subseteq Device
      BY <1>9, <1>f, <2>1, WroteTyped DEF HandFlash
    <2>3. job' \in JobState /\ Shape'
      BY <1>e, <1>9, EventJobTyped DEF HandFlash, staging, source
    <2>4. TypeOK'
      BY <1>0, <1>9, <2>2, <2>3, EventTyped DEF HandFlash, TypeOK, source, staging, cmake
    <2>5. QED
      BY <2>3, <2>4 DEF TInv
  <1>10. ASSUME NEW d \in type.devices, Move(d)
         PROVE  TInv'
    <2>1. where' \in [Device -> Port \cup {None}]
      <3>1. PICK p \in (IF cmake THEN {Home[d]} ELSE Port) \cup {None} :
               where' = [e \in Device |-> IF e = d THEN p ELSE IF where[e] = p THEN None ELSE where[e]]
        BY <1>10 DEF Move
      <3>2. p \in Port \cup {None}
        BY <1>0, TypeTyped, BuildersAssumption
      <3>3. QED
        BY <1>0, <3>1, <3>2 DEF TypeOK
    <2>2. Disturbed \in JobState
      BY <1>0, DisturbedIs
    <2>3. job' = [Disturbed EXCEPT !.settled = FALSE]
      BY <1>10 DEF Move
    <2>4. job' \in JobState /\ ~job'.settled
      BY <2>2, <2>3 DEF JobState
    <2>5. Shape'
      <3>1. Disturbed = Idle \/ Disturbed = [job EXCEPT !.calm = FALSE]
        BY <1>0, DisturbedIs
      <3>2. \/ job'.pc = "idle" /\ job'.wrote = None
            \/ /\ job'.pc = job.pc /\ job'.target = job.target /\ job'.state = job.state
               /\ job'.map = job.map /\ job'.cur = job.cur /\ job'.wrote = job.wrote
        BY <1>0, <2>3, <3>1 DEF JobState, Idle
      <3>3. QED
        BY <1>10, <2>4, <3>2 DEF Move, TInv, Shape, Building, cmake, source, staging
    <2>6. TypeOK'
      BY <1>0, <1>10, <2>1, <2>4, EventTyped DEF Move, TypeOK, source, staging, log, cmake
    <2>7. QED
      BY <2>5, <2>6 DEF TInv
  <1>11. QED
    BY <1>1, <1>3, <1>5, <1>6, <1>7, <1>8, <1>9, <1>10

LEMMA StepTyped ==
  ASSUME TInv, [Next]_vars
  PROVE  TInv'
  <1>1. CASE UNCHANGED vars
    BY <1>1 DEF vars, source, staging, devices, log, TInv, TypeOK, Shape, cmake
  <1>2. CASE Next
    BY <1>2, StartTyped, ChooseTyped, BuildTyped, WriteTyped, FileTyped, OutsideTyped DEF Next
  <1>3. QED
    BY <1>1, <1>2

-----------------------------------------------------------------------------
(* Who is written *)

\* What a step does with the last listen: forgets it, keeps it for the same
\* device or the next, takes it, or writes by it.
Forgets == ~job'.settled
Keeps ==
    /\ UNCHANGED <<type, where>>
    /\ job'.heard = job.heard /\ job'.settled = job.settled
    /\ \/ job'.cur = job.cur /\ job'.wrote = job.wrote
       \/ job'.wrote = None

LEMMA EventKeeps ==
  ASSUME job \in JobState, UNCHANGED <<type, where>>, NEW also \in SUBSET Content,
         job' \in {Disturbed, Moved(also)}
  PROVE  Forgets \/ Keeps
  <1>1. \/ job' = Idle
        \/ job' = [job EXCEPT !.calm = FALSE]
        \/ job' = [job EXCEPT !.calm = FALSE, !.moved = TRUE, !.from = @ \cup also]
    BY DisturbedIs, MovedIs
  <1>2. CASE job' = Idle
    BY <1>2 DEF Idle, Forgets
  <1>3. CASE job' # Idle
    BY <1>1, <1>3 DEF JobState, Keeps
  <1>4. QED
    BY <1>2, <1>3

LEMMA HeardMoves ==
  ASSUME TInv, Next
  PROVE  \/ Forgets \/ Keeps \/ Listen \/ Upload
         \/ \E d \in type.devices : Move(d)
  <1>0. job \in JobState /\ {} \in SUBSET Content
    BY DEF TInv, TypeOK
  <1>1. CASE build_type \/ build_all \/ update_all
    BY <1>1, StartTyped DEF Forgets
  <1>2. CASE Select \/ flash_all \/ \E s \in type.devices : flash(s)
    BY <1>2, ChooseTyped DEF Forgets
  <1>3. CASE Sample \/ Configure \/ LinkCmake \/ LinkPio \/ Stage \/ StageBin \/ RecordBuild \/ BuildFails
    BY <1>3, BuildTyped DEF Forgets
  <1>4. CASE Stop
    <2>1. job' = [job EXCEPT !.pc = "listen", !.map = where] /\ ~job.settled
      BY <1>4 DEF Stop, At, TInv, Shape
    <2>2. QED
      BY <1>0, <2>1 DEF Forgets, JobState
  <1>5. CASE WriteCmake
    <2>1. TInv' /\ UNCHANGED type /\ cmake
      BY <1>5, WriteTyped DEF WriteCmake
    <2>2. QED
      BY <2>1 DEF Forgets, TInv, Shape, cmake
  <1>6. CASE Note
    <2>1. \/ job' = [job EXCEPT !.pc = "file", !.noted = image = app[job.wrote]]
          \/ job' = [job EXCEPT !.pc = "file", !.failed = TRUE]
      BY <1>6 DEF Note
    <2>2. job'.heard = job.heard /\ job'.settled = job.settled /\ job'.cur = job.cur /\ job'.wrote = job.wrote
      BY <1>0, <2>1 DEF JobState
    <2>3. QED
      BY <1>6, <2>2 DEF Keeps, Note, devices
  <1>7. CASE File \/ FileFails \/ WriteFails
    <2>1. UNCHANGED <<type, where>> /\ \E f \in BOOLEAN : job' = Next_(f)
      BY <1>7 DEF File, FileFails, WriteFails, devices
    <2>2. QED
      BY <1>0, <2>1, NextIs DEF Forgets, Keeps
  <1>8. CASE clean_build_dir
    BY <1>8 DEF clean_build_dir, devices, Keeps
  <1>9. CASE Saved \/ Pull
    <2>1. \E t \in [head : Commit, edit : BOOLEAN, sub : BOOLEAN] : TreeMoves(t)
      BY <1>9, TreeMovesTyped
    <2>2. PICK t \in [head : Commit, edit : BOOLEAN, sub : BOOLEAN] : TreeMoves(t)
      BY <2>1
    <2>3. content_of(t) \in Content
      BY BuildersAssumption DEF content_of, Content, sha
    <2>4. QED
      BY <1>0, <2>2, <2>3, EventKeeps DEF TreeMoves, devices
  <1>10. CASE Retarget \/ HandStage \/ Toggle \/ \E d \in type.devices : HandFlash(d)
    BY <1>0, <1>10, EventKeeps DEF Retarget, HandStage, Toggle, HandFlash, devices
  <1>11. CASE Crash
    BY <1>11 DEF Crash, Idle, Forgets
  <1>12. QED
    BY <1>1, <1>2, <1>3, <1>4, <1>5, <1>6, <1>7, <1>8, <1>9, <1>10, <1>11 DEF Next

LEMMA SeatsKept ==
  ASSUME TInv, Seats, Next
  PROVE  Seats'
  <1>1. CASE \E d \in type.devices : Move(d)
    <2>0. PICK d \in type.devices : Move(d)
      BY <1>1
    <2>1. PICK p \in (IF cmake THEN {Home[d]} ELSE Port) \cup {None} :
             where' = [e \in Device |-> IF e = d THEN p ELSE IF where[e] = p THEN None ELSE where[e]]
      BY <2>0 DEF Move
    <2>2. QED
      BY <2>1 DEF Seats
  <1>2. CASE ~\E d \in type.devices : Move(d)
    <2>1. UNCHANGED where
      BY <1>2 DEF Next, build_type, build_all, update_all, flash_all, Sample, Configure, LinkCmake, LinkPio,
                  Stage, StageBin, RecordBuild, BuildFails, clean_build_dir, Select, flash, Stop, Listen,
                  WriteCmake, Upload, Note, File, FileFails, WriteFails, Saved, Pull, TreeMoves, Retarget,
                  HandStage, Toggle, Crash, HandFlash, devices
    <2>2. QED
      BY <2>1 DEF Seats
  <1>3. QED
    BY <1>1, <1>2

LEMMA StepHeard ==
  ASSUME AInv, [Next]_vars
  PROVE  AInv'
  <1>0. TInv /\ TInv' /\ job \in JobState
    BY StepTyped DEF AInv, TInv, TypeOK
  <1>1. CASE UNCHANGED vars
    BY <1>0, <1>1 DEF AInv, Seats, HeardStands, WroteStands, occupants, port_for, vars, devices, cmake
  <1>2. CASE Next
    <2>1. Seats'
      BY <1>0, <1>2, SeatsKept DEF AInv
    <2>2. CASE Forgets \/ \E d \in type.devices : Move(d)
      <3>1. ~job'.settled
        <4>1. CASE \E d \in type.devices : Move(d)
          <5>1. job' = [Disturbed EXCEPT !.settled = FALSE] /\ Disturbed \in JobState
            BY <1>0, <4>1, DisturbedIs DEF Move
          <5>2. QED
            BY <5>1 DEF JobState
        <4>2. QED
          BY <2>2, <4>1 DEF Forgets
      <3>2. QED
        BY <1>0, <2>1, <3>1 DEF AInv, HeardStands, WroteStands
    <2>3. CASE Keeps
      <3>1. HeardStands'
        BY <2>3 DEF Keeps, AInv, HeardStands, cmake
      <3>2. WroteStands'
        BY <2>3 DEF Keeps, AInv, WroteStands, cmake, occupants, port_for
      <3>3. QED
        BY <1>0, <2>1, <3>1, <3>2 DEF AInv
    <2>4. CASE Listen
      <3>1. PICK S \in identify, t \in job.todo :
                job' = [job EXCEPT !.pc = "write", !.heard = S, !.settled = TRUE, !.cur = t]
        BY <2>4 DEF Listen
      <3>2. job.map \in [Device -> Port \cup {None}] /\ job.wrote = None
        BY <1>0, <2>4 DEF Listen, At, TInv, Shape
      <3>3. job'.heard = S /\ job'.wrote = None
        BY <1>0, <3>1, <3>2 DEF JobState
      <3>4. UNCHANGED <<type, where>>
        BY <2>4 DEF Listen, devices
      <3>5. (\A h \in S : ~h.answered) \/ (\A h \in S : where[h.id] = h.port /\ h.port # None)
        BY <1>0, <3>1, <3>2, HeardTyped
      <3>6. QED
        BY <1>0, <2>1, <3>3, <3>4, <3>5 DEF AInv, HeardStands, WroteStands
    <2>5. CASE Upload
      <3>1. PICK d \in occupants(port_for(job.cur)) : job' = [job EXCEPT !.pc = "note", !.wrote = d]
        BY <2>5 DEF Upload
      <3>2. job'.heard = job.heard /\ job'.cur = job.cur /\ job'.wrote = d /\ job'.settled = job.settled
        BY <1>0, <3>1 DEF JobState
      <3>3. UNCHANGED <<type, where>>
        BY <2>5 DEF Upload
      <3>4. HeardStands'
        BY <3>2, <3>3 DEF AInv, HeardStands, cmake
      <3>5. WroteStands'
        BY <3>1, <3>2, <3>3 DEF WroteStands, cmake, occupants, port_for
      <3>6. QED
        BY <1>0, <2>1, <3>4, <3>5 DEF AInv
    <2>6. QED
      BY <1>0, <1>2, <2>2, <2>3, <2>4, <2>5, HeardMoves
  <1>3. QED
    BY <1>1, <1>2

LEMMA HeardReached ==
  ASSUME AInv
  PROVE  WritesWhoAnswered
  <1> SUFFICES ASSUME ~cmake, job.wrote # None, job.settled, job.cur.id # None, \E h \in job.heard : h.answered
               PROVE  job.cur.id = job.wrote
    BY DEF WritesWhoAnswered
  <1>1. job.wrote \in occupants(port_for(job.cur))
    BY DEF AInv, WroteStands
  <1>2. \A h \in job.heard : where[h.id] = h.port /\ h.port # None
    BY DEF AInv, HeardStands
  <1>3. job.heard \in SUBSET Heard
    BY DEF AInv, TInv, TypeOK, JobState
  <1>4. TypeOK
    BY DEF AInv, TInv
  <1>5. job.wrote \in Device /\ where[job.wrote] = port_for(job.cur) /\ port_for(job.cur) # None
    BY <1>1, <1>4, OccupantsTyped
  <1> DEFINE found == {h \in job.heard : h.id = job.cur.id}
  <1>6. port_for(job.cur) = IF found = {} THEN None ELSE (CHOOSE h \in found : TRUE).port
    BY DEF port_for
  <1>7. PICK h \in found : port_for(job.cur) = h.port
    BY <1>5, <1>6
  <1>8. where[h.id] = where[job.wrote] /\ where[h.id] # None /\ h.id \in Device /\ h.id = job.cur.id
    BY <1>2, <1>3, <1>5, <1>7 DEF Heard
  <1>9. QED
    BY <1>5, <1>8 DEF AInv, Seats

\* Every variable keeps its shape: in particular a job at each point has the
\* sample, target, device and port that its code reads there.
THEOREM TypeCorrect == Spec => []TypeOK
  <1>1. Init => AInv
    BY InitTyped
  <1>2. AInv /\ [Next]_vars => AInv'
    BY StepHeard
  <1>3. AInv => TypeOK
    BY DEF AInv, TInv
  <1>4. QED
    BY <1>1, <1>2, <1>3, PTL DEF Spec

\* The device a PlatformIO upload writes (platformio.py, port_for) is the one that
\* answered under its id, if devices were asked, some answered, and none has moved.
THEOREM TheAnsweredIsWritten == Spec => []WritesWhoAnswered
  <1>1. Init => AInv
    BY InitTyped
  <1>2. AInv /\ [Next]_vars => AInv'
    BY StepHeard
  <1>3. AInv => WritesWhoAnswered
    BY HeardReached
  <1>4. QED
    BY <1>1, <1>2, <1>3, PTL DEF Spec

-----------------------------------------------------------------------------
(* What the record says *)

LEMMA CleanContent ==
  ASSUME tree \in [head : Commit, edit : BOOLEAN, sub : BOOLEAN], ~dirty
  PROVE  content = Clean(sha(tree.head)) /\ ~source_state.version.dirty /\ ~source_state.dirty
  <1>1. tree.edit = FALSE /\ tree.sub = TRUE /\ dirty = FALSE
    BY DEF dirty
  <1>2. QED
    BY <1>1 DEF content, content_of, Clean, source_state

LEMMA ElsewhereKept ==
  ASSUME DirTrue, UNCHANGED <<type, build>>, job'.pc \notin Building
  PROVE  DirTrue' /\ Unmoved'
  BY DEF DirTrue, Unmoved, Building

LEMMA RecordKept ==
  ASSUME RecordTrue, UNCHANGED <<type, rec, flick>>
  PROVE  RecordTrue'
  BY DEF RecordTrue, Clean, cmake, expand_args

LEMMA StartBuilds ==
  ASSUME BInv, TInv', build_type \/ build_all \/ update_all
  PROVE  DirTrue' /\ Unmoved' /\ RecordTrue'
  <1>1. UNCHANGED <<type, source, staging, devices, log, events>>
    BY DEF build_type, build_all, update_all
  <1>2. \/ \E o \in {"build", "update"} : job' = BuildFrom(Asked(o))
        \/ job' = [Idle EXCEPT !.op = "update", !.pc = "select", !.failed = source_problem]
    BY DEF build_type, build_all, update_all
  <1>3. RecordTrue'
    BY <1>1, RecordKept DEF BInv, staging
  <1>4. TypeOK
    BY DEF BInv, AInv, TInv
  <1>5. CASE \E o \in {"build", "update"} : job' = BuildFrom(Asked(o))
    <2>1. PICK o \in {"build", "update"} : job' = BuildFrom(Asked(o))
      BY <1>5
    <2>2. job' = IF cmake THEN [Idle EXCEPT !.op = o, !.target = target, !.pc = "sample"]
                 ELSE [Idle EXCEPT !.op = o, !.target = None, !.pc = "link", !.from = {content}]
      BY <1>4, <2>1, BuildFromIs
    <2>3. (cmake /\ job'.pc = "sample") \/ (~cmake /\ job'.pc = "link" /\ job'.from = {content})
      BY <2>2 DEF Idle
    <2>4. DirTrue'
      BY <1>1, <2>3 DEF BInv, DirTrue, source
    <2>5. Unmoved'
      BY <1>1, <2>3 DEF Unmoved, source, cmake, content, content_of, sha, Compiling
    <2>6. QED
      BY <1>3, <2>4, <2>5
  <1>6. CASE job' = [Idle EXCEPT !.op = "update", !.pc = "select", !.failed = source_problem]
    <2>1. job'.pc \notin Building
      BY <1>6 DEF Idle, Building
    <2>2. QED
      BY <1>1, <1>3, <2>1, ElsewhereKept DEF BInv, source
  <1>7. QED
    BY <1>2, <1>5, <1>6

LEMMA StepBuilds ==
  ASSUME BInv, TInv', Sample \/ Configure \/ LinkCmake \/ LinkPio \/ Stage \/ StageBin \/ RecordBuild \/ BuildFails
  PROVE  DirTrue' /\ Unmoved' /\ RecordTrue'
  <1>0. /\ TypeOK /\ job \in JobState /\ build \in BuildDir /\ DirTrue /\ Unmoved /\ RecordTrue /\ TInv
        /\ tree \in [head : Commit, edit : BOOLEAN, sub : BOOLEAN]
    BY DEF BInv, AInv, TInv, TypeOK
  <1>1. CASE Sample
    <2>1. job' = [job EXCEPT !.pc = "configure", !.state = source_state', !.moved = FALSE]
          /\ UNCHANGED <<type, build, rec, flick>> /\ cmake
      BY <1>0, <1>1 DEF Sample, At, staging, TInv, Shape
    <2>2. job'.pc = "configure" /\ job'.state = source_state'
      BY <1>0, <2>1 DEF JobState
    <2>3. DirTrue'
      BY <1>0, <2>1, <2>2 DEF DirTrue
    <2>4. Unmoved'
      BY <2>2 DEF Unmoved, Compiling
    <2>5. QED
      BY <1>0, <2>1, <2>3, <2>4, RecordKept
  <1>2. CASE Configure
    <2>1. /\ job' = [job EXCEPT !.pc = "link", !.from = {content}] /\ job.pc = "configure" /\ cmake
          /\ UNCHANGED <<type, target, tree, rec, flick>>
          /\ build' = IF needs_configure \/ Args
                      THEN [build EXCEPT !.configured = TRUE, !.list = Declares[tree.head],
                                         !.version = expand_args(job.state)]
                      ELSE build
      BY <1>0, <1>2 DEF Configure, At, staging, TInv, Shape
    <2>2. job'.pc = "link" /\ job'.state = job.state /\ job'.from = {content} /\ job'.moved = job.moved
      BY <1>0, <2>1 DEF JobState
    <2>3. build'.elf = build.elf /\ build'.bin = build.bin /\ build'.fresh = build.fresh
          /\ build'.version = IF needs_configure \/ Args THEN expand_args(job.state) ELSE build.version
      BY <1>0, <2>1 DEF BuildDir
    <2>4. DirTrue'
      BY <1>0, <2>2, <2>3 DEF DirTrue, expand_args
    <2>5. build'.version = expand_args(job.state)
      BY <1>0, <2>3 DEF DirTrue, expand_args
    <2>6. Unmoved'
      <3>1. content' = content /\ source_state' = source_state
        BY <2>1 DEF content, content_of, source_state, sha, dirty, cmake
      <3>2. job'.pc = "link" /\ ~job'.moved => job'.state = source_state' /\ job'.from = {content'} /\ build'.version = expand_args(source_state')
        BY <1>0, <2>1, <2>2, <2>5, <3>1 DEF Unmoved, Building
      <3>3. QED
        BY <2>1, <2>2, <3>2 DEF Unmoved, cmake, expand_args
    <2>7. QED
      BY <1>0, <2>1, <2>4, <2>6, RecordKept
  <1>3. CASE LinkCmake
    <2> DEFINE b == [build EXCEPT !.list = Declares[tree.head]]
               c == [b EXCEPT !.elf[job.target] = compiled,
                              !.bin[job.target] = IF tree.head \in WithBin THEN compiled ELSE @,
                              !.fresh[job.target] = tree.head \in WithBin]
    <2>1. /\ cmake /\ job.pc = "link" /\ job.target \in Target /\ UNCHANGED <<type, tree, rec, flick>>
          /\ build' = (IF up_to_date(b.elf[job.target]) \/ job.target \notin b.list THEN b ELSE c)
      BY <1>0, <1>3 DEF LinkCmake, At, TInv, Shape, Building, staging
    <2>2. /\ b.elf = build.elf /\ b.bin = build.bin /\ b.fresh = build.fresh /\ b.version = build.version
          /\ b.list = Declares[tree.head] /\ b \in BuildDir
      BY <1>0, BuildersAssumption DEF BuildDir
    <2>3. compiled = [src |-> job.from, target |-> job.target, whole |-> TRUE, version |-> build.version]
      BY <2>1 DEF compiled
    <2>4. compiled \in Image /\ compiled # None
      BY <1>0, <2>1, ImagesTyped, BuildersAssumption
    <2>5. /\ c.version = build.version
          /\ \A t \in Target : /\ c.elf[t] = IF t = job.target THEN compiled ELSE build.elf[t]
                               /\ c.bin[t] = IF t = job.target /\ tree.head \in WithBin THEN compiled ELSE build.bin[t]
                               /\ c.fresh[t] = IF t = job.target THEN tree.head \in WithBin ELSE build.fresh[t]
      <3> HIDE DEF b
      <3>1. QED
        BY <2>1, <2>2 DEF BuildDir
    <2>6. job'.pc # "link" /\ job.from # {}
      <3>1. job' = [job EXCEPT !.pc = "stage"] \/ job' = AfterBuild(TRUE)
        BY <1>3 DEF LinkCmake, Step
      <3>2. job'.pc \in {"stage", "idle", "select"}
        BY <1>0, <3>1, AfterBuildIs DEF JobState
      <3>3. QED
        BY <1>0, <2>1, <3>2 DEF DirTrue
    <2> HIDE DEF b, c
    <2>7. DirTrue'
      <3>1. CASE build' = b
        BY <1>0, <2>2, <2>6, <3>1 DEF DirTrue
      <3>2. CASE build' = c
        <4>1. ASSUME NEW t \in Target
              PROVE  /\ c.elf[t] # None => c.elf[t].whole /\ c.elf[t].target = t /\ c.elf[t].src # {}
                     /\ c.fresh[t] => c.elf[t] # None /\ c.bin[t] = c.elf[t]
          <5>1. CASE t = job.target
            <6>1. compiled.whole /\ compiled.target = t /\ compiled.src # {}
              BY <2>3, <2>6, <5>1
            <6>2. c.elf[t] = compiled /\ (c.fresh[t] => c.bin[t] = compiled)
              BY <2>5, <5>1
            <6>3. QED
              BY <2>4, <6>1, <6>2
          <5>2. CASE t # job.target
            BY <1>0, <2>5, <5>2 DEF DirTrue
          <5>3. QED
            BY <5>1, <5>2
        <4>2. QED
          BY <1>0, <2>5, <2>6, <3>2, <4>1 DEF DirTrue
      <3>3. QED
        BY <2>1, <3>1, <3>2
    <2>8. RecordTrue'
      BY <1>0, <2>1, RecordKept
    <2>9. CASE job.target \notin Declares[tree.head]
      <3>1. job' = AfterBuild(TRUE)
        BY <1>3, <2>9 DEF LinkCmake
      <3>2. job'.pc \notin Building
        BY <1>0, <3>1, AfterBuildIs DEF Building
      <3>3. Unmoved'
        BY <3>2 DEF Unmoved
      <3>4. QED
        BY <2>7, <2>8, <3>3
    <2>10. CASE job.target \in Declares[tree.head]
      <3>1. job' = [job EXCEPT !.pc = "stage"]
        BY <1>3, <2>10 DEF LinkCmake, Step
      <3>2. job'.pc = "stage" /\ job'.state = job.state /\ job'.target = job.target /\ job'.moved = job.moved
        BY <1>0, <3>1 DEF JobState
      <3>3. content' = content /\ source_state' = source_state
        BY <2>1 DEF content, content_of, source_state, sha, dirty, cmake
      <3>4. CASE ~job.moved
        <4>1. job.from = {content} /\ job.state = source_state /\ build.version = expand_args(source_state)
          BY <1>0, <2>1, <3>4 DEF Unmoved, Building, Compiling
        <4>2. build'.version = build.version
          BY <2>1, <2>2, <2>5
        <4>3. build'.elf[job.target] # None /\ build'.elf[job.target].src = {content}
              /\ build'.elf[job.target].version = build.version
          <5>1. CASE up_to_date(b.elf[job.target])
            <6>1. build' = b
              BY <2>1, <5>1
            <6>2. b.elf[job.target] # None /\ b.elf[job.target].src = {content} /\ b.elf[job.target].version = build.version
              BY <2>3, <5>1 DEF up_to_date
            <6>3. QED
              BY <6>1, <6>2
          <5>2. CASE ~up_to_date(b.elf[job.target])
            <6>1. build' = c
              BY <2>1, <2>2, <2>10, <5>2
            <6>2. QED
              BY <2>1, <2>3, <2>4, <2>5, <4>1, <6>1
          <5>3. QED
            BY <5>1, <5>2
        <4>4. build'.version = expand_args(source_state')
          BY <3>3, <4>1, <4>2
        <4>5. Unmoved'
          BY <2>1, <3>2, <3>3, <4>1, <4>2, <4>3, <4>4 DEF Unmoved, cmake, expand_args
        <4>6. QED
          BY <2>7, <2>8, <4>5
      <3>5. CASE job.moved
        BY <2>7, <2>8, <3>2, <3>5 DEF Unmoved
      <3>6. QED
        BY <3>4, <3>5
    <2>11. QED
      BY <2>9, <2>10
  <1>4. CASE LinkPio
    <2>1. ~cmake /\ job.pc = "link" /\ UNCHANGED <<type, tree, build, rec, flick>>
          /\ job' = [job EXCEPT !.pc = "record"] /\ image' = IF up_to_date(image) THEN image ELSE compiled
      BY <1>4 DEF LinkPio, At, Step, source
    <2>2. job'.pc = "record" /\ job'.moved = job.moved
      BY <1>0, <2>1 DEF JobState
    <2>3. content' = content /\ source_state' = source_state
      BY <2>1 DEF content, content_of, source_state, sha, dirty, cmake
    <2>4. compiled = [src |-> job.from, target |-> job.target, whole |-> TRUE, version |-> source_state.version]
      BY <2>1 DEF compiled
    <2>5. ~job.moved => image'.whole /\ image'.src = {content} /\ image'.version = source_state.version
      <3>1. ~job.moved => job.from = {content}
        BY <1>0, <2>1 DEF Unmoved, Building
      <3>2. up_to_date(image) => image.whole /\ image.src = {content} /\ image.version = compiled.version
        BY DEF up_to_date
      <3>3. QED
        BY <2>1, <2>4, <3>1, <3>2
    <2>6. Unmoved'
      BY <2>1, <2>2, <2>3, <2>5 DEF Unmoved, cmake
    <2>7. DirTrue'
      BY <1>0, <2>1, <2>2 DEF DirTrue
    <2>8. QED
      BY <1>0, <2>1, <2>6, <2>7, RecordKept
  <1>5. CASE Stage
    <2>1. cmake /\ job.pc = "stage" /\ UNCHANGED <<type, tree, build, rec, flick>>
          /\ job' = [job EXCEPT !.pc = "stage_bin"] /\ image' = build.elf[job.target]
      BY <1>0, <1>5 DEF Stage, At, Step, source, TInv, Shape
    <2>2. job'.pc = "stage_bin" /\ job'.moved = job.moved /\ job'.state = job.state /\ job'.target = job.target
      BY <1>0, <2>1 DEF JobState
    <2>3. content' = content /\ source_state' = source_state
      BY <2>1 DEF content, content_of, source_state, sha, dirty, cmake
    <2>4. Unmoved'
      BY <1>0, <2>1, <2>2, <2>3 DEF Unmoved, cmake, Building, Compiling, expand_args
    <2>5. DirTrue'
      BY <1>0, <2>1, <2>2 DEF DirTrue
    <2>6. QED
      BY <1>0, <2>1, <2>4, <2>5, RecordKept
  <1>6. CASE StageBin
    <2>1. cmake /\ job.pc = "stage_bin" /\ job.target \in Target /\ UNCHANGED <<type, tree, build, image, rec, flick>>
          /\ job' = [job EXCEPT !.pc = "record"] /\ bin' = fresh_bin(job.target)
      BY <1>0, <1>6 DEF StageBin, At, Step, source, TInv, Shape, Building
    <2>2. job'.pc = "record" /\ job'.moved = job.moved /\ job'.state = job.state /\ job'.target = job.target
      BY <1>0, <2>1 DEF JobState
    <2>3. content' = content /\ source_state' = source_state
      BY <2>1 DEF content, content_of, source_state, sha, dirty, cmake
    <2>4. bin' \in {None, build.elf[job.target]}
      BY <1>0, <2>1 DEF DirTrue, fresh_bin
    <2>5. Unmoved'
      BY <1>0, <2>1, <2>2, <2>3, <2>4 DEF Unmoved, cmake, Building, Compiling, expand_args
    <2>6. DirTrue'
      BY <1>0, <2>1, <2>2 DEF DirTrue
    <2>7. QED
      BY <1>0, <2>1, <2>5, <2>6, RecordKept
  <1>7. CASE RecordBuild
    <2>1. /\ job.pc = "record" /\ UNCHANGED <<type, build>> /\ job' = AfterBuild(FALSE)
          /\ rec' = record_build(IF cmake THEN recorded ELSE source_state)
          /\ flick' = (job.moved /\ (cmake => ~job.state.dirty /\ job.state.sha = source_state.sha))
      BY <1>7 DEF RecordBuild, At, source
    <2>2. job'.pc \notin Building
      BY <1>0, <2>1, AfterBuildIs DEF Building
    <2>3. DirTrue' /\ Unmoved'
      BY <1>0, <2>1, <2>2, ElsewhereKept
    <2>4. RecordTrue'
      <3> SUFFICES ASSUME ~rec'.dirty, ~flick'
                   PROVE  /\ rec'.image.whole /\ rec'.image.src = {Clean(rec'.sha)}
                          /\ ~rec'.version.dirty
                          /\ rec'.image.version = IF cmake THEN expand_args(rec') ELSE rec'.version
                          /\ cmake => rec'.image.target = rec'.target /\ (rec'.bin # None => rec'.bin = rec'.image)
        BY <2>1 DEF RecordTrue, cmake, Clean, expand_args
      <3>1. source_state = [sha |-> sha(tree.head), dirty |-> dirty, version |-> [head |-> tree.head, dirty |-> dirty]]
        BY DEF source_state
      <3>2. CASE cmake
        <4>1. rec' = [sha |-> recorded.sha, version |-> recorded.version, dirty |-> recorded.dirty, image |-> image,
                      target |-> job.target, bin |-> bin]
          BY <2>1, <3>2 DEF record_build
        <4>2. recorded = [sha |-> source_state.sha, version |-> job.state.version,
                          dirty |-> \/ job.state.dirty \/ source_state.dirty \/ job.state.sha # source_state.sha]
          BY DEF recorded
        <4>3. ~job.state.dirty /\ ~source_state.dirty /\ job.state.sha = source_state.sha
          BY <4>1, <4>2
        <4>4. ~job.moved /\ ~dirty
          BY <2>1, <3>1, <4>3
        <4>5. content = Clean(sha(tree.head)) /\ ~source_state.version.dirty
          BY <1>0, <4>4, CleanContent
        <4>6. /\ job.state = source_state /\ build.version = expand_args(source_state)
              /\ image = build.elf[job.target] /\ image # None /\ image.src = {content}
              /\ image.version = build.version /\ bin \in {None, image}
          BY <1>0, <2>1, <3>2, <4>4 DEF Unmoved, Building, Compiling
        <4>7. job.target \in Target
          BY <1>0, <2>1, <3>2 DEF TInv, Shape, Building
        <4>8. image.whole /\ image.target = job.target
          BY <1>0, <4>6, <4>7 DEF DirTrue
        <4>9. rec'.sha = sha(tree.head) /\ rec'.version = source_state.version /\ rec'.image = image
              /\ rec'.target = job.target /\ rec'.bin = bin
          BY <3>1, <4>1, <4>2, <4>6
        <4>10. QED
          BY <3>2, <4>5, <4>6, <4>8, <4>9 DEF expand_args
      <3>3. CASE ~cmake
        <4>1. rec' = [sha |-> source_state.sha, version |-> source_state.version, dirty |-> source_state.dirty,
                      image |-> image, target |-> job.target, bin |-> None]
          BY <2>1, <3>3 DEF record_build
        <4>a. rec'.dirty = dirty
          BY <3>1, <4>1
        <4>b. ~job.moved
          BY <2>1, <3>3
        <4>2. ~dirty /\ ~job.moved
          BY <4>a, <4>b
        <4>3. content = Clean(sha(tree.head)) /\ ~source_state.version.dirty
          BY <1>0, <4>2, CleanContent
        <4>4. image.whole /\ image.src = {content} /\ image.version = source_state.version
          BY <1>0, <2>1, <3>3, <4>2 DEF Unmoved, Building
        <4>5. QED
          BY <3>1, <3>3, <4>1, <4>3, <4>4
      <3>4. QED
        BY <3>2, <3>3
    <2>5. QED
      BY <2>3, <2>4
  <1>8. CASE BuildFails
    <2>1. job' = AfterBuild(TRUE) /\ UNCHANGED <<type, build, rec, flick>>
      BY <1>8 DEF BuildFails, source
    <2>2. job'.pc \notin Building
      BY <1>0, <2>1, AfterBuildIs DEF Building
    <2>3. QED
      BY <1>0, <2>1, <2>2, ElsewhereKept, RecordKept
  <1>9. QED
    BY <1>1, <1>2, <1>3, <1>4, <1>5, <1>6, <1>7, <1>8

LEMMA WriteBuilds ==
  ASSUME BInv, Select \/ flash_all \/ (\E s \in type.devices : flash(s)) \/ Stop \/ Listen
               \/ WriteCmake \/ Upload \/ Note \/ File \/ FileFails \/ WriteFails \/ Crash
  PROVE  DirTrue' /\ Unmoved' /\ RecordTrue'
  <1>0. /\ TypeOK /\ job \in JobState /\ DirTrue /\ RecordTrue /\ TInv
        /\ tree \in [head : Commit, edit : BOOLEAN, sub : BOOLEAN]
    BY DEF BInv, AInv, TInv, TypeOK
  <1>1. UNCHANGED <<type, build>>
    BY DEF Select, flash_all, flash, Stop, Listen, WriteCmake, Upload, Note, File, FileFails, WriteFails, Crash, source
  <1>2. job'.pc \notin Building
    <2>1. CASE Select \/ flash_all \/ \E s \in type.devices : flash(s)
      BY <1>0, <2>1, ChooseTyped DEF Building
    <2>2. CASE Stop
      <3>1. job' = [job EXCEPT !.pc = "listen", !.map = where]
        BY <2>2 DEF Stop
      <3>2. QED
        BY <1>0, <3>1 DEF JobState, Building
    <2>3. CASE Listen
      <3>1. \E S, t : job' = [job EXCEPT !.pc = "write", !.heard = S, !.settled = TRUE, !.cur = t]
        BY <2>3 DEF Listen
      <3>2. QED
        BY <1>0, <3>1 DEF JobState, Building
    <2>4. CASE WriteCmake \/ Upload
      <3>1. \E d : job' = [job EXCEPT !.pc = "file", !.wrote = d] \/ job' = [job EXCEPT !.pc = "note", !.wrote = d]
        BY <2>4 DEF WriteCmake, Upload
      <3>2. QED
        BY <1>0, <3>1 DEF JobState, Building
    <2>5. CASE Note
      <3>1. \/ job' = [job EXCEPT !.pc = "file", !.noted = image = app[job.wrote]]
            \/ job' = [job EXCEPT !.pc = "file", !.failed = TRUE]
        BY <2>5 DEF Note
      <3>2. QED
        BY <1>0, <3>1 DEF JobState, Building
    <2>6. CASE File \/ FileFails \/ WriteFails
      <3>1. \E f \in BOOLEAN : job' = Next_(f)
        BY <2>6 DEF File, FileFails, WriteFails
      <3>2. job'.pc \in {"idle", "write"}
        BY <1>0, <3>1, NextIs
      <3>3. QED
        BY <3>2 DEF Building
    <2>7. CASE Crash
      BY <2>7 DEF Crash, Idle, Building
    <2>8. QED
      BY <2>1, <2>2, <2>3, <2>4, <2>5, <2>6, <2>7
  <1>3. DirTrue' /\ Unmoved'
    BY <1>0, <1>1, <1>2, ElsewhereKept
  <1>4. CASE UNCHANGED <<rec, flick>>
    BY <1>0, <1>1, <1>3, <1>4, RecordKept
  <1>5. CASE ~UNCHANGED <<rec, flick>>
    <2>1. Note /\ rec' = noted_record /\ flick' = (rebuilt # image)
      BY <1>5 DEF Select, flash_all, flash, Stop, Listen, WriteCmake, Upload, Note, File, FileFails, WriteFails, Crash, staging
    <2>2. ~cmake
      BY <1>0, <2>1 DEF Note, At, TInv, Shape
    <2>3. source_state = [sha |-> sha(tree.head), dirty |-> dirty, version |-> [head |-> tree.head, dirty |-> dirty]]
      BY DEF source_state
    <2>4. rec' = [sha |-> source_state.sha, version |-> source_state.version, dirty |-> source_state.dirty,
                  image |-> image, target |-> job.target, bin |-> None]
      BY <2>1, <2>2 DEF noted_record, record_build
    <2>5. rec'.dirty = dirty /\ rec'.sha = sha(tree.head)
      BY <2>3, <2>4
    <2>6. ~flick' => image = rebuilt
      BY <2>1
    <2>7. image = rebuilt => image.src = {content} /\ image.version = source_state.version /\ image.whole
      BY DEF rebuilt
    <2>8. ~rec'.dirty => content = Clean(sha(tree.head)) /\ ~source_state.version.dirty
      BY <1>0, <2>5, CleanContent
    <2>9. RecordTrue'
      BY <1>1, <2>2, <2>4, <2>5, <2>6, <2>7, <2>8 DEF RecordTrue, cmake, Clean
    <2>10. QED
      BY <1>3, <2>9
  <1>6. QED
    BY <1>4, <1>5

\* An event marks a build it could disturb.
LEMMA EventBuilds ==
  ASSUME BInv, clean_build_dir \/ Saved \/ Pull \/ Retarget \/ HandStage \/ Toggle
               \/ \E d \in type.devices : HandFlash(d) \/ Move(d)
  PROVE  DirTrue' /\ Unmoved' /\ RecordTrue'
  <1>0. /\ TypeOK /\ job \in JobState /\ DirTrue /\ Unmoved /\ RecordTrue /\ TInv
    BY DEF BInv, AInv, TInv, TypeOK
  <1>1. RecordTrue'
    <2>1. UNCHANGED <<type, rec, flick>>
      BY DEF clean_build_dir, Saved, Pull, TreeMoves, Retarget, HandStage, Toggle, HandFlash, Move, staging
    <2>2. QED
      BY <1>0, <2>1, RecordKept
  <1>2. CASE clean_build_dir
    <2>1. job.pc = "idle" /\ UNCHANGED job /\ build' = EmptyDir /\ UNCHANGED type
      BY <1>2 DEF clean_build_dir, At
    <2>2. DirTrue'
      BY <2>1 DEF DirTrue, EmptyDir
    <2>3. Unmoved'
      BY <2>1 DEF Unmoved, Building
    <2>4. QED
      BY <1>1, <2>2, <2>3
  <1>3. CASE Saved \/ Pull \/ HandStage
    <2>1. UNCHANGED <<type, build>>
      BY <1>3 DEF Saved, Pull, TreeMoves, HandStage, source
    <2>2. \E also \in SUBSET Content : job' = Moved(also)
      <3>1. CASE Saved \/ Pull
        <4>1. PICK t \in [head : Commit, edit : BOOLEAN, sub : BOOLEAN] : TreeMoves(t)
          BY <1>0, <3>1, TreeMovesTyped
        <4>2. content_of(t) \in Content
          BY BuildersAssumption DEF content_of, Content, sha
        <4>3. QED
          BY <4>1, <4>2 DEF TreeMoves
      <3>2. CASE HandStage
        BY <3>2 DEF HandStage
      <3>3. QED
        BY <1>3, <3>1, <3>2
    <2>3. PICK also \in SUBSET Content : job' = Moved(also)
      BY <2>2
    <2>4. \/ job'.pc \notin Building
          \/ job'.pc = job.pc /\ job'.moved /\ job'.from = job.from \cup also
      <3>1. \/ job.pc = "idle" /\ job' = Idle
            \/ job.pc \notin Building /\ job.pc # "idle" /\ job' = [job EXCEPT !.calm = FALSE]
            \/ job.pc \in Building /\ job' = [job EXCEPT !.calm = FALSE, !.moved = TRUE, !.from = @ \cup also]
        BY <1>0, <2>3, MovedIs
      <3>2. CASE job' = Idle
        BY <3>2 DEF Idle, Building
      <3>3. CASE job.pc \notin Building /\ job' = [job EXCEPT !.calm = FALSE]
        BY <1>0, <3>3 DEF JobState
      <3>4. CASE job' = [job EXCEPT !.calm = FALSE, !.moved = TRUE, !.from = @ \cup also]
        BY <1>0, <3>4 DEF JobState
      <3>5. QED
        BY <3>1, <3>2, <3>3, <3>4
    <2>5. CASE job'.pc \notin Building
      BY <1>0, <1>1, <2>1, <2>5, ElsewhereKept
    <2>6. CASE job'.pc = job.pc /\ job'.moved /\ job'.from = job.from \cup also
      <3>1. DirTrue'
        BY <1>0, <2>1, <2>6 DEF DirTrue
      <3>2. Unmoved'
        BY <2>6 DEF Unmoved
      <3>3. QED
        BY <1>1, <3>1, <3>2
    <2>7. QED
      BY <2>4, <2>5, <2>6
  <1>4. CASE Retarget \/ Toggle \/ \E d \in type.devices : HandFlash(d) \/ Move(d)
    <2>1. UNCHANGED <<type, tree, build, image, bin>>
      BY <1>4 DEF Retarget, Toggle, HandFlash, Move, source, staging
    <2>2. job' = Disturbed \/ job' = [Disturbed EXCEPT !.settled = FALSE]
      BY <1>4 DEF Retarget, Toggle, HandFlash, Move
    <2>3. Disturbed = Idle \/ Disturbed = [job EXCEPT !.calm = FALSE]
      BY <1>0, DisturbedIs
    <2>4. \/ job'.pc \notin Building
          \/ /\ job'.pc = job.pc /\ job'.moved = job.moved /\ job'.from = job.from
             /\ job'.state = job.state /\ job'.target = job.target
      BY <1>0, <2>2, <2>3 DEF JobState, Idle, Building
    <2>5. CASE job'.pc \notin Building
      BY <1>0, <1>1, <2>1, <2>5, ElsewhereKept
    <2>6. CASE /\ job'.pc = job.pc /\ job'.moved = job.moved /\ job'.from = job.from
               /\ job'.state = job.state /\ job'.target = job.target
      <3>1. DirTrue'
        BY <1>0, <2>1, <2>6 DEF DirTrue
      <3>2. content' = content /\ source_state' = source_state
        BY <2>1 DEF content, content_of, source_state, sha, dirty, cmake
      <3>3. Unmoved'
        BY <1>0, <2>1, <2>6, <3>2 DEF Unmoved, cmake, expand_args
      <3>4. QED
        BY <1>1, <3>1, <3>3
    <2>7. QED
      BY <2>4, <2>5, <2>6
  <1>5. QED
    BY <1>2, <1>3, <1>4

LEMMA StepRecord ==
  ASSUME BInv, [Next]_vars
  PROVE  BInv'
  <1>1. AInv'
    BY StepHeard DEF BInv
  <1>2. CASE UNCHANGED vars
    <2>1. DirTrue' /\ RecordTrue'
      BY <1>2, RecordKept DEF BInv, DirTrue, vars, source, staging
    <2>2. content' = content /\ source_state' = source_state
      BY <1>2 DEF content, content_of, source_state, sha, dirty, cmake, vars, source
    <2>3. Unmoved'
      BY <1>2, <2>2 DEF BInv, Unmoved, vars, source, staging, cmake, expand_args
    <2>4. QED
      BY <1>1, <2>1, <2>3 DEF BInv
  <1>3. CASE Next
    <2>1. DirTrue' /\ Unmoved' /\ RecordTrue'
      BY <1>1, <1>3, StartBuilds, StepBuilds, WriteBuilds, EventBuilds DEF Next, AInv
    <2>2. QED
      BY <1>1, <2>1 DEF BInv
  <1>4. QED
    BY <1>2, <1>3

LEMMA RecordReached ==
  ASSUME BInv
  PROVE  CurrentIsBuilt
  <1> SUFFICES ASSUME artifact_status = "current", ~flick
               PROVE  /\ image.whole /\ image.src = {Clean(sha(tree.head))}
                      /\ cmake => image.target = target /\ (bin # None /\ rec.bin # None => bin = image)
    BY DEF CurrentIsBuilt
  <1>1. /\ image # None /\ rec # None /\ rec.image = image /\ ~rec.dirty /\ rec.sha = sha(tree.head)
        /\ cmake => rec.target = target /\ (rec.bin = None \/ bin \in {None, rec.bin})
    BY DEF artifact_status, cmake_artifact_status, pio_artifact_status
  <1>2. QED
    BY <1>1 DEF BInv, RecordTrue

LEMMA InitRecord ==
  ASSUME Init
  PROVE  BInv
  <1>1. AInv
    BY InitTyped
  <1>2. DirTrue /\ Unmoved /\ RecordTrue
    BY DEF Init, EmptyDir, Idle, DirTrue, Unmoved, RecordTrue, Building
  <1>3. QED
    BY <1>1, <1>2 DEF BInv

\* An image that artifact_status (cmake.py, pio.py) calls current was compiled whole
\* from the configured target and from nothing but the commit it is said to be of,
\* unless what moved under its own build is what its record cannot show (`flick').
THEOREM TheCurrentIsBuilt == Spec => []CurrentIsBuilt
  <1>1. Init => BInv
    BY InitRecord
  <1>2. BInv /\ [Next]_vars => BInv'
    BY StepRecord
  <1>3. BInv => CurrentIsBuilt
    BY RecordReached
  <1>4. QED
    BY <1>1, <1>2, <1>3, PTL DEF Spec

-----------------------------------------------------------------------------
(* What the ledger says *)

LEMMA OverUnnoted ==
  ASSUME job \in JobState, NEW f \in BOOLEAN
  PROVE  ~Over(f).noted
  BY OverIs DEF Idle

LEMMA StepUnnoted ==
  ASSUME TInv, Unnoted, Next
  PROVE  Unnoted'
  <1>0. TypeOK /\ job \in JobState
    BY DEF TInv, TypeOK
  <1>1. CASE build_type \/ build_all \/ update_all
    <2>1. \/ \E o \in {"build", "update"} : job' = BuildFrom(Asked(o))
          \/ job' = [Idle EXCEPT !.op = "update", !.pc = "select", !.failed = source_problem]
      BY <1>1 DEF build_type, build_all, update_all
    <2>2. ~job'.noted
      BY <2>1 DEF BuildFrom, Asked, Idle
    <2>3. QED
      BY <2>2 DEF Unnoted
  <1>2. CASE Select \/ flash_all \/ \E s \in type.devices : flash(s)
    <2>1. \E S \in SUBSET type.devices, j \in JobState : ~j.noted /\ job' = Chosen(j, S)
      <3>1. [Idle EXCEPT !.op = "flash"] \in JobState /\ ~[Idle EXCEPT !.op = "flash"].noted
        BY DEF Idle, JobState
      <3>2. to_flash \in SUBSET type.devices /\ \A s \in type.devices : {s} \in SUBSET type.devices
        BY DEF to_flash, listed
      <3>3. CASE Select
        <4>1. ~job.noted /\ job' = Chosen(job, to_flash)
          BY <3>3 DEF Select, At, Unnoted
        <4>2. QED
          BY <1>0, <3>2, <4>1, Zenon
      <3>4. CASE flash_all
        <4>1. job' = Chosen([Idle EXCEPT !.op = "flash"], to_flash)
          BY <3>4 DEF flash_all
        <4>2. QED
          BY <3>1, <3>2, <4>1, Zenon
      <3>5. CASE \E s \in type.devices : flash(s)
        <4>1. PICK s \in type.devices : job' = Chosen([Idle EXCEPT !.op = "flash"], {s})
          BY <3>5 DEF flash, _cmake_flash, _pio_flash
        <4>2. QED
          BY <3>1, <3>2, <4>1, Zenon
      <3>6. QED
        BY <1>2, <3>3, <3>4, <3>5
    <2>2. PICK S \in SUBSET type.devices, j \in JobState : ~j.noted /\ job' = Chosen(j, S)
      BY <2>1
    <2>3. \/ job' = Over(j.failed \/ S # {})
          \/ \E t : job' = [j EXCEPT !.todo = {port_detail(s) : s \in S}, !.pc = "write", !.cur = t]
          \/ job' = [j EXCEPT !.todo = {port_detail(s) : s \in S}, !.pc = "stop", !.cur = None]
      BY <1>0, <2>2, ChosenIs
    <2>4. ~job'.noted
      <3>1. CASE job' = Over(j.failed \/ S # {})
        <4>1. (j.failed \/ S # {}) \in BOOLEAN
          BY DEF JobState
        <4>2. QED
          BY <1>0, <3>1, <4>1, OverUnnoted
      <3>2. CASE job' # Over(j.failed \/ S # {})
        BY <2>2, <2>3, <3>2 DEF JobState
      <3>3. QED
        BY <3>1, <3>2
    <2>5. QED
      BY <2>4 DEF Unnoted
  <1>3. CASE Sample \/ Configure \/ LinkCmake \/ LinkPio \/ Stage \/ StageBin \/ RecordBuild \/ BuildFails
    <2>1. job.pc # "file" /\ ~job.noted
      BY <1>3 DEF Sample, Configure, LinkCmake, LinkPio, Stage, StageBin, RecordBuild, BuildFails, At, Building, Unnoted
    <2>2. CASE \E f \in BOOLEAN : job' = AfterBuild(f)
      <3>1. PICK f \in BOOLEAN : job' = AfterBuild(f)
        BY <2>2
      <3>2. CASE job.op = "update"
        BY <1>0, <2>1, <3>1, <3>2 DEF AfterBuild, JobState, Unnoted
      <3>3. CASE job.op # "update"
        <4>1. job' = Over(job.failed \/ f) /\ (job.failed \/ f) \in BOOLEAN
          BY <1>0, <3>1, <3>3 DEF AfterBuild, JobState
        <4>2. QED
          BY <1>0, <4>1, OverUnnoted DEF Unnoted
      <3>4. QED
        BY <3>2, <3>3
    <2>3. CASE LinkPio \/ Stage \/ StageBin \/ (LinkCmake /\ job' = Step("stage"))
      <3>1. \E l : job' = [job EXCEPT !.pc = l]
        BY <2>3 DEF LinkPio, Stage, StageBin, Step
      <3>2. QED
        BY <1>0, <2>1, <3>1 DEF JobState, Unnoted
    <2>4. CASE Sample \/ Configure
      BY <1>0, <2>1, <2>4 DEF Sample, Configure, JobState, Unnoted
    <2>5. QED
      BY <1>3, <2>2, <2>3, <2>4 DEF LinkCmake, RecordBuild, BuildFails
  <1>4. CASE Stop \/ Listen \/ WriteCmake \/ Upload
    <2>1. ~job.noted
      BY <1>4 DEF Stop, Listen, WriteCmake, Upload, At, Unnoted
    <2>2. job'.noted = job.noted
      BY <1>0, <1>4 DEF Stop, Listen, WriteCmake, Upload, JobState
    <2>3. QED
      BY <2>1, <2>2 DEF Unnoted
  <1>5. CASE Note
    <2>1. \/ job' = [job EXCEPT !.pc = "file", !.noted = image = app[job.wrote]]
          \/ job' = [job EXCEPT !.pc = "file", !.failed = TRUE]
      BY <1>5 DEF Note
    <2>2. job'.pc = "file"
      BY <1>0, <2>1 DEF JobState
    <2>3. QED
      BY <2>2 DEF Unnoted
  <1>6. CASE File \/ FileFails \/ WriteFails
    <2>1. PICK f \in BOOLEAN : job' = Next_(f)
      BY <1>6 DEF File, FileFails, WriteFails
    <2>2. ~job'.noted
      <3>1. CASE job.todo \ {job.cur} = {}
        <4>1. job' = Over(job.failed \/ f) /\ (job.failed \/ f) \in BOOLEAN
          BY <1>0, <2>1, <3>1 DEF Next_, JobState
        <4>2. QED
          BY <1>0, <4>1, OverUnnoted
      <3>2. CASE job.todo \ {job.cur} # {}
        BY <1>0, <2>1, <3>2 DEF Next_, JobState
      <3>3. QED
        BY <3>1, <3>2
    <2>3. QED
      BY <2>2 DEF Unnoted
  <1>7. CASE clean_build_dir
    BY <1>7 DEF clean_build_dir, Unnoted
  <1>8. CASE Crash
    BY <1>8 DEF Crash, Idle, Unnoted
  <1>9. CASE Saved \/ Pull \/ Retarget \/ HandStage \/ Toggle \/ \E d \in type.devices : HandFlash(d) \/ Move(d)
    <2>1. ~job'.noted \/ (job'.pc = job.pc /\ job'.noted = job.noted)
      BY <1>9, EventLeaves
    <2>2. QED
      BY <2>1 DEF Unnoted
  <1>10. QED
    BY <1>1, <1>2, <1>3, <1>4, <1>5, <1>6, <1>7, <1>8, <1>9 DEF Next

LEMMA StepWritten ==
  ASSUME LInv, TInv', Next
  PROVE  WrittenStands'
  <1>0. /\ TypeOK /\ job \in JobState /\ TInv /\ Unnoted /\ WrittenStands
        /\ app \in [Device -> Image \cup {None}]
    BY DEF LInv, BInv, AInv, TInv, TypeOK
  <1>a. job'.wrote = None => WrittenStands'
    BY DEF TInv, Shape, WrittenStands
  <1>1. CASE build_type \/ build_all \/ update_all \/ Select \/ flash_all \/ (\E s \in type.devices : flash(s))
             \/ Sample \/ Configure \/ LinkCmake \/ LinkPio \/ Stage \/ StageBin \/ RecordBuild \/ BuildFails
    BY <1>0, <1>1, <1>a, StartTyped, ChooseTyped, BuildTyped
  <1>2. CASE File \/ FileFails \/ WriteFails
    <2>1. PICK f \in BOOLEAN : job' = Next_(f)
      BY <1>2 DEF File, FileFails, WriteFails
    <2>2. job'.wrote = None
      BY <1>0, <2>1, NextIs
    <2>3. QED
      BY <1>a, <2>2
  <1>3. CASE Stop \/ Listen \/ Upload \/ clean_build_dir \/ Crash
    <2>1. job'.pc # "file"
      <3>1. CASE Stop
        BY <1>0, <3>1 DEF Stop, JobState
      <3>2. CASE Listen
        BY <1>0, <3>2 DEF Listen, JobState
      <3>3. CASE Upload
        BY <1>0, <3>3 DEF Upload, JobState
      <3>4. CASE clean_build_dir \/ Crash
        BY <3>4 DEF clean_build_dir, Crash, At, Idle
      <3>5. QED
        BY <1>3, <3>1, <3>2, <3>3, <3>4
    <2>2. QED
      BY <2>1 DEF WrittenStands
  <1>4. CASE WriteCmake
    <2>1. job.cur \in Detail
      BY <1>0, <1>4 DEF WriteCmake, At, TInv, Shape
    <2>2. job' = [job EXCEPT !.pc = "file", !.wrote = job.cur.sec] /\ ~job.noted
      BY <1>0, <1>4 DEF WriteCmake, At, Unnoted
    <2>3. job'.cur = job.cur /\ job'.wrote = job.cur.sec /\ ~job'.noted
      BY <1>0, <2>2 DEF JobState
    <2>4. app' = [app EXCEPT ![job.cur.sec] = kind_file(job.cur)] /\ UNCHANGED <<image, bin>>
      BY <1>4 DEF WriteCmake, Wrote, kind_file, staging
    <2>5. job.cur.sec \in Device
      BY <2>1 DEF Detail
    <2>6. app'[job.cur.sec] = kind_file(job.cur)
      BY <1>0, <2>4, <2>5
    <2>b. kind_file(job.cur)' = kind_file(job.cur)
      BY <2>3, <2>4 DEF kind_file
    <2>7. QED
      BY <2>3, <2>6, <2>b DEF WrittenStands
  <1>5. CASE Note
    <2>1. ~cmake /\ job.pc = "note" /\ ~job.noted /\ UNCHANGED <<type, app>>
      BY <1>0, <1>5 DEF Note, At, TInv, Shape, Unnoted, devices
    <2>2. CASE rec' = noted_record /\ job' = [job EXCEPT !.pc = "file", !.noted = image = app[job.wrote]]
      <3>1. (job'.noted <=> image = app[job.wrote]) /\ job'.wrote = job.wrote
        BY <1>0, <2>2 DEF JobState
      <3>2. rec'.image = image
        BY <2>2 DEF noted_record, record_build
      <3>3. rec' # None
        <4>1. job.pc = "note" => image # None
          BY <1>0 DEF TInv, Shape
        <4>2. source_state \in State
          BY <1>0, TreeTyped DEF TypeOK
        <4>3. noted_record \in Record
          BY <1>0, <2>1, <4>1, <4>2, RecordTyped DEF noted_record
        <4>4. QED
          BY <2>2, <4>3, BuildersAssumption
      <3>4. QED
        BY <2>1, <3>1, <3>2, <3>3 DEF WrittenStands, cmake
    <2>3. CASE job' = [job EXCEPT !.pc = "file", !.failed = TRUE]
      <3>1. ~job'.noted
        BY <1>0, <2>1, <2>3 DEF JobState
      <3>2. QED
        BY <2>1, <3>1 DEF WrittenStands, cmake
    <2>4. QED
      BY <1>5, <2>2, <2>3 DEF Note
  <1>6. CASE Saved \/ Pull \/ Retarget \/ HandStage \/ Toggle \/ \E d \in type.devices : HandFlash(d) \/ Move(d)
    <2>1. \/ job'.pc = "idle"
          \/ job'.pc = job.pc /\ job'.cur = job.cur /\ job'.wrote = job.wrote /\ job'.noted = job.noted
      BY <1>0, <1>6, EventLeaves
    <2>2. job.pc = "file" => app'[job.wrote] = app[job.wrote]
      <3>1. CASE UNCHANGED app
        BY <3>1
      <3>2. CASE \E d \in type.devices : HandFlash(d)
        <4>1. PICK d \in type.devices : HandFlash(d)
          BY <3>2
        <4>2. app' = [app EXCEPT ![d] = foreign] /\ job.wrote # d
          BY <4>1 DEF HandFlash, Wrote
        <4>3. job.pc = "file" => job.wrote \in Device
          BY <1>0 DEF TInv, Shape, JobState
        <4>4. QED
          BY <1>0, <4>2, <4>3
      <3>3. QED
        BY <1>6, <3>1, <3>2 DEF Saved, Pull, TreeMoves, Retarget, HandStage, Toggle, Move, devices
    <2>3. UNCHANGED <<type, rec>>
      BY <1>6 DEF Saved, Pull, TreeMoves, Retarget, HandStage, Toggle, HandFlash, Move, staging
    <2>4. cmake => image' \in {image, foreign} /\ bin' \in {bin, foreign}
      BY <1>6 DEF Saved, Pull, TreeMoves, Retarget, HandStage, Toggle, HandFlash, Move, staging
    <2>5. QED
      BY <1>0, <2>1, <2>2, <2>3, <2>4 DEF WrittenStands, kind_file, cmake
  <1>7. QED
    BY <1>1, <1>2, <1>3, <1>4, <1>5, <1>6 DEF Next

LEMMA WroteLedger ==
  ASSUME TypeOK, LedgerNamesImage, NEW d \in Device, NEW i, Wrote(d, i), UNCHANGED ledger
  PROVE  LedgerNamesImage'
  BY DEF TypeOK, LedgerNamesImage, Wrote

LEMMA CutLedger ==
  ASSUME TInv, LedgerNamesImage, CutWrite, UNCHANGED ledger
  PROVE  LedgerNamesImage'
  <1>0. TypeOK
    BY DEF TInv
  <1>1. CASE UNCHANGED <<image, app, sound>>
    BY <1>1 DEF LedgerNamesImage
  <1>2. CASE At("write") /\ cmake /\ Wrote(job.cur.sec, torn(image))
    <2>1. job.cur.sec \in Device
      BY <1>2 DEF At, TInv, Shape, Detail
    <2>2. QED
      BY <1>0, <1>2, <2>1, WroteLedger
  <1>3. CASE \E d \in occupants(port_for(job.cur)) : Wrote(d, torn(rebuilt))
    <2>1. PICK d \in occupants(port_for(job.cur)) : Wrote(d, torn(rebuilt))
      BY <1>3
    <2>2. d \in Device
      BY <1>0, OccupantsTyped
    <2>3. QED
      BY <1>0, <2>1, <2>2, WroteLedger
  <1>4. QED
    BY <1>1, <1>2, <1>3 DEF CutWrite

LEMMA StepNames ==
  ASSUME LInv, Next
  PROVE  LedgerNamesImage'
  <1>0. /\ TypeOK /\ job \in JobState /\ TInv /\ WrittenStands /\ RecordTrue /\ LedgerNamesImage
        /\ ledger \in [Device -> Entry \cup {None}] /\ sound \subseteq Device
    BY DEF LInv, BInv, AInv, TInv, TypeOK
  <1>1. CASE UNCHANGED <<app, ledger, sound>>
    BY <1>0, <1>1 DEF LedgerNamesImage
  <1>2. CASE WriteCmake
    <2>1. job.cur.sec \in Device /\ UNCHANGED ledger /\ \E i : Wrote(job.cur.sec, i)
      BY <1>0, <1>2 DEF WriteCmake, At, TInv, Shape, Detail
    <2>2. QED
      BY <1>0, <2>1, WroteLedger
  <1>3. CASE Upload
    <2>1. PICK d \in occupants(port_for(job.cur)) : Wrote(d, rebuilt)
      BY <1>3 DEF Upload
    <2>2. d \in Device /\ UNCHANGED ledger
      BY <1>0, <1>3, OccupantsTyped DEF Upload
    <2>3. QED
      BY <1>0, <2>1, <2>2, WroteLedger
  <1>4. CASE WriteFails \/ (Crash /\ CutWrite)
    BY <1>0, <1>4, CutLedger DEF WriteFails, Crash
  <1>5. CASE \E d \in type.devices : HandFlash(d)
    <2>1. PICK d \in type.devices : HandFlash(d)
      BY <1>5
    <2>2. d \in Device /\ Wrote(d, foreign) /\ UNCHANGED ledger
      BY <1>0, <2>1, TypeTyped DEF HandFlash
    <2>3. QED
      BY <1>0, <2>2, WroteLedger
  <1>6. CASE File
    <2> DEFINE d == job.cur.id
               e == IF cmake THEN staged_record ELSE side_record
    <2>1. job.pc = "file" /\ UNCHANGED app
      BY <1>6 DEF File, At, devices
    <2>2. CASE d = None
      BY <1>0, <1>6, <2>1, <2>2 DEF File, log, LedgerNamesImage
    <2>3. CASE d # None
      <3>1. /\ ledger' = [ledger EXCEPT ![d] = e]
            /\ sound' = IF e.image # None /\ d = job.wrote /\ (cmake \/ job.noted) /\ ~flick
                        THEN sound \cup {d} ELSE sound \ {d}
        BY <1>6, <2>3 DEF File
      <3>2. d \in Device
        <4>1. job.cur \in Detail
          BY <1>0, <2>1 DEF TInv, Shape
        <4>2. QED
          BY <2>3, <4>1 DEF Detail
      <3>3. e.image # None /\ d = job.wrote /\ (cmake \/ job.noted) /\ ~flick => e.image = app[d]
        <4> SUFFICES ASSUME e.image # None, d = job.wrote, cmake \/ job.noted, ~flick
                     PROVE  e.image = app[d]
          OBVIOUS
        <4>1. CASE cmake
          <5>1. e.image = staged(accepts[job.cur.flasher])
            BY <4>1 DEF staged_record
          <5>2. rec # None /\ ~rec.dirty /\ rec.image = image
                /\ (accepts[job.cur.flasher] = "bin" => rec.bin = bin /\ bin # None)
                /\ e.image = kind_file(job.cur)
            BY <5>1 DEF staged, kind_file
          <5>3. kind_file(job.cur) = rec.image
            BY <1>0, <4>1, <5>2 DEF RecordTrue, kind_file
          <5>4. rec.image.src # {}
            BY <1>0, <5>2 DEF RecordTrue
          <5>5. kind_file(job.cur) # foreign
            BY <5>3, <5>4 DEF foreign
          <5>6. QED
            BY <1>0, <2>1, <4>1, <5>2, <5>5 DEF WrittenStands
        <4>2. CASE ~cmake
          BY <1>0, <2>1, <4>2 DEF WrittenStands, side_record
        <4>3. QED
          BY <4>1, <4>2
      <3> HIDE DEF d, e
      <3>4. QED
        BY <1>0, <2>1, <3>1, <3>2, <3>3 DEF LedgerNamesImage
    <2>4. QED
      BY <2>2, <2>3
  <1>7. \/ UNCHANGED <<app, ledger, sound>> \/ WriteCmake \/ Upload \/ WriteFails \/ (Crash /\ CutWrite)
        \/ File \/ \E d \in type.devices : HandFlash(d)
    BY DEF Next, build_type, build_all, update_all, flash_all, Sample, Configure, LinkCmake, LinkPio,
           Stage, StageBin, RecordBuild, BuildFails, clean_build_dir, Select, flash, Stop, Listen,
           Note, FileFails, Saved, Pull, TreeMoves, Retarget, HandStage, Toggle, Crash, Move, devices, log
  <1>8. QED
    BY <1>1, <1>2, <1>3, <1>4, <1>5, <1>6, <1>7

LEMMA StepLedger ==
  ASSUME LInv, [Next]_vars
  PROVE  LInv'
  <1>1. BInv' /\ TInv'
    BY StepRecord DEF LInv, BInv, AInv
  <1>2. CASE UNCHANGED vars
    BY <1>1, <1>2 DEF LInv, Unnoted, WrittenStands, kind_file, LedgerNamesImage, vars, staging, devices, log, cmake
  <1>3. CASE Next
    BY <1>1, <1>3, StepUnnoted, StepWritten, StepNames DEF LInv, BInv, AInv
  <1>4. QED
    BY <1>2, <1>3

LEMMA InitLedger ==
  ASSUME Init
  PROVE  LInv
  <1>1. BInv
    BY InitRecord
  <1>2. QED
    BY <1>1 DEF Init, Idle, LInv, Unnoted, WrittenStands, LedgerNamesImage

\* Of a device this tool wrote last, if its write was noted and filed, the entry
\* FlashLog.record made names the image it holds, although a CMake file may be
\* replaced between write and entry.
THEOREM TheLedgerNamesTheImage == Spec => []LedgerNamesImage
  <1>1. Init => LInv
    BY InitLedger
  <1>2. LInv /\ [Next]_vars => LInv'
    BY StepLedger
  <1>3. LInv => LedgerNamesImage
    BY DEF LInv
  <1>4. QED
    BY <1>1, <1>2, <1>3, PTL DEF Spec

-----------------------------------------------------------------------------
(* What a job that nothing disturbed leaves *)

LEMMA AimedAt ==
  ASSUME TypeOK, NEW s \in type.devices, choice.flasher # "nobody"
  PROVE  /\ port_detail(s).sec = s
         /\ cmake => port_detail(s).id = s
         /\ cmake /\ accepts[port_detail(s).flasher] = "bin" => rec # None /\ rec.bin # None /\ bin # None
         /\ ~cmake => /\ port_detail(s).port = port_of(s)
                      /\ port_detail(s).id # None => where[port_detail(s).id] = port_detail(s).port
  <1>0. port_detail(s) = [sec |-> s, id |-> device_id(s), flasher |-> choice.flasher,
                          port |-> IF cmake THEN None ELSE port_of(s)]
    BY DEF port_detail
  <1>1. cmake => device_id(s) = s
    BY DEF device_id
  <1>2. cmake /\ accepts[choice.flasher] = "bin" => rec # None /\ rec.bin # None /\ bin # None
    <2> SUFFICES ASSUME cmake, accepts[choice.flasher] = "bin"
                 PROVE  rec # None /\ rec.bin # None /\ bin # None
      OBVIOUS
    <2> DEFINE l == Listed[type.by]  d == device(None)  h == IF cmake THEN Helper ELSE "none"
    <2>1. l \in Seq(FLASHERS)
      BY TypeTyped, BuildersAssumption
    <2>2. choice.flasher = resolve(l, d, h, staged_kinds)
      BY DEF choice, select
    <2> HIDE DEF l, d, h
    <2>3. \E i \in writers(l, d, h, staged_kinds) : resolve(l, d, h, staged_kinds) = l[i]
      BY <2>1, <2>2, ResolveFinds
    <2>4. PICK i \in writers(l, d, h, staged_kinds) : choice.flasher = l[i]
      BY <2>2, <2>3
    <2>5. PICK x \in staged_kinds : x.kind = accepts[l[i]]
      BY DEF writers
    <2>6. x.kind = "bin"
      BY <2>4, <2>5
    <2>7. QED
      BY <2>6 DEF staged_kinds
  <1>3. ~cmake /\ device_id(s) # None => where[device_id(s)] = port_of(s)
    <2> SUFFICES ASSUME ~cmake, device_id(s) # None
                 PROVE  where[device_id(s)] = port_of(s)
      OBVIOUS
    <2>1. CASE s \in Named
      BY <2>1 DEF device_id, port_of
    <2>2. CASE s \notin Named
      <3>1. reports(s) /\ device_id(s) = CHOOSE d \in answers(s) : TRUE
        BY <2>2 DEF device_id
      <3>2. answers(s) # {} /\ \A d \in answers(s) : where[d] = port_of(s)
        BY <3>1 DEF reports, present, answers, occupants
      <3>3. QED
        BY <3>1, <3>2
    <2>3. QED
      BY <2>1, <2>2
  <1>4. QED
    BY <1>0, <1>1, <1>2, <1>3

LEMMA StartCalm ==
  ASSUME SInv, TInv', build_type \/ build_all \/ update_all
  PROVE  Calm'
  <1>1. UNCHANGED <<type, source, staging, devices, log, events>>
    BY DEF build_type, build_all, update_all
  <1>4. TypeOK /\ TInv
    BY DEF SInv, LInv, BInv, AInv, TInv
  <1>5. CASE \E o \in {"build", "update"} : job' = BuildFrom(Asked(o))
    <2>1. PICK o \in {"build", "update"} : job' = BuildFrom(Asked(o))
      BY <1>5
    <2>2. job' = IF cmake THEN [Idle EXCEPT !.op = o, !.target = target, !.pc = "sample"]
                 ELSE [Idle EXCEPT !.op = o, !.target = None, !.pc = "link", !.from = {content}]
      BY <1>4, <2>1, BuildFromIs
    <2>3. job'.pc \in {"sample", "link"} /\ ~job'.moved /\ (cmake => job'.target = target)
      BY <2>2 DEF Idle
    <2>4. QED
      BY <1>1, <2>3 DEF Calm, CurIsDue, CalmBuild, CalmAim, CalmHeard, Made, Stopped, source, cmake
  <1>6. CASE ~\E o \in {"build", "update"} : job' = BuildFrom(Asked(o))
    <2>1. update_all /\ job' = [Idle EXCEPT !.op = "update", !.pc = "select", !.failed = source_problem] /\ ~to_build
      BY <1>6 DEF build_type, build_all, update_all
    <2>2. job'.pc = "select" /\ job'.failed = source_problem
      BY <2>1 DEF Idle
    <2>3. ~source_problem => artifact_status = "current"
      BY <2>1 DEF to_build
    <2>4. artifact_status = "current" => image # None
      BY DEF artifact_status, cmake_artifact_status, pio_artifact_status
    <2>5. QED
      BY <1>1, <2>2, <2>3, <2>4 DEF Calm, CurIsDue, CalmBuild, CalmAim, CalmHeard, Made, Stopped, Building, staging
  <1>7. QED
    BY <1>5, <1>6

\* A job that is over or has failed promises nothing here.
LEMMA IdleCalm ==
  ASSUME job'.pc = "idle" \/ (job'.pc = "select" /\ job'.failed)
  PROVE  Calm'
  BY DEF Calm, CurIsDue, CalmBuild, CalmAim, CalmHeard, Made, Stopped, Building

LEMMA AfterBuildGoes ==
  ASSUME job \in JobState, NEW f \in BOOLEAN, job' = AfterBuild(f)
  PROVE  \/ /\ job'.pc = "idle" /\ (job'.op # "none" => ~f /\ job.calm /\ ~job.failed /\ job'.op = job.op)
            /\ job'.op # "update"
         \/ /\ job'.pc = "select" /\ job'.op = "update" /\ job.op = "update"
            /\ job'.failed = (job.failed \/ f) /\ job'.calm = job.calm
  <1>1. CASE job.op = "update"
    <2>1. job' = [job EXCEPT !.pc = "select", !.failed = @ \/ f, !.from = {},
                             !.state = None, !.moved = FALSE, !.target = None]
      BY <1>1 DEF AfterBuild
    <2>2. QED
      BY <1>1, <2>1 DEF JobState
  <1>2. CASE job.op # "update"
    <2>1. job' = Over(job.failed \/ f) /\ (job.failed \/ f) \in BOOLEAN
      BY <1>2 DEF AfterBuild, JobState
    <2>2. job'.pc = "idle" /\ (job'.op # "none" => ~(job.failed \/ f) /\ job.calm /\ job'.op = job.op)
      BY <2>1, OverIs
    <2>3. QED
      BY <1>2, <2>2
  <1>3. QED
    BY <1>1, <1>2

LEMMA BuildCalm ==
  ASSUME SInv, TInv', Sample \/ Configure \/ LinkCmake \/ LinkPio \/ Stage \/ StageBin \/ RecordBuild \/ BuildFails
  PROVE  Calm'
  <1>0. TypeOK /\ TInv /\ job \in JobState /\ CalmBuild
    BY DEF SInv, LInv, BInv, AInv, TInv, TypeOK, Calm
  <1>1. CASE \E f \in BOOLEAN : job' = AfterBuild(f) /\ (f \/ RecordBuild)
    <2>1. PICK f \in BOOLEAN : job' = AfterBuild(f) /\ (f \/ RecordBuild)
      BY <1>1
    <2>2. f \/ image' # None
      BY <1>0, <2>1 DEF RecordBuild, At, TInv, Shape
    <2>3. \/ job'.pc = "idle"
          \/ job'.pc = "select" /\ (job'.failed \/ image' # None)
      BY <1>0, <2>1, <2>2, AfterBuildGoes
    <2>4. QED
      BY <2>3 DEF Calm, CurIsDue, CalmBuild, CalmAim, CalmHeard, Made, Stopped, Building
  <1>2. CASE Sample \/ Configure \/ LinkPio \/ Stage \/ StageBin \/ (LinkCmake /\ job' = Step("stage"))
    <2>1. job.pc \in Building /\ UNCHANGED <<type, target>>
      BY <1>2 DEF Sample, Configure, LinkCmake, LinkPio, Stage, StageBin, At, Building, source
    <2>2. job'.pc \in Building /\ job'.calm = job.calm /\ job'.target = job.target /\ (job'.moved => job.moved)
      BY <1>0, <1>2 DEF Sample, Configure, LinkPio, Stage, StageBin, Step, JobState, Building
    <2>3. QED
      BY <1>0, <2>1, <2>2 DEF Calm, CurIsDue, CalmBuild, CalmAim, CalmHeard, Made, Stopped, Building, cmake
  <1>3. QED
    BY <1>1, <1>2 DEF LinkCmake, RecordBuild, BuildFails

\* Who is chosen for whom, and by which job.
LEMMA ChoiceMade ==
  ASSUME TInv, Select \/ flash_all \/ \E s \in type.devices : flash(s)
  PROVE  /\ UNCHANGED <<type, source, staging, devices, log, events>>
         /\ \/ Select /\ job.pc = "select" /\ job' = Chosen(job, to_flash) /\ to_flash \in SUBSET type.devices
            \/ \E S \in SUBSET type.devices : S # {} /\ job' = Chosen([Idle EXCEPT !.op = "flash"], S)
  <1>1. to_flash \in SUBSET type.devices /\ \A s \in type.devices : {s} \in SUBSET type.devices /\ {s} # {}
    BY DEF to_flash, listed
  <1>2. UNCHANGED <<type, source, staging, devices, log, events>>
    BY DEF Select, flash_all, flash
  <1>3. CASE Select
    BY <1>1, <1>2, <1>3 DEF Select, At
  <1>4. CASE flash_all
    <2>1. to_flash # {} /\ job' = Chosen([Idle EXCEPT !.op = "flash"], to_flash)
      BY <1>4 DEF flash_all
    <2>2. QED
      BY <1>1, <1>2, <2>1, Zenon
  <1>5. CASE \E s \in type.devices : flash(s)
    <2>1. PICK s \in type.devices : job' = Chosen([Idle EXCEPT !.op = "flash"], {s})
      BY <1>5 DEF flash, _cmake_flash, _pio_flash
    <2>2. QED
      BY <1>1, <1>2, <2>1, Zenon
  <1>6. QED
    BY <1>3, <1>4, <1>5

LEMMA ChooseCalm ==
  ASSUME SInv, Select \/ flash_all \/ \E s \in type.devices : flash(s)
  PROVE  Calm'
  <1>0. TypeOK /\ TInv /\ job \in JobState
    BY DEF SInv, LInv, BInv, AInv, TInv, TypeOK
  <1>1. UNCHANGED <<type, source, staging, devices, log, events>>
    BY <1>0, ChoiceMade
  <1>2. \E S \in SUBSET type.devices, j \in JobState : job' = Chosen(j, S)
    <2>1. [Idle EXCEPT !.op = "flash"] \in JobState
      BY DEF Idle, JobState
    <2>2. QED
      BY <1>0, <2>1, ChoiceMade, Zenon
  <1>3. PICK S \in SUBSET type.devices, j \in JobState : job' = Chosen(j, S)
    BY <1>2
  <1>4. CASE job' = Over(j.failed \/ S # {})
    <2>1. (j.failed \/ S # {}) \in BOOLEAN
      BY DEF JobState
    <2>2. job'.pc = "idle"
      BY <1>0, <1>4, <2>1, OverIs
    <2>3. QED
      BY <2>2, IdleCalm
  <1>5. ASSUME choice.flasher # "nobody"
        PROVE  \A t \in {port_detail(s) : s \in S} :
                  /\ cmake => t.id = t.sec
                  /\ cmake /\ accepts[t.flasher] = "bin" => rec # None /\ rec.bin # None /\ bin # None
                  /\ ~cmake => t.port = port_of(t.sec) /\ (t.id # None => where[t.id] = t.port)
    BY <1>0, <1>5, AimedAt
  <1>6. CASE choice.flasher # "nobody" /\ cmake /\ \E t \in {port_detail(s) : s \in S} :
                job' = [j EXCEPT !.todo = {port_detail(s) : s \in S}, !.pc = "write", !.cur = t]
    <2> DEFINE todo == {port_detail(s) : s \in S}
    <2>1. PICK t \in todo : job' = [j EXCEPT !.todo = todo, !.pc = "write", !.cur = t]
      BY <1>6
    <2>2. job'.todo = todo /\ job'.pc = "write" /\ job'.cur = t
      BY <2>1 DEF JobState
    <2>3. \A x \in todo : x.id = x.sec /\ (accepts[x.flasher] = "bin" => rec # None /\ rec.bin # None /\ bin # None)
      BY <1>5, <1>6
    <2> HIDE DEF todo
    <2>4. QED
      BY <1>1, <1>6, <2>2, <2>3 DEF Calm, CurIsDue, CalmBuild, CalmAim, CalmHeard, Made, Stopped, Building, cmake, staging
  <1>7. CASE choice.flasher # "nobody" /\ ~cmake
             /\ job' = [j EXCEPT !.todo = {port_detail(s) : s \in S}, !.pc = "stop", !.cur = None]
    <2> DEFINE todo == {port_detail(s) : s \in S}
    <2>1. job' = [j EXCEPT !.todo = todo, !.pc = "stop", !.cur = None]
      BY <1>7
    <2>2. job'.todo = todo /\ job'.pc = "stop"
      BY <2>1 DEF JobState
    <2>3. \A x \in todo : x.port = port_of(x.sec) /\ (x.id # None => where[x.id] = x.port)
      BY <1>5, <1>7
    <2> HIDE DEF todo
    <2>4. QED
      BY <1>1, <1>7, <2>2, <2>3 DEF Calm, CurIsDue, CalmBuild, CalmAim, CalmHeard, Made, Stopped, Building, cmake, devices, port_of
  <1>8. QED
    BY <1>0, <1>3, <1>4, <1>6, <1>7, ChosenIs

\* A step of the writing half, with the job's list kept or shortened.
LEMMA WritingCalm ==
  ASSUME SInv, UNCHANGED <<type, where>>, cmake => UNCHANGED <<bin, rec>>,
         job.pc \in Stopped \cup {"stop"}, job'.pc \in Stopped \cup {"stop"},
         job'.calm => job.calm, job'.todo \in SUBSET job.todo,
         job'.pc \in {"write", "note", "file"} => job'.cur \in job'.todo,
         CalmHeard'
  PROVE  Calm'
  <1>1. CalmAim'
    BY DEF SInv, Calm, CalmAim, cmake, port_of
  <1>2. QED
    BY <1>1 DEF Calm, CurIsDue, CalmBuild, Made, Stopped, Building

LEMMA WriteCalm ==
  ASSUME SInv, Stop \/ Listen \/ WriteCmake \/ Upload \/ Note \/ File \/ FileFails \/ WriteFails
  PROVE  Calm'
  <1>0. TypeOK /\ TInv /\ job \in JobState /\ Calm
    BY DEF SInv, LInv, BInv, AInv, TInv, TypeOK
  <1>1. UNCHANGED <<type, where>> /\ job.pc \in Stopped \cup {"stop"}
    BY <1>0 DEF Stop, Listen, WriteCmake, Upload, Note, File, FileFails, WriteFails, devices, At, Stopped
  <1>2. cmake => UNCHANGED <<bin, rec>>
    BY <1>0 DEF Stop, Listen, WriteCmake, Upload, Note, File, FileFails, WriteFails, staging, At, TInv, Shape
  <1>3. CASE Stop
    <2>1. job' = [job EXCEPT !.pc = "listen", !.map = where]
      BY <1>3 DEF Stop
    <2>2. job'.pc = "listen" /\ job'.map = where /\ job'.calm = job.calm /\ job'.todo = job.todo
      BY <1>0, <2>1 DEF JobState
    <2>3. CalmHeard'
      BY <1>1, <2>2 DEF CalmHeard
    <2>4. QED
      BY <1>1, <1>2, <2>2, <2>3, WritingCalm DEF Stopped
  <1>4. CASE Listen
    <2>1. PICK S \in identify, t \in job.todo :
              job' = [job EXCEPT !.pc = "write", !.heard = S, !.settled = TRUE, !.cur = t]
      BY <1>4 DEF Listen
    <2>2. job'.pc = "write" /\ job'.heard = S /\ job'.calm = job.calm /\ job'.todo = job.todo /\ job'.cur = t
      BY <1>0, <2>1 DEF JobState
    <2>3. job.pc = "listen" /\ ~cmake
      BY <1>0, <1>4 DEF Listen, At, TInv, Shape
    <2>4. job.calm => \A h \in S : h.port = where[h.id]
      <3> SUFFICES ASSUME job.calm, NEW h \in S
                   PROVE  h.port = where[h.id]
        OBVIOUS
      <3>1. job.map = where
        BY <1>0, <2>3 DEF Calm, CalmHeard
      <3>2. \E d : h = here(d, where[d], FALSE) \/ h = here(d, where[d], TRUE)
        BY <2>1, <3>1 DEF identify, device_map
      <3>3. QED
        BY <3>2 DEF here
    <2>5. CalmHeard'
      BY <1>1, <2>2, <2>4 DEF CalmHeard
    <2>6. QED
      BY <1>1, <1>2, <2>1, <2>2, <2>5, WritingCalm DEF Stopped
  <1>5. CASE WriteCmake \/ Upload \/ Note
    <2>1. /\ job'.pc \in {"note", "file"} /\ job.pc \in {"write", "note"} /\ job'.heard = job.heard
          /\ job'.calm = job.calm /\ job'.todo = job.todo /\ job'.cur = job.cur
      <3>1. CASE WriteCmake
        BY <1>0, <3>1 DEF WriteCmake, At, JobState
      <3>2. CASE Upload
        BY <1>0, <3>2 DEF Upload, At, JobState
      <3>3. CASE Note
        <4>1. \/ job' = [job EXCEPT !.pc = "file", !.noted = image = app[job.wrote]]
              \/ job' = [job EXCEPT !.pc = "file", !.failed = TRUE]
          BY <3>3 DEF Note
        <4>2. job.pc = "note"
          BY <3>3 DEF Note, At
        <4>3. QED
          BY <1>0, <4>1, <4>2 DEF JobState
      <3>4. QED
        BY <1>5, <3>1, <3>2, <3>3
    <2>2. CalmHeard'
      BY <1>0, <1>1, <2>1 DEF Calm, CalmHeard, cmake
    <2>3. job'.cur \in job'.todo
      BY <1>0, <2>1 DEF Calm, CurIsDue
    <2>4. QED
      BY <1>1, <1>2, <2>1, <2>2, <2>3, WritingCalm DEF Stopped
  <1>6. CASE File \/ FileFails \/ WriteFails
    <2>1. PICK f \in BOOLEAN : job' = Next_(f)
      BY <1>6 DEF File, FileFails, WriteFails
    <2>2. job.pc \in {"write", "file"}
      BY <1>6 DEF File, FileFails, WriteFails, At
    <2>3. \/ job'.pc = "idle"
          \/ /\ job'.pc = "write" /\ job'.heard = job.heard /\ job'.cur \in job'.todo
             /\ job'.todo = job.todo \ {job.cur} /\ job'.calm = job.calm
      BY <1>0, <2>1, NextIs
    <2>4. CASE job'.pc = "idle"
      BY <2>4, IdleCalm
    <2>5. CASE job'.pc # "idle"
      <3>1. CalmHeard'
        BY <1>0, <1>1, <2>2, <2>3, <2>5 DEF Calm, CalmHeard, cmake
      <3>2. QED
        BY <1>1, <1>2, <2>3, <2>5, <3>1, WritingCalm DEF Stopped
    <2>6. QED
      BY <2>4, <2>5
  <1>7. QED
    BY <1>3, <1>4, <1>5, <1>6

LEMMA EventCalm ==
  ASSUME SInv, clean_build_dir \/ Crash \/ Saved \/ Pull \/ Retarget \/ HandStage \/ Toggle
               \/ \E d \in type.devices : HandFlash(d) \/ Move(d)
  PROVE  Calm'
  <1>0. TInv /\ Calm
    BY DEF SInv, LInv, BInv, AInv
  <1>1. CASE clean_build_dir \/ Crash
    <2>1. job'.pc = "idle"
      BY <1>1 DEF clean_build_dir, Crash, At, Idle
    <2>2. QED
      BY <2>1, IdleCalm
  <1>2. CASE ~(clean_build_dir \/ Crash)
    <2>1. \/ job'.pc = "idle"
          \/ ~job'.calm /\ job'.pc = job.pc /\ job'.todo = job.todo /\ job'.cur = job.cur
      BY <1>0, <1>2, EventLeaves
    <2>2. CASE job'.pc = "idle"
      BY <2>2, IdleCalm
    <2>3. CASE ~job'.calm /\ job'.pc = job.pc /\ job'.todo = job.todo /\ job'.cur = job.cur
      BY <1>0, <2>3 DEF Calm, CurIsDue, CalmBuild, CalmAim, CalmHeard, Made
    <2>4. QED
      BY <2>1, <2>2, <2>3
  <1>3. QED
    BY <1>1, <1>2

LEMMA StepCalm ==
  ASSUME SInv, TInv', [Next]_vars
  PROVE  Calm'
  <1>1. CASE UNCHANGED vars
    BY <1>1 DEF SInv, Calm, CurIsDue, CalmBuild, CalmAim, CalmHeard, Made, vars, source, staging, devices, cmake, port_of
  <1>2. CASE Next
    BY <1>2, StartCalm, ChooseCalm, BuildCalm, WriteCalm, EventCalm DEF Next
  <1>3. QED
    BY <1>1, <1>2

\* A verdict asks no more than Wants, if the tree speaks the printer's protocol,
\* and no less of a device that is heard.
LEMMA WantsNeeds ==
  ASSUME NEW s
  PROVE  /\ needs_flash(s) /\ (cmake \/ tree.head \in Speaks) => Wants(s)
         /\ job.pc \notin Stopped /\ Wants(s) => needs_flash(s)
  <1>1. reports(s) => answering(s)
    BY DEF reports, answering
  <1>2. job.pc \notin Stopped /\ answering(s) => reports(s) /\ present(s)
    BY DEF reports, answering
  <1>3. CASE cmake
    <2>1. needs_flash(s) <=> cmake_verdict(s) \in {"protocol_mismatch", "source_changed",
                                                  "artifact_changed", "unexpected_image"}
      BY <1>3 DEF needs_flash, verdict
    <2>2. _image_verdict(s) \in {"current", "unexpected_image"}
          /\ (_image_verdict(s) = "unexpected_image" <=> app[s] # sidecar.image)
      BY DEF _image_verdict
    <2>3. _record_verdict(s) \in {"version_only", "artifact_changed", "current"}
      BY DEF _record_verdict
    <2>4. CASE s \in type.measures /\ sidecar # None
      <3>1. Wants(s) <=> answering(s) /\ app[s] # sidecar.image
        BY <1>3, <2>4 DEF Wants
      <3>2. cmake_verdict(s) = IF ~present(s) THEN "offline" ELSE IF ~reports(s) THEN "unknown_version" ELSE _image_verdict(s)
        BY <2>4 DEF cmake_verdict
      <3>3. QED
        BY <1>1, <1>2, <2>1, <2>2, <3>1, <3>2
    <2>5. CASE ~(s \in type.measures /\ sidecar # None)
      <3>1. Wants(s) <=> /\ answering(s) /\ version(s) # None /\ ~version(s).dirty /\ sidecar # None
                         /\ version(s) # sidecar.version \/ _record_verdict(s) = "artifact_changed"
        BY <1>3, <2>5 DEF Wants
      <3>2. cmake_verdict(s) = IF ~present(s) THEN "offline"
                ELSE IF ~reports(s) THEN "unknown_version"
                ELSE IF version(s) = None THEN "unknown_version"
                ELSE IF version(s).dirty THEN "device_dirty"
                ELSE IF sidecar = None THEN "unknown_version"
                ELSE IF version(s) # sidecar.version THEN "source_changed"
                ELSE _record_verdict(s)
        BY <2>5 DEF cmake_verdict
      <3>3. QED
        BY <1>1, <1>2, <2>1, <2>3, <3>1, <3>2
    <2>6. QED
      BY <2>4, <2>5
  <1>4. CASE ~cmake
    <2>1. needs_flash(s) <=> pio_verdict(s) \in {"protocol_mismatch", "source_changed",
                                                "artifact_changed", "unexpected_image"}
      BY <1>4 DEF needs_flash, verdict
    <2>2. Wants(s) <=> /\ answering(s)
                       /\ \/ tree.head \in Speaks /\ ~compatible(s)
                          \/ /\ version(s) # None /\ ~version(s).dirty
                             /\ version(s).head # tree.head \/ (tree.head \in Tagged /\ dirty)
      BY <1>4 DEF Wants
    <2>3. pio_verdict(s) = IF ~present(s) THEN "offline"
              ELSE IF ~reports(s) THEN "unknown_version"
              ELSE IF ~compatible(s) THEN "protocol_mismatch"
              ELSE IF version(s) = None THEN "unknown_version"
              ELSE IF version(s).dirty THEN "device_dirty"
              ELSE IF version(s).head # tree.head \/ (tree.head \in Tagged /\ dirty)
              THEN "source_changed" ELSE "current"
      BY DEF pio_verdict
    <2>4. CASE compatible(s)
      <3>1. Wants(s) <=> /\ answering(s) /\ version(s) # None /\ ~version(s).dirty
                         /\ version(s).head # tree.head \/ (tree.head \in Tagged /\ dirty)
        BY <2>2, <2>4
      <3>2. needs_flash(s) <=> /\ present(s) /\ reports(s) /\ version(s) # None /\ ~version(s).dirty
                               /\ version(s).head # tree.head \/ (tree.head \in Tagged /\ dirty)
        BY <2>1, <2>3, <2>4
      <3>3. QED
        BY <1>1, <1>2, <3>1, <3>2
    <2>5. CASE ~compatible(s)
      <3>1. /\ Wants(s) => answering(s)
            /\ tree.head \in Speaks /\ answering(s) => Wants(s)
        BY <2>2, <2>5
      <3>2. needs_flash(s) <=> present(s) /\ reports(s)
        BY <2>1, <2>3, <2>5
      <3>3. QED
        BY <1>1, <1>2, <1>4, <3>1, <3>2
    <2>6. QED
      BY <2>4, <2>5
  <1>5. QED
    BY <1>3, <1>4

\* What needs flashing wants it, and what wants it outside a write needs it.
NeedsRight == \A s : /\ needs_flash(s) /\ (cmake \/ tree.head \in Speaks) => Wants(s)
                     /\ job.pc \notin Stopped /\ Wants(s) => needs_flash(s)

LEMMA NeedsAlways == NeedsRight
  BY WantsNeeds DEF NeedsRight

LEMMA NeedsNext == NeedsRight'
  BY NeedsAlways, PTL

LEMMA StatusFrame ==
  ASSUME UNCHANGED <<type, target, tree, image, bin, rec>>
  PROVE  artifact_status' = artifact_status /\ sidecar' = sidecar /\ dirty' = dirty
  BY DEF artifact_status, cmake_artifact_status, pio_artifact_status, sidecar, dirty, cmake, sha

\* A step that changes only the job changes no one's wants.
LEMMA WantsFrame ==
  ASSUME NEW s, UNCHANGED <<type, target, tree, image, bin, rec, where, app, ledger, klipper>>
  PROVE  Wants(s)' <=> Wants(s)
  <1>1. sidecar' = sidecar /\ dirty' = dirty
    BY StatusFrame
  <1>2. present(s)' = present(s) /\ answers(s)' = answers(s)
    BY DEF present, answers, whole, occupants, port_of, cmake
  <1>3. version(s)' = version(s)
    BY <1>2 DEF version
  <1>4. answering(s)' <=> answering(s)
    BY <1>2 DEF answering, whole
  <1>5. _record_verdict(s)' = _record_verdict(s)
    BY <1>1, <1>3 DEF _record_verdict, entry_for, running_sha
  <1>6. QED
    BY <1>1, <1>3, <1>4, <1>5 DEF Wants, compatible, cmake

\* A PlatformIO device wants nothing of a record or the ledger.
LEMMA WantsPio ==
  ASSUME NEW s, ~cmake, UNCHANGED <<type, tree, where, klipper>>,
         \A d \in answers(s) : app'[d] = app[d]
  PROVE  Wants(s)' <=> Wants(s)
  <1>1. dirty' = dirty
    BY DEF dirty
  <1>2. (present(s)' <=> present(s)) /\ answers(s)' = answers(s)
    BY DEF present, answers, occupants, port_of, cmake
  <1>3. version(s)' = version(s)
    <2>1. {app'[d] : d \in answers(s)} = {app[d] : d \in answers(s)}
      OBVIOUS
    <2>2. QED
      BY <1>2, <2>1 DEF version
  <1>4. answering(s)' <=> answering(s)
    BY <1>2 DEF answering, whole
  <1>5. QED
    BY <1>1, <1>3, <1>4 DEF Wants, compatible, cmake

\* A CMake board's wants are of what it holds, its entry and what is staged.
LEMMA WantsCmake ==
  ASSUME NEW s, cmake, UNCHANGED <<type, target, tree, image, bin, rec, where, klipper>>,
         app'[s] = app[s], ledger'[s] = ledger[s]
  PROVE  Wants(s)' <=> Wants(s)
  <1>1. sidecar' = sidecar /\ dirty' = dirty
    BY StatusFrame
  <1>2. (present(s)' <=> present(s)) /\ answers(s) = {s} /\ answers(s)' = {s}
    BY DEF present, answers, whole, cmake
  <1>3. version(s)' = version(s)
    BY <1>2 DEF version
  <1>4. answering(s)' <=> answering(s)
    BY <1>2 DEF answering, whole
  <1>5. _record_verdict(s)' = _record_verdict(s)
    BY <1>1, <1>3 DEF _record_verdict, entry_for, running_sha
  <1>6. QED
    BY <1>1, <1>3, <1>4, <1>5 DEF Wants, cmake

\* What holds the recorded image and was filed as such wants nothing.
LEMMA FiledContent ==
  ASSUME BInv, cmake, ~flick, artifact_status = "current", NEW s,
         app[s] = rec.image, ledger[s] = None \/ ledger[s].image \in {None, rec.image, rec.bin}
  PROVE  ~Wants(s)
  <1>1. /\ rec # None /\ ~rec.dirty /\ sidecar = rec
    BY DEF artifact_status, cmake_artifact_status, sidecar
  <1>2. rec.image.version = expand_args(rec) /\ ~rec.version.dirty
    BY <1>1 DEF BInv, RecordTrue
  <1>3. version(s) = rec.image.version
    <2>1. {app[d] : d \in answers(s)} = {rec.image}
      BY DEF answers
    <2>2. (CHOOSE i \in {rec.image} : TRUE) = rec.image
      OBVIOUS
    <2>3. QED
      BY <2>1, <2>2 DEF version
  <1>4. version(s) = None \/ version(s) = rec.version
    BY <1>2, <1>3 DEF expand_args
  <1>5. entry_for(s) # None => entry_for(s) = ledger[s] /\ ledger[s] # None
    BY DEF entry_for
  <1>6. _record_verdict(s) # "artifact_changed"
    BY <1>1, <1>5 DEF _record_verdict
  <1>7. QED
    BY <1>1, <1>4, <1>6 DEF Wants

\* The same of the next state.
FiledRight ==
    \A s : /\ BInv /\ cmake /\ ~flick /\ artifact_status = "current" /\ app[s] = rec.image
          /\ (ledger[s] = None \/ ledger[s].image \in {None, rec.image, rec.bin})
          => ~Wants(s)

LEMMA FiledAlways == FiledRight
  BY FiledContent DEF FiledRight

LEMMA FiledNext == FiledRight'
  BY FiledAlways, PTL

\* What sits alone in the socket of a section and was just written wants nothing.
LEMMA WrittenContent ==
  ASSUME TypeOK, ~cmake, ~dirty, NEW s, NEW d, answers(s) = {d}, app[d] # None,
         app[d].version = source_state.version
  PROVE  ~Wants(s)
  <1>1. version(s) = app[d].version
    <2>1. {app[x] : x \in answers(s)} = {app[d]}
      OBVIOUS
    <2>2. (CHOOSE i \in {app[d]} : TRUE) = app[d]
      OBVIOUS
    <2>3. QED
      BY <2>1, <2>2 DEF version
  <1>2. version(s).head = tree.head
    BY <1>1 DEF source_state
  <1>3. QED
    BY <1>2 DEF Wants, compatible

\* The same of the next state.
WrittenRight ==
    \A s, d : /\ TypeOK /\ ~cmake /\ ~dirty /\ answers(s) = {d} /\ app[d] # None
             /\ app[d].version = source_state.version
             => ~Wants(s)

LEMMA WrittenAlways == WrittenRight
  BY WrittenContent DEF WrittenRight

LEMMA WrittenNext == WrittenRight'
  BY WrittenAlways, PTL

LEMMA SelectGoes ==
  ASSUME TInv, Select
  PROVE  /\ job.pc = "select" /\ UNCHANGED <<type, source, staging, devices, log, events>>
         /\ \/ job'.pc = "idle" /\ (job'.op # "none" => ~job.failed /\ to_flash = {} /\ job.calm /\ job'.op = job.op)
            \/ /\ job'.pc = (IF cmake THEN "write" ELSE "stop") /\ job'.op = job.op /\ job'.calm = job.calm
               /\ job'.failed = job.failed /\ job'.todo = {port_detail(s) : s \in to_flash}
  <1>0. TypeOK /\ job \in JobState
    BY DEF TInv, TypeOK
  <1>1. job.pc = "select" /\ job' = Chosen(job, to_flash) /\ to_flash \in SUBSET type.devices
        /\ UNCHANGED <<type, source, staging, devices, log, events>>
    BY DEF Select, At, to_flash, listed
  <1>2. CASE job' = Over(job.failed \/ to_flash # {})
    <2>1. (job.failed \/ to_flash # {}) \in BOOLEAN
      BY <1>0 DEF JobState
    <2>2. QED
      BY <1>0, <1>1, <1>2, <2>1, OverIs
  <1> DEFINE todo == {port_detail(s) : s \in to_flash}
  <1>3. CASE cmake /\ \E t \in todo : job' = [job EXCEPT !.todo = todo, !.pc = "write", !.cur = t]
    <2>1. PICK t \in todo : job' = [job EXCEPT !.todo = todo, !.pc = "write", !.cur = t]
      BY <1>3
    <2>2. job'.pc = "write" /\ job'.op = job.op /\ job'.calm = job.calm /\ job'.failed = job.failed /\ job'.todo = todo
      BY <1>0, <2>1 DEF JobState
    <2>3. QED
      BY <1>1, <1>3, <2>2
  <1>4. CASE ~cmake /\ job' = [job EXCEPT !.todo = todo, !.pc = "stop", !.cur = None]
    <2>2. job'.pc = "stop" /\ job'.op = job.op /\ job'.calm = job.calm /\ job'.failed = job.failed /\ job'.todo = todo
      BY <1>0, <1>4 DEF JobState
    <2>3. QED
      BY <1>1, <1>4, <2>2
  <1>5. QED
    BY <1>0, <1>1, <1>2, <1>3, <1>4, ChosenIs

LEMMA ChosenFlash ==
  ASSUME TypeOK, NEW S \in SUBSET type.devices, S # {}, NEW j \in JobState, j.op = "flash"
  PROVE  Chosen(j, S).op \in {"none", "flash"}
  <1>0. job \in JobState
    BY DEF TypeOK
  <1>1. CASE Chosen(j, S) = Over(j.failed \/ S # {})
    <2>1. (j.failed \/ S # {}) = TRUE
      BY DEF JobState
    <2>2. Chosen(j, S) = Over(TRUE)
      BY <1>1, <2>1
    <2>3. QED
      BY <1>0, <2>2, OverIs
  <1>2. CASE \E t, x : \/ Chosen(j, S) = [j EXCEPT !.todo = x, !.pc = "write", !.cur = t]
                       \/ Chosen(j, S) = [j EXCEPT !.todo = x, !.pc = "stop", !.cur = t]
    <2>1. PICK t, x : \/ Chosen(j, S) = [j EXCEPT !.todo = x, !.pc = "write", !.cur = t]
                       \/ Chosen(j, S) = [j EXCEPT !.todo = x, !.pc = "stop", !.cur = t]
      BY <1>2, Zenon
    <2>2. /\ [j EXCEPT !.todo = x, !.pc = "write", !.cur = t].op = j.op
          /\ [j EXCEPT !.todo = x, !.pc = "stop", !.cur = t].op = j.op
      BY DEF JobState
    <2>3. Chosen(j, S).op = j.op
      BY <2>1, <2>2, Zenon
    <2>4. QED
      BY <2>3, Zenon
  <1>3. QED
    <2>1. \/ Chosen(j, S) = Over(j.failed \/ S # {})
          \/ \E t \in {port_detail(s) : s \in S} :
                 Chosen(j, S) = [j EXCEPT !.todo = {port_detail(s) : s \in S}, !.pc = "write", !.cur = t]
          \/ Chosen(j, S) = [j EXCEPT !.todo = {port_detail(s) : s \in S}, !.pc = "stop", !.cur = None]
      BY ChosenIs, Zenon
    <2>2. QED
      BY <1>1, <1>2, <2>1, Zenon

\* A flash of its own is never taken for an update.
LEMMA FlashGoes ==
  ASSUME TInv, flash_all \/ \E s \in type.devices : flash(s)
  PROVE  job'.op \in {"none", "flash"}
  <1>0. TypeOK /\ job \in JobState
    BY DEF TInv, TypeOK
  <1>1. \E S \in SUBSET type.devices : S # {} /\ job' = Chosen([Idle EXCEPT !.op = "flash"], S)
    <2>1. CASE flash_all
      <3>1. to_flash # {} /\ job' = Chosen([Idle EXCEPT !.op = "flash"], to_flash) /\ to_flash \in SUBSET type.devices
        BY <2>1 DEF flash_all, to_flash, listed
      <3>2. QED
        BY <3>1, Zenon
    <2>2. CASE \E s \in type.devices : flash(s)
      <3>1. PICK s \in type.devices : job' = Chosen([Idle EXCEPT !.op = "flash"], {s})
        BY <2>2 DEF flash, _cmake_flash, _pio_flash
      <3>2. {s} \in SUBSET type.devices /\ {s} # {}
        OBVIOUS
      <3>3. QED
        BY <3>1, <3>2, Zenon
    <2>3. QED
      BY <2>1, <2>2
  <1>2. PICK S \in SUBSET type.devices : S # {} /\ job' = Chosen([Idle EXCEPT !.op = "flash"], S)
    BY <1>1
  <1>3. [Idle EXCEPT !.op = "flash"] \in JobState /\ [Idle EXCEPT !.op = "flash"].op = "flash"
    BY DEF Idle, JobState
  <1>4. QED
    BY <1>0, <1>2, <1>3, ChosenFlash

LEMMA RecordCurrent ==
  ASSUME SInv, TInv', RecordBuild, job.calm, ~dirty
  PROVE  artifact_status' = "current"
  <1>0. TypeOK /\ TInv /\ job \in JobState /\ BInv /\ Calm /\ Unmoved
    BY DEF SInv, LInv, BInv, AInv, TInv, TypeOK
  <1>1. /\ job.pc = "record" /\ UNCHANGED <<type, target, tree, image, bin>>
        /\ rec' = record_build(IF cmake THEN recorded ELSE source_state)
    BY DEF RecordBuild, At, source
  <1>2. ~job.moved /\ (cmake => job.target = target)
    BY <1>0, <1>1 DEF Calm, CalmBuild, Building
  <1>3. source_state = [sha |-> sha(tree.head), dirty |-> dirty, version |-> [head |-> tree.head, dirty |-> dirty]]
    BY DEF source_state
  <1>4. image # None
    BY <1>0, <1>1 DEF TInv, Shape
  <1>5. rec' # None
    <2>1. rec' \in Record
      <3>1. source_state \in State
        BY <1>0, TreeTyped DEF TypeOK
      <3>2. cmake => recorded \in State
        <4>1. cmake => job.state \in State
          BY <1>0, <1>1 DEF TInv, Shape, Building
        <4>2. dirty \in BOOLEAN
          BY <1>0, TreeTyped DEF TypeOK
        <4>3. QED
          BY <3>1, <4>1, <4>2 DEF recorded, State
      <3>3. QED
        BY <1>0, <1>1, <1>4, <3>1, <3>2, RecordTyped
    <2>2. QED
      BY <2>1, BuildersAssumption
  <1>6. CASE cmake
    <2>1. rec' = [sha |-> recorded.sha, version |-> recorded.version, dirty |-> recorded.dirty, image |-> image,
                  target |-> job.target, bin |-> bin]
      BY <1>1, <1>6 DEF record_build
    <2>2. recorded = [sha |-> source_state.sha, version |-> job.state.version,
                      dirty |-> \/ job.state.dirty \/ source_state.dirty \/ job.state.sha # source_state.sha]
      BY DEF recorded
    <2>3. job.state = source_state
      BY <1>0, <1>1, <1>2, <1>6 DEF Unmoved, Building
    <2>4. ~rec'.dirty /\ rec'.sha = sha(tree.head) /\ rec'.image = image /\ rec'.bin = bin /\ rec'.target = target
      BY <1>2, <1>3, <1>6, <2>1, <2>2, <2>3
    <2>5. QED
      BY <1>1, <1>4, <1>5, <1>6, <2>4 DEF artifact_status, cmake_artifact_status, cmake, sha
  <1>7. CASE ~cmake
    <2>1. rec' = [sha |-> source_state.sha, version |-> source_state.version, dirty |-> source_state.dirty,
                  image |-> image, target |-> job.target, bin |-> None]
      BY <1>1, <1>7 DEF record_build
    <2>2. ~rec'.dirty /\ rec'.sha = sha(tree.head) /\ rec'.image = image
      BY <1>3, <2>1
    <2>3. QED
      BY <1>1, <1>4, <1>5, <1>7, <2>2 DEF artifact_status, pio_artifact_status, cmake, sha
  <1>8. QED
    BY <1>6, <1>7

LEMMA NotedCurrent ==
  ASSUME TInv, Note, rec' = noted_record, ~dirty
  PROVE  artifact_status' = "current"
  <1>0. TypeOK
    BY DEF TInv
  <1>1. job.pc = "note" /\ ~cmake /\ image # None /\ UNCHANGED <<type, target, tree, image, bin>>
    BY DEF Note, At, TInv, Shape, source
  <1>2. source_state = [sha |-> sha(tree.head), dirty |-> dirty, version |-> [head |-> tree.head, dirty |-> dirty]]
    BY DEF source_state
  <1>3. source_state \in State
    BY <1>0, TreeTyped DEF TypeOK
  <1>4. rec' # None
    BY <1>0, <1>1, <1>3, RecordTyped, BuildersAssumption DEF noted_record
  <1>5. rec' = [sha |-> source_state.sha, version |-> source_state.version, dirty |-> source_state.dirty,
                image |-> image, target |-> job.target, bin |-> None]
    BY <1>1 DEF noted_record, record_build
  <1>6. ~rec'.dirty /\ rec'.sha = sha(tree.head) /\ rec'.image = image
    BY <1>2, <1>5
  <1>7. QED
    BY <1>1, <1>4, <1>6 DEF artifact_status, pio_artifact_status, cmake, sha

LEMMA StepSettled ==
  ASSUME SInv, TInv', Next
  PROVE  Settled'
  <1>0. TypeOK /\ TInv /\ job \in JobState /\ Settled
    BY DEF SInv, LInv, BInv, AInv, TInv, TypeOK
  <1>1. CASE build_type \/ build_all \/ update_all
    <2>1. CASE \E o \in {"build", "update"} : job' = BuildFrom(Asked(o))
      <3>1. job'.pc \in {"sample", "link"}
        BY <2>1 DEF BuildFrom, Asked, Idle
      <3>2. QED
        BY <3>1 DEF Settled
    <2>2. CASE ~\E o \in {"build", "update"} : job' = BuildFrom(Asked(o))
      <3>1. job' = [Idle EXCEPT !.op = "update", !.pc = "select", !.failed = source_problem] /\ ~to_build
            /\ UNCHANGED <<type, target, tree, image, bin, rec>>
        BY <1>1, <2>2 DEF build_type, build_all, update_all, source, staging
      <3>2. job'.failed = source_problem
        BY <3>1 DEF Idle
      <3>3. ~source_problem => artifact_status = "current"
        BY <3>1 DEF to_build
      <3>4. artifact_status' = artifact_status
        BY <3>1, StatusFrame
      <3>5. QED
        BY <3>2, <3>3, <3>4 DEF Settled, Updating
    <2>3. QED
      BY <2>1, <2>2
  <1>2. CASE flash_all \/ \E s \in type.devices : flash(s)
    BY <1>0, <1>2, FlashGoes DEF Settled, Updating
  <1>3. CASE Select
    <2>1. UNCHANGED <<type, target, tree, image, bin, rec, flick>>
      BY <1>3 DEF Select, source, staging
    <2>2. job.pc = "select" /\ (job'.pc = "idle" \/ (job'.op = job.op /\ job'.calm = job.calm /\ job'.failed = job.failed))
      BY <1>0, <1>3, SelectGoes
    <2>3. artifact_status' = artifact_status /\ dirty' = dirty
      BY <2>1, StatusFrame
    <2>4. QED
      BY <1>0, <2>1, <2>2, <2>3 DEF Settled, Updating
  <1>4. CASE Sample \/ Configure \/ LinkPio \/ Stage \/ StageBin \/ (LinkCmake /\ job' = Step("stage"))
    <2>1. job'.pc \in {"configure", "link", "stage", "stage_bin", "record"}
      BY <1>0, <1>4 DEF Sample, Configure, LinkPio, Stage, StageBin, Step, JobState
    <2>2. QED
      BY <2>1 DEF Settled
  <1>5. CASE RecordBuild
    <2>1. job' = AfterBuild(FALSE) /\ UNCHANGED tree
      BY <1>5 DEF RecordBuild, source
    <2>2. dirty' = dirty
      BY <2>1 DEF dirty
    <2>3. job'.op = "update" /\ job'.calm /\ job'.pc # "idle" => job.calm
      BY <1>0, <2>1, AfterBuildGoes
    <2>4. QED
      BY <1>5, <2>2, <2>3, RecordCurrent DEF Settled, Updating
  <1>6. CASE (LinkCmake \/ BuildFails) /\ job' = AfterBuild(TRUE)
    <2>1. job'.pc = "idle" \/ job'.failed
      BY <1>0, <1>6, AfterBuildGoes
    <2>2. QED
      BY <2>1 DEF Settled, Updating
  <1>7. CASE Stop \/ Listen \/ WriteCmake
    <2>1. UNCHANGED <<type, target, tree, image, bin, rec, flick>>
      BY <1>7 DEF Stop, Listen, WriteCmake, source, staging
    <2>2. job.pc \in {"stop", "listen", "write"} /\ job'.op = job.op /\ job'.calm = job.calm /\ job'.failed = job.failed
      BY <1>0, <1>7 DEF Stop, Listen, WriteCmake, At, JobState
    <2>3. artifact_status' = artifact_status /\ dirty' = dirty
      BY <2>1, StatusFrame
    <2>4. QED
      BY <1>0, <2>1, <2>2, <2>3 DEF Settled, Updating
  <1>8. CASE Upload
    <2>1. job'.pc = "note"
      BY <1>0, <1>8 DEF Upload, JobState
    <2>2. QED
      BY <2>1 DEF Settled
  <1>9. CASE Note
    <2>1. UNCHANGED tree
      BY <1>9 DEF Note, source
    <2>2. dirty' = dirty
      BY <2>1 DEF dirty
    <2>3. CASE rec' = noted_record
      BY <1>0, <1>9, <2>2, <2>3, NotedCurrent DEF Settled, Updating
    <2>4. CASE job' = [job EXCEPT !.pc = "file", !.failed = TRUE]
      <3>1. job'.failed
        BY <1>0, <2>4 DEF JobState
      <3>2. QED
        BY <3>1 DEF Settled, Updating
    <2>5. QED
      BY <1>9, <2>3, <2>4 DEF Note
  <1>10. CASE File
    <2>1. job.pc = "file" /\ job' = Next_(FALSE) /\ UNCHANGED <<type, target, tree, image, bin, rec, flick>>
      BY <1>10 DEF File, At, source, staging
    <2>2. job'.pc = "idle" \/ (job'.op = job.op /\ job'.calm = job.calm /\ (job'.failed <=> job.failed))
      BY <1>0, <2>1, NextIs
    <2>3. artifact_status' = artifact_status /\ dirty' = dirty
      BY <2>1, StatusFrame
    <2>4. QED
      BY <1>0, <2>1, <2>2, <2>3 DEF Settled, Updating
  <1>11. CASE FileFails \/ WriteFails
    <2>1. job' = Next_(TRUE)
      BY <1>11 DEF FileFails, WriteFails
    <2>2. job'.pc = "idle" \/ job'.failed
      BY <1>0, <2>1, NextIs
    <2>3. QED
      BY <2>2 DEF Settled, Updating
  <1>12. CASE clean_build_dir \/ Crash
    <2>1. job'.pc = "idle"
      BY <1>12 DEF clean_build_dir, Crash, At, Idle
    <2>2. QED
      BY <2>1 DEF Settled
  <1>13. CASE Saved \/ Pull \/ Retarget \/ HandStage \/ Toggle \/ \E d \in type.devices : HandFlash(d) \/ Move(d)
    <2>1. job'.pc = "idle" \/ ~job'.calm
      BY <1>0, <1>13, EventLeaves
    <2>2. QED
      BY <2>1 DEF Settled, Updating
  <1>14. QED
    BY <1>1, <1>2, <1>3, <1>4, <1>5, <1>6, <1>7, <1>8, <1>9, <1>10, <1>11, <1>12, <1>13 DEF Next, LinkCmake, BuildFails

LEMMA StepOps ==
  ASSUME TInv, BuildsOnly, Next
  PROVE  BuildsOnly'
  <1>0. TypeOK /\ job \in JobState
    BY DEF TInv, TypeOK
  <1>1. CASE build_type \/ build_all \/ update_all
    <2>1. CASE \E o \in {"build", "update"} : job' = BuildFrom(Asked(o))
      <3>1. job'.pc \in {"sample", "link"}
        BY <2>1 DEF BuildFrom, Asked, Idle
      <3>2. QED
        BY <3>1 DEF BuildsOnly, Building
    <2>2. CASE ~\E o \in {"build", "update"} : job' = BuildFrom(Asked(o))
      <3>1. job' = [Idle EXCEPT !.op = "update", !.pc = "select", !.failed = source_problem]
        BY <1>1, <2>2 DEF build_type, build_all, update_all
      <3>2. job'.op = "update"
        BY <3>1 DEF Idle
      <3>3. QED
        BY <3>2 DEF BuildsOnly
    <2>3. QED
      BY <2>1, <2>2
  <1>2. CASE flash_all \/ \E s \in type.devices : flash(s)
    BY <1>0, <1>2, FlashGoes DEF BuildsOnly
  <1>3. CASE Select
    <2>1. job.pc = "select" /\ (job'.pc = "idle" \/ job'.op = job.op)
      BY <1>0, <1>3, SelectGoes
    <2>2. QED
      BY <1>0, <2>1 DEF BuildsOnly, Building
  <1>4. CASE Sample \/ Configure \/ LinkPio \/ Stage \/ StageBin \/ (LinkCmake /\ job' = Step("stage"))
    <2>1. job'.pc \in {"configure", "link", "stage", "stage_bin", "record"}
      BY <1>0, <1>4 DEF Sample, Configure, LinkPio, Stage, StageBin, Step, JobState
    <2>2. QED
      BY <2>1 DEF BuildsOnly, Building
  <1>5. CASE \E f \in BOOLEAN : job' = AfterBuild(f)
    <2>1. job'.pc = "idle" \/ job'.op = "update"
      BY <1>0, <1>5, AfterBuildGoes
    <2>2. QED
      BY <2>1 DEF BuildsOnly
  <1>6. CASE Stop \/ Listen \/ WriteCmake \/ Upload
    <2>1. job.pc \in {"stop", "listen", "write"} /\ job'.op = job.op
      BY <1>0, <1>6 DEF Stop, Listen, WriteCmake, Upload, At, JobState
    <2>2. QED
      BY <1>0, <2>1 DEF BuildsOnly, Building
  <1>7. CASE Note
    <2>1. \/ job' = [job EXCEPT !.pc = "file", !.noted = image = app[job.wrote]]
          \/ job' = [job EXCEPT !.pc = "file", !.failed = TRUE]
      BY <1>7 DEF Note
    <2>2. job.pc = "note" /\ job'.op = job.op
      BY <1>0, <1>7, <2>1 DEF Note, At, JobState
    <2>3. QED
      BY <1>0, <2>2 DEF BuildsOnly, Building
  <1>8. CASE File \/ FileFails \/ WriteFails
    <2>1. PICK f \in BOOLEAN : job' = Next_(f)
      BY <1>8 DEF File, FileFails, WriteFails
    <2>2. job.pc \in {"write", "file"} /\ (job'.pc = "idle" \/ job'.op = job.op)
      BY <1>0, <1>8, <2>1, NextIs DEF File, FileFails, WriteFails, At
    <2>3. QED
      BY <1>0, <2>2 DEF BuildsOnly, Building
  <1>9. CASE clean_build_dir \/ Crash
    <2>1. job'.pc = "idle"
      BY <1>9 DEF clean_build_dir, Crash, At, Idle
    <2>2. QED
      BY <2>1 DEF BuildsOnly
  <1>10. CASE Saved \/ Pull \/ Retarget \/ HandStage \/ Toggle \/ \E d \in type.devices : HandFlash(d) \/ Move(d)
    <2>1. job'.pc = "idle" \/ (job'.op = job.op /\ job'.pc = job.pc)
      BY <1>0, <1>10, EventLeaves
    <2>2. QED
      BY <1>0, <2>1 DEF BuildsOnly
  <1>11. LinkCmake \/ RecordBuild \/ BuildFails =>
             (LinkCmake /\ job' = Step("stage")) \/ \E f \in BOOLEAN : job' = AfterBuild(f)
    BY DEF LinkCmake, RecordBuild, BuildFails
  <1>12. QED
    BY <1>1, <1>2, <1>3, <1>4, <1>5, <1>6, <1>7, <1>8, <1>9, <1>10, <1>11 DEF Next

\* Every device that still wanted flashing when one was filed is on the list.
LEMMA FileSettles ==
  ASSUME SInv, TInv', BInv', File, Updating, cmake => ~flick, NEW s \in type.devices, Wants(s)'
  PROVE  \E t \in job.todo \ {job.cur} : t.sec = s
  <1>0. /\ TypeOK /\ TInv /\ job \in JobState /\ BInv /\ Settled /\ Pending /\ Calm
    BY DEF SInv, LInv, BInv, AInv, TInv, TypeOK
  <1>1. /\ job.pc = "file" /\ UNCHANGED <<type, target, tree, build, image, bin, rec, flick, where, app, klipper>>
    BY DEF File, At, source, staging, devices
  <1>2. /\ Wants(s) => \/ \E t \in job.todo \ {job.cur} : t.sec = s
                       \/ cmake /\ s = job.cur.sec
        /\ cmake => app[job.cur.sec] = rec.image
    BY <1>0, <1>1 DEF Pending, Left, Stopped
  <1>3. CASE ~cmake
    <2>1. Wants(s)' <=> Wants(s)
      BY <1>1, <1>3, WantsPio
    <2>2. QED
      BY <1>2, <1>3, <2>1
  <1>4. CASE cmake
    <2>1. job.cur.id = job.cur.sec
      BY <1>0, <1>1, <1>4 DEF Calm, CalmAim, CurIsDue, Stopped, Updating
    <2>2. \/ UNCHANGED ledger
          \/ ledger' = [ledger EXCEPT ![job.cur.sec] = staged_record]
      BY <1>4, <2>1 DEF File, log
    <2>3. CASE s # job.cur.sec
      <3>0. s \in Device /\ ledger \in [Device -> Entry \cup {None}]
        BY <1>0, TypeTyped DEF TypeOK
      <3>1. ledger'[s] = ledger[s]
        BY <2>2, <2>3, <3>0
      <3>2. Wants(s)' <=> Wants(s)
        BY <1>1, <1>4, <3>1, WantsCmake
      <3>3. QED
        BY <1>2, <2>3, <3>2
    <2>4. CASE s = job.cur.sec
      <3>1. s \in Device
        BY <1>0, TypeTyped
      <3>2. staged_record.image \in {None, rec.image, rec.bin}
        BY DEF staged_record, staged
      <3>3. job.cur.id # None
        BY <2>1, <2>4, <3>1, BuildersAssumption
      <3>4. ledger' = [ledger EXCEPT ![s] = staged_record]
        BY <1>4, <2>1, <2>4, <3>3 DEF File, log
      <3>5. ledger'[s].image \in {None, rec.image, rec.bin}
        BY <1>0, <3>1, <3>2, <3>4 DEF TypeOK
      <3>6. artifact_status' = "current"
        BY <1>0, <1>1, StatusFrame, <1>4 DEF Settled
      <3>7. cmake' /\ ~flick' /\ app'[s] = rec'.image /\ ledger'[s].image \in {None, rec'.image, rec'.bin}
        BY <1>1, <1>2, <1>4, <2>4, <3>5 DEF cmake
      <3>8. ~Wants(s)'
        BY <3>6, <3>7, FiledNext DEF FiledRight
      <3>9. QED
        BY <3>8
    <2>5. QED
      BY <2>3, <2>4
  <1>5. QED
    BY <1>3, <1>4

\* While nothing moves a device is written in the socket its section names.
LEMMA PortFor ==
  ASSUME Calm, job.calm, ~cmake, job.pc = "write", NEW t \in job.todo
  PROVE  port_for(t) \in {None, port_of(t.sec)}
  <1>1. t.port = port_of(t.sec) /\ (t.id # None => where[t.id] = t.port)
    BY DEF Calm, CalmAim, Stopped
  <1>2. \A h \in job.heard : h.port = where[h.id]
    BY DEF Calm, CalmHeard
  <1> DEFINE found == {h \in job.heard : h.id = t.id}
  <1>3. CASE job.heard = {} \/ t.id = None
    BY <1>1, <1>3 DEF port_for
  <1>4. CASE ~(job.heard = {} \/ t.id = None) /\ found = {}
    BY <1>4 DEF port_for
  <1>5. CASE ~(job.heard = {} \/ t.id = None) /\ found # {}
    <2>1. port_for(t) = (CHOOSE h \in found : TRUE).port
      BY <1>5 DEF port_for
    <2>2. (CHOOSE h \in found : TRUE) \in found
      BY <1>5
    <2>3. QED
      BY <1>1, <1>2, <1>5, <2>1, <2>2
  <1>6. QED
    BY <1>3, <1>4, <1>5

LEMMA SelectPending ==
  ASSUME SInv, Select
  PROVE  Pending'
  <1>0. TypeOK /\ TInv /\ job \in JobState /\ Calm
    BY DEF SInv, LInv, BInv, AInv, TInv, TypeOK
  <1>1. job.pc = "select" /\ UNCHANGED <<type, target, tree, build, image, bin, rec, flick, where, app, ledger, klipper>>
    BY DEF Select, At, source, staging, devices, log
  <1> SUFFICES ASSUME Updating', job'.pc \in Stopped \cup {"stop"}
               PROVE  /\ job'.pc # "file" /\ job'.pc # "note"
                      /\ \A s \in type.devices : Wants(s)' => \E t \in job'.todo : t.sec = s
    BY <1>1 DEF Pending, Left
  <1>2. /\ job'.pc \in {"write", "stop"} /\ job'.todo = {port_detail(s) : s \in to_flash}
        /\ job.op = "update" /\ job.calm /\ ~job.failed
    BY <1>0, SelectGoes DEF Updating, Stopped
  <1>3. image # None
    BY <1>0, <1>1, <1>2 DEF Calm, Made
  <1>4. ASSUME NEW s \in type.devices, Wants(s)'
        PROVE  \E t \in job'.todo : t.sec = s
    <2>1. Wants(s)
      BY <1>1, <1>4, WantsFrame
    <2>2. needs_flash(s)
      BY <1>1, <2>1, WantsNeeds DEF Stopped
    <2>3. s \in listed
      BY <2>1 DEF Wants, answering, listed
    <2>4. s \in to_flash
      BY <1>3, <2>2, <2>3 DEF to_flash
    <2>5. port_detail(s).sec = s
      BY DEF port_detail
    <2>6. QED
      BY <1>2, <2>4, <2>5
  <1>5. QED
    BY <1>2, <1>4

LEMMA WritePending ==
  ASSUME SInv, WriteCmake
  PROVE  Pending'
  <1>0. /\ TypeOK /\ TInv /\ job \in JobState /\ Calm /\ BInv /\ Settled /\ Pending
    BY DEF SInv, LInv, BInv, AInv, TInv, TypeOK
  <1>1. /\ job.pc = "write" /\ cmake
        /\ UNCHANGED <<type, target, tree, build, image, bin, rec, flick, where, ledger, klipper>>
    BY DEF WriteCmake, At, source, staging
  <1>2. /\ job'.pc = "file" /\ job'.todo = job.todo /\ job'.cur = job.cur /\ job'.op = job.op
        /\ job'.calm = job.calm /\ job'.failed = job.failed
    BY <1>0 DEF WriteCmake, JobState
  <1>3. dirty' = dirty
    BY <1>1 DEF dirty
  <1> SUFFICES ASSUME Updating, ~flick
               PROVE  /\ \A s \in type.devices : Wants(s)' =>
                            (\E t \in job.todo \ {job.cur} : t.sec = s) \/ s = job.cur.sec
                      /\ app'[job.cur.sec] = rec.image
    BY <1>1, <1>2, <1>3 DEF Pending, Left, Updating, cmake
  <1>4. artifact_status = "current"
    BY <1>0, <1>1 DEF Settled
  <1>5. rec # None /\ ~rec.dirty /\ rec.image = image /\ (rec.bin # None => bin \in {None, rec.bin})
    BY <1>1, <1>4 DEF artifact_status, cmake_artifact_status
  <1>6. rec.bin # None => rec.bin = rec.image
    BY <1>0, <1>1, <1>5 DEF BInv, RecordTrue
  <1>7. job.cur \in job.todo /\ job.cur \in Detail
    BY <1>0, <1>1 DEF Calm, CurIsDue, TInv, Shape
  <1>8. accepts[job.cur.flasher] = "bin" => rec.bin # None /\ bin # None
    BY <1>0, <1>1, <1>7 DEF Calm, CalmAim, Stopped, Updating
  <1>9. kind_file(job.cur) = rec.image
    BY <1>5, <1>6, <1>8 DEF kind_file
  <1>10. app' = [app EXCEPT ![job.cur.sec] = rec.image]
    BY <1>9 DEF WriteCmake, Wrote, kind_file
  <1>11. job.cur.sec \in Device
    BY <1>7 DEF Detail
  <1>12. app'[job.cur.sec] = rec.image
    BY <1>0, <1>10, <1>11 DEF TypeOK
  <1>13. ASSUME NEW s \in type.devices, Wants(s)', s # job.cur.sec
         PROVE  \E t \in job.todo \ {job.cur} : t.sec = s
    <2>1. app'[s] = app[s] /\ ledger'[s] = ledger[s]
      BY <1>0, <1>1, <1>10, <1>13 DEF TypeOK
    <2>2. Wants(s)
      BY <1>1, <1>13, <2>1, WantsCmake
    <2>3. \E t \in job.todo : t.sec = s
      BY <1>0, <1>1, <2>2 DEF Pending, Left, Stopped
    <2>4. QED
      BY <1>13, <2>3
  <1>14. QED
    BY <1>12, <1>13

LEMMA UploadPending ==
  ASSUME SInv, TInv', Upload
  PROVE  Pending'
  <1>0. /\ TypeOK /\ TInv /\ job \in JobState /\ Calm /\ Seats /\ Pending /\ TypeOK'
    BY DEF SInv, LInv, BInv, AInv, TInv, TypeOK
  <1>1. /\ job.pc = "write" /\ ~cmake
        /\ UNCHANGED <<type, target, tree, build, bin, rec, flick, where, ledger, klipper>>
    BY DEF Upload, At, source
  <1>2. PICK d \in occupants(port_for(job.cur)) :
            Wrote(d, rebuilt) /\ job' = [job EXCEPT !.pc = "note", !.wrote = d]
    BY DEF Upload
  <1>3. /\ job'.pc = "note" /\ job'.todo = job.todo /\ job'.cur = job.cur /\ job'.op = job.op
        /\ job'.calm = job.calm /\ job'.failed = job.failed
    BY <1>0, <1>2 DEF JobState
  <1>4. dirty' = dirty /\ (cmake' <=> cmake)
    BY <1>1 DEF dirty, cmake
  <1> SUFFICES ASSUME Updating, NEW s \in type.devices, Wants(s)'
               PROVE  \E t \in job.todo \ {job.cur} : t.sec = s
    BY <1>1, <1>3, <1>4 DEF Pending, Left, Updating
  <1>5. job.cur \in job.todo /\ d \in Device /\ where[d] = port_for(job.cur) /\ where[d] # None /\ d \in type.devices
    BY <1>0, <1>1, OccupantsTyped DEF Calm, CurIsDue
  <1>6. where[d] = port_of(job.cur.sec)
    BY <1>0, <1>1, <1>5, PortFor DEF Updating
  <1>7. app' = [app EXCEPT ![d] = rebuilt]
    BY <1>2 DEF Wrote
  <1>8. answers(s) = occupants(port_of(s)) /\ answers(s)' = answers(s)
    BY <1>1 DEF answers, occupants, port_of, cmake
  <1>9. CASE d \in answers(s)
    <2>1. answers(s) \subseteq {d}
      <3>1. SUFFICES ASSUME NEW e \in answers(s)
                     PROVE  e = d
        OBVIOUS
      <3>2. e \in Device /\ where[e] = where[d]
        BY <1>0, <1>8, <1>9, OccupantsTyped
      <3>3. QED
        BY <1>0, <1>5, <3>2 DEF Seats
    <2>2. answers(s)' = {d}
      BY <1>8, <1>9, <2>1
    <2>3. app'[d] = rebuilt
      BY <1>0, <1>5, <1>7 DEF TypeOK
    <2>4. rebuilt.version = source_state.version
      BY DEF rebuilt
    <2>5. source_state' = source_state
      BY <1>1 DEF source_state, dirty, sha, cmake
    <2>6. rebuilt # None
      BY <1>0, ImagesTyped, BuildersAssumption
    <2>7. TypeOK' /\ ~cmake' /\ ~dirty' /\ app'[d] # None /\ app'[d].version = source_state'.version
      BY <1>0, <1>1, <1>4, <2>3, <2>4, <2>5, <2>6 DEF Updating
    <2>8. ~Wants(s)'
      BY <2>2, <2>7, WrittenNext DEF WrittenRight
    <2>9. QED
      BY <2>8
  <1>10. CASE d \notin answers(s)
    <2>1. \A x \in answers(s) : app'[x] = app[x]
      <3>1. SUFFICES ASSUME NEW x \in answers(s)
                     PROVE  app'[x] = app[x]
        OBVIOUS
      <3>2. x \in Device /\ x # d
        BY <1>0, <1>8, <1>10, OccupantsTyped
      <3>3. QED
        BY <1>0, <1>7, <3>2 DEF TypeOK
    <2>2. Wants(s)
      BY <1>1, <2>1, WantsPio
    <2>3. PICK t \in job.todo : t.sec = s
      BY <1>0, <1>1, <2>2 DEF Pending, Left, Stopped
    <2>4. t # job.cur
      BY <1>5, <1>6, <1>8, <1>10, <2>3 DEF occupants
    <2>5. QED
      BY <2>3, <2>4
  <1>11. QED
    BY <1>9, <1>10

LEMMA NotePending ==
  ASSUME SInv, Note
  PROVE  Pending'
  <1>0. /\ TypeOK /\ TInv /\ job \in JobState /\ Pending
    BY DEF SInv, LInv, BInv, AInv, TInv, TypeOK
  <1>1. /\ job.pc = "note" /\ ~cmake /\ UNCHANGED <<type, target, tree, where, app, klipper>>
    BY <1>0 DEF Note, At, source, devices, TInv, Shape
  <1>2. \/ job' = [job EXCEPT !.pc = "file", !.noted = image = app[job.wrote]]
        \/ job' = [job EXCEPT !.pc = "file", !.failed = TRUE]
    BY DEF Note
  <1>3. /\ job'.pc = "file" /\ job'.todo = job.todo /\ job'.cur = job.cur /\ job'.op = job.op
        /\ job'.calm = job.calm /\ (job.failed => job'.failed)
    BY <1>0, <1>2 DEF JobState
  <1>4. dirty' = dirty /\ (cmake' <=> cmake)
    BY <1>1 DEF dirty, cmake
  <1> SUFFICES ASSUME Updating, NEW s \in type.devices, Wants(s)'
               PROVE  \E t \in job.todo \ {job.cur} : t.sec = s
    BY <1>1, <1>3, <1>4 DEF Pending, Left, Updating
  <1>5. Wants(s)
    BY <1>1, WantsPio
  <1>6. QED
    BY <1>0, <1>1, <1>5 DEF Pending, Left, Stopped

LEMMA FilePending ==
  ASSUME SInv, TInv', BInv', File
  PROVE  Pending'
  <1>0. TypeOK /\ TInv /\ job \in JobState
    BY DEF SInv, LInv, BInv, AInv, TInv, TypeOK
  <1>1. /\ UNCHANGED <<type, tree, flick>> /\ job' = Next_(FALSE)
    BY DEF File, source, staging
  <1>2. \/ job'.pc = "idle"
        \/ /\ job'.pc = "write" /\ job'.todo = job.todo \ {job.cur} /\ job'.op = job.op
           /\ job'.calm = job.calm /\ (job'.failed <=> job.failed)
    BY <1>0, <1>1, NextIs
  <1>3. dirty' = dirty /\ (cmake' <=> cmake)
    BY <1>1 DEF dirty, cmake
  <1> SUFFICES ASSUME Updating, cmake => ~flick, job'.pc = "write", job'.todo = job.todo \ {job.cur},
                      NEW s \in type.devices, Wants(s)'
               PROVE  \E t \in job.todo \ {job.cur} : t.sec = s
    BY <1>1, <1>2, <1>3 DEF Pending, Left, Updating, Stopped
  <1>4. QED
    BY FileSettles

\* A step that leaves the list and the devices alone.
LEMMA FramePending ==
  ASSUME SInv, UNCHANGED <<type, target, tree, image, bin, rec, flick, where, app, ledger, klipper>>,
         job.pc \in {"stop", "listen"}, job'.pc \in {"listen", "write"}, job'.todo = job.todo,
         job'.op = job.op, job'.calm = job.calm, job'.failed = job.failed
  PROVE  Pending'
  <1>1. dirty' = dirty /\ (cmake' <=> cmake)
    BY DEF dirty, cmake
  <1> SUFFICES ASSUME Updating, cmake => ~flick, NEW s \in type.devices, Wants(s)'
               PROVE  \E t \in job.todo : t.sec = s
    BY <1>1 DEF Pending, Left, Updating, Stopped
  <1>2. Wants(s)
    BY WantsFrame
  <1>3. QED
    BY <1>2 DEF SInv, Pending, Left, Stopped

LEMMA StepPending ==
  ASSUME SInv, TInv', BInv', Next
  PROVE  Pending'
  <1>0. TypeOK /\ TInv /\ job \in JobState
    BY DEF SInv, LInv, BInv, AInv, TInv, TypeOK
  <1>1. CASE build_type \/ build_all \/ update_all
    <2>1. CASE \E o \in {"build", "update"} : job' = BuildFrom(Asked(o))
      <3>1. job'.pc \in {"sample", "link"}
        BY <2>1 DEF BuildFrom, Asked, Idle
      <3>2. QED
        BY <3>1 DEF Pending, Stopped
    <2>2. CASE ~\E o \in {"build", "update"} : job' = BuildFrom(Asked(o))
      <3>1. job' = [Idle EXCEPT !.op = "update", !.pc = "select", !.failed = source_problem]
        BY <1>1, <2>2 DEF build_type, build_all, update_all
      <3>2. job'.pc = "select"
        BY <3>1 DEF Idle
      <3>3. QED
        BY <3>2 DEF Pending, Stopped
    <2>3. QED
      BY <2>1, <2>2
  <1>2. CASE flash_all \/ \E s \in type.devices : flash(s)
    BY <1>0, <1>2, FlashGoes DEF Pending, Updating
  <1>3. CASE Sample \/ Configure \/ LinkPio \/ Stage \/ StageBin \/ (LinkCmake /\ job' = Step("stage"))
    <2>1. job'.pc \in {"configure", "link", "stage", "stage_bin", "record"}
      BY <1>0, <1>3 DEF Sample, Configure, LinkPio, Stage, StageBin, Step, JobState
    <2>2. QED
      BY <2>1 DEF Pending, Stopped
  <1>4. CASE \E f \in BOOLEAN : job' = AfterBuild(f)
    <2>1. job'.pc = "idle" \/ job'.pc = "select"
      BY <1>0, <1>4, AfterBuildGoes
    <2>2. QED
      BY <2>1 DEF Pending, Stopped
  <1>5. CASE Stop \/ Listen
    <2>1. UNCHANGED <<type, target, tree, image, bin, rec, flick, where, app, ledger, klipper>>
      BY <1>5 DEF Stop, Listen, source, staging, devices, log
    <2>2. /\ job.pc \in {"stop", "listen"} /\ job'.pc \in {"listen", "write"} /\ job'.todo = job.todo
          /\ job'.op = job.op /\ job'.calm = job.calm /\ job'.failed = job.failed
      BY <1>0, <1>5 DEF Stop, Listen, At, JobState
    <2>3. QED
      BY <2>1, <2>2, FramePending
  <1>6. CASE FileFails \/ WriteFails
    <2>1. job' = Next_(TRUE)
      BY <1>6 DEF FileFails, WriteFails
    <2>2. job'.pc = "idle" \/ job'.failed
      BY <1>0, <2>1, NextIs
    <2>3. QED
      BY <2>2 DEF Pending, Updating, Stopped
  <1>7. CASE clean_build_dir \/ Crash
    <2>1. job'.pc = "idle"
      BY <1>7 DEF clean_build_dir, Crash, At, Idle
    <2>2. QED
      BY <2>1 DEF Pending, Stopped
  <1>8. CASE Saved \/ Pull \/ Retarget \/ HandStage \/ Toggle \/ \E d \in type.devices : HandFlash(d) \/ Move(d)
    <2>1. job'.pc = "idle" \/ ~job'.calm
      BY <1>0, <1>8, EventLeaves
    <2>2. QED
      BY <2>1 DEF Pending, Updating, Stopped
  <1>9. LinkCmake \/ RecordBuild \/ BuildFails =>
            (LinkCmake /\ job' = Step("stage")) \/ \E f \in BOOLEAN : job' = AfterBuild(f)
    BY DEF LinkCmake, RecordBuild, BuildFails
  <1>10. QED
    BY <1>1, <1>2, <1>3, <1>4, <1>5, <1>6, <1>7, <1>8, <1>9,
       SelectPending, WritePending, UploadPending, NotePending, FilePending DEF Next

\* Nothing changed but the build directory.
LEMMA IdleSettles ==
  ASSUME SInv, UNCHANGED <<type, target, tree, image, bin, rec, flick, where, app, ledger, klipper, job>>
  PROVE  Settled' /\ Pending' /\ BuildSettles'
  <1>1. artifact_status' = artifact_status /\ dirty' = dirty /\ (cmake' <=> cmake)
    BY StatusFrame DEF cmake
  <1>2. \A s : Wants(s)' <=> Wants(s)
    BY WantsFrame
  <1>3. Settled'
    BY <1>1 DEF SInv, Settled, Updating
  <1>4. Pending'
    BY <1>1, <1>2 DEF SInv, Pending, Left, Updating
  <1>5. listed' = listed
    BY DEF listed, present, whole, occupants, port_of, cmake
  <1>6. job.pc = "idle" /\ (cmake \/ tree.head \in Speaks) =>
            \A s \in listed : needs_flash(s)' => needs_flash(s)
    <2>1. SUFFICES ASSUME job.pc = "idle", (cmake \/ tree.head \in Speaks)',
                          NEW s \in listed, needs_flash(s)'
                   PROVE  needs_flash(s)
      BY <1>1
    <2>2. Wants(s)'
      BY <2>1, NeedsNext DEF NeedsRight
    <2>3. Wants(s)
      BY <1>2, <2>2
    <2>4. QED
      BY <2>1, <2>3, WantsNeeds DEF Stopped
  <1>7. BuildSettles'
    BY <1>1, <1>5, <1>6 DEF SInv, BuildSettles, At
  <1>8. QED
    BY <1>3, <1>4, <1>7

LEMMA RecordSettles ==
  ASSUME SInv, TInv', RecordBuild
  PROVE  BuildSettles'
  <1>0. TypeOK /\ TInv /\ job \in JobState
    BY DEF SInv, LInv, BInv, AInv, TInv, TypeOK
  <1>1. job' = AfterBuild(FALSE) /\ UNCHANGED tree
    BY DEF RecordBuild, source
  <1>2. dirty' = dirty
    BY <1>1 DEF dirty
  <1>3. job'.pc = "idle" /\ job'.op # "none" => job.calm /\ job'.op # "update"
    BY <1>0, <1>1, AfterBuildGoes
  <1>4. QED
    BY <1>2, <1>3, RecordCurrent DEF BuildSettles, At

LEMMA SelectSettles ==
  ASSUME SInv, Select
  PROVE  BuildSettles'
  <1>0. TypeOK /\ TInv /\ job \in JobState /\ Calm /\ BuildsOnly /\ Settled
    BY DEF SInv, LInv, BInv, AInv, TInv, TypeOK
  <1>1. job.pc = "select" /\ UNCHANGED <<type, target, tree, build, image, bin, rec, flick, where, app, ledger, klipper>>
    BY DEF Select, At, source, staging, devices, log
  <1>2. artifact_status' = artifact_status /\ dirty' = dirty
    BY <1>1, StatusFrame
  <1> SUFFICES ASSUME job'.pc = "idle", job'.op \in {"build", "update"}, ~dirty, ~flick
               PROVE  /\ artifact_status = "current"
                      /\ (cmake \/ tree.head \in Speaks)' => \A s \in listed' : ~needs_flash(s)'
    BY <1>1, <1>2 DEF BuildSettles, At
  <1>3. ~job.failed /\ to_flash = {} /\ job.calm /\ job.op \in {"build", "update"}
    BY <1>0, SelectGoes
  <1>4. Updating
    BY <1>0, <1>1, <1>3 DEF BuildsOnly, Building, Updating
  <1>5. artifact_status = "current"
    BY <1>0, <1>1, <1>4 DEF Settled
  <1>6. image # None
    BY <1>0, <1>1, <1>4 DEF Calm, Made, Updating
  <1>7. listed' = listed
    BY <1>1 DEF listed, present, whole, occupants, port_of, cmake
  <1>8. ASSUME (cmake \/ tree.head \in Speaks)', NEW s \in listed, needs_flash(s)'
        PROVE  FALSE
    <2>1. Wants(s)'
      BY <1>8, NeedsNext DEF NeedsRight
    <2>2. Wants(s)
      BY <1>1, <2>1, WantsFrame
    <2>3. needs_flash(s)
      BY <1>1, <2>2, WantsNeeds DEF Stopped
    <2>4. QED
      BY <1>3, <1>6, <2>3 DEF to_flash
  <1>9. QED
    BY <1>5, <1>7, <1>8

LEMMA FileLeaves ==
  ASSUME SInv, TInv', BInv', File
  PROVE  BuildSettles'
  <1>0. TypeOK /\ TInv /\ job \in JobState /\ BuildsOnly /\ Settled
    BY DEF SInv, LInv, BInv, AInv, TInv, TypeOK
  <1>1. /\ job.pc = "file" /\ UNCHANGED <<type, target, tree, image, bin, rec, flick>> /\ job' = Next_(FALSE)
    BY DEF File, At, source, staging
  <1>2. artifact_status' = artifact_status /\ dirty' = dirty
    BY <1>1, StatusFrame
  <1> SUFFICES ASSUME job'.pc = "idle", job'.op \in {"build", "update"}, ~dirty, ~flick
               PROVE  /\ artifact_status = "current"
                      /\ (cmake \/ tree.head \in Speaks)' => \A s \in listed' : ~needs_flash(s)'
    BY <1>1, <1>2 DEF BuildSettles, At
  <1>3. job.todo \ {job.cur} = {} /\ job' = Over(job.failed \/ FALSE)
    BY <1>0, <1>1, NextIs
  <1>4. ~job.failed /\ job.calm /\ job.op \in {"build", "update"}
    <2>1. job.failed \in BOOLEAN
      BY <1>0 DEF JobState
    <2>2. job' = Over(job.failed)
      BY <1>3, <2>1
    <2>3. QED
      BY <1>0, <2>1, <2>2, OverIs
  <1>5. Updating
    BY <1>0, <1>1, <1>4 DEF BuildsOnly, Building, Updating
  <1>6. artifact_status = "current"
    BY <1>0, <1>1, <1>5 DEF Settled
  <1>7. ASSUME (cmake \/ tree.head \in Speaks)', NEW s \in listed', needs_flash(s)'
        PROVE  FALSE
    <2>1. Wants(s)'
      BY <1>7, NeedsNext DEF NeedsRight
    <2>2. s \in type.devices
      BY <1>1, <1>7 DEF listed
    <2>3. \E t \in job.todo \ {job.cur} : t.sec = s
      BY <1>5, <2>1, <2>2, FileSettles
    <2>4. QED
      BY <1>3, <2>3
  <1>8. QED
    BY <1>6, <1>7

LEMMA StepSettles ==
  ASSUME SInv, TInv', BInv', Next
  PROVE  BuildSettles'
  <1>0. TypeOK /\ TInv /\ job \in JobState
    BY DEF SInv, LInv, BInv, AInv, TInv, TypeOK
  <1>1. CASE build_type \/ build_all \/ update_all
    <2>1. CASE \E o \in {"build", "update"} : job' = BuildFrom(Asked(o))
      <3>1. job'.pc \in {"sample", "link"}
        BY <2>1 DEF BuildFrom, Asked, Idle
      <3>2. QED
        BY <3>1 DEF BuildSettles, At
    <2>2. CASE ~\E o \in {"build", "update"} : job' = BuildFrom(Asked(o))
      <3>1. job' = [Idle EXCEPT !.op = "update", !.pc = "select", !.failed = source_problem]
        BY <1>1, <2>2 DEF build_type, build_all, update_all
      <3>2. job'.pc = "select"
        BY <3>1 DEF Idle
      <3>3. QED
        BY <3>2 DEF BuildSettles, At
    <2>3. QED
      BY <2>1, <2>2
  <1>2. CASE flash_all \/ \E s \in type.devices : flash(s)
    BY <1>0, <1>2, FlashGoes DEF BuildSettles
  <1>3. CASE Sample \/ Configure \/ LinkPio \/ Stage \/ StageBin \/ (LinkCmake /\ job' = Step("stage"))
    <2>1. job'.pc \in {"configure", "link", "stage", "stage_bin", "record"}
      BY <1>0, <1>3 DEF Sample, Configure, LinkPio, Stage, StageBin, Step, JobState
    <2>2. QED
      BY <2>1 DEF BuildSettles, At
  <1>4. CASE (LinkCmake \/ BuildFails) /\ job' = AfterBuild(TRUE)
    <2>1. job'.pc = "select" \/ job'.op = "none"
      BY <1>0, <1>4, AfterBuildGoes
    <2>2. QED
      BY <2>1 DEF BuildSettles, At
  <1>5. CASE Stop \/ Listen \/ WriteCmake \/ Upload
    <2>1. job'.pc \in {"listen", "write", "file", "note"}
      BY <1>0, <1>5 DEF Stop, Listen, WriteCmake, Upload, JobState
    <2>2. QED
      BY <2>1 DEF BuildSettles, At
  <1>6. CASE Note
    <2>1. \/ job' = [job EXCEPT !.pc = "file", !.noted = image = app[job.wrote]]
          \/ job' = [job EXCEPT !.pc = "file", !.failed = TRUE]
      BY <1>6 DEF Note
    <2>2. job'.pc = "file"
      BY <1>0, <2>1 DEF JobState
    <2>3. QED
      BY <2>2 DEF BuildSettles, At
  <1>7. CASE FileFails \/ WriteFails
    <2>1. job' = Next_(TRUE)
      BY <1>7 DEF FileFails, WriteFails
    <2>2. job'.pc = "write" \/ job' = Over(job.failed \/ TRUE)
      BY <1>0, <2>1, NextIs
    <2>3. job'.pc = "write" \/ job'.op = "none"
      BY <1>0, <2>2, OverIs
    <2>4. QED
      BY <2>3 DEF BuildSettles, At
  <1>8. CASE clean_build_dir
    <2>1. UNCHANGED <<type, target, tree, image, bin, rec, flick, where, app, ledger, klipper, job>>
      BY <1>8 DEF clean_build_dir, staging, devices, log
    <2>2. QED
      BY <2>1, IdleSettles
  <1>9. CASE Crash
    <2>1. job'.op = "none"
      BY <1>9 DEF Crash, Idle
    <2>2. QED
      BY <2>1 DEF BuildSettles
  <1>10. CASE Saved \/ Pull \/ Retarget \/ HandStage \/ Toggle \/ \E d \in type.devices : HandFlash(d) \/ Move(d)
    <2>1. job'.op = "none" \/ job'.pc # "idle"
      BY <1>0, <1>10, EventLeaves
    <2>2. QED
      BY <2>1 DEF BuildSettles, At
  <1>11. QED
    BY <1>1, <1>2, <1>3, <1>4, <1>5, <1>6, <1>7, <1>8, <1>9, <1>10, RecordSettles, SelectSettles, FileLeaves
       DEF Next, LinkCmake, BuildFails

LEMMA StepSafe ==
  ASSUME SInv, [Next]_vars
  PROVE  SInv'
  <1>1. LInv'
    BY StepLedger DEF SInv
  <1>2. BInv' /\ TInv'
    BY <1>1 DEF LInv, BInv, AInv
  <1>3. Calm'
    BY <1>2, StepCalm
  <1>4. CASE UNCHANGED vars
    <2>1. UNCHANGED <<type, target, tree, image, bin, rec, flick, where, app, ledger, klipper, job>>
      BY <1>4 DEF vars, source, staging, devices, log
    <2>2. Settled' /\ Pending' /\ BuildSettles'
      BY <2>1, IdleSettles
    <2>3. BuildsOnly'
      BY <2>1 DEF SInv, BuildsOnly
    <2>4. QED
      BY <1>1, <1>3, <2>2, <2>3 DEF SInv
  <1>5. CASE Next
    <2>1. BuildsOnly'
      BY <1>5, StepOps DEF SInv, LInv, BInv, AInv
    <2>2. Settled' /\ Pending' /\ BuildSettles'
      BY <1>2, <1>5, StepSettled, StepPending, StepSettles
    <2>3. QED
      BY <1>1, <1>3, <2>1, <2>2 DEF SInv
  <1>6. QED
    BY <1>4, <1>5

LEMMA InitSafe ==
  ASSUME Init
  PROVE  SInv
  <1>1. LInv
    BY InitLedger
  <1>2. job.pc = "idle" /\ job.op = "none"
    BY DEF Init, Idle
  <1>3. QED
    BY <1>1, <1>2 DEF SInv, Calm, CurIsDue, CalmBuild, CalmAim, CalmHeard, Made, BuildsOnly,
                      Settled, Pending, BuildSettles, Stopped, Building

\* A build that ended well, with nothing moving meanwhile and nothing uncommitted,
\* leaves its image current; an update (bulk.py, update_all) leaves no device that
\* its type's verdict would have flashed again, if what the tree makes speaks the
\* printer's protocol.
THEOREM TheBuildSettles == Spec => []BuildSettles
  <1>1. Init => SInv
    BY InitSafe
  <1>2. SInv /\ [Next]_vars => SInv'
    BY StepSafe
  <1>3. SInv => BuildSettles
    BY DEF SInv
  <1>4. QED
    BY <1>1, <1>2, <1>3, PTL DEF Spec
=============================================================================
