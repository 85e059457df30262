------------------------------ MODULE Builders ------------------------------
(***************************************************************************)
(* The two builders beside Kconfig and make: a CMake tree                  *)
(* (providers/cmake.py) and a PlatformIO project (providers/pio.py), from  *)
(* the source tree to the devices that hold what it compiled, with the     *)
(* jobs of agent/methods/build.py, flash.py and bulk.py that drive them.   *)
(*                                                                         *)
(* One type is owned by one of them.  A CMake image is copied out of the   *)
(* build directory, its raw image beside it, and described by a record; a  *)
(* PlatformIO image is flashed where it was built, by an upload that       *)
(* compiles what is stale first.  A hash of a file is the file's content.  *)
(* A CMake board is written from its .uf2; a PlatformIO device at the port *)
(* it is found on once the services that hold the ports are stopped.       *)
(***************************************************************************)
EXTENDS Selection, FiniteSets

CONSTANTS
    Device,      \* devices, by the identity in their chip
    Types,       \* [by, devices, measures]: the builder the type's family names,
                 \* its devices, and those that report their image's digest
    Port,        \* USB sockets
    Home,        \* [Device -> Port]: the socket a device's section names
    Named,       \* devices whose section names the identity, not a socket
    Target,      \* CMake targets
    Commit,      \* commits of the repository
    Subtree,     \* [Commit -> Commit]: the last commit to touch the source directory
    Declares,    \* [Commit -> SUBSET Target]: what its CMakeLists declares
    WithBin,     \* commits whose link also makes a raw image
    Tagged,      \* commits that carry their release's tag
    Speaks,      \* commits whose firmware speaks the protocol of the printer's module
    Args,        \* the family's cmake_args: stamp ${git_describe}
    Submodules,  \* the family's submodules: yes
    Listed,      \* [Builder -> Seq(FLASHERS)]: the family's flashers
    Helper,      \* the CMake family's helper
    None,        \* no file, no record, no place
    Happening,   \* what may happen from outside
    MaxEvents    \* and how often in all

Builder == {"cmake", "pio"}
AllHappening == {"edit", "pull", "retarget", "handstage", "handflash", "move",
                 "klipper", "crash"}

Content == [sha : Commit, edit : BOOLEAN, sub : BOOLEAN]
Version == [head : Commit, dirty : BOOLEAN]

\* src: every state of the tree while it was compiled; {} is somebody's file.
Image == [src : SUBSET Content, target : Target \cup {None},
          version : Version \cup {None}, whole : BOOLEAN]
Record == [sha : Commit, version : Version, dirty : BOOLEAN,
           target : Target \cup {None}, image : Image, bin : Image \cup {None}]
Entry == [image : Image \cup {None}, sha : Commit \cup {None},
          version : Version \cup {None}]
State == [sha : Commit, dirty : BOOLEAN, version : Version]
BuildDir == [configured : BOOLEAN, version : Version \cup {None}, list : SUBSET Target,
             elf : [Target -> Image \cup {None}], bin : [Target -> Image \cup {None}],
             fresh : [Target -> BOOLEAN]]

\* Devices start in sockets of their own, and no file, place or record is None.
ASSUME BuildersAssumption ==
    /\ Types \subseteq [by : Builder, devices : SUBSET Device, measures : SUBSET Device]
    /\ Home \in [Device -> Port] /\ \A d, e \in Device : Home[d] = Home[e] => d = e
    /\ Subtree \in [Commit -> Commit] /\ Declares \in [Commit -> SUBSET Target]
    /\ Listed \in [Builder -> Seq(FLASHERS)] /\ Args \in BOOLEAN
    /\ None \notin Device /\ None \notin Port
    /\ None \notin Image /\ None \notin Record /\ None \notin Version
    /\ MaxEvents \in Nat

VARIABLES
    type,        \* the type at hand
    target,      \* the configured cmake_target
    tree,        \* the source tree: its head, an edit, its submodule's state
    build,       \* the CMake build directory
    image,       \* the .uf2 staged, or the firmware.bin in .pio/build
    bin,         \* the raw image staged beside the .uf2
    rec,         \* the build record
    where,       \* [Device -> Port or None]
    app,         \* [Device -> Image or None]: what each device holds
    ledger,      \* [Device -> Entry or None]: the flash log
    klipper,     \* Klipper answers
    job,         \* the agent's job and its local variables
    flick,       \* history: something moved under the build that was recorded and
                 \* the record cannot show it: the tree, if it came back before
                 \* CMake's second sample, or at all under PlatformIO, which takes
                 \* one, after; or a staged file, before it was hashed
    sound,       \* history: devices this tool wrote last and filed a hash for, no
                 \* step of noting and filing it having failed
    events       \* how many outside events have happened

source == <<target, tree, build>>
staging == <<image, bin, rec, flick>>
devices == <<where, app, klipper>>
log == <<ledger, sound>>
vars == <<type, source, staging, devices, log, job, events>>

cmake == type.by = "cmake"

Idle == [op |-> "none", pc |-> "idle", target |-> None, state |-> None,
         from |-> {}, moved |-> FALSE, todo |-> {}, cur |-> None, map |-> None,
         heard |-> {}, settled |-> FALSE, wrote |-> None, noted |-> FALSE,
         failed |-> FALSE, calm |-> TRUE]
Building == {"sample", "configure", "link", "stage", "stage_bin", "record"}
Stopped == {"listen", "write", "note", "file"}

\* Once over, a job is remembered for as long as it speaks for the present.
Over(f) ==
    [Idle EXCEPT !.op = IF ~f /\ job.calm /\ job.op \in {"build", "update"} THEN job.op ELSE "none"]
At(l) == job.pc = l

-----------------------------------------------------------------------------
(* The source tree *)

\* git asked with a pathspec for a subdirectory, and without for a whole tree.
sha(h) == IF cmake THEN Subtree[h] ELSE h
dirty == tree.edit \/ ~tree.sub
content_of(t) == [sha |-> sha(t.head), edit |-> t.edit, sub |-> t.sub]
content == content_of(tree)
Clean(s) == [sha |-> s, edit |-> FALSE, sub |-> TRUE]

\* What git and PlatformIO's scripts say of the tree as it is now.
source_state == [sha |-> sha(tree.head), dirty |-> dirty,
                 version |-> [head |-> tree.head, dirty |-> dirty]]

\* A release build carries its tag and no commit.
running_sha(version) == IF version.head \in Tagged THEN None ELSE version.head

-----------------------------------------------------------------------------
(* The build directory *)

EmptyDir == [configured |-> FALSE, version |-> None, list |-> {},
             elf |-> [t \in Target |-> None], bin |-> [t \in Target |-> None],
             fresh |-> [t \in Target |-> FALSE]]

\* The target list is in the generated build system: an unconfigured directory
\* has none to be asked for, which forbids nothing.
declared_targets == IF build.configured THEN build.list ELSE Target
source_problem == cmake /\ target \notin declared_targets

needs_configure == ~build.configured

\* A raw image older than the last link of its target was made by an earlier one.
fresh_bin(t) == IF build.fresh[t] THEN build.bin[t] ELSE None

-----------------------------------------------------------------------------
(* What is staged, and whether it is current *)

\* A .uf2 is offered whenever there is one, a raw image when the record has it.
staged_kinds ==
    IF ~cmake THEN {[kind |-> "pio_env"]}
    ELSE {i \in {[kind |-> "uf2"], [kind |-> "bin"]} :
             /\ image # None
             /\ i.kind = "bin" => rec # None /\ rec.bin # None /\ bin # None}

cmake_artifact_status ==
    IF image = None THEN "never_built"
    ELSE IF rec = None THEN "no_provenance"
    ELSE IF rec.image # image \/ (rec.bin # None /\ bin \notin {None, rec.bin})
         THEN "foreign_build"
    ELSE IF rec.dirty THEN "built_dirty"
    ELSE IF rec.target # target THEN "config_changed"
    ELSE IF rec.sha # sha(tree.head) THEN "source_changed"
    ELSE "current"

pio_artifact_status ==
    IF image = None THEN "never_built"
    ELSE IF rec = None \/ rec.image # image THEN "no_provenance"
    ELSE IF rec.dirty THEN "built_dirty"
    ELSE IF rec.sha # sha(tree.head) THEN "source_changed"
    ELSE "current"

artifact_status == IF cmake THEN cmake_artifact_status ELSE pio_artifact_status

-----------------------------------------------------------------------------
(* The devices, and what each wants *)

whole(d) == app[d] # None /\ app[d].whole
occupants(p) == {d \in type.devices : where[d] = p /\ p # None}

\* A PlatformIO section is found by identity, or is whatever sits in its socket.
port_of(s) == IF s \in Named THEN where[s] ELSE Home[s]
present(s) == IF cmake THEN where[s] # None /\ (app[s] # None => whole(s))
              ELSE occupants(port_of(s)) # {}

\* The device that answers Klipper for a section.
answers(s) == IF cmake THEN {s} ELSE occupants(port_of(s))
reports(s) == /\ klipper /\ job.pc \notin Stopped
              /\ present(s) /\ \A d \in answers(s) : whole(d)
version(s) == (CHOOSE i \in {app[d] : d \in answers(s)} : TRUE).version

\* A record that does not describe the bytes on disk judges no board.
sidecar ==
    IF artifact_status \in {"never_built", "no_provenance", "foreign_build"}
    THEN None ELSE rec

entry_for(d) ==
    LET e == ledger[d]  running == running_sha(version(d))
    IN  IF \/ e = None
           \/ running # None /\ e.sha \notin {None, running}
           \/ running = None /\ e.version \notin {None, version(d)}
        THEN None ELSE e

\* What the record adds once the version the build stamped is reported.
_record_verdict(d) ==
    IF entry_for(d) = None THEN "version_only"
    ELSE IF entry_for(d).image \notin {None, sidecar.image, sidecar.bin}
    THEN "artifact_changed" ELSE "current"

\* A digest is the image's own word for what it is.
_image_verdict(d) == IF app[d] = sidecar.image THEN "current" ELSE "unexpected_image"

\* A measurement outranks a version, and a version is all a record can add to.
cmake_verdict(d) ==
    IF ~present(d) THEN "offline"
    ELSE IF ~reports(d) THEN "unknown_version"
    ELSE IF d \in type.measures /\ sidecar # None
    THEN _image_verdict(d)
    ELSE IF version(d) = None THEN "unknown_version"
    ELSE IF version(d).dirty THEN "device_dirty"
    ELSE IF sidecar = None THEN "unknown_version"
    ELSE IF version(d) # sidecar.version THEN "source_changed"
    ELSE _record_verdict(d)

\* The device says of itself that it cannot work with the printer: a word that
\* no version has, and that outranks them all.
compatible(s) == version(s) = None \/ version(s).head \in Speaks

\* A bare release version is current only on its tag, with nothing uncommitted.
pio_verdict(s) ==
    IF ~present(s) THEN "offline"
    ELSE IF ~reports(s) THEN "unknown_version"
    ELSE IF ~compatible(s) THEN "protocol_mismatch"
    ELSE IF version(s) = None THEN "unknown_version"
    ELSE IF version(s).dirty THEN "device_dirty"
    ELSE IF version(s).head # tree.head \/ (tree.head \in Tagged /\ dirty)
    THEN "source_changed" ELSE "current"

verdict(s) == IF cmake THEN cmake_verdict(s) ELSE pio_verdict(s)
needs_flash(s) ==
    verdict(s) \in {"protocol_mismatch", "source_changed", "artifact_changed", "unexpected_image"}

-----------------------------------------------------------------------------
(* Building: one step per command the build runs, so that the tree and the *)
(* files may move between any two.                                         *)

Step(l) == [job EXCEPT !.pc = l]
AfterBuild(f) ==
    IF job.op = "update" THEN [job EXCEPT !.pc = "select", !.failed = @ \/ f, !.from = {},
                                          !.state = None, !.moved = FALSE, !.target = None]
    ELSE Over(job.failed \/ f)

BuildFrom(j) == IF cmake THEN [j EXCEPT !.pc = "sample"]
                ELSE [j EXCEPT !.pc = "link", !.from = {content}]

\* Anything not provably current wants a build; a blocked type is passed over.
to_build == ~source_problem /\ artifact_status # "current"

Asked(op) == [Idle EXCEPT !.op = op, !.target = IF cmake THEN target ELSE None]

\* fw.build names the type, and is refused at once where it cannot be built.
build_type ==
    /\ At("idle") /\ ~source_problem
    /\ job' = BuildFrom(Asked("build"))
    /\ UNCHANGED <<type, source, staging, devices, log, events>>

\* fw.build_all builds what is stale, and is refused when nothing is.
build_all ==
    /\ At("idle") /\ to_build
    /\ job' = BuildFrom(Asked("build"))
    /\ UNCHANGED <<type, source, staging, devices, log, events>>

\* fw.update_all passes over a type that is blocked without a word.
update_all ==
    /\ At("idle")
    /\ job' = IF to_build THEN BuildFrom(Asked("update"))
              ELSE [Idle EXCEPT !.op = "update", !.pc = "select", !.failed = source_problem]
    /\ UNCHANGED <<type, source, staging, devices, log, events>>

\* Mutant: the sample, then the sync.
SampleFirst ==
    /\ At("sample")
    /\ tree' = [tree EXCEPT !.sub = TRUE]
    /\ job' = [job EXCEPT !.pc = "configure", !.state = source_state, !.moved = FALSE]
    /\ UNCHANGED <<type, target, build, staging, devices, log, events>>

\* The submodules first: a sample taken before the sync would describe a tree
\* that is gone.
Sample ==
    /\ At("sample")
    /\ UNCHANGED <<type, target, build, staging, devices, log, events>>
    /\ tree' = [tree EXCEPT !.sub = TRUE]
    /\ job' = [job EXCEPT !.pc = "configure", !.state = source_state', !.moved = FALSE]

\* ${git_describe}, from the sample.
expand_args(state) == IF Args THEN state.version ELSE None

\* Only passing cmake_args again refreshes a version in the cache.
Configure ==
    /\ At("configure")
    /\ build' = IF needs_configure \/ Args
                THEN [build EXCEPT !.configured = TRUE, !.list = Declares[tree.head],
                                   !.version = expand_args(job.state)]
                ELSE build
    /\ job' = [job EXCEPT !.pc = "link", !.from = {content}]
    /\ UNCHANGED <<type, target, tree, staging, devices, log, events>>

compiled ==
    [src |-> job.from, target |-> job.target, whole |-> TRUE,
     version |-> IF cmake THEN build.version ELSE source_state.version]

up_to_date(i) == i # None /\ i.whole /\ i.version = compiled.version /\ i.src = {content}

\* make generates again when CMakeLists.txt has moved, and links only what changed.
LinkCmake ==
    /\ At("link") /\ cmake
    /\ build' =
         LET b == [build EXCEPT !.list = Declares[tree.head]]
         IN  IF up_to_date(b.elf[job.target]) \/ job.target \notin b.list THEN b
             ELSE [b EXCEPT !.elf[job.target] = compiled,
                            !.bin[job.target] = IF tree.head \in WithBin THEN compiled ELSE @,
                            !.fresh[job.target] = tree.head \in WithBin]
    /\ job' = IF job.target \in Declares[tree.head] THEN Step("stage") ELSE AfterBuild(TRUE)
    /\ UNCHANGED <<type, target, tree, staging, devices, log, events>>

\* PlatformIO leaves the image where it is flashed from.
LinkPio ==
    /\ At("link") /\ ~cmake
    /\ image' = IF up_to_date(image) THEN image ELSE compiled
    /\ job' = Step("record")
    /\ UNCHANGED <<type, source, bin, rec, flick, devices, log, events>>

Stage ==
    /\ At("stage")
    /\ image' = build.elf[job.target]
    /\ job' = Step("stage_bin")
    /\ UNCHANGED <<type, source, bin, rec, flick, devices, log, events>>

\* Removed when this link made none.
StageBin ==
    /\ At("stage_bin")
    /\ bin' = fresh_bin(job.target)
    /\ job' = Step("record")
    /\ UNCHANGED <<type, source, image, rec, flick, devices, log, events>>

\* Mutant: clean and unmoved is judged by the sample taken after the build alone.
RecordedAfter ==
    [sha |-> source_state.sha, version |-> job.state.version, dirty |-> source_state.dirty]

\* The version is the one compiled in; what was compiled is judged at both ends.
recorded ==
    [sha |-> source_state.sha, version |-> job.state.version,
     dirty |-> \/ job.state.dirty \/ source_state.dirty
               \/ job.state.sha # source_state.sha]

record_build(s) ==
    [sha |-> s.sha, version |-> s.version, dirty |-> s.dirty, image |-> image,
     target |-> job.target, bin |-> IF cmake THEN bin ELSE None]

RecordBuild ==
    /\ At("record")
    /\ rec' = record_build(IF cmake THEN recorded ELSE source_state)
    /\ flick' = (job.moved /\ (cmake => /\ ~job.state.dirty
                                        /\ job.state.sha = source_state.sha))
    /\ job' = AfterBuild(FALSE)
    /\ UNCHANGED <<type, source, image, bin, devices, log, events>>

\* What a write cut short leaves; nothing has, when it had not begun.
torn(i) == [i EXCEPT !.whole = FALSE]
Wrote(d, i) ==
    /\ app' = [app EXCEPT ![d] = i]
    /\ sound' = sound \ {d}

CutBuild ==
    \/ UNCHANGED <<image, bin>>
    \/ At("stage") /\ image' = torn(build.elf[job.target]) /\ UNCHANGED bin
    \/ At("link") /\ ~cmake /\ image' = torn(compiled) /\ UNCHANGED bin
    \/ At("stage_bin") /\ fresh_bin(job.target) # None
       /\ bin' = torn(fresh_bin(job.target)) /\ UNCHANGED image

\* A command exits nonzero, a copy does not fit, or a cancel kills the child.
BuildFails ==
    /\ job.pc \in Building
    /\ CutBuild
    /\ job' = AfterBuild(TRUE)
    /\ UNCHANGED <<type, source, rec, flick, devices, log, events>>

\* fw.clean, under the lock no job then holds.
clean_build_dir ==
    /\ At("idle") /\ cmake
    /\ build' = EmptyDir
    /\ UNCHANGED <<type, target, tree, staging, devices, log, job, events>>

-----------------------------------------------------------------------------
(* Which devices are written, and where they are found                     *)

device(s) ==
    IF cmake THEN [kind |-> "serial", chip |-> "rp2040", state |-> "running"]
    ELSE [kind |-> "port", chip |-> "", state |-> "unknown"]

choice == select(Listed[type.by], device(None), IF cmake THEN Helper ELSE "none", staged_kinds, type.by)

\* The configured id, else the one the firmware reports, else none at all.
device_id(s) ==
    IF cmake \/ s \in Named THEN s
    ELSE IF reports(s) THEN CHOOSE d \in answers(s) : TRUE ELSE None

port_detail(s) == [sec |-> s, id |-> device_id(s), flasher |-> choice.flasher,
                   port |-> IF cmake THEN None ELSE port_of(s)]

\* A PlatformIO device is a printer object: without Klipper there is no list.
listed == IF cmake \/ klipper THEN {s \in type.devices : present(s)} ELSE {}

\* Stale: what the build made is not what the device reports it runs.
to_flash == IF image = None THEN {} ELSE {s \in listed : needs_flash(s)}

\* A device its family cannot write is reported, and the others are written.
Chosen(j, S) ==
    IF S = {} \/ choice.flasher = "nobody"
    THEN Over(j.failed \/ S # {})
    ELSE LET todo == {port_detail(s) : s \in S}
         IN  [j EXCEPT !.todo = todo, !.pc = IF cmake THEN "write" ELSE "stop",
                       !.cur = IF cmake THEN CHOOSE t \in todo : TRUE ELSE None]

\* After the build, which is what makes a device stale.
Select ==
    /\ At("select")
    /\ job' = Chosen(job, to_flash)
    /\ UNCHANGED <<type, source, staging, devices, log, events>>

\* fw.flash_all selects before there is a job, and is refused with nothing.
flash_all ==
    /\ At("idle") /\ to_flash # {}
    /\ job' = Chosen([Idle EXCEPT !.op = "flash"], to_flash)
    /\ UNCHANGED <<type, source, staging, devices, log, events>>

_cmake_flash(s) ==
    /\ cmake /\ image # None /\ where[s] # None
    /\ choice.flasher # "nobody"
    /\ job' = Chosen([Idle EXCEPT !.op = "flash"], {s})

_pio_flash(s) ==
    /\ ~cmake /\ s \in listed
    /\ choice.flasher # "nobody"
    /\ job' = Chosen([Idle EXCEPT !.op = "flash"], {s})

flash(s) ==
    /\ At("idle")
    /\ _cmake_flash(s) \/ _pio_flash(s)
    /\ UNCHANGED <<type, source, staging, devices, log, events>>

\* The services that hold the ports go down, the port watcher among them: its
\* map stays as it was. Boards are asked nothing.
Stop ==
    /\ At("stop")
    /\ job' = [job EXCEPT !.pc = "listen", !.map = where]
    /\ UNCHANGED <<type, source, staging, devices, log, events>>

here(d, p, answered) == [id |-> d, port |-> p, answered |-> answered]

\* What the watcher remembers, where the port is still there.
device_map == {here(d, job.map[d], FALSE) : d \in {e \in type.devices : occupants(job.map[e]) # {}}}

\* What is heard now, or the map when no listen could run, or nothing at all.
identify ==
    {{}, device_map}
    \cup {{here(d, where[d], TRUE) : d \in S} :
              S \in SUBSET {d \in type.devices : where[d] # None /\ whole(d)}}

Listen ==
    /\ At("listen")
    /\ \E heard \in identify : \E t \in job.todo :
          job' = [job EXCEPT !.pc = "write", !.heard = heard, !.settled = TRUE, !.cur = t]
    /\ UNCHANGED <<type, source, staging, devices, log, events>>

\* Mutant: a device that did not answer is written where it used to be.
PortForOld(t) ==
    LET found == {h \in job.heard : h.id = t.id}
    IN  IF found = {} THEN t.port ELSE (CHOOSE h \in found : TRUE).port

\* A device found is written where it was found; one that others were found
\* without is not written at all; where nothing was found, or the device has
\* no id, the configured port is all there is.
port_for(t) ==
    LET found == {h \in job.heard : h.id = t.id}
    IN  IF job.heard = {} \/ t.id = None THEN t.port
        ELSE IF found = {} THEN None
        ELSE (CHOOSE h \in found : TRUE).port

Next_(f) ==
    LET left == job.todo \ {job.cur}
    IN  IF left = {} THEN Over(job.failed \/ f)
        ELSE [job EXCEPT !.pc = "write", !.todo = left, !.cur = CHOOSE t \in left : TRUE,
                         !.wrote = None, !.noted = FALSE, !.failed = @ \/ f]

\* The staged file of the kind the flasher takes, as it is when it is written.
WriteCmake ==
    /\ At("write") /\ cmake
    /\ where[job.cur.sec] # None
    /\ LET i == IF accepts[job.cur.flasher] = "bin" THEN bin ELSE image
       IN  /\ i # None /\ i.whole
           /\ Wrote(job.cur.sec, i)
    /\ job' = [job EXCEPT !.pc = "file", !.wrote = job.cur.sec]
    /\ UNCHANGED <<type, source, staging, where, klipper, ledger, events>>

\* What an upload compiles now.
rebuilt ==
    LET now == [src |-> {content}, target |-> None, version |-> source_state.version, whole |-> TRUE]
    IN  IF image = now THEN image ELSE now

\* An upload compiles what is stale, then writes whatever is in that port.
Upload ==
    /\ At("write") /\ ~cmake
    /\ \E d \in occupants(port_for(job.cur)) :
          /\ image' = rebuilt
          /\ Wrote(d, rebuilt)
          /\ job' = [job EXCEPT !.pc = "note", !.wrote = d]
    /\ UNCHANGED <<type, source, bin, rec, flick, where, klipper, ledger, events>>

\* The record is taken again: the upload may have compiled another image.
noted_record == record_build(source_state)

\* A record that cannot be written is said, and fails nothing.
Note ==
    /\ At("note")
    /\ \/ /\ rec' = noted_record
          /\ flick' = (rebuilt # image)
          /\ job' = [job EXCEPT !.pc = "file", !.noted = image = app[job.wrote]]
       \/ /\ UNCHANGED <<rec, flick>>
          /\ job' = [job EXCEPT !.pc = "file", !.failed = TRUE]
    /\ UNCHANGED <<type, source, image, bin, devices, log, events>>

\* Mutant: the record's hash, without looking at the file.
StagedUnread(kind) ==
    IF rec = None \/ rec.dirty THEN None ELSE IF kind = "bin" THEN rec.bin ELSE rec.image

\* A hash is filed only when it is the record's and the bytes still have it.
staged(kind) ==
    IF rec = None \/ rec.dirty \/ rec.image # image THEN None
    ELSE IF kind = "bin" THEN IF rec.bin = bin THEN bin ELSE None
    ELSE image

staged_record ==
    LET side == IF rec = None \/ rec.dirty \/ rec.image # image THEN None ELSE rec
    IN  [image |-> staged(accepts[job.cur.flasher]),
         sha |-> IF side = None THEN None ELSE side.sha,
         version |-> IF side = None THEN None ELSE side.version]

\* The PlatformIO record is filed as it was noted, under the device's own id.
side_record == [image |-> IF rec = None THEN None ELSE rec.image,
                sha |-> IF rec = None THEN None ELSE rec.sha, version |-> None]

File ==
    /\ At("file")
    /\ LET d == job.cur.id
           e == IF cmake THEN staged_record ELSE side_record
       IN  IF d = None THEN UNCHANGED log
           ELSE /\ ledger' = [ledger EXCEPT ![d] = e]
                /\ sound' = IF e.image # None /\ d = job.wrote /\ (cmake \/ job.noted) /\ ~flick
                            THEN sound \cup {d} ELSE sound \ {d}
    /\ job' = Next_(FALSE)
    /\ UNCHANGED <<type, source, staging, devices, events>>

\* The ledger cannot be written: the device is flashed, and only a warning says so.
FileFails ==
    /\ At("file")
    /\ job' = Next_(TRUE)
    /\ UNCHANGED <<type, source, staging, devices, log, events>>

CutWrite ==
    \/ UNCHANGED <<image, app, sound>>
    \/ /\ At("write") /\ cmake /\ image # None /\ where[job.cur.sec] # None
       /\ Wrote(job.cur.sec, torn(image)) /\ UNCHANGED image
    \/ /\ At("write") /\ ~cmake
       /\ \E d \in occupants(port_for(job.cur)) : Wrote(d, torn(rebuilt))
       /\ image' = rebuilt

\* Refused, absent, or the tool fails, before it wrote or while it did.
WriteFails ==
    /\ At("write")
    /\ CutWrite
    /\ job' = Next_(TRUE)
    /\ UNCHANGED <<type, source, bin, rec, flick, where, klipper, ledger, events>>

-----------------------------------------------------------------------------
(* What happens from outside, at most MaxEvents times                      *)

Event(k) ==
    /\ k \in Happening /\ events < MaxEvents
    /\ events' = events + 1

Disturbed == IF At("idle") THEN Idle ELSE [job EXCEPT !.calm = FALSE]

\* A build samples the tree and the staged files at its ends only.
Moved(also) ==
    IF job.pc \notin Building THEN Disturbed
    ELSE [Disturbed EXCEPT !.moved = TRUE, !.from = @ \cup also]

TreeMoves(t) ==
    /\ tree' = t
    /\ job' = Moved(IF At("link") THEN {content_of(t)} ELSE {})
    /\ UNCHANGED <<type, target, build, staging, devices, log>>

\* A file saved, or an edit put back.
Saved == Event("edit") /\ TreeMoves([tree EXCEPT !.edit = ~@])

\* A commit checked out leaves a submodule where it was.
Pull ==
    /\ Event("pull")
    /\ \E h \in Commit \ {tree.head} :
          TreeMoves([tree EXCEPT !.head = h, !.sub = ~(Submodules /\ cmake)])

Retarget ==
    /\ Event("retarget") /\ cmake
    /\ target' \in Target \ {target}
    /\ job' = Disturbed
    /\ UNCHANGED <<type, tree, build, staging, devices, log>>

foreign == [src |-> {}, target |-> None, version |-> None, whole |-> TRUE]

\* A file put beside the record, or a `pio run` typed in the project.
HandStage ==
    /\ Event("handstage")
    /\ \/ cmake /\ image # None /\ image' = foreign /\ UNCHANGED bin
       \/ cmake /\ bin # None /\ bin' = foreign /\ UNCHANGED image
       \/ ~cmake /\ image' = rebuilt /\ UNCHANGED bin
    /\ job' = Moved({})
    /\ UNCHANGED <<type, source, rec, flick, devices, log>>

\* Not the device a job is writing at that moment.
HandFlash(d) ==
    /\ Event("handflash") /\ job.wrote # d
    /\ Wrote(d, foreign)
    /\ job' = Disturbed
    /\ UNCHANGED <<type, source, staging, where, klipper, ledger>>

\* Unplugged, or put in a socket in the place of whatever was in it.
Move(d) ==
    /\ Event("move")
    /\ \E p \in (IF cmake THEN {Home[d]} ELSE Port) \cup {None} :
          /\ p # where[d]
          /\ where' = [e \in Device |-> IF e = d THEN p ELSE IF where[e] = p THEN None ELSE where[e]]
    /\ job' = [Disturbed EXCEPT !.settled = FALSE]
    /\ UNCHANGED <<type, source, staging, app, klipper, log>>

Toggle ==
    /\ Event("klipper")
    /\ klipper' = ~klipper
    /\ job' = Disturbed
    /\ UNCHANGED <<type, source, staging, where, app, log>>

\* The agent is killed with its child; what was being written is cut short.
Crash ==
    /\ Event("crash") /\ ~At("idle")
    /\ job' = Idle
    /\ \/ job.pc \in Building /\ CutBuild /\ UNCHANGED <<app, sound>>
       \/ job.pc \notin Building /\ CutWrite /\ UNCHANGED bin
    /\ UNCHANGED <<type, source, rec, flick, where, klipper, ledger>>

-----------------------------------------------------------------------------
Init ==
    /\ type \in Types
    /\ target \in (IF cmake THEN Target ELSE {None})
    /\ tree \in [head : Commit, edit : BOOLEAN, sub : {TRUE}]
    /\ build = EmptyDir
    /\ image = None /\ bin = None /\ rec = None
    /\ where = Home /\ app = [d \in Device |-> None]
    /\ klipper = TRUE
    /\ ledger = [d \in Device |-> None]
    /\ job = Idle
    /\ flick = FALSE /\ sound = {} /\ events = 0

Next ==
    \/ build_type \/ build_all \/ update_all \/ flash_all
    \/ Sample \/ Configure \/ LinkCmake \/ LinkPio \/ Stage \/ StageBin
    \/ RecordBuild \/ BuildFails \/ clean_build_dir
    \/ Select \/ (\E s \in type.devices : flash(s))
    \/ Stop \/ Listen
    \/ WriteCmake \/ Upload \/ Note \/ File \/ FileFails \/ WriteFails
    \/ Saved \/ Pull \/ Retarget \/ HandStage \/ Toggle \/ Crash
    \/ \E d \in type.devices : HandFlash(d) \/ Move(d)

Spec == Init /\ [][Next]_vars

-----------------------------------------------------------------------------
(* Properties                                                              *)

Detail == [sec : Device, id : Device \cup {None}, flasher : FLASHERS \cup {"nobody"},
           port : Port \cup {None}]
Heard == [id : Device, port : Port \cup {None}, answered : BOOLEAN]
JobState == [op : {"none", "build", "update", "flash"},
             pc : Building \cup Stopped \cup {"idle", "select", "stop"},
             target : Target \cup {None}, state : State \cup {None}, from : SUBSET Content,
             moved : BOOLEAN, todo : SUBSET Detail, cur : Detail \cup {None},
             map : [Device -> Port \cup {None}] \cup {None}, heard : SUBSET Heard,
             settled : BOOLEAN, wrote : Device \cup {None}, noted : BOOLEAN,
             failed : BOOLEAN, calm : BOOLEAN]

\* The shape of every variable.
TypeOK ==
    /\ type \in Types
    /\ target \in Target \cup {None} /\ (cmake => target \in Target)
    /\ tree \in [head : Commit, edit : BOOLEAN, sub : BOOLEAN]
    /\ build \in BuildDir
    /\ image \in Image \cup {None} /\ bin \in Image \cup {None}
    /\ rec \in Record \cup {None} /\ flick \in BOOLEAN
    /\ where \in [Device -> Port \cup {None}]
    /\ app \in [Device -> Image \cup {None}]
    /\ ledger \in [Device -> Entry \cup {None}]
    /\ klipper \in BOOLEAN
    /\ job \in JobState
    /\ sound \subseteq Device /\ events \in 0..MaxEvents

\* An image called current was compiled from the configured target and from
\* nothing but the commit the source directory is at, whole, with its raw image
\* from the same link, whatever step failed or was cut short on the way, and
\* whatever moved before and after the build that made it.  What moves during
\* that build is caught for CMake, which samples the tree at both ends, unless
\* it moved and came back between the samples.  Two cases neither builder can
\* show, and `flick' sets them apart: a tree that moves at all during a
\* PlatformIO build, whose only sample comes after it and calls a pulled commit
\* the one that was built, and a staged file replaced before it was hashed.
CurrentIsBuilt ==
    artifact_status = "current" /\ ~flick =>
        /\ image.whole /\ image.src = {Clean(sha(tree.head))}
        /\ cmake => /\ image.target = target
                    /\ bin # None /\ rec.bin # None => bin = image

\* A build that ended well, with nothing moving meanwhile and nothing
\* uncommitted, leaves its image current; an update leaves no device behind,
\* unless the tree itself is at a commit whose firmware does not speak the
\* printer's protocol and every device that runs it goes on asking for another.
BuildSettles ==
    At("idle") /\ job.op \in {"build", "update"} /\ ~dirty /\ ~flick =>
        /\ artifact_status = "current"
        /\ job.op = "update" /\ (cmake \/ tree.head \in Speaks) =>
              \A s \in listed : ~needs_flash(s)

\* Of a device this tool wrote last, and whose write was noted and filed without
\* a failure, the ledger names the image it holds: a CMake file replaced behind
\* its record is never filed under the record's hash.  PlatformIO's upload
\* compiles again what was replaced, and a hash is noted after it.
LedgerNamesImage ==
    \A d \in sound : ledger[d].image = app[d]

\* When devices were asked and answered, and none has moved since, the device
\* written under an id is the one that has it, wherever it was listed.
WritesWhoAnswered ==
    ~cmake /\ job.wrote # None /\ job.settled =>
        \/ job.cur.id \in {None, job.wrote}
        \/ \A h \in job.heard : ~h.answered
=============================================================================
