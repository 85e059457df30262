---------------------------- MODULE ConfigStore ----------------------------
(***************************************************************************)
(* The one configuration file (src/mcu_updater/cfgsnapshot.py): one parse  *)
(* of it that all readers of the agent share until the file's stat key     *)
(* changes, and the three writers that replace it under the registry lock, *)
(* Registry.mutate (config.py), settings.mutate (settings.py) and          *)
(* seed_firmware_sections (seed.py), from the agent or from a process of   *)
(* their own.  The user edits the file with whatever editor he has.        *)
(*                                                                         *)
(* A text is the set of the entries it has: writer w edits the entry w.    *)
(* All texts have the same size, which is the case the stat key is least   *)
(* able to tell apart.  The file system stamps a file with a coarse clock. *)
(***************************************************************************)
EXTENDS Integers

CONSTANTS
    Reader,      \* threads of the agent inside cfgsnapshot.read()
    Writer,      \* callers of a mutate
    Settings,    \* those that call settings.mutate
    Seeder,      \* those that call seed_firmware_sections
    Local,       \* those that are threads of the agent
    Inode,
    Nothing,     \* no file, no cached parse, no holder
    Grain,       \* the file system's stamps are less than this behind the clock
    Window,      \* RACY_WINDOW_NS
    MaxClock,    \* bound on the clock
    MaxEvents    \* bound on edits, by a mutate or by hand, and kills, together

ASSUME StoreAssumption ==
    /\ Settings \cap Seeder = {} /\ Settings \cup Seeder \cup Local \subseteq Writer
    /\ Nothing \notin Writer \cup Inode
    /\ Grain \in Nat \ {0} /\ Window \in Nat /\ Grain <= Window
    /\ MaxClock \in Nat /\ MaxEvents \in Nat

Text == SUBSET Writer
Time == 0 .. MaxClock
Key == [ino : Inode, mtime : Time, ctime : Time]

VARIABLES
    clock,       \* time.time_ns()
    stamp,       \* what the file system writes as the time of now
    node,        \* [Inode -> [text, mtime, ctime]]
    path,        \* the inode mcu-updater.cfg names
    tmp,         \* the inode mcu-updater.cfg.tmp names
    cache,       \* the cached _Entry
    rd,          \* each reader's locals
    seen,        \* history: the texts its handle has had since it was opened
    lock,        \* holder of the registry lock
    wr,          \* each writer's locals
    events

disk == <<node, path, tmp>>
reading == <<cache, rd>>
writing == <<lock, wr>>
storeVars == <<clock, stamp, disk, reading, seen, writing, events>>

_stat_key(i) == [ino |-> i, mtime |-> node[i].mtime, ctime |-> node[i].ctime]

NotReading == [pc |-> "idle", ino |-> Nothing, before |-> Nothing, started |-> 0,
               doc |-> {}, entry |-> Nothing]
NotWriting == [pc |-> "idle", doc |-> {}, crossed |-> FALSE]

\* The file is not new and nothing is cached.
StoreInit ==
    /\ clock = 0 /\ stamp = 0
    /\ node = [i \in Inode |-> [text |-> {}, mtime |-> 0, ctime |-> 0]]
    /\ path \in Inode /\ tmp = Nothing
    /\ cache = Nothing
    /\ rd = [r \in Reader |-> NotReading]
    /\ seen = [r \in Reader |-> {}]
    /\ lock = Nothing
    /\ wr = [w \in Writer |-> NotWriting]
    /\ events = 0

\* Time passes; the coarse clock follows.
Advance ==
    /\ clock < MaxClock
    /\ clock' = clock + 1
    /\ stamp' \in {stamp, clock + 1}
    /\ clock' - stamp' < Grain
    /\ UNCHANGED <<disk, reading, seen, writing, events>>

Happens == events < MaxEvents /\ events' = events + 1

-----------------------------------------------------------------------------
(* The file system *)

InUse == {path, tmp} \cup {rd[r].ino : r \in Reader}

\* Inode i holds text t, with the mtime given; its ctime is now's.
Put(i, t, m) == [node EXCEPT ![i] = [text |-> t, mtime |-> m, ctime |-> stamp]]

\* A name taken from an inode moves its ctime.
Touch(n, i) == IF i = Nothing THEN n ELSE [n EXCEPT ![i].ctime = stamp]

\* What a handle on inode i, with text t now, has had since it was opened.
Witness(i, t) == [r \in Reader |-> IF rd[r].ino = i THEN seen[r] \cup {t} ELSE seen[r]]

-----------------------------------------------------------------------------
(* cfgsnapshot.read *)

\* No file: the cached parse is dropped.
OpenMissing(r) ==
    /\ rd[r].pc = "idle" /\ path = Nothing
    /\ cache' = Nothing
    /\ UNCHANGED <<clock, stamp, disk, rd, seen, writing, events>>

Open(r) ==
    /\ rd[r].pc = "idle" /\ path # Nothing
    /\ rd' = [rd EXCEPT ![r].pc = "opened", ![r].ino = path]
    /\ seen' = [seen EXCEPT ![r] = {node[path].text}]
    /\ UNCHANGED <<clock, stamp, disk, cache, writing, events>>

StatBefore(r) ==
    /\ rd[r].pc = "opened"
    /\ rd' = [rd EXCEPT ![r].pc = "lookup", ![r].before = _stat_key(rd[r].ino)]
    /\ UNCHANGED <<clock, stamp, disk, cache, seen, writing, events>>

\* The reader is done with its call, and its locals are gone.
Done(r) ==
    /\ rd' = [rd EXCEPT ![r] = NotReading]
    /\ seen' = [seen EXCEPT ![r] = {}]

\* Mutant: the change time is left out of the key.
HitsByMtime(r) ==
    cache # Nothing /\ cache.key.ino = rd[r].before.ino /\ cache.key.mtime = rd[r].before.mtime

\* A hit is the answer.  A miss notes the time: between the look and the clock
\* only time can pass, and it might as well have passed before.
Hits(r) == cache # Nothing /\ cache.key = rd[r].before

Lookup(r) ==
    /\ rd[r].pc = "lookup"
    /\ IF Hits(r) THEN Done(r)
       ELSE /\ rd' = [rd EXCEPT ![r].pc = "read", ![r].started = clock]
            /\ UNCHANGED seen
    /\ UNCHANGED <<clock, stamp, disk, cache, writing, events>>

ReadText(r) ==
    /\ rd[r].pc = "read"
    /\ rd' = [rd EXCEPT ![r].pc = "stat", ![r].doc = node[rd[r].ino].text]
    /\ UNCHANGED <<clock, stamp, disk, cache, seen, writing, events>>

\* Mutant: no racy window.
StatAfterUnaged(r) ==
    /\ rd[r].pc = "stat"
    /\ LET key == _stat_key(rd[r].ino) IN
       rd' = [rd EXCEPT ![r] =
                [NotReading EXCEPT
                   !.pc = "store",
                   !.entry = IF key = rd[r].before THEN [doc |-> rd[r].doc, key |-> key]
                             ELSE Nothing]]
    /\ seen' = [seen EXCEPT ![r] = {}]
    /\ UNCHANGED <<clock, stamp, disk, cache, writing, events>>

\* The handle's key after the read, and the close: the parse is kept only under
\* a key that did not move, of a file that was not new when the read began.
StatAfter(r) ==
    /\ rd[r].pc = "stat"
    /\ LET key == _stat_key(rd[r].ino)
           trusted == key = rd[r].before /\ rd[r].started - key.mtime > Window IN
       rd' = [rd EXCEPT ![r] =
                [NotReading EXCEPT
                   !.pc = "store",
                   !.entry = IF trusted THEN [doc |-> rd[r].doc, key |-> key] ELSE Nothing]]
    /\ seen' = [seen EXCEPT ![r] = {}]
    /\ UNCHANGED <<clock, stamp, disk, cache, writing, events>>

Store(r) ==
    /\ rd[r].pc = "store"
    /\ cache' = rd[r].entry
    /\ Done(r)
    /\ UNCHANGED <<clock, stamp, disk, writing, events>>

\* The file cannot be read: nothing is kept.
Raise(r) ==
    /\ rd[r].pc \in {"opened", "read", "stat"}
    /\ Done(r)
    /\ UNCHANGED <<clock, stamp, disk, cache, writing, events>>

Read(r) ==
    \/ OpenMissing(r) \/ Open(r) \/ StatBefore(r) \/ Lookup(r)
    \/ ReadText(r) \/ StatAfter(r) \/ Store(r) \/ Raise(r)

-----------------------------------------------------------------------------
(* Registry.mutate, settings.mutate, seed_firmware_sections *)

read_fresh == IF path = Nothing THEN {} ELSE node[path].text

Set(doc, w, on) == IF on THEN doc \cup {w} ELSE doc \ {w}

\* Mutant: settings.mutate on a lock of its own.
TakeOwnLock(w) ==
    /\ Happens
    /\ wr[w].pc = "idle" /\ (lock = Nothing \/ w \in Settings)
    /\ lock' = w
    /\ wr' = [wr EXCEPT ![w] = [NotWriting EXCEPT !.pc = "load"]]
    /\ UNCHANGED <<clock, stamp, disk, reading, seen>>

Take(w) ==
    /\ Happens
    /\ wr[w].pc = "idle" /\ lock = Nothing
    /\ lock' = w
    /\ wr' = [wr EXCEPT ![w] = [NotWriting EXCEPT !.pc = "load"]]
    /\ UNCHANGED <<clock, stamp, disk, reading, seen>>

\* Inside the lock, from the disk and never from the cache.
Load(w) ==
    /\ wr[w].pc = "load"
    /\ wr' = [wr EXCEPT ![w].pc = "change", ![w].doc = read_fresh]
    /\ UNCHANGED <<clock, stamp, disk, reading, seen, lock, events>>

\* The registry is rendered whole, changed or not.
ChangeRegistry(w) ==
    /\ wr[w].pc = "change" /\ w \notin Settings \cup Seeder
    /\ \E on \in BOOLEAN :
         wr' = [wr EXCEPT ![w].pc = "write", ![w].doc = Set(wr[w].doc, w, on)]
    /\ UNCHANGED <<clock, stamp, disk, reading, seen, lock, events>>

\* Only a change is written, into the document as it is on disk by then.
ChangeSettings(w) ==
    /\ wr[w].pc = "change" /\ w \in Settings
    /\ \E on \in BOOLEAN :
         LET current == Set(wr[w].doc, w, on) IN
         wr' = IF current = wr[w].doc THEN [wr EXCEPT ![w].pc = "release"]
               ELSE [wr EXCEPT ![w].pc = "write",
                               ![w].doc = (read_fresh \ Settings) \cup (current \cap Settings)]
    /\ UNCHANGED <<clock, stamp, disk, reading, seen, lock, events>>

\* Adds the sections that are missing.  (Its first look, before the lock, only
\* spares it the lock.)
ChangeSeed(w) ==
    /\ wr[w].pc = "change" /\ w \in Seeder
    /\ wr' = IF w \in wr[w].doc THEN [wr EXCEPT ![w].pc = "release"]
             ELSE [wr EXCEPT ![w].pc = "write", ![w].doc = @ \cup {w}]
    /\ UNCHANGED <<clock, stamp, disk, reading, seen, lock, events>>

\* The load, the body, the validation or the replacement fails: nothing is
\* written, or a temporary file is left.
Refuse(w) ==
    /\ wr[w].pc \in {"load", "change", "write", "replace"}
    /\ wr' = [wr EXCEPT ![w].pc = "release"]
    /\ UNCHANGED <<clock, stamp, disk, reading, seen, lock, events>>

\* The temporary file, in the inode a killed writer left or in a free one; a
\* write that fails leaves it half.
WriteTmp(w) ==
    /\ wr[w].pc = "write"
    /\ \E i \in IF tmp = Nothing THEN Inode \ InUse ELSE {tmp} :
         /\ tmp' = i
         /\ \/ /\ node' = Put(i, wr[w].doc, stamp)
               /\ wr' = [wr EXCEPT ![w].pc = "replace"]
            \/ /\ node' = Put(i, {}, stamp)
               /\ wr' = [wr EXCEPT ![w].pc = "release"]
    /\ UNCHANGED <<clock, stamp, path, reading, seen, lock, events>>

Replace(w) ==
    /\ wr[w].pc = "replace"
    /\ path' = tmp /\ tmp' = Nothing
    /\ node' = Touch(Touch(node, path), tmp)
    /\ wr' = [wr EXCEPT ![w].pc = "invalidate"]
    /\ UNCHANGED <<clock, stamp, reading, seen, lock, events>>

\* In the process that wrote; the agent's cache knows nothing of another's.
Invalidate(w) ==
    /\ wr[w].pc = "invalidate"
    /\ cache' = IF w \in Local THEN Nothing ELSE cache
    /\ wr' = [wr EXCEPT ![w].pc = "release"]
    /\ UNCHANGED <<clock, stamp, disk, rd, seen, lock, events>>

Release(w) ==
    /\ wr[w].pc = "release"
    /\ lock' = Nothing
    /\ wr' = [wr EXCEPT ![w] = NotWriting]
    /\ UNCHANGED <<clock, stamp, disk, reading, seen, events>>

Mutate(w) ==
    \/ Take(w) \/ Load(w) \/ ChangeRegistry(w) \/ ChangeSettings(w) \/ ChangeSeed(w)
    \/ Refuse(w) \/ WriteTmp(w) \/ Replace(w) \/ Invalidate(w) \/ Release(w)

-----------------------------------------------------------------------------
(* The user, and kills *)

\* Every writer under way may have read what the user now changes.
Cross == wr' = [w \in Writer |-> [wr[w] EXCEPT !.crossed = wr[w].pc # "idle"]]

\* The texts a hand may leave: one entry more or less, or, half-way, nothing.
Edited == {{}} \cup {Set(read_fresh, w, on) : w \in Writer, on \in BOOLEAN}

\* The mtimes a hand may give inode i.  Putting an old one back moves the ctime
\* ("its ctime, at least, moved"): the accepted gap, two such rewrites within
\* one tick of it, is left out.
Mtimes(i) == IF node[i].ctime < stamp THEN Time ELSE {stamp}

\* An editor writes in place, cp -p and rsync --inplace -t with the old mtime.
HandRewrite ==
    /\ Happens
    /\ path # Nothing
    /\ \E t \in Edited, m \in Mtimes(path) :
         /\ node' = Put(path, t, m)
         /\ seen' = Witness(path, t)
    /\ Cross
    /\ UNCHANGED <<clock, stamp, path, tmp, reading, lock>>

\* Another file is moved into its place.
HandReplace ==
    /\ Happens
    /\ \E i \in Inode \ InUse : \E t \in Edited, m \in Mtimes(i) :
         /\ node' = Touch(Put(i, t, m), path)
         /\ path' = i
    /\ Cross
    /\ UNCHANGED <<clock, stamp, tmp, reading, seen, lock>>

HandDelete ==
    /\ Happens
    /\ path # Nothing
    /\ path' = Nothing
    /\ node' = Touch(node, path)
    /\ Cross
    /\ UNCHANGED <<clock, stamp, tmp, reading, seen, lock>>

\* A process of its own dies: the kernel drops its lock, its file stays.
Kill(w) ==
    /\ Happens
    /\ w \notin Local /\ wr[w].pc # "idle"
    /\ lock' = Nothing
    /\ wr' = [wr EXCEPT ![w] = NotWriting]
    /\ UNCHANGED <<clock, stamp, disk, reading, seen>>

\* The agent dies, and starts with an empty cache.
KillAgent ==
    /\ Happens
    /\ cache' = Nothing
    /\ rd' = [r \in Reader |-> NotReading]
    /\ seen' = [r \in Reader |-> {}]
    /\ lock' = IF lock \in Local THEN Nothing ELSE lock
    /\ wr' = [w \in Writer |-> IF w \in Local THEN NotWriting ELSE wr[w]]
    /\ UNCHANGED <<clock, stamp, disk>>

StoreNext ==
    \/ Advance
    \/ \E r \in Reader : Read(r)
    \/ \E w \in Writer : Mutate(w) \/ Kill(w)
    \/ HandRewrite \/ HandReplace \/ HandDelete \/ KillAgent

StoreSpec == StoreInit /\ [][StoreNext]_storeVars

-----------------------------------------------------------------------------
(* Properties *)

Entry == [doc : Text, key : Key]

StoreTypeOK ==
    /\ clock \in Time /\ stamp \in Time
    /\ stamp <= clock /\ clock - stamp < Grain
    /\ node \in [Inode -> [text : Text, mtime : Time, ctime : Time]]
    /\ path \in Inode \cup {Nothing} /\ tmp \in Inode \cup {Nothing}
    /\ cache \in Entry \cup {Nothing}
    /\ rd \in [Reader -> [pc : {"idle", "opened", "lookup", "read", "stat", "store"},
                          ino : Inode \cup {Nothing}, before : Key \cup {Nothing},
                          started : Time, doc : Text, entry : Entry \cup {Nothing}]]
    /\ seen \in [Reader -> SUBSET Text]
    /\ lock \in Writer \cup {Nothing}
    /\ wr \in [Writer -> [pc : {"idle", "load", "change", "write", "replace",
                                "invalidate", "release"},
                          doc : Text, crossed : BOOLEAN]]
    /\ events \in 0 .. MaxEvents

\* A cached parse is the file's whenever its key is: no rewrite in place,
\* replacement, reused inode or late store of an overtaken reader leaves an
\* entry that a later read would take for the file (cfgsnapshot.read, "a writer
\* that forgets it still cannot cause a stale read").
CacheExact ==
    (cache # Nothing /\ path # Nothing /\ cache.key = _stat_key(path))
        => cache.doc = node[path].text

\* A reader that is handed the cached parse is handed a text its own handle had
\* between its open and now, whoever filled the cache and however late.
HitsAreReal ==
    \A r \in Reader : rd[r].pc = "lookup" /\ Hits(r) => cache.doc \in seen[r]

\* Unless a hand edit crossed it, a save changes its own entry and nothing else:
\* no other writer's edit is erased, of this process or another
\* (Registry.mutate, "makes that impossible rather than unlikely").
SavesKeepOthers ==
    [][\A w \in Writer :
         (wr[w].pc = "replace" /\ wr'[w].pc = "invalidate" /\ ~wr[w].crossed)
         => node'[path'].text \ {w} = read_fresh \ {w}]_storeVars
=============================================================================
