------------------------------ MODULE Profiles ------------------------------
(***************************************************************************)
(* Who owns the answers in a type's .config (profiles.py): the vendor's    *)
(* seed files, the user's own profile, the bootloader's answers derived    *)
(* from the application's, the record that says which of them a .config    *)
(* came from, and the configuration sessions that edit it                  *)
(* (providers/kconfig.py, the agent's kconfig and profile methods).        *)
(*                                                                         *)
(* A .config is the set of the answers in it; what Kconfig computes from   *)
(* them is left out, and a hash of a file is its content.  A job applies   *)
(* under the operation lock, one file operation to a step.  An editor, a   *)
(* menuconfig, a git pull and a forget take no lock, and may come between  *)
(* any two of them.                                                        *)
(***************************************************************************)
EXTENDS Integers, FiniteSets, Sequences

CONSTANTS
    None,
    Vendor,     \* the names of the seed files
    Answer,     \* the answers that differ from a default
    Off,        \* those a minimal config spells "# CONFIG_X is not set"
    BootAnswer, \* those the bootloader's tree defines, and takes
    Far,        \* the answer that links the application at the other address
    BootFar,    \* the answer that has the bootloader jump there
    Chipset,    \* what the type's chipset pre-sets in a session with no .config
    Trees,      \* the firmware trees that git pull may bring
    MaxSessions, MaxOps

Fw == {"app", "boot"}
Custom == "custom"      \* CUSTOM_PROFILE
Derived == "derived"    \* derived:<application>
AnswersOf(f) == IF f = "boot" THEN BootAnswer ELSE Answer \ {BootFar}

\* What there is to keep about a type: a file's answers, if it is there; what a
\* profile is seeded from; the record of a seeding; a profile of the type's own.
Profile == Vendor \cup {Custom, Derived}
Content == {None} \cup SUBSET Answer
Source == [answers : Content, at : Nat]
Provenance == [profile : Profile, source : Source \cup {None},
               config : SUBSET Answer, answers : SUBSET Answer]
Fork == [answers : SUBSET (Answer \ Off), at : Nat,
         parent : Vendor \cup {Derived, None}, base : SUBSET Answer]
Session == [fw : Fw, answers : SUBSET Answer, dirty : BOOLEAN]

ASSUME ProfilesAssumption ==
    /\ None \notin Profile
    /\ \A a \in SUBSET Answer : a # None
    /\ None \notin Source /\ None \notin Fork /\ None \notin Provenance
    /\ {Custom, Derived} \cap Vendor = {}
    /\ Off \subseteq Answer /\ BootAnswer \subseteq Answer
    /\ Far \in Answer \ BootAnswer /\ BootFar \in BootAnswer
    /\ {Far, BootFar} \cap Off = {}
    /\ Chipset \subseteq Answer
    /\ \A t \in Trees : DOMAIN t = Vendor
    /\ \A t \in Trees, v \in Vendor :
          t[v] = None \/ t[v] \subseteq AnswersOf("app")
    /\ MaxSessions \in Nat \ {0} /\ MaxOps \in Nat

VARIABLES
    tree,       \* tree[v]: the answers in the vendor's seed file v
    config,     \* config[f]: the .config, None if there is none
    bak,        \* bak[f]: the one generation kept beside it
    custom,     \* custom[f]: the type's own profile
    record,     \* record[f]: what was seeded, the hash of its source and of the result
    noted,      \* the profile that the registry notes for the type
    sessions,   \* the open configuration sessions, least recently touched first
    job,        \* the process that has the operation lock
    mine,       \* history: the answers the user last gave that no profile gave
    stale,      \* history: record[f] does not tell what the last job wrote
    ops

files == <<config, bak, custom, record>>
vars == <<tree, config, bak, custom, record, noted, sessions, job, mine, stale, ops>>

Idle == [pc |-> "idle", op |-> "none", fw |-> "app", name |-> None,
         seed |-> None, force |-> FALSE, derive |-> FALSE, answers |-> {},
         late |-> FALSE, moved |-> FALSE]
Free == job.pc = "idle"

-----------------------------------------------------------------------------
(* Reading the files *)

\* The lines that say "is not set" are dropped with the comments.
minimal_answers(a) == a \ Off

available(f) ==
    (IF custom[f] # None THEN {Custom} ELSE {})
        \cup (IF f = "app" THEN {v \in Vendor : tree[v] # None} ELSE {})

\* What a profile is seeded from, as it stands now; None if the file is gone,
\* be it a profile or the application's .config.
_current_source_sha(f, p) ==
    IF p = Derived
    THEN IF config["app"] = None THEN None ELSE [answers |-> config["app"], at |-> 0]
    ELSE IF p \notin available(f) THEN None
    ELSE IF p = Custom THEN [answers |-> custom[f].answers, at |-> custom[f].at]
    ELSE [answers |-> tree[p], at |-> 0]

\* Both hashes are there and differ: a source that is gone "cannot tell".
SeedMoved(f) ==
    LET r == record[f]
    IN  r.source # None /\ _current_source_sha(f, r.profile) \notin {None, r.source}

\* Mutant: a moved seed is met before an edited config.
status_moved_first(f) ==
    LET r == record[f]
    IN  IF r = None THEN "unmanaged"
        ELSE IF SeedMoved(f) THEN "seed_moved"
        ELSE IF config[f] # r.config THEN "customised"
        ELSE "clean"

\* Mutant: the type's own profile is taken not to move.
status_own_still(f) ==
    LET r == record[f]
    IN  IF r = None THEN "unmanaged"
        ELSE IF config[f] # r.config THEN "customised"
        ELSE IF r.profile # Custom /\ SeedMoved(f) THEN "seed_moved"
        ELSE "clean"

status(f) ==
    LET r == record[f]
    IN  IF r = None THEN "unmanaged"
        ELSE IF config[f] # r.config THEN "customised"
        ELSE IF SeedMoved(f) THEN "seed_moved"
        ELSE "clean"

refuse_if_customised(f, force) ==
    /\ ~force
    /\ config[f] # None
    /\ status(f) \in {"unmanaged", "customised"}

\* Does the bootloader jump where the application was linked to run?
_check_addresses(a, b) == (Far \in a) = (BootFar \in b)

\* The profile a capture came from, and what that answered.
\* Mutant: a baseline once kept stays, whatever the capture came from.
_forked_keep_base(f, parent) ==
    LET old == custom[f]
        r == record[f]
        named == IF parent \notin {None, Custom} THEN parent
                 ELSE IF r # None /\ r.profile # Custom THEN r.profile ELSE None
    IN  IF old # None /\ parent \in {None, Custom}
        THEN [parent |-> old.parent, base |-> old.base]
        ELSE [parent |-> named,
              base |-> IF old # None /\ old.base # {} THEN old.base
                       ELSE IF r # None /\ r.profile = named THEN r.answers
                       ELSE {}]

_forked_from(f, parent) ==
    LET old == custom[f]
        r == record[f]
        named == IF parent \notin {None, Custom} THEN parent
                 ELSE IF r # None /\ r.profile # Custom THEN r.profile ELSE None
    IN  IF old # None /\ parent \in {None, Custom}
        THEN [parent |-> old.parent, base |-> old.base]
        ELSE [parent |-> named,
              base |-> IF old # None /\ old.parent = named /\ old.base # {}
                       THEN old.base
                       ELSE IF r # None /\ r.profile = named THEN r.answers
                       ELSE {}]

\* The header carries the time of the capture, so no two hash alike.
capture_custom(f, answers, parent) ==
    custom' = [custom EXCEPT ![f] =
        [answers |-> answers, at |-> ops,
         parent |-> _forked_from(f, parent).parent,
         base |-> _forked_from(f, parent).base]]

-----------------------------------------------------------------------------
(* Outside the agent: nothing here takes a lock *)

Acts == ops < MaxOps /\ ops' = ops + 1

\* The answers of the user's that no profile gave.
Given(f, a) == IF record[f] # None /\ record[f].config = a THEN None ELSE a

\* The type's own profile has the user's answers.
Kept(f) == /\ mine[f] # None /\ custom[f] # None
           /\ custom[f].answers = minimal_answers(mine[f])

\* What the code gives up of the user's answers, unless they are kept: a late
\* edit, a .config that has no record, and what a profile of the user's own or a
\* derivation replaces, because it was told to (force) or because there is only
\* the .bak of a job that died.
GivesUp(f) ==
    /\ ~Kept(f)
    /\ \/ job.late
       \/ record[f] = None
       \/ job.name \in {Custom, Derived} /\ (job.force \/ config[f] = None)

\* A job that has decided what becomes of a .config, and one that has read
\* what it is to write.
Decided(f) == job.fw = f /\ job.pc \in {"parse", "aside", "place", "record"}
HasRead == job.pc \in {"aside", "place", "record"}

\* make menuconfig, or an editor.
menuconfig_tty(f) ==
    /\ Acts
    /\ \E x \in AnswersOf(f) :
          LET was == IF config[f] = None THEN {} ELSE config[f]
              now == (was \cup {x}) \ (was \cap {x})
          IN  /\ config' = [config EXCEPT ![f] = now]
              /\ mine' = [mine EXCEPT ![f] = Given(f, now)]
    /\ job' = [job EXCEPT !.late = @ \/ Decided(f),
                          !.moved = @ \/ (HasRead /\ f = "app" /\ job.fw = "boot")]
    /\ UNCHANGED <<tree, bak, custom, record, noted, sessions, stale>>

Pull ==
    /\ Acts
    /\ tree' \in Trees \ {tree}
    /\ job' = [job EXCEPT !.moved = @ \/ (HasRead /\ job.fw = "app")]
    /\ UNCHANGED <<files, noted, sessions, mine, stale>>

profile_forget(f) ==
    /\ Acts
    /\ record' = [record EXCEPT ![f] = None]
    /\ noted' = IF f = "app" THEN None ELSE noted
    /\ UNCHANGED <<tree, config, bak, custom, sessions, job, mine, stale>>

-----------------------------------------------------------------------------
(* Applying a profile: profile_apply, and what a build does first *)

Begin(op, f, p, force, derive) ==
    job' = [Idle EXCEPT !.pc = "refuse", !.op = op, !.fw = f, !.name = p,
                        !.force = force, !.derive = derive,
                        !.seed = IF op = "apply" /\ f = "app" THEN p ELSE None]

profile_apply(f, p, force, derive) ==
    /\ Acts
    /\ Free
    /\ p \in available(f)
    /\ ~refuse_if_customised(f, force)
    /\ derive => ~refuse_if_customised("boot", force)
    /\ Begin("apply", f, p, force, derive)
    /\ UNCHANGED <<tree, files, noted, sessions, mine, stale>>

\* A build takes what its source gives now, if that is all that has changed.
reseed_if_moved(f) ==
    /\ Acts
    /\ Free
    /\ config[f] # None
    /\ status(f) = "seed_moved"
    /\ Begin("reseed", f, record[f].profile, FALSE, FALSE)
    /\ UNCHANGED <<tree, files, noted, sessions, mine, stale>>

Ends == job' = Idle
Goes(pc) == job' = [job EXCEPT !.pc = pc]

\* Answers the profile that is applied did not give are refused, or the user
\* said to replace them.  Only a vendor's profile keeps what it replaces.
apply_seed ==
    /\ job.pc = "refuse"
    /\ IF \/ job.name # Derived /\ job.name \notin available(job.fw)
          \/ job.name = Derived /\ config["app"] = None
          \/ refuse_if_customised(job.fw, job.force)
       THEN Ends
       ELSE Goes(IF job.name \in Vendor THEN "keep" ELSE "parse")
    /\ UNCHANGED <<tree, files, noted, sessions, mine, stale, ops>>

\* With no .config there is nothing to keep, and the job ends.  What a job wrote
\* and did not record is taken for the user's, and replaces what was kept.
_keep_current_answers ==
    /\ job.pc = "keep"
    /\ IF status(job.fw) # "customised"
       THEN Goes("parse") /\ UNCHANGED <<custom, mine>>
       ELSE IF config[job.fw] = None THEN Ends /\ UNCHANGED <<custom, mine>>
       ELSE /\ capture_custom(job.fw, minimal_answers(config[job.fw]),
                              record[job.fw].profile)
            /\ Goes("parse")
            /\ mine' = IF stale[job.fw] /\ config[job.fw] # mine[job.fw]
                       THEN [mine EXCEPT ![job.fw] = None] ELSE mine
    /\ UNCHANGED <<tree, config, bak, record, noted, sessions, stale, ops>>

\* A seed is loaded into the tree as it is now.
Parse ==
    /\ job.pc = "parse" /\ job.name # Derived
    /\ IF job.name \notin available(job.fw) THEN Ends
       ELSE job' = [job EXCEPT !.pc = "aside",
                !.answers = _current_source_sha(job.fw, job.name).answers]
    /\ UNCHANGED <<tree, files, noted, sessions, mine, stale, ops>>

\* Mutant: the pair is written without the check.
derive_unchecked ==
    /\ job.pc = "parse" /\ job.name = Derived
    /\ IF config["app"] = None THEN Ends
       ELSE job' = [job EXCEPT !.pc = "aside",
                        !.answers = minimal_answers(config["app"]) \cap BootAnswer]
    /\ UNCHANGED <<tree, files, noted, sessions, mine, stale, ops>>

\* The application's answers that the bootloader's tree takes, if the two then
\* agree on where the application is.
derive_bootloader ==
    /\ job.pc = "parse" /\ job.name = Derived
    /\ LET answers == minimal_answers(config["app"]) \cap BootAnswer
       IN  IF /\ config["app"] # None
              /\ _check_addresses(config["app"], answers)
           THEN job' = [job EXCEPT !.pc = "aside", !.answers = answers]
           ELSE Ends
    /\ UNCHANGED <<tree, files, noted, sessions, mine, stale, ops>>

\* save_config moves the file aside and its replacement into place.
Aside ==
    /\ job.pc = "aside"
    /\ bak' = [bak EXCEPT ![job.fw] = IF config[job.fw] = None THEN @ ELSE config[job.fw]]
    /\ config' = [config EXCEPT ![job.fw] = None]
    /\ mine' = IF job.op # "save" /\ GivesUp(job.fw)
               THEN [mine EXCEPT ![job.fw] = None] ELSE mine
    /\ Goes("place")
    /\ UNCHANGED <<tree, custom, record, noted, sessions, stale, ops>>

Place ==
    /\ job.pc = "place"
    /\ config' = [config EXCEPT ![job.fw] = job.answers]
    /\ mine' = IF job.op = "save"
               THEN [mine EXCEPT ![job.fw] = Given(job.fw, job.answers)]
               ELSE IF job.late /\ ~Kept(job.fw) THEN [mine EXCEPT ![job.fw] = None]
               ELSE mine
    /\ stale' = [stale EXCEPT ![job.fw] = @ \/ job.op # "save"]
    /\ Goes(IF job.op = "save" THEN "capture" ELSE "record")
    /\ UNCHANGED <<tree, bak, custom, record, noted, sessions, ops>>

\* Both files are hashed after they were read and written.  A record that
\* cannot be written is lost without a word.
write_record ==
    record' = [record EXCEPT ![job.fw] =
        [profile |-> job.name,
         source |-> _current_source_sha(job.fw, job.name),
         config |-> config[job.fw],
         answers |-> minimal_answers(job.answers)]]

Record ==
    /\ job.pc = "record"
    /\ \/ /\ write_record
          /\ stale' = [stale EXCEPT ![job.fw] = job.late \/ job.moved]
          /\ mine' = [mine EXCEPT ![job.fw] = IF @ = config[job.fw] THEN None ELSE @]
       \/ UNCHANGED <<record, stale, mine>>
    /\ IF job.derive /\ job.fw = "app"
       THEN job' = [job EXCEPT !.pc = "refuse", !.fw = "boot", !.name = Derived,
                               !.late = FALSE, !.moved = FALSE]
       ELSE IF job.seed # None THEN Goes("note") ELSE Ends
    /\ UNCHANGED <<tree, config, bak, custom, noted, sessions, ops>>

Note ==
    /\ job.pc = "note"
    /\ noted' = job.seed
    /\ Ends
    /\ UNCHANGED <<tree, files, sessions, mine, stale, ops>>

-----------------------------------------------------------------------------
(* Configuration sessions (SessionStore, KconfigSession) *)

\* What a session starts from: the saved answers, or what the chipset tells,
\* which nothing has saved yet.
_parse(f) ==
    IF config[f] # None
    THEN [fw |-> f, answers |-> config[f], dirty |-> FALSE]
    ELSE [fw |-> f, answers |-> Chipset \cap AnswersOf(f),
          dirty |-> Chipset \cap AnswersOf(f) # {}]

Without(i) == [k \in 1..(Len(sessions) - 1) |-> sessions[IF k < i THEN k ELSE k + 1]]
Touched(i, s) == Append(Without(i), s)

dirty_for(f) == \E i \in DOMAIN sessions : sessions[i].fw = f /\ sessions[i].dirty

\* The least recently touched of the clean ones goes, or of all.
Evicted ==
    LET clean == {i \in DOMAIN sessions : ~sessions[i].dirty}
    IN  IF clean = {} THEN 1 ELSE CHOOSE i \in clean : \A j \in clean : i <= j

kconfig_open(f, force) ==
    /\ Acts
    /\ force \/ ~dirty_for(f)
    /\ sessions' = Append(IF Len(sessions) >= MaxSessions THEN Without(Evicted)
                          ELSE sessions, _parse(f))
    /\ UNCHANGED <<tree, files, noted, job, mine, stale>>

kconfig_set(i) ==
    /\ Acts
    /\ \E x \in AnswersOf(sessions[i].fw) :
          LET a == sessions[i].answers
          IN  sessions' = Touched(i, [sessions[i] EXCEPT
                  !.answers = (a \cup {x}) \ (a \cap {x}), !.dirty = TRUE])
    /\ UNCHANGED <<tree, files, noted, job, mine, stale>>

kconfig_reset(i) ==
    /\ Acts
    /\ sessions' = Touched(i, _parse(sessions[i].fw))
    /\ UNCHANGED <<tree, files, noted, job, mine, stale>>

\* Closed by the client, or untouched for the time a session lives.
kconfig_close(i) ==
    /\ sessions' = Without(i)
    /\ UNCHANGED <<tree, files, noted, job, mine, stale, ops>>

\* The session holds the operation lock while it saves, and stays open, clean.
kconfig_save(i) ==
    /\ Acts
    /\ Free
    /\ job' = [Idle EXCEPT !.pc = "aside", !.op = "save", !.fw = sessions[i].fw,
                           !.answers = sessions[i].answers]
    /\ sessions' = Touched(i, [sessions[i] EXCEPT !.dirty = FALSE])
    /\ UNCHANGED <<tree, files, noted, mine, stale>>

\* The saved answers become the type's own profile, where there are profiles.
_capture_answers ==
    /\ job.pc = "capture"
    /\ LET f == job.fw
           answers == minimal_answers(job.answers)
       IN  IF \/ answers = {}
              \/ status(f) \in {"clean", "seed_moved"}
              \/ status(f) = "unmanaged" /\ available(f) = {}
           THEN UNCHANGED custom
           ELSE capture_custom(f, answers,
                    IF record[f] = None THEN None ELSE record[f].profile)
    /\ Ends
    /\ UNCHANGED <<tree, config, bak, record, noted, sessions, mine, stale, ops>>

-----------------------------------------------------------------------------
(* What fails: a full disk, a tree that does not parse, the agent's end *)

Fails ==
    /\ job.pc \in {"keep", "parse", "aside", "place"}
    /\ Ends
    /\ UNCHANGED <<tree, files, noted, sessions, mine, stale, ops>>

Crash ==
    /\ Acts
    /\ Ends
    /\ sessions' = <<>>
    /\ UNCHANGED <<tree, files, noted, mine, stale>>

-----------------------------------------------------------------------------
EachFw(none, some) == [f \in Fw |-> IF f = "app" THEN none ELSE some]
Seeded(p, source, a) ==
    [profile |-> p, source |-> [answers |-> source, at |-> 0], config |-> a,
     answers |-> minimal_answers(a)]

\* A type never configured, one configured by hand, one that tracks a vendor's
\* profile with its bootloader derived from it, and one on its own profile.
Init ==
    /\ tree \in Trees
    /\ \/ /\ config = EachFw(None, None)
          /\ record = config /\ custom = config /\ noted = None
       \/ \E a \in SUBSET AnswersOf("app") :
             /\ config = EachFw(a, None)
             /\ record = EachFw(None, None) /\ custom = record /\ noted = None
       \/ \E v \in {w \in Vendor : tree[w] # None} :
             /\ LET b == minimal_answers(tree[v]) \cap BootAnswer
                IN  /\ _check_addresses(tree[v], b)
                    /\ config = EachFw(tree[v], b)
                    /\ record = EachFw(Seeded(v, tree[v], tree[v]),
                                       Seeded(Derived, tree[v], b))
             /\ custom = EachFw(None, None) /\ noted = v
       \/ \E v \in {w \in Vendor : tree[w] # None} :
             /\ \E x \in AnswersOf("app") \ (Off \cup tree[v]) :
                  LET a == minimal_answers(tree[v]) \cup {x}
                  IN  /\ config = EachFw(a, None)
                      /\ custom = EachFw([answers |-> a, at |-> 0, parent |-> v,
                                         base |-> a \ {x}], None)
                      /\ record = EachFw(Seeded(Custom, a, a), None)
             /\ noted = Custom
    /\ bak = EachFw(None, None)
    /\ mine = [f \in Fw |-> IF record[f] = None THEN config[f] ELSE None]
    /\ stale = EachFw(FALSE, FALSE)
    /\ sessions = <<>> /\ job = Idle /\ ops = 0

Next ==
    \/ Pull \/ Crash \/ Fails
    \/ \E f \in Fw : \/ menuconfig_tty(f) \/ profile_forget(f) \/ reseed_if_moved(f)
                     \/ \E force \in BOOLEAN : kconfig_open(f, force)
    \/ \E f \in Fw, p \in Vendor \cup {Custom}, force, derive \in BOOLEAN :
          profile_apply(f, p, force, derive)
    \/ apply_seed \/ _keep_current_answers \/ Parse \/ derive_bootloader
    \/ Aside \/ Place \/ Record \/ Note \/ _capture_answers
    \/ \E i \in DOMAIN sessions :
          kconfig_set(i) \/ kconfig_reset(i) \/ kconfig_close(i) \/ kconfig_save(i)

Spec == Init /\ [][Next]_vars

-----------------------------------------------------------------------------
(* Properties *)

\* The shape of the files, the sessions, the job and the note.
TypeOK ==
    /\ tree \in Trees
    /\ config \in [Fw -> Content] /\ bak \in [Fw -> Content]
    /\ custom \in [Fw -> Fork \cup {None}]
    /\ record \in [Fw -> Provenance \cup {None}]
    /\ noted \in Vendor \cup {Custom, None}
    /\ sessions \in Seq(Session) /\ Len(sessions) <= MaxSessions
    /\ job \in [pc : {"idle", "refuse", "keep", "parse", "aside", "place",
                      "record", "note", "capture"},
                op : {"none", "apply", "reseed", "save"}, fw : Fw,
                name : Profile \cup {None}, seed : Vendor \cup {Custom, None},
                force : BOOLEAN, derive : BOOLEAN, answers : SUBSET Answer,
                late : BOOLEAN, moved : BOOLEAN]
    /\ mine \in [Fw -> Content] /\ stale \in [Fw -> BOOLEAN]
    /\ ops \in 0 .. MaxOps

Clean(f) == status(f) = "clean" /\ ~stale[f]

\* A config that is reported to match its profile holds what the profile gives
\* today, whatever was edited, pulled, saved, failed or forgotten since the job
\* that wrote it: what a build then compiles is what the panel names.  The
\* exceptions are a profile that is gone, which cannot be told, and files that
\* changed under that job, between its reading and its hashing them (`stale').
CleanMeansCurrent ==
    \A f \in Fw : LET p == IF record[f] = None THEN None ELSE record[f].profile
                  IN  Clean(f) /\ p \in available(f) =>
                        config[f] = _current_source_sha(f, p).answers

\* A bootloader that is reported to be derived from the application as it is
\* jumps to where that application is linked to run: nobody is told that a pair
\* matches which would build, flash and not come back.  With no application's
\* .config the report is the same and means "cannot tell" (status); and files
\* that changed under the job are set apart, as above.
CleanPairBoots ==
    Clean("boot") /\ record["boot"].profile = Derived /\ config["app"] # None =>
        _check_addresses(config["app"], config["boot"])

\* Answers the user gave stay in the .config or in the type's own profile,
\* through refusals, unforced applies, forced applies of a vendor's profile,
\* reseeding builds, failures and a crash between any two file operations (in
\* the .bak, while a config is replaced).  Five things the code does lose, or
\* leaves in the .bak, and `mine' forgets them there: an edit made after the job
\* looked, a .config with no record, one that a forced switch to the type's own
\* profile or a forced derivation replaces, the .bak of a job that died
\* (GivesUp), and a kept profile when what a job wrote and could not record is
\* kept in its place (_keep_current_answers).  refuse_if_customised promises to
\* keep the second and the third, too.
KeepsMine ==
    \A f \in Fw : mine[f] # None =>
        LET kept == minimal_answers(mine[f])
        IN  \/ config[f] # None /\ minimal_answers(config[f]) = kept
            \/ custom[f] # None /\ custom[f].answers = kept
            \/ config[f] = None /\ bak[f] = mine[f]

\* A type's own profile says it was forked from a profile that there was, never
\* from itself, and is measured against answers that this profile gave:
\* "what did I change" is answered against the right list after any number of
\* edits and switches.
BaseIsParents ==
    \A f \in Fw : custom[f] # None =>
        /\ custom[f].parent # Custom
        /\ custom[f].parent \in Vendor /\ custom[f].base # {} =>
              \E t \in Trees : /\ t[custom[f].parent] # None
                               /\ custom[f].base = minimal_answers(t[custom[f].parent])
=============================================================================
