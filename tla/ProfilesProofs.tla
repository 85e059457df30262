--------------------------- MODULE ProfilesProofs ---------------------------
(***************************************************************************)
(* For any seed files, answers, trees and number of sessions, whatever is  *)
(* edited, pulled, forgotten, saved or lost between two file operations of *)
(* a job: a clean config holds what its profile gives, a clean pair agrees *)
(* on the address, no answers of the user's are lost, and a type's own     *)
(* profile is measured against what its parent gave.                       *)
(*                                                                         *)
(* None of the four is inductive.  Each needs to know what the job in      *)
(* flight carries: a source it read and that still says so (JobTrue), the  *)
(* answers of a seed file that there was (JobGives), and the user's        *)
(* answers, kept before their file is moved aside (JobKeeps).              *)
(***************************************************************************)
EXTENDS Profiles, ConfigStore, TLAPS, SequenceTheorems

LEMMA SourceTyped ==
  ASSUME TypeOK, NEW f \in Fw, NEW p \in Profile
  PROVE  /\ _current_source_sha(f, p) \in Source \cup {None}
         /\ p \in available(f) => _current_source_sha(f, p) \in Source
                                  /\ _current_source_sha(f, p).answers \in SUBSET Answer
  <1>1. CASE p = Derived
    BY <1>1, ProfilesAssumption
       DEF _current_source_sha, TypeOK, Source, Fw, available, Derived, Custom
  <1>2. CASE p = Custom
    <2>1. CASE p \in available(f)
      <3>1. custom[f] \in Fork
        BY <1>2, <2>1, ProfilesAssumption DEF available, TypeOK, Custom
      <3>2. _current_source_sha(f, p) = [answers |-> custom[f].answers, at |-> custom[f].at]
        BY <1>2, <2>1 DEF _current_source_sha, Custom, Derived
      <3>3. QED
        BY <3>1, <3>2 DEF Fork, Source, Content
    <2>2. CASE p \notin available(f)
      BY <1>2, <2>2, ProfilesAssumption DEF _current_source_sha, Custom, Derived
    <2>3. QED
      BY <2>1, <2>2
  <1>3. CASE p \in Vendor
    <2>1. CASE p \in available(f)
      <3>1. tree[p] \in SUBSET Answer
        BY <1>3, <2>1, ProfilesAssumption DEF available, TypeOK, AnswersOf
      <3>2. _current_source_sha(f, p) = [answers |-> tree[p], at |-> 0]
        BY <1>3, <2>1, ProfilesAssumption DEF _current_source_sha, Custom, Derived
      <3>3. QED
        BY <3>1, <3>2 DEF Source, Content
    <2>2. CASE p \notin available(f)
      BY <1>3, <2>2, ProfilesAssumption DEF _current_source_sha, Custom, Derived
    <2>3. QED
      BY <2>1, <2>2
  <1>4. QED
    BY <1>1, <1>2, <1>3 DEF Profile

LEMMA MinimalTyped ==
  ASSUME NEW a, a \in SUBSET Answer
  PROVE  minimal_answers(a) \in SUBSET (Answer \ Off)
  BY DEF minimal_answers

\* A capture is a fork.
Captured(f, answers, parent) ==
    [answers |-> answers, at |-> ops,
     parent |-> _forked_from(f, parent).parent,
     base |-> _forked_from(f, parent).base]

LEMMA ForkTyped ==
  ASSUME TypeOK, NEW f \in Fw, NEW parent \in Profile \cup {None},
         NEW a \in SUBSET (Answer \ Off),
         record[f] = None => parent = None
  PROVE  Captured(f, a, parent) \in Fork
  <1>1. custom[f] # None => custom[f] \in Fork
    BY DEF TypeOK
  <1>2. record[f] # None => record[f] \in Provenance
    BY DEF TypeOK
  <1>3. /\ _forked_from(f, parent).parent \in Vendor \cup {Derived, None}
        /\ _forked_from(f, parent).base \in SUBSET Answer
    BY <1>1, <1>2, ProfilesAssumption DEF _forked_from, Fork, Provenance, Profile, Custom, Derived
  <1>4. ops \in Nat
    BY ProfilesAssumption DEF TypeOK
  <1>5. QED
    BY <1>3, <1>4 DEF Captured, Fork

\* The part of the type that the initial state has in four ways.
FilesTyped ==
    /\ config \in [Fw -> Content] /\ custom \in [Fw -> Fork \cup {None}]
    /\ record \in [Fw -> Provenance \cup {None}]
    /\ noted \in Vendor \cup {Custom, None}

LEMMA InitType == Init => TypeOK
  <1> SUFFICES ASSUME Init PROVE TypeOK
    OBVIOUS
  <1>1. /\ bak \in [Fw -> Content] /\ stale \in [Fw -> BOOLEAN]
        /\ sessions \in Seq(Session) /\ Len(sessions) <= MaxSessions
        /\ ops \in 0 .. MaxOps /\ tree \in Trees
    BY ProfilesAssumption DEF Init, EachFw, Content
  <1>2. job \in [pc : {"idle", "refuse", "keep", "parse", "aside", "place",
                      "record", "note", "capture"},
                op : {"none", "apply", "reseed", "save"}, fw : Fw,
                name : Profile \cup {None}, seed : Vendor \cup {Custom, None},
                force : BOOLEAN, derive : BOOLEAN, answers : SUBSET Answer,
                late : BOOLEAN, moved : BOOLEAN]
    BY DEF Init, Idle, Fw
  <1>3. FilesTyped
    <2>1. CASE config = EachFw(None, None) /\ record = config /\ custom = config /\ noted = None
      BY <2>1 DEF EachFw, Content, FilesTyped
    <2>2. CASE \E a \in SUBSET AnswersOf("app") :
             /\ config = EachFw(a, None)
             /\ record = EachFw(None, None) /\ custom = record /\ noted = None
      BY <2>2, ProfilesAssumption DEF EachFw, Content, AnswersOf, FilesTyped
    <2>3. ASSUME NEW v \in Vendor, tree[v] # None,
                 /\ LET b == minimal_answers(tree[v]) \cap BootAnswer
                    IN  /\ _check_addresses(tree[v], b)
                        /\ config = EachFw(tree[v], b)
                        /\ record = EachFw(Seeded(v, tree[v], tree[v]),
                                           Seeded(Derived, tree[v], b))
                 /\ custom = EachFw(None, None) /\ noted = v
          PROVE  FilesTyped
      <3>1. tree[v] \in SUBSET Answer
        BY <1>1, <2>3, ProfilesAssumption DEF AnswersOf
      <3>2. PICK b : b \in SUBSET Answer /\ b = minimal_answers(tree[v]) \cap BootAnswer
        BY ProfilesAssumption
      <3>3. Seeded(v, tree[v], tree[v]) \in Provenance
        BY <3>1 DEF Seeded, Provenance, Profile, Source, Content, minimal_answers
      <3>4. Seeded(Derived, tree[v], b) \in Provenance
        BY <3>1, <3>2 DEF Seeded, Provenance, Profile, Source, Content, minimal_answers
      <3>5. QED
        BY <2>3, <3>1, <3>2, <3>3, <3>4 DEF EachFw, Content, FilesTyped
    <2>4. ASSUME NEW v \in Vendor, tree[v] # None,
                 NEW x \in AnswersOf("app") \ (Off \cup tree[v]),
                 LET a == minimal_answers(tree[v]) \cup {x}
                  IN  /\ config = EachFw(a, None)
                      /\ custom = EachFw([answers |-> a, at |-> 0, parent |-> v,
                                         base |-> a \ {x}], None)
                      /\ record = EachFw(Seeded(Custom, a, a), None),
                 noted = Custom
          PROVE  FilesTyped
      <3>1. tree[v] \in SUBSET Answer
        BY <1>1, <2>4, ProfilesAssumption DEF AnswersOf
      <3>2. PICK a : a \in SUBSET (Answer \ Off) /\ a = minimal_answers(tree[v]) \cup {x}
        BY <3>1 DEF minimal_answers, AnswersOf
      <3>3. [answers |-> a, at |-> 0, parent |-> v, base |-> a \ {x}] \in Fork
        BY <3>2 DEF Fork
      <3>4. Seeded(Custom, a, a) \in Provenance
        BY <3>2 DEF Seeded, Provenance, Profile, Source, Content, minimal_answers
      <3>5. QED
        BY <2>4, <3>2, <3>3, <3>4 DEF EachFw, Content, FilesTyped
    <2>5. QED
      BY <2>1, <2>2, <2>3, <2>4 DEF Init
  <1>4. mine \in [Fw -> Content]
    BY <1>3 DEF Init, FilesTyped, Content
  <1>5. QED
    BY <1>1, <1>2, <1>3, <1>4 DEF TypeOK, FilesTyped

-----------------------------------------------------------------------------
(* The type invariant *)

\* The parts of the type, and the job's record.
JobTyped ==
    job \in [pc : {"idle", "refuse", "keep", "parse", "aside", "place",
                   "record", "note", "capture"},
             op : {"none", "apply", "reseed", "save"}, fw : Fw,
             name : Profile \cup {None}, seed : Vendor \cup {Custom, None},
             force : BOOLEAN, derive : BOOLEAN, answers : SUBSET Answer,
             late : BOOLEAN, moved : BOOLEAN]
SessionsTyped == sessions \in Seq(Session) /\ Len(sessions) <= MaxSessions
RestTyped ==
    /\ tree \in Trees /\ bak \in [Fw -> Content]
    /\ mine \in [Fw -> Content] /\ stale \in [Fw -> BOOLEAN]
    /\ ops \in 0 .. MaxOps

LEMMA TypeParts == TypeOK <=> FilesTyped /\ JobTyped /\ SessionsTyped /\ RestTyped
  BY DEF TypeOK, FilesTyped, JobTyped, SessionsTyped, RestTyped

LEMMA TypePartsNext ==
  TypeOK' <=> FilesTyped' /\ JobTyped' /\ SessionsTyped' /\ RestTyped'
  BY DEF TypeOK, FilesTyped, JobTyped, SessionsTyped, RestTyped

LEMMA ActsTyped ==
  ASSUME TypeOK, Acts \/ UNCHANGED ops PROVE ops' \in 0 .. MaxOps
  BY ProfilesAssumption DEF TypeOK, Acts

LEMMA AnswersTyped == ASSUME NEW f PROVE AnswersOf(f) \subseteq Answer
  BY ProfilesAssumption DEF AnswersOf

\* What a step outside the agent writes, and what a session does.
LEMMA OutsideTyped ==
  ASSUME TypeOK,
         \/ Pull \/ Crash \/ Fails
         \/ \E f \in Fw : menuconfig_tty(f) \/ profile_forget(f)
  PROVE  TypeOK'
  <1> USE TypeParts, TypePartsNext
  <1>1. CASE Pull
    <2>1. JobTyped'
      BY <1>1 DEF Pull, HasRead, JobTyped
    <2>2. FilesTyped' /\ SessionsTyped'
      BY <1>1 DEF Pull, files, FilesTyped, SessionsTyped
    <2>3. RestTyped'
      BY <1>1, ActsTyped DEF Pull, files, RestTyped
    <2>4. QED
      BY <2>1, <2>2, <2>3
  <1>2. CASE Crash
    BY <1>2, ProfilesAssumption
       DEF Crash, Acts, Ends, Idle, files, Fw, FilesTyped, JobTyped, SessionsTyped, RestTyped
  <1>3. CASE Fails
    BY <1>3 DEF Fails, Ends, Idle, files, Fw, FilesTyped, JobTyped, SessionsTyped, RestTyped
  <1>4. ASSUME NEW f \in Fw, menuconfig_tty(f) PROVE TypeOK'
    <2>1. PICK x \in AnswersOf(f) :
             LET was == IF config[f] = None THEN {} ELSE config[f]
                 now == (was \cup {x}) \ (was \cap {x})
             IN  /\ config' = [config EXCEPT ![f] = now]
                 /\ mine' = [mine EXCEPT ![f] = Given(f, now)]
      BY <1>4 DEF menuconfig_tty
    <2>2. PICK now : /\ now \in SUBSET Answer
                     /\ config' = [config EXCEPT ![f] = now]
                     /\ mine' = [mine EXCEPT ![f] = Given(f, now)]
      BY <2>1, AnswersTyped DEF FilesTyped, Content
    <2>3. JobTyped'
      BY <1>4 DEF menuconfig_tty, JobTyped, Decided, HasRead
    <2>4. SessionsTyped'
      BY <1>4 DEF menuconfig_tty, SessionsTyped
    <2>5. FilesTyped'
      BY <1>4, <2>2 DEF menuconfig_tty, Content, FilesTyped
    <2>6. RestTyped'
      BY <1>4, <2>2, ActsTyped DEF menuconfig_tty, Given, Content, RestTyped
    <2>7. QED
      BY <2>3, <2>4, <2>5, <2>6
  <1>5. ASSUME NEW f \in Fw, profile_forget(f) PROVE TypeOK'
    BY <1>5, ProfilesAssumption
       DEF profile_forget, Acts, FilesTyped, JobTyped, SessionsTyped, RestTyped
  <1>6. QED
    BY <1>1, <1>2, <1>3, <1>4, <1>5

\* A session that is dropped leaves the others.
LEMMA WithoutTyped ==
  ASSUME SessionsTyped, NEW i, Len(sessions) >= 1
  PROVE  Without(i) \in Seq(Session) /\ Len(Without(i)) = Len(sessions) - 1
  <1> DEFINE n == Len(sessions) - 1
  <1>1. n \in Nat
    BY DEF SessionsTyped
  <1>2. \A k \in 1 .. n : sessions[IF k < i THEN k ELSE k + 1] \in Session
    BY <1>1, ElementOfSeq DEF SessionsTyped
  <1>3. Without(i) = [k \in 1 .. n |-> sessions[IF k < i THEN k ELSE k + 1]]
    BY DEF Without
  <1> HIDE DEF n
  <1>4. Without(i) \in [1 .. n -> Session]
    BY <1>2, <1>3
  <1>5. Without(i) \in Seq(Session) /\ Len(Without(i)) = n
    BY <1>1, <1>4
  <1>6. QED
    BY <1>5 DEF n

LEMMA TouchedTyped ==
  ASSUME SessionsTyped, NEW i \in DOMAIN sessions, NEW s \in Session
  PROVE  Touched(i, s) \in Seq(Session) /\ Len(Touched(i, s)) <= MaxSessions
  <1>1. Len(sessions) \in Nat /\ Len(sessions) >= 1
    BY DEF SessionsTyped
  <1>2. Without(i) \in Seq(Session) /\ Len(Without(i)) = Len(sessions) - 1
    BY <1>1, WithoutTyped
  <1>3. QED
    BY <1>1, <1>2, AppendProperties DEF Touched, SessionsTyped

LEMMA ParseTyped ==
  ASSUME FilesTyped, NEW f \in Fw
  PROVE  _parse(f) \in Session
  BY AnswersTyped DEF _parse, FilesTyped, Content, Session

LEMMA SessionsStepTyped ==
  ASSUME TypeOK,
         \/ \E f \in Fw, force \in BOOLEAN : kconfig_open(f, force)
         \/ \E i \in DOMAIN sessions :
               kconfig_set(i) \/ kconfig_reset(i) \/ kconfig_close(i) \/ kconfig_save(i)
  PROVE  TypeOK'
  <1> USE TypeParts, TypePartsNext
  <1>1. ASSUME NEW f \in Fw, NEW force \in BOOLEAN, kconfig_open(f, force) PROVE TypeOK'
    <2>1. _parse(f) \in Session /\ Len(sessions) \in Nat
      BY ParseTyped DEF SessionsTyped
    <2>2. SessionsTyped'
      <3>1. CASE Len(sessions) >= MaxSessions
        <4>1. Without(Evicted) \in Seq(Session) /\ Len(Without(Evicted)) = Len(sessions) - 1
          BY <2>1, <3>1, WithoutTyped, ProfilesAssumption
        <4>2. QED
          BY <1>1, <2>1, <3>1, <4>1, AppendProperties DEF kconfig_open, SessionsTyped
      <3>2. CASE ~(Len(sessions) >= MaxSessions)
        BY <1>1, <2>1, <3>2, AppendProperties, ProfilesAssumption DEF kconfig_open, SessionsTyped
      <3>3. QED
        BY <3>1, <3>2
    <2>3. QED
      BY <1>1, <2>2, ProfilesAssumption
         DEF kconfig_open, Acts, files, FilesTyped, JobTyped, RestTyped
  <1>2. ASSUME NEW i \in DOMAIN sessions,
               kconfig_set(i) \/ kconfig_reset(i) \/ kconfig_close(i) \/ kconfig_save(i)
        PROVE  TypeOK'
    <2>1. sessions[i] \in Session /\ Len(sessions) >= 1
      BY DEF SessionsTyped
    <2>2. CASE kconfig_set(i)
      <3>1. PICK x \in AnswersOf(sessions[i].fw) :
               sessions' = Touched(i, [sessions[i] EXCEPT
                  !.answers = (sessions[i].answers \cup {x}) \ (sessions[i].answers \cap {x}),
                  !.dirty = TRUE])
        BY <2>2 DEF kconfig_set
      <3>2. PICK s \in Session : sessions' = Touched(i, s)
        BY <2>1, <3>1, AnswersTyped DEF Session
      <3>3. SessionsTyped'
        BY <3>2, TouchedTyped DEF SessionsTyped
      <3>4. QED
        BY <2>2, <3>3, ActsTyped DEF kconfig_set, files, FilesTyped, JobTyped, RestTyped
    <2>3. CASE kconfig_reset(i)
      <3>1. _parse(sessions[i].fw) \in Session
        BY <2>1, ParseTyped DEF Session
      <3>2. SessionsTyped'
        BY <2>3, <3>1, TouchedTyped DEF SessionsTyped, kconfig_reset
      <3>3. QED
        BY <2>3, <3>2, ProfilesAssumption
           DEF kconfig_reset, Acts, files, FilesTyped, JobTyped, RestTyped
    <2>4. CASE kconfig_close(i)
      <3>0. Without(i) \in Seq(Session) /\ Len(Without(i)) = Len(sessions) - 1
        BY <2>1, WithoutTyped
      <3>1. SessionsTyped'
        BY <2>1, <2>4, <3>0, ProfilesAssumption DEF SessionsTyped, kconfig_close
      <3>2. QED
        BY <2>4, <3>1 DEF kconfig_close, files, FilesTyped, JobTyped, RestTyped
    <2>5. CASE kconfig_save(i)
      <3>1. [sessions[i] EXCEPT !.dirty = FALSE] \in Session
        BY <2>1 DEF Session
      <3>2. SessionsTyped'
        BY <2>5, <3>1, TouchedTyped DEF SessionsTyped, kconfig_save
      <3>3. JobTyped'
        BY <2>1, <2>5 DEF kconfig_save, Idle, JobTyped, Session
      <3>4. QED
        BY <2>5, <3>2, <3>3, ActsTyped DEF kconfig_save, files, FilesTyped, RestTyped
    <2>6. QED
      BY <1>2, <2>2, <2>3, <2>4, <2>5
  <1>3. QED
    BY <1>1, <1>2

LEMMA AvailableTyped == ASSUME NEW f PROVE available(f) \subseteq Vendor \cup {Custom}
  BY DEF available

\* A job begins.
LEMMA BeginTyped ==
  ASSUME TypeOK,
         \/ \E f \in Fw : reseed_if_moved(f)
         \/ \E f \in Fw, p \in Vendor \cup {Custom}, force, derive \in BOOLEAN :
               profile_apply(f, p, force, derive)
  PROVE  TypeOK'
  <1> USE TypeParts, TypePartsNext
  <1>1. ASSUME NEW f \in Fw, reseed_if_moved(f) PROVE TypeOK'
    <2>1. record[f] # None
      BY <1>1 DEF reseed_if_moved, status
    <2>2. record[f].profile \in Profile
      BY <2>1 DEF FilesTyped, Provenance
    <2>3. JobTyped'
      BY <1>1, <2>2 DEF reseed_if_moved, Begin, Idle, JobTyped
    <2>4. QED
      BY <1>1, <2>3, ActsTyped DEF reseed_if_moved, files, FilesTyped, SessionsTyped, RestTyped
  <1>2. ASSUME NEW f \in Fw, NEW p \in Vendor \cup {Custom}, NEW force \in BOOLEAN,
               NEW derive \in BOOLEAN, profile_apply(f, p, force, derive)
        PROVE  TypeOK'
    <2>0. Begin("apply", f, p, force, derive)
      BY <1>2 DEF profile_apply
    <2>1. PICK s \in Vendor \cup {Custom, None} :
             job' = [Idle EXCEPT !.pc = "refuse", !.op = "apply", !.fw = f, !.name = p,
                                 !.force = force, !.derive = derive, !.seed = s]
      BY <2>0 DEF Begin
    <2>2. job' = [pc |-> "refuse", op |-> "apply", fw |-> f, name |-> p,
                  seed |-> s, force |-> force, derive |-> derive, answers |-> {},
                  late |-> FALSE, moved |-> FALSE]
      BY <2>1 DEF Idle
    <2>3. JobTyped'
      BY ONLY <2>2, f \in Fw, p \in Vendor \cup {Custom}, s \in Vendor \cup {Custom, None},
         force \in BOOLEAN, derive \in BOOLEAN DEF JobTyped, Profile
    <2>4. QED
      BY <1>2, <2>3, ActsTyped DEF profile_apply, files, FilesTyped, SessionsTyped, RestTyped
  <1>3. QED
    BY <1>1, <1>2

LEMMA GoesTyped ==
  ASSUME JobTyped,
         NEW q \in {"idle", "refuse", "keep", "parse", "aside", "place", "record",
                    "note", "capture"},
         Goes(q)
  PROVE  JobTyped'
  BY DEF Goes, JobTyped

LEMMA EndsTyped == ASSUME Ends PROVE JobTyped'
  BY DEF Ends, Idle, JobTyped, Fw

\* A capture writes a fork.
LEMMA CaptureTyped ==
  ASSUME TypeOK, NEW f \in Fw, NEW parent \in Profile \cup {None},
         NEW a \in SUBSET (Answer \ Off), record[f] = None => parent = None,
         capture_custom(f, a, parent)
  PROVE  /\ custom' = [custom EXCEPT ![f] = Captured(f, a, parent)]
         /\ custom' \in [Fw -> Fork \cup {None}]
         /\ custom'[f] = Captured(f, a, parent) /\ custom'[f] # None
         /\ \A g \in Fw \ {f} : custom'[g] = custom[g]
  <1>1. custom' = [custom EXCEPT ![f] = Captured(f, a, parent)]
    BY DEF capture_custom, Captured
  <1>2. Captured(f, a, parent) \in Fork
    BY ForkTyped
  <1>3. custom \in [Fw -> Fork \cup {None}]
    BY DEF TypeOK
  <1>4. QED
    BY <1>1, <1>2, <1>3, ProfilesAssumption

\* A job that applies a profile, from its start to its record.
Applies == job.pc \notin {"idle", "note"} /\ job.op # "save"

\* A job knows what it is to apply; the application is never derived; what is
\* recorded is there.
Ready ==
    /\ job.pc \in {"refuse", "keep", "parse", "record"} => job.op # "save"
    /\ job.pc = "capture" => job.op = "save"
    /\ Applies => job.name \in Profile /\ (job.name = Derived => job.fw = "boot")
    /\ job.pc = "keep" => job.name \in Vendor
    /\ job.pc = "record" => config[job.fw] # None
    /\ \A f \in Fw : record[f] # None /\ record[f].profile = Derived => f = "boot"

LEMMA StatusRecorded ==
  ASSUME NEW f, status(f) # "unmanaged"
  PROVE  record[f] # None
  BY DEF status

\* A step of the job.
LEMMA ReadsTyped ==
  ASSUME TypeOK, apply_seed \/ _keep_current_answers \/ Parse \/ derive_bootloader
  PROVE  TypeOK'
  <1>0. FilesTyped /\ JobTyped /\ SessionsTyped /\ RestTyped
    BY TypeParts
  <1>1. CASE apply_seed
    <2>1. JobTyped'
      BY <1>0, <1>1, GoesTyped, EndsTyped DEF apply_seed
    <2>2. FilesTyped' /\ SessionsTyped' /\ RestTyped'
      BY <1>0, <1>1 DEF apply_seed, files, FilesTyped, SessionsTyped, RestTyped
    <2>3. QED
      BY <2>1, <2>2, TypePartsNext
  <1>2. CASE _keep_current_answers
    <2>0. job.fw \in Fw
      BY <1>0 DEF JobTyped
    <2>1. JobTyped'
      BY <1>0, <1>2, GoesTyped, EndsTyped DEF _keep_current_answers
    <2>2. SessionsTyped'
      BY <1>0, <1>2 DEF _keep_current_answers, SessionsTyped
    <2>3. RestTyped'
      BY <1>0, <1>2, <2>0 DEF _keep_current_answers, RestTyped, Content
    <2>4. custom' \in [Fw -> Fork \cup {None}]
      <3>1. CASE UNCHANGED custom
        BY <1>0, <3>1 DEF FilesTyped
      <3>2. CASE ~UNCHANGED custom
        <4>1. /\ status(job.fw) = "customised" /\ config[job.fw] # None
              /\ capture_custom(job.fw, minimal_answers(config[job.fw]), record[job.fw].profile)
          BY <1>2, <3>2 DEF _keep_current_answers
        <4>2. record[job.fw] # None
          BY <4>1, StatusRecorded
        <4>3. record[job.fw].profile \in Profile /\ config[job.fw] \in SUBSET Answer
          BY <1>0, <2>0, <4>1, <4>2 DEF FilesTyped, Provenance, Content
        <4>4. minimal_answers(config[job.fw]) \in SUBSET (Answer \ Off)
          BY <4>3, MinimalTyped
        <4>5. QED
          BY <2>0, <4>1, <4>2, <4>3, <4>4, CaptureTyped
      <3>3. QED
        BY <3>1, <3>2
    <2>5. FilesTyped'
      BY <1>0, <1>2, <2>4 DEF _keep_current_answers, FilesTyped
    <2>6. QED
      BY <2>1, <2>2, <2>3, <2>5, TypePartsNext
  <1>3. CASE Parse
    <2>1. JobTyped'
      <3>1. CASE job.name \notin available(job.fw)
        BY <1>3, <3>1, EndsTyped DEF Parse
      <3>2. CASE job.name \in available(job.fw)
        <4>1. job.fw \in Fw /\ job.name \in Profile
          BY <1>0, <3>2, AvailableTyped DEF JobTyped, Profile
        <4>2. _current_source_sha(job.fw, job.name).answers \in SUBSET Answer
          BY <3>2, <4>1, SourceTyped
        <4>3. PICK a \in SUBSET Answer : job' = [job EXCEPT !.pc = "aside", !.answers = a]
          BY <1>3, <3>2, <4>2 DEF Parse
        <4>4. QED
          BY <1>0, <4>3 DEF JobTyped
      <3>3. QED
        BY <3>1, <3>2
    <2>2. FilesTyped' /\ SessionsTyped' /\ RestTyped'
      BY <1>0, <1>3 DEF Parse, files, FilesTyped, SessionsTyped, RestTyped
    <2>3. QED
      BY <2>1, <2>2, TypePartsNext
  <1>4. CASE derive_bootloader
    <2>1. JobTyped'
      <3>1. CASE Ends
        BY <3>1, EndsTyped
      <3>2. CASE ~Ends
        <4>1. PICK a \in SUBSET Answer : job' = [job EXCEPT !.pc = "aside", !.answers = a]
          BY <1>4, <3>2, ProfilesAssumption DEF derive_bootloader
        <4>2. QED
          BY <1>0, <4>1 DEF JobTyped
      <3>3. QED
        BY <3>1, <3>2
    <2>2. FilesTyped' /\ SessionsTyped' /\ RestTyped'
      BY <1>0, <1>4 DEF derive_bootloader, files, FilesTyped, SessionsTyped, RestTyped
    <2>3. QED
      BY <2>1, <2>2, TypePartsNext
  <1>5. QED
    BY <1>1, <1>2, <1>3, <1>4

LEMMA WritesTyped ==
  ASSUME TypeOK, Ready, Aside \/ Place \/ Record \/ Note \/ _capture_answers
  PROVE  TypeOK'
  <1>0. FilesTyped /\ JobTyped /\ SessionsTyped /\ RestTyped
    BY TypeParts
  <1>f. job.fw \in Fw /\ job.answers \in SUBSET Answer
    BY <1>0 DEF JobTyped
  <1>1. CASE Aside
    <2>1. JobTyped'
      BY <1>0, <1>1, GoesTyped DEF Aside
    <2>2. FilesTyped' /\ SessionsTyped'
      BY <1>0, <1>1 DEF Aside, FilesTyped, SessionsTyped, Content
    <2>3. bak' \in [Fw -> Content]
      BY <1>0, <1>1, <1>f DEF Aside, FilesTyped, RestTyped
    <2>4. mine' \in [Fw -> Content]
      BY <1>0, <1>1, <1>f DEF Aside, RestTyped, Content
    <2>5. RestTyped'
      BY <1>0, <1>1, <2>3, <2>4 DEF Aside, RestTyped
    <2>6. QED
      BY <2>1, <2>2, <2>5, TypePartsNext
  <1>2. CASE Place
    <2>1. JobTyped'
      BY <1>0, <1>2, GoesTyped DEF Place
    <2>2. FilesTyped' /\ SessionsTyped'
      BY <1>0, <1>2, <1>f DEF Place, FilesTyped, SessionsTyped, Content
    <2>3. mine' \in [Fw -> Content]
      BY <1>0, <1>2, <1>f DEF Place, RestTyped, Content, Given
    <2>4. stale' \in [Fw -> BOOLEAN]
      BY <1>0, <1>2, <1>f DEF Place, RestTyped
    <2>5. RestTyped'
      BY <1>0, <1>2, <2>3, <2>4 DEF Place, RestTyped
    <2>6. QED
      BY <2>1, <2>2, <2>5, TypePartsNext
  <1>3. CASE Record
    <2>1. JobTyped'
      <3>1. CASE Ends \/ Goes("note")
        BY <1>0, <3>1, EndsTyped, GoesTyped
      <3>2. CASE ~(Ends \/ Goes("note"))
        <4>1. job' = [job EXCEPT !.pc = "refuse", !.fw = "boot", !.name = Derived,
                                 !.late = FALSE, !.moved = FALSE]
          BY <1>3, <3>2 DEF Record
        <4>2. QED
          BY <1>0, <4>1 DEF JobTyped, Profile, Fw
      <3>3. QED
        BY <3>1, <3>2
    <2>2. SessionsTyped' /\ stale' \in [Fw -> BOOLEAN] /\ mine' \in [Fw -> Content]
      <3>1. SessionsTyped'
        BY <1>0, <1>3 DEF Record, SessionsTyped
      <3>2. mine' \in [Fw -> Content]
        BY <1>0, <1>3, <1>f DEF Record, RestTyped, Content
      <3>3. job.late \in BOOLEAN /\ job.moved \in BOOLEAN
        BY <1>0 DEF JobTyped
      <3>4. stale' \in [Fw -> BOOLEAN]
        BY <1>0, <1>3, <1>f, <3>3 DEF Record, RestTyped
      <3>5. QED
        BY <3>1, <3>2, <3>4
    <2>3. RestTyped'
      BY <1>0, <1>3, <2>2 DEF Record, RestTyped
    <2>4. record' \in [Fw -> Provenance \cup {None}]
      <3>1. CASE UNCHANGED record
        BY <1>0, <3>1 DEF FilesTyped
      <3>2. CASE ~UNCHANGED record
        <4>1. job.pc = "record" /\ write_record
          BY <1>3, <3>2 DEF Record
        <4>2. job.name \in Profile /\ config[job.fw] \in SUBSET Answer
          BY <1>0, <1>f, <4>1 DEF Ready, Applies, FilesTyped, Content
        <4>3. PICK src \in Source \cup {None} : src = _current_source_sha(job.fw, job.name)
          BY <1>f, <4>2, SourceTyped
        <4>4. minimal_answers(job.answers) \in SUBSET Answer
          BY <1>f DEF minimal_answers
        <4>5. record' = [record EXCEPT ![job.fw] =
                  [profile |-> job.name, source |-> src, config |-> config[job.fw],
                   answers |-> minimal_answers(job.answers)]]
          BY <4>1, <4>3 DEF write_record
        <4>6. QED
          BY <1>0, <1>f, <4>2, <4>4, <4>5 DEF FilesTyped, Provenance
      <3>3. QED
        BY <3>1, <3>2
    <2>5. FilesTyped'
      BY <1>0, <1>3, <2>4 DEF Record, FilesTyped
    <2>6. QED
      BY <2>1, <2>2, <2>3, <2>5, TypePartsNext
  <1>4. CASE Note
    <2>1. JobTyped' /\ noted' \in Vendor \cup {Custom, None}
      BY <1>0, <1>4, EndsTyped DEF Note, JobTyped
    <2>2. FilesTyped' /\ SessionsTyped' /\ RestTyped'
      BY <1>0, <1>4, <2>1 DEF Note, files, FilesTyped, SessionsTyped, RestTyped
    <2>3. QED
      BY <2>1, <2>2, TypePartsNext
  <1>5. CASE _capture_answers
    <2>1. JobTyped'
      BY <1>5, EndsTyped DEF _capture_answers
    <2>2. custom' \in [Fw -> Fork \cup {None}]
      <3>1. CASE UNCHANGED custom
        BY <1>0, <3>1 DEF FilesTyped
      <3>2. CASE ~UNCHANGED custom
        <4>1. PICK parent :
                 /\ parent = IF record[job.fw] = None THEN None ELSE record[job.fw].profile
                 /\ capture_custom(job.fw, minimal_answers(job.answers), parent)
          BY <1>5, <3>2 DEF _capture_answers
        <4>2. parent \in Profile \cup {None}
          BY <1>0, <1>f, <4>1 DEF FilesTyped, Provenance
        <4>3. minimal_answers(job.answers) \in SUBSET (Answer \ Off)
          BY <1>f, MinimalTyped
        <4>4. QED
          BY <1>f, <4>1, <4>2, <4>3, CaptureTyped
      <3>3. QED
        BY <3>1, <3>2
    <2>3. FilesTyped' /\ SessionsTyped' /\ RestTyped'
      BY <1>0, <1>5, <2>2 DEF _capture_answers, FilesTyped, SessionsTyped, RestTyped
    <2>4. QED
      BY <2>1, <2>3, TypePartsNext
  <1>6. QED
    BY <1>1, <1>2, <1>3, <1>4, <1>5

-----------------------------------------------------------------------------
(* What the job is about *)

LEMMA InitReady == ASSUME Init PROVE Ready
  <1>0. \A x, y : EachFw(x, y)["app"] = x
    BY DEF EachFw, Fw
  <1>s. \A p, x, a : Seeded(p, x, a).profile = p
    BY DEF Seeded
  <1>c. Custom # Derived /\ \A v \in Vendor : v # Derived
    BY ProfilesAssumption DEF Custom, Derived
  <1>1. record["app"] = None \/ record["app"].profile # Derived
    <2>1. CASE config = EachFw(None, None) /\ record = config
      BY <1>0, <2>1
    <2>2. CASE record = EachFw(None, None)
      BY <1>0, <2>2
    <2>3. ASSUME NEW v \in Vendor, NEW x, NEW y, record = EachFw(Seeded(v, x, x), y)
          PROVE  record["app"].profile # Derived
      BY <1>0, <1>s, <1>c, <2>3
    <2>4. ASSUME NEW a, record = EachFw(Seeded(Custom, a, a), None)
          PROVE  record["app"].profile # Derived
      BY <1>0, <1>s, <1>c, <2>4
    <2>5. QED
      BY <2>1, <2>2, <2>3, <2>4 DEF Init
  <1>2. QED
    BY <1>1 DEF Init, Ready, Applies, Idle, Fw

\* Where the job stands, and what it is about, are left alone.
LEMMA ReadyKept ==
  ASSUME Ready, UNCHANGED record, UNCHANGED <<job.pc, job.op, job.name, job.fw>>,
         \A f \in Fw : config[f] # None => config'[f] # None, job.fw \in Fw
  PROVE  Ready'
  BY DEF Ready, Applies

LEMMA ReadyEnds ==
  ASSUME Ready, Ends \/ job'.pc \in {"idle", "note"},
         \A f \in Fw : record'[f] # None /\ record'[f].profile = Derived
                       => f = "boot"
  PROVE  Ready'
  BY DEF Ready, Applies, Ends, Idle

LEMMA ReadyOutside ==
  ASSUME TypeOK, Ready,
         \/ Pull \/ Crash \/ Fails
         \/ \E f \in Fw : \/ menuconfig_tty(f) \/ profile_forget(f) \/ reseed_if_moved(f)
                          \/ \E force \in BOOLEAN : kconfig_open(f, force)
         \/ \E i \in DOMAIN sessions :
               kconfig_set(i) \/ kconfig_reset(i) \/ kconfig_close(i) \/ kconfig_save(i)
  PROVE  Ready'
  <1>0. job.fw \in Fw /\ JobTyped /\ FilesTyped
    BY TypeParts DEF JobTyped
  <1>r. \A f \in Fw : record[f] # None /\ record[f].profile = Derived => f = "boot"
    BY DEF Ready
  <1>1. CASE Pull
    <2>1. UNCHANGED <<job.pc, job.op, job.name, job.fw>>
      BY <1>0, <1>1 DEF Pull, JobTyped
    <2>2. QED
      BY <1>0, <1>1, <2>1, ReadyKept DEF Pull, files
  <1>2. CASE Crash \/ Fails
    <2>1. Ends /\ UNCHANGED record
      BY <1>2 DEF Crash, Fails, files
    <2>2. QED
      BY <1>r, <2>1, ReadyEnds
  <1>3. ASSUME NEW f \in Fw, menuconfig_tty(f) PROVE Ready'
    <2>1. UNCHANGED <<job.pc, job.op, job.name, job.fw>> /\ UNCHANGED record
      BY <1>0, <1>3 DEF menuconfig_tty, JobTyped
    <2>2. PICK now \in SUBSET Answer : config' = [config EXCEPT ![f] = now]
      BY <1>0, <1>3, AnswersTyped DEF menuconfig_tty, FilesTyped, Content
    <2>3. \A g \in Fw : config[g] # None => config'[g] # None
      BY <1>0, <2>2, ProfilesAssumption DEF FilesTyped
    <2>4. QED
      BY <1>0, <2>1, <2>3, ReadyKept
  <1>4. ASSUME NEW f \in Fw, profile_forget(f) PROVE Ready'
    BY <1>0, <1>4 DEF profile_forget, Ready, Applies, FilesTyped
  <1>5. ASSUME NEW f \in Fw, reseed_if_moved(f) PROVE Ready'
    <2>1. record[f] # None /\ UNCHANGED record
      BY <1>5, StatusRecorded DEF reseed_if_moved, files
    <2>2. record[f].profile \in Profile
      BY <1>0, <2>1 DEF FilesTyped, Provenance
    <2>3. job'.pc = "refuse" /\ job'.op = "reseed" /\ job'.fw = f /\ job'.name = record[f].profile
      BY <1>5 DEF reseed_if_moved, Begin, Idle
    <2>4. QED
      BY <1>r, <2>1, <2>2, <2>3, ProfilesAssumption DEF Ready, Applies
  <1>6. ASSUME NEW f \in Fw, NEW force \in BOOLEAN, kconfig_open(f, force) PROVE Ready'
    BY <1>6 DEF kconfig_open, files, Ready, Applies
  <1>7. ASSUME NEW i \in DOMAIN sessions, kconfig_set(i) \/ kconfig_reset(i) \/ kconfig_close(i)
        PROVE  Ready'
    BY <1>7 DEF kconfig_set, kconfig_reset, kconfig_close, files, Ready, Applies
  <1>8. ASSUME NEW i \in DOMAIN sessions, kconfig_save(i) PROVE Ready'
    <2>1. job'.pc = "aside" /\ job'.op = "save" /\ UNCHANGED record
      BY <1>8 DEF kconfig_save, files, Idle
    <2>2. QED
      BY <1>r, <2>1 DEF Ready, Applies
  <1>9. QED
    BY <1>1, <1>2, <1>3, <1>4, <1>5, <1>6, <1>7, <1>8

LEMMA ReadyApplied ==
  ASSUME TypeOK, Ready,
         \/ \E f \in Fw, p \in Vendor \cup {Custom}, force, derive \in BOOLEAN :
               profile_apply(f, p, force, derive)
         \/ apply_seed \/ _keep_current_answers \/ Parse \/ derive_bootloader
         \/ Aside \/ Place \/ Record \/ Note \/ _capture_answers
  PROVE  Ready'
  <1>0. job.fw \in Fw /\ JobTyped /\ FilesTyped /\ job.answers \in SUBSET Answer
    BY TypeParts DEF JobTyped
  <1>r. \A f \in Fw : record[f] # None /\ record[f].profile = Derived => f = "boot"
    BY DEF Ready
  <1>1. ASSUME NEW f \in Fw, NEW p \in Vendor \cup {Custom}, NEW force \in BOOLEAN,
               NEW derive \in BOOLEAN, profile_apply(f, p, force, derive)
        PROVE  Ready'
    <2>0. Begin("apply", f, p, force, derive) /\ UNCHANGED record
      BY <1>1 DEF profile_apply, files
    <2>1. job'.pc = "refuse" /\ job'.op = "apply" /\ job'.fw = f /\ job'.name = p
      BY <2>0 DEF Begin, Idle
    <2>2. p # Derived /\ p # None
      BY ProfilesAssumption DEF Profile, Custom, Derived
    <2>3. QED
      BY <1>r, <2>0, <2>1, <2>2 DEF Ready, Applies, Profile
  <1>2. CASE apply_seed
    <2>1. CASE Ends
      BY <1>2, <1>r, <2>1, ReadyEnds DEF apply_seed, files
    <2>2. CASE ~Ends
      <3>1. PICK q \in {"keep", "parse"} : Goes(q) /\ (q = "keep" => job.name \in Vendor)
        BY <1>2, <2>2 DEF apply_seed
      <3>2. job'.pc = q /\ UNCHANGED <<job.op, job.name, job.fw, record>>
        BY <1>0, <1>2, <3>1 DEF Goes, JobTyped, apply_seed, files
      <3>3. QED
        BY <1>2, <3>1, <3>2 DEF Ready, Applies, apply_seed
    <2>3. QED
      BY <2>1, <2>2
  <1>3. CASE _keep_current_answers
    <2>1. CASE Ends
      BY <1>3, <1>r, <2>1, ReadyEnds DEF _keep_current_answers
    <2>2. CASE ~Ends
      <3>1. Goes("parse")
        BY <1>3, <2>2 DEF _keep_current_answers
      <3>2. job'.pc = "parse" /\ UNCHANGED <<job.op, job.name, job.fw, record>>
        BY <1>0, <1>3, <3>1 DEF Goes, JobTyped, _keep_current_answers
      <3>3. QED
        BY <1>3, <3>2 DEF Ready, Applies, _keep_current_answers
    <2>3. QED
      BY <2>1, <2>2
  <1>4. CASE Parse \/ derive_bootloader
    <2>1. CASE Ends
      BY <1>4, <1>r, <2>1, ReadyEnds DEF Parse, derive_bootloader, files
    <2>2. CASE ~Ends
      <3>1. PICK a : job' = [job EXCEPT !.pc = "aside", !.answers = a]
        BY <1>4, <2>2 DEF Parse, derive_bootloader
      <3>2. job'.pc = "aside" /\ UNCHANGED <<job.op, job.name, job.fw, record>>
        BY <1>0, <1>4, <3>1 DEF JobTyped, Parse, derive_bootloader, files
      <3>3. QED
        BY <1>4, <3>2 DEF Ready, Applies, Parse, derive_bootloader
    <2>3. QED
      BY <2>1, <2>2
  <1>5. CASE Aside
    <2>1. job'.pc = "place" /\ UNCHANGED <<job.op, job.name, job.fw, record>>
      BY <1>0, <1>5 DEF Aside, Goes, JobTyped
    <2>2. QED
      BY <1>5, <2>1 DEF Ready, Applies, Aside
  <1>6. CASE Place
    <2>1. UNCHANGED <<job.op, job.name, job.fw, record>>
          /\ job'.pc = IF job.op = "save" THEN "capture" ELSE "record"
      BY <1>0, <1>6 DEF Place, Goes, JobTyped
    <2>2. config'[job.fw] # None
      BY <1>0, <1>6, ProfilesAssumption DEF Place, FilesTyped
    <2>3. QED
      BY <1>6, <2>1, <2>2 DEF Ready, Applies, Place
  <1>7. CASE Record
    <2>1. \A f \in Fw : record'[f] # None /\ record'[f].profile = Derived => f = "boot"
      <3>1. CASE UNCHANGED record
        BY <1>r, <3>1
      <3>2. CASE ~UNCHANGED record
        <4>1. job.pc = "record" /\ write_record
          BY <1>7, <3>2 DEF Record
        <4>2. job.name = Derived => job.fw = "boot"
          BY <4>1 DEF Ready, Applies
        <4>3. record'[job.fw].profile = job.name /\ \A g \in Fw \ {job.fw} : record'[g] = record[g]
          BY <1>0, <4>1 DEF write_record, FilesTyped
        <4>4. QED
          BY <1>r, <4>2, <4>3
      <3>3. QED
        BY <3>1, <3>2
    <2>2. CASE Ends \/ Goes("note")
      <3>1. Goes("note") => job'.pc = "note"
        BY <1>0 DEF Goes, JobTyped
      <3>2. QED
        BY <2>1, <2>2, <3>1, ReadyEnds
    <2>3. CASE ~(Ends \/ Goes("note"))
      <3>1. job' = [job EXCEPT !.pc = "refuse", !.fw = "boot", !.name = Derived,
                               !.late = FALSE, !.moved = FALSE]
        BY <1>7, <2>3 DEF Record
      <3>2. /\ job'.pc = "refuse" /\ job'.fw = "boot" /\ job'.name = Derived
            /\ job'.op = job.op
        BY <1>0, <3>1 DEF JobTyped
      <3>3. job.op # "save"
        BY <1>7 DEF Record, Ready
      <3>4. QED
        BY <2>1, <3>2, <3>3, ProfilesAssumption DEF Ready, Applies, Profile
    <2>4. QED
      BY <2>2, <2>3
  <1>8. CASE Note \/ _capture_answers
    <2>1. Ends /\ UNCHANGED record
      BY <1>8 DEF Note, _capture_answers, files
    <2>2. QED
      BY <1>r, <2>1, ReadyEnds
  <1>9. QED
    BY <1>1, <1>2, <1>3, <1>4, <1>5, <1>6, <1>7, <1>8

TInv == TypeOK /\ Ready

LEMMA NextTInv == TInv /\ [Next]_vars => TInv'
  <1> SUFFICES ASSUME TypeOK, Ready, [Next]_vars PROVE TypeOK' /\ Ready'
    BY DEF TInv
  <1>1. CASE UNCHANGED vars
    BY <1>1 DEF vars, files, TypeOK, Ready, Applies
  <1>2. CASE Next
    <2>1. TypeOK'
      BY <1>2, OutsideTyped, SessionsStepTyped, BeginTyped, ReadsTyped, WritesTyped DEF Next
    <2>2. Ready'
      BY <1>2, ReadyOutside, ReadyApplied DEF Next
    <2>3. QED
      BY <2>1, <2>2
  <1>3. QED
    BY <1>1, <1>2

LEMMA InitTInv == Init => TInv
  BY InitType, InitReady DEF TInv

\* Every file, record, session and job keeps its type, and there are never more
\* sessions than the store allows.
THEOREM TypeCorrect == Spec => []TypeOK
  <1>1. TInv => TypeOK
    BY DEF TInv
  <1>2. QED
    BY InitTInv, NextTInv, <1>1, PTL DEF Spec

-----------------------------------------------------------------------------
(* What a fork is measured against *)

\* The answers are those of a seed file that there was.
GaveThese(v, a) == \E t \in Trees : t[v] # None /\ a = t[v]

\* The record of a vendor's profile keeps what that profile gave, and so does the
\* job that is to write such a record.
RecordGave ==
    \A f \in Fw : record[f] # None /\ record[f].profile \in Vendor =>
        \E a : GaveThese(record[f].profile, a)
               /\ record[f].answers = minimal_answers(a)
JobGives == HasRead /\ Applies /\ job.name \in Vendor => GaveThese(job.name, job.answers)

LEMMA InitGave == Init => RecordGave /\ JobGives /\ BaseIsParents
  <1> SUFFICES ASSUME Init PROVE RecordGave /\ JobGives /\ BaseIsParents
    OBVIOUS
  <1>0. /\ \A x, y : EachFw(x, y)["app"] = x /\ EachFw(x, y)["boot"] = y
        /\ \A p, x, a : Seeded(p, x, a).profile = p /\ Seeded(p, x, a).answers = minimal_answers(a)
        /\ \A f \in Fw : f = "app" \/ f = "boot"
    BY DEF EachFw, Fw, Seeded
  <1>c. Custom # Derived /\ Custom \notin Vendor /\ Derived \notin Vendor /\ None \notin Vendor
    BY ProfilesAssumption DEF Custom, Derived, Profile
  <1>1. JobGives
    BY DEF Init, Idle, JobGives, HasRead
  <1>2. tree \in Trees
    BY DEF Init
  <1>3. CASE config = EachFw(None, None) /\ record = config /\ custom = config
    BY <1>0, <1>1, <1>3 DEF RecordGave, BaseIsParents
  <1>4. CASE record = EachFw(None, None) /\ custom = record
    BY <1>0, <1>1, <1>4 DEF RecordGave, BaseIsParents
  <1>5. ASSUME NEW v \in Vendor, tree[v] # None, NEW b,
               record = EachFw(Seeded(v, tree[v], tree[v]), Seeded(Derived, tree[v], b)),
               custom = EachFw(None, None)
        PROVE  RecordGave /\ BaseIsParents
    <2>1. RecordGave
      BY <1>0, <1>2, <1>5, <1>c DEF RecordGave, GaveThese
    <2>2. BaseIsParents
      BY <1>0, <1>5 DEF BaseIsParents
    <2>3. QED
      BY <2>1, <2>2
  <1>6. ASSUME NEW v \in Vendor, tree[v] # None,
               NEW x \in AnswersOf("app") \ (Off \cup tree[v]),
               NEW a, a = minimal_answers(tree[v]) \cup {x},
               custom = EachFw([answers |-> a, at |-> 0, parent |-> v,
                                base |-> a \ {x}], None),
               record = EachFw(Seeded(Custom, a, a), None)
        PROVE  RecordGave /\ BaseIsParents
    <2>1. RecordGave
      BY <1>0, <1>6, <1>c DEF RecordGave
    <2>2. a \ {x} = minimal_answers(tree[v])
      BY <1>6 DEF minimal_answers
    <2>3. /\ custom["app"] = [answers |-> a, at |-> 0, parent |-> v, base |-> a \ {x}]
          /\ custom["boot"] = None
      BY <1>0, <1>6
    <2>4. /\ custom["app"].parent = v /\ custom["app"].base = minimal_answers(tree[v])
          /\ v # Custom
      BY <1>c, <2>2, <2>3
    <2>5. BaseIsParents
      <3> SUFFICES ASSUME NEW f \in Fw, custom[f] # None
                   PROVE  /\ custom[f].parent # Custom
                          /\ custom[f].parent \in Vendor /\ custom[f].base # {} =>
                                \E t \in Trees :
                                   /\ t[custom[f].parent] # None
                                   /\ custom[f].base = minimal_answers(t[custom[f].parent])
        BY DEF BaseIsParents
      <3>1. f = "app"
        BY <1>0, <2>3
      <3>2. QED
        BY <1>2, <1>6, <2>4, <3>1
    <2>6. QED
      BY <2>1, <2>5
  <1>7. QED
    BY <1>1, <1>3, <1>4, <1>5, <1>6 DEF Init

\* A capture.
LEMMA CaptureBase ==
  ASSUME TInv, RecordGave, BaseIsParents, NEW f \in Fw, NEW a \in SUBSET (Answer \ Off),
         NEW parent, parent = IF record[f] = None THEN None ELSE record[f].profile,
         capture_custom(f, a, parent)
  PROVE  BaseIsParents'
  <1>1. record[f] # None => record[f] \in Provenance
    BY DEF TInv, TypeOK
  <1>2. parent \in Profile \cup {None}
    BY <1>1 DEF Provenance
  <1>3. /\ custom'[f] = Captured(f, a, parent)
        /\ \A g \in Fw \ {f} : custom'[g] = custom[g]
    BY <1>2, CaptureTyped, ProfilesAssumption DEF TInv, Profile
  <1>c. Custom # Derived /\ None # Custom /\ None \notin Vendor /\ Custom \notin Vendor
    BY ProfilesAssumption DEF Custom, Derived, Profile
  <1>4. custom'[f].parent # Custom
    BY <1>1, <1>2, <1>3, <1>c DEF Captured, _forked_from, BaseIsParents
  <1>5. ASSUME custom'[f].parent \in Vendor, custom'[f].base # {}
        PROVE  \E t \in Trees : /\ t[custom'[f].parent] # None
                                /\ custom'[f].base = minimal_answers(t[custom'[f].parent])
    <2> DEFINE n == _forked_from(f, parent).parent
               b == _forked_from(f, parent).base
    <2>1. custom'[f].parent = n /\ custom'[f].base = b
      BY <1>3 DEF Captured
    <2>2. CASE custom[f] # None /\ n = custom[f].parent /\ b = custom[f].base
      BY <1>5, <2>1, <2>2 DEF BaseIsParents
    <2>3. CASE record[f] # None /\ record[f].profile = n /\ b = record[f].answers
      BY <1>5, <2>1, <2>3 DEF RecordGave, GaveThese
    <2>4. CASE b = {}
      BY <1>5, <2>1, <2>4
    <2>5. QED
      BY <1>2, <1>c, <2>2, <2>3, <2>4 DEF _forked_from
  <1>6. QED
    BY <1>3, <1>4, <1>5 DEF BaseIsParents

\* Pulls, sessions, refusals and ends change nothing of this.
LEMMA GaveKept ==
  ASSUME RecordGave, BaseIsParents, UNCHANGED custom,
         \A f \in Fw : record'[f] \in {None, record[f]}
  PROVE  RecordGave' /\ BaseIsParents'
  BY DEF RecordGave, BaseIsParents, GaveThese

LEMMA JobGivesKept ==
  ASSUME JobGives,
         \/ ~HasRead' \/ job'.op = "save"
         \/ HasRead /\ UNCHANGED <<job.name, job.op, job.answers>>
  PROVE  JobGives'
  BY DEF JobGives, HasRead, Applies, GaveThese

LEMMA GaveNext ==
  ASSUME TInv, RecordGave, JobGives, BaseIsParents, Next
  PROVE  RecordGave' /\ JobGives' /\ BaseIsParents'
  <1>0. job.fw \in Fw /\ JobTyped /\ FilesTyped /\ job.answers \in SUBSET Answer
    BY TypeParts DEF JobTyped, TInv
  <1>1. ASSUME \/ Pull \/ Crash \/ Fails
               \/ \E f \in Fw : menuconfig_tty(f) \/ profile_forget(f)
        PROVE  RecordGave' /\ JobGives' /\ BaseIsParents'
    <2>1. UNCHANGED custom /\ \A f \in Fw : record'[f] \in {None, record[f]}
      BY <1>0, <1>1 DEF Pull, Crash, Fails, menuconfig_tty, profile_forget, files, FilesTyped
    <2>2. JobGives'
      <3>1. CASE Ends
        BY <3>1, JobGivesKept DEF Ends, Idle, HasRead
      <3>2. CASE ~Ends
        <4>1. /\ UNCHANGED <<job.pc, job.name, job.op, job.answers>>
          BY <1>0, <1>1, <3>2 DEF Pull, Crash, Fails, menuconfig_tty, profile_forget, JobTyped
        <4>2. QED
          BY <4>1, JobGivesKept DEF HasRead
      <3>3. QED
        BY <3>1, <3>2
    <2>3. QED
      BY <2>1, <2>2, GaveKept
  <1>2. ASSUME \/ \E f \in Fw : \/ reseed_if_moved(f)
                                \/ \E force \in BOOLEAN : kconfig_open(f, force)
               \/ \E f \in Fw, p \in Vendor \cup {Custom}, force, derive \in BOOLEAN :
                     profile_apply(f, p, force, derive)
               \/ \E i \in DOMAIN sessions :
                     kconfig_set(i) \/ kconfig_reset(i) \/ kconfig_close(i) \/ kconfig_save(i)
        PROVE  RecordGave' /\ JobGives' /\ BaseIsParents'
    <2>1. UNCHANGED custom /\ UNCHANGED record
      BY <1>2 DEF reseed_if_moved, kconfig_open, profile_apply, kconfig_set, kconfig_reset,
                  kconfig_close, kconfig_save, files
    <2>2. \/ UNCHANGED job
          \/ job'.pc = "refuse"
          \/ job'.op = "save"
      BY <1>2 DEF reseed_if_moved, kconfig_open, profile_apply, kconfig_set, kconfig_reset,
                  kconfig_close, kconfig_save, Begin, Idle
    <2>3. JobGives'
      BY <2>2, JobGivesKept DEF HasRead
    <2>4. QED
      BY <2>1, <2>3, GaveKept
  <1>3. CASE apply_seed \/ Note
    <2>1. UNCHANGED custom /\ UNCHANGED record
      BY <1>3 DEF apply_seed, Note, files
    <2>2. job'.pc \in {"idle", "keep", "parse"}
      BY <1>0, <1>3 DEF apply_seed, Note, Ends, Goes, Idle, JobTyped
    <2>3. QED
      BY <2>1, <2>2, GaveKept, JobGivesKept DEF HasRead
  <1>4. CASE _keep_current_answers
    <2>1. UNCHANGED record
      BY <1>4 DEF _keep_current_answers
    <2>2. job'.pc \in {"idle", "parse"}
      BY <1>0, <1>4 DEF _keep_current_answers, Ends, Goes, Idle, JobTyped
    <2>3. JobGives'
      BY <2>2, JobGivesKept DEF HasRead
    <2>4. RecordGave'
      BY <2>1 DEF RecordGave, GaveThese
    <2>5. BaseIsParents'
      <3>1. CASE UNCHANGED custom
        BY <3>1 DEF BaseIsParents
      <3>2. CASE ~UNCHANGED custom
        <4>1. /\ status(job.fw) = "customised" /\ config[job.fw] # None
              /\ capture_custom(job.fw, minimal_answers(config[job.fw]), record[job.fw].profile)
          BY <1>4, <3>2 DEF _keep_current_answers
        <4>2. record[job.fw] # None
          BY <4>1, StatusRecorded
        <4>3. minimal_answers(config[job.fw]) \in SUBSET (Answer \ Off)
          BY <1>0, <4>1, MinimalTyped DEF FilesTyped, Content
        <4>4. PICK parent : parent = record[job.fw].profile
          OBVIOUS
        <4>5. PICK a \in SUBSET (Answer \ Off) : a = minimal_answers(config[job.fw])
          BY <4>3
        <4>6. capture_custom(job.fw, a, parent)
          BY <4>1, <4>4, <4>5
        <4>7. parent = IF record[job.fw] = None THEN None ELSE record[job.fw].profile
          BY <4>2, <4>4
        <4>8. QED
          BY <1>0, <4>6, <4>7, CaptureBase
      <3>3. QED
        BY <3>1, <3>2
    <2>6. QED
      BY <2>3, <2>4, <2>5
  <1>5. CASE Parse \/ derive_bootloader
    <2>1. UNCHANGED custom /\ UNCHANGED record
      BY <1>5 DEF Parse, derive_bootloader, files
    <2>2. JobGives'
      <3>1. CASE Ends
        BY <3>1, JobGivesKept DEF Ends, Idle, HasRead
      <3>2. CASE ~Ends
        <4>1. PICK a : job' = [job EXCEPT !.pc = "aside", !.answers = a]
          BY <1>5, <3>2 DEF Parse, derive_bootloader
        <4>2. job'.name = job.name /\ job'.answers = a
          BY <1>0, <4>1 DEF JobTyped
        <4>3. CASE job.name \notin Vendor
          BY <4>2, <4>3 DEF JobGives
        <4>4. CASE job.name \in Vendor
          <5>1. job.name # Derived /\ job.name # Custom
            BY <4>4, ProfilesAssumption
          <5>2. Parse /\ job.name \in available(job.fw)
            BY <1>5, <3>2, <5>1 DEF Parse, derive_bootloader
          <5>3. job' = [job EXCEPT !.pc = "aside",
                          !.answers = _current_source_sha(job.fw, job.name).answers]
            BY <3>2, <5>2 DEF Parse
          <5>4. _current_source_sha(job.fw, job.name).answers = tree[job.name]
            BY <5>1, <5>2 DEF _current_source_sha
          <5>5. job'.answers = tree[job.name]
            BY <1>0, <5>3, <5>4 DEF JobTyped
          <5>6. tree[job.name] # None /\ tree \in Trees
            BY <5>1, <5>2 DEF available, TInv, TypeOK
          <5>7. QED
            BY <4>2, <5>5, <5>6 DEF JobGives, GaveThese
        <4>5. QED
          BY <4>3, <4>4
      <3>3. QED
        BY <3>1, <3>2
    <2>3. QED
      BY <2>1, <2>2, GaveKept
  <1>6. CASE Aside \/ Place
    <2>1. UNCHANGED custom /\ UNCHANGED record
      BY <1>6 DEF Aside, Place
    <2>2. HasRead /\ UNCHANGED <<job.name, job.op, job.answers>>
      BY <1>0, <1>6 DEF Aside, Place, HasRead, Goes, JobTyped
    <2>3. QED
      BY <2>1, <2>2, GaveKept, JobGivesKept
  <1>7. CASE Record
    <2>1. UNCHANGED custom
      BY <1>7 DEF Record
    <2>2. job'.pc \in {"idle", "refuse", "note"}
      <3>1. CASE Ends
        BY <3>1 DEF Ends, Idle
      <3>2. CASE Goes("note")
        BY <1>0, <3>2 DEF Goes, JobTyped
      <3>3. CASE ~Ends /\ ~Goes("note")
        <4>1. job' = [job EXCEPT !.pc = "refuse", !.fw = "boot", !.name = Derived,
                                 !.late = FALSE, !.moved = FALSE]
          BY <1>7, <3>3 DEF Record
        <4>2. QED
          BY <1>0, <4>1 DEF JobTyped
      <3>4. QED
        BY <3>1, <3>2, <3>3
    <2>3. JobGives' /\ BaseIsParents'
      BY <2>1, <2>2, JobGivesKept DEF HasRead, BaseIsParents
    <2>4. RecordGave'
      <3>1. CASE UNCHANGED record
        BY <3>1 DEF RecordGave, GaveThese
      <3>2. CASE ~UNCHANGED record
        <4>1. job.pc = "record" /\ write_record
          BY <1>7, <3>2 DEF Record
        <4>2. Applies /\ HasRead
          BY <4>1 DEF TInv, Ready, Applies, HasRead
        <4>3. /\ record'[job.fw].profile = job.name
              /\ record'[job.fw].answers = minimal_answers(job.answers)
              /\ \A g \in Fw \ {job.fw} : record'[g] = record[g]
          BY <1>0, <4>1 DEF write_record, FilesTyped
        <4>4. job.name \in Vendor => GaveThese(job.name, job.answers)
          BY <4>2 DEF JobGives
        <4>5. ASSUME NEW f \in Fw, record'[f] # None, record'[f].profile \in Vendor
              PROVE  \E a : GaveThese(record'[f].profile, a)
                            /\ record'[f].answers = minimal_answers(a)
          <5>1. CASE f = job.fw
            BY <4>3, <4>4, <4>5, <5>1
          <5>2. CASE f # job.fw
            BY <4>3, <4>5, <5>2 DEF RecordGave
          <5>3. QED
            BY <5>1, <5>2
        <4>6. QED
          BY <4>5 DEF RecordGave, GaveThese
      <3>3. QED
        BY <3>1, <3>2
    <2>5. QED
      BY <2>3, <2>4
  <1>8. CASE _capture_answers
    <2>1. UNCHANGED record
      BY <1>8 DEF _capture_answers
    <2>2. JobGives'
      BY <1>8, JobGivesKept DEF _capture_answers, Ends, Idle, HasRead
    <2>3. RecordGave'
      BY <2>1 DEF RecordGave, GaveThese
    <2>4. BaseIsParents'
      <3>1. CASE UNCHANGED custom
        BY <3>1 DEF BaseIsParents
      <3>2. CASE ~UNCHANGED custom
        <4>1. PICK parent :
                 /\ parent = IF record[job.fw] = None THEN None ELSE record[job.fw].profile
                 /\ capture_custom(job.fw, minimal_answers(job.answers), parent)
          BY <1>8, <3>2 DEF _capture_answers
        <4>2. PICK a \in SUBSET (Answer \ Off) : a = minimal_answers(job.answers)
          BY <1>0, MinimalTyped
        <4>3. capture_custom(job.fw, a, parent)
          BY <4>1, <4>2
        <4>4. QED
          BY <1>0, <4>1, <4>3, CaptureBase
      <3>3. QED
        BY <3>1, <3>2
    <2>5. QED
      BY <2>2, <2>3, <2>4
  <1>9. QED
    BY <1>1, <1>2, <1>3, <1>4, <1>5, <1>6, <1>7, <1>8 DEF Next

\* A type's own profile is never its own parent, and its base is what its parent
\* gave in some tree there was, through any captures, switches and pulls.
THEOREM ForksAreMeasured == Spec => []BaseIsParents
  <1> DEFINE GInv == TInv /\ RecordGave /\ JobGives /\ BaseIsParents
  <1>1. GInv /\ [Next]_vars => GInv'
    <2> SUFFICES ASSUME GInv, [Next]_vars PROVE GInv'
      OBVIOUS
    <2>1. TInv'
      BY NextTInv
    <2>2. CASE UNCHANGED vars
      BY <2>1, <2>2, GaveKept, JobGivesKept DEF vars, files, HasRead
    <2>3. CASE Next
      BY <2>1, <2>3, GaveNext
    <2>4. QED
      BY <2>2, <2>3
  <1>2. Init => GInv
    BY InitTInv, InitGave
  <1>3. QED
    BY <1>1, <1>2, PTL DEF Spec

-----------------------------------------------------------------------------
(* What a clean config holds *)

\* The source of a profile still says what a job read from it.
SourceStands(f, p, a) ==
    IF p = Derived
    THEN config["app"] # None /\ _check_addresses(config["app"], a)
    ELSE p \in available(f) /\ _current_source_sha(f, p).answers = a

\* Unless something moved under it, the job is about to record what is so.
JobTrue ==
    /\ HasRead /\ Applies /\ ~job.moved => SourceStands(job.fw, job.name, job.answers)
    /\ job.pc = "record" /\ ~job.late => config[job.fw] = job.answers

\* A record that is not known to be stale tells what the source gave.
RecordTrue ==
    \A f \in Fw : record[f] # None /\ ~stale[f] =>
        /\ record[f].source # None
        /\ IF record[f].profile = Derived
           THEN _check_addresses(record[f].source.answers, record[f].config)
           ELSE record[f].config = record[f].source.answers

LEMMA InitTrue == Init => JobTrue /\ RecordTrue
  <1> SUFFICES ASSUME Init PROVE JobTrue /\ RecordTrue
    OBVIOUS
  <1>0. /\ \A x, y : EachFw(x, y)["app"] = x /\ EachFw(x, y)["boot"] = y
        /\ \A f \in Fw : f = "app" \/ f = "boot"
        /\ \A p, x, a : /\ Seeded(p, x, a).profile = p /\ Seeded(p, x, a).config = a
                        /\ Seeded(p, x, a).source = [answers |-> x, at |-> 0]
    BY DEF EachFw, Fw, Seeded
  <1>c. Custom # Derived /\ Derived \notin Vendor
    BY ProfilesAssumption DEF Custom, Derived
  <1>n. \A x \in SUBSET Answer : [answers |-> x, at |-> 0] # None
    BY ProfilesAssumption DEF Source, Content
  <1>1. JobTrue
    BY DEF Init, Idle, JobTrue, HasRead
  <1>2. CASE record = EachFw(None, None) \/ (config = EachFw(None, None) /\ record = config)
    BY <1>0, <1>1, <1>2 DEF RecordTrue
  <1>3. ASSUME NEW v \in Vendor, tree[v] # None, NEW b,
               _check_addresses(tree[v], b),
               record = EachFw(Seeded(v, tree[v], tree[v]), Seeded(Derived, tree[v], b))
        PROVE  RecordTrue
    <2>1. tree[v] \in SUBSET Answer
      BY <1>3, ProfilesAssumption DEF Init, AnswersOf
    <2>2. /\ record["app"].profile = v /\ record["app"].config = tree[v]
          /\ record["app"].source = [answers |-> tree[v], at |-> 0]
      BY <1>0, <1>3
    <2>3. /\ record["boot"].profile = Derived /\ record["boot"].config = b
          /\ record["boot"].source = [answers |-> tree[v], at |-> 0]
      BY <1>0, <1>3
    <2>4. QED
      BY <1>0, <1>3, <1>c, <1>n, <2>1, <2>2, <2>3 DEF RecordTrue
  <1>4. ASSUME NEW v \in Vendor, tree[v] # None,
               NEW x \in AnswersOf("app") \ (Off \cup tree[v]),
               NEW a, a = minimal_answers(tree[v]) \cup {x},
               record = EachFw(Seeded(Custom, a, a), None)
        PROVE  RecordTrue
    <2>1. a \in SUBSET Answer
      BY <1>4, ProfilesAssumption DEF Init, AnswersOf, minimal_answers
    <2>2. /\ record["app"].profile = Custom /\ record["app"].config = a
          /\ record["app"].source = [answers |-> a, at |-> 0] /\ record["boot"] = None
      <3>1. record["app"] = Seeded(Custom, a, a) /\ record["boot"] = None
        BY <1>0, <1>4
      <3>2. QED
        BY ONLY <1>0, <3>1
    <2>3. QED
      BY <1>0, <1>c, <1>n, <2>1, <2>2 DEF RecordTrue
  <1>5. QED
    BY <1>1, <1>2, <1>3, <1>4 DEF Init

LEMMA StandsKept ==
  ASSUME NEW f, NEW p, NEW a, SourceStands(f, p, a), UNCHANGED custom,
         p = Derived => config'["app"] = config["app"],
         f = "app" => UNCHANGED tree
  PROVE  SourceStands(f, p, a)'
  <1>1. CASE p = Derived
    BY <1>1 DEF SourceStands, _check_addresses
  <1>2. CASE p # Derived
    <2>1. available(f)' = available(f)
      BY DEF available
    <2>2. p \in available(f) /\ _current_source_sha(f, p).answers = a
      BY <1>2 DEF SourceStands
    <2>3. p # Custom => f = "app"
      BY <2>2 DEF available
    <2>4. _current_source_sha(f, p)' = _current_source_sha(f, p)
      BY <1>2, <2>1, <2>2, <2>3 DEF _current_source_sha
    <2>5. QED
      BY <1>2, <2>1, <2>2, <2>4 DEF SourceStands
  <1>3. QED
    BY <1>1, <1>2

\* A job that goes on bearing what it read.
LEMMA JobTrueKept ==
  ASSUME JobTrue, HasRead, UNCHANGED custom,
         UNCHANGED <<job.fw, job.name, job.op, job.answers>>,
         job.moved => job'.moved,
         ~job'.moved /\ Applies /\ job.name = Derived => config'["app"] = config["app"],
         ~job'.moved /\ job.fw = "app" => UNCHANGED tree,
         job'.pc = "record" /\ ~job'.late => config'[job.fw] = job.answers
  PROVE  JobTrue'
  <1>1. ASSUME HasRead', Applies', ~job'.moved
        PROVE  SourceStands(job.fw, job.name, job.answers)'
    <2>1. PICK f, p, a : f = job.fw /\ p = job.name /\ a = job.answers
      OBVIOUS
    <2>2. Applies
      BY <1>1 DEF Applies, HasRead
    <2>3. SourceStands(f, p, a)
      BY <1>1, <2>1, <2>2 DEF JobTrue
    <2>4. SourceStands(f, p, a)'
      BY <1>1, <2>1, <2>2, <2>3, StandsKept
    <2>5. f = job'.fw /\ p = job'.name /\ a = job'.answers
      BY <2>1
    <2>6. QED
      BY <2>4, <2>5
  <1>2. QED
    BY <1>1 DEF JobTrue

\* A job that bears nothing, or saves.
LEMMA JobTrueIdle ==
  ASSUME ~HasRead' \/ (job'.op = "save" /\ job'.pc # "record")
  PROVE  JobTrue'
  BY DEF JobTrue, HasRead, Applies

LEMMA RecordTrueKept ==
  ASSUME RecordTrue,
         \A f \in Fw : record'[f] = None \/ (record'[f] = record[f] /\ (stale[f] => stale'[f]))
  PROVE  RecordTrue'
  BY DEF RecordTrue, _check_addresses

LEMMA TrueOutside ==
  ASSUME TInv, JobTrue, RecordTrue,
         \/ Pull \/ Crash \/ Fails
         \/ \E f \in Fw : menuconfig_tty(f) \/ profile_forget(f)
  PROVE  JobTrue' /\ RecordTrue'
  <1>0. job.fw \in Fw /\ JobTyped /\ FilesTyped
    BY TypeParts DEF JobTyped, TInv
  <1>1. RecordTrue'
    <2>1. UNCHANGED stale /\ \A f \in Fw : record'[f] \in {None, record[f]}
      BY <1>0 DEF Pull, Crash, Fails, menuconfig_tty, profile_forget, files, FilesTyped
    <2>2. QED
      BY <2>1, RecordTrueKept
  <1>2. CASE Ends
    BY <1>1, <1>2, JobTrueIdle DEF Ends, Idle, HasRead
  <1>3. CASE Pull
    <2>1. /\ UNCHANGED <<job.pc, job.fw, job.name, job.op, job.answers, job.late>>
          /\ job'.moved = (job.moved \/ (HasRead /\ job.fw = "app"))
      BY <1>0, <1>3 DEF Pull, JobTyped
    <2>2. UNCHANGED custom /\ UNCHANGED config
      BY <1>3 DEF Pull, files
    <2>3. CASE HasRead
      <3>1. job.pc = "record" /\ ~job.late => config[job.fw] = job.answers
        BY DEF JobTrue
      <3>2. QED
        BY <1>1, <2>1, <2>2, <2>3, <3>1, JobTrueKept
    <2>4. CASE ~HasRead
      BY <1>1, <2>1, <2>4, JobTrueIdle DEF HasRead
    <2>5. QED
      BY <2>3, <2>4
  <1>4. ASSUME NEW f \in Fw, menuconfig_tty(f) PROVE JobTrue'
    <2>1. /\ UNCHANGED <<job.pc, job.fw, job.name, job.op, job.answers>>
          /\ job'.late = (job.late \/ Decided(f))
          /\ job'.moved = (job.moved \/ (HasRead /\ f = "app" /\ job.fw = "boot"))
      BY <1>0, <1>4 DEF menuconfig_tty, JobTyped
    <2>2. UNCHANGED custom /\ UNCHANGED tree /\ \A g \in Fw \ {f} : config'[g] = config[g]
      BY <1>0, <1>4 DEF menuconfig_tty, FilesTyped
    <2>3. CASE HasRead
      <3>1. job'.pc = "record" /\ ~job'.late => config'[job.fw] = job.answers
        BY <1>0, <2>1, <2>2 DEF JobTrue, Decided
      <3>2. ~job'.moved /\ Applies /\ job.name = Derived => config'["app"] = config["app"]
        BY <2>1, <2>2, <2>3 DEF TInv, Ready, Fw
      <3>3. QED
        BY <2>1, <2>2, <2>3, <3>1, <3>2, JobTrueKept
    <2>4. CASE ~HasRead
      BY <2>1, <2>4, JobTrueIdle DEF HasRead
    <2>5. QED
      BY <2>3, <2>4
  <1>5. ASSUME NEW f \in Fw, profile_forget(f) PROVE JobTrue'
    <2>1. UNCHANGED <<tree, custom, config, job>>
      BY <1>5 DEF profile_forget
    <2>2. CASE HasRead
      <3>1. job.pc = "record" /\ ~job.late => config[job.fw] = job.answers
        BY DEF JobTrue
      <3>2. QED
        BY <2>1, <2>2, <3>1, JobTrueKept
    <2>3. CASE ~HasRead
      BY <2>1, <2>3, JobTrueIdle DEF HasRead
    <2>4. QED
      BY <2>2, <2>3
  <1>6. QED
    BY <1>1, <1>2, <1>3, <1>4, <1>5 DEF Crash, Fails

\* Sessions, and what begins a job.
LEMMA TrueBegins ==
  ASSUME TInv, JobTrue, RecordTrue,
         \/ \E f \in Fw : \/ reseed_if_moved(f)
                          \/ \E force \in BOOLEAN : kconfig_open(f, force)
         \/ \E f \in Fw, p \in Vendor \cup {Custom}, force, derive \in BOOLEAN :
               profile_apply(f, p, force, derive)
         \/ \E i \in DOMAIN sessions :
               kconfig_set(i) \/ kconfig_reset(i) \/ kconfig_close(i) \/ kconfig_save(i)
  PROVE  JobTrue' /\ RecordTrue'
  <1>1. UNCHANGED <<tree, config, custom, record, stale>>
    BY DEF reseed_if_moved, kconfig_open, profile_apply, kconfig_set, kconfig_reset,
           kconfig_close, kconfig_save, files
  <1>2. RecordTrue'
    BY <1>1, RecordTrueKept
  <1>3. \/ UNCHANGED job
        \/ job'.pc = "refuse"
        \/ job'.pc = "aside" /\ job'.op = "save"
    BY DEF reseed_if_moved, kconfig_open, profile_apply, kconfig_set, kconfig_reset,
           kconfig_close, kconfig_save, Begin, Idle
  <1>4. CASE UNCHANGED job
    <2>1. CASE HasRead
      <3>1. job.pc = "record" /\ ~job.late => config[job.fw] = job.answers
        BY DEF JobTrue
      <3>2. QED
        BY <1>1, <1>2, <1>4, <2>1, <3>1, JobTrueKept
    <2>2. CASE ~HasRead
      BY <1>2, <1>4, <2>2, JobTrueIdle DEF HasRead
    <2>3. QED
      BY <2>1, <2>2
  <1>5. QED
    BY <1>2, <1>3, <1>4, JobTrueIdle DEF HasRead

LEMMA TrueReads ==
  ASSUME TInv, JobTrue, RecordTrue,
         \/ apply_seed \/ _keep_current_answers \/ Parse \/ derive_bootloader
         \/ Note \/ _capture_answers
  PROVE  JobTrue' /\ RecordTrue'
  <1>0. job.fw \in Fw /\ JobTyped /\ FilesTyped
    BY TypeParts DEF JobTyped, TInv
  <1>1. UNCHANGED <<tree, config, record, stale>>
    BY DEF apply_seed, _keep_current_answers, Parse, derive_bootloader, Note,
           _capture_answers, files
  <1>2. RecordTrue'
    BY <1>1, RecordTrueKept
  <1>3. CASE apply_seed \/ _keep_current_answers \/ Note \/ _capture_answers
    <2>1. job'.pc \in {"idle", "keep", "parse"}
      BY <1>0, <1>3 DEF apply_seed, _keep_current_answers, Note, _capture_answers, Ends, Goes,
                        Idle, JobTyped
    <2>2. QED
      BY <1>2, <2>1, JobTrueIdle DEF HasRead
  <1>4. CASE Ends
    BY <1>2, <1>4, JobTrueIdle DEF Ends, Idle, HasRead
  <1>5. CASE Parse /\ ~Ends
    <2>1. UNCHANGED custom
      BY <1>5 DEF Parse, files
    <2>2. PICK f, p, a : f = job.fw /\ p = job.name /\ a = _current_source_sha(f, p).answers
      OBVIOUS
    <2>3. p # Derived /\ p \in available(f) /\ job' = [job EXCEPT !.pc = "aside", !.answers = a]
      BY <1>5, <2>2 DEF Parse
    <2>4. job'.pc = "aside" /\ job'.fw = f /\ job'.name = p /\ job'.answers = a
      BY <1>0, <2>2, <2>3 DEF JobTyped
    <2>5. SourceStands(f, p, a)
      BY <2>2, <2>3 DEF SourceStands
    <2>6. SourceStands(f, p, a)'
      BY <1>1, <2>1, <2>5, StandsKept
    <2>7. QED
      BY <1>2, <2>4, <2>6 DEF JobTrue
  <1>6. CASE derive_bootloader /\ ~Ends
    <2>1. PICK f, p, a : /\ f = job.fw /\ p = job.name
                         /\ a = minimal_answers(config["app"]) \cap BootAnswer
      OBVIOUS
    <2>2. /\ p = Derived /\ config["app"] # None /\ _check_addresses(config["app"], a)
          /\ job' = [job EXCEPT !.pc = "aside", !.answers = a]
      BY <1>6, <2>1 DEF derive_bootloader
    <2>3. job'.pc = "aside" /\ job'.fw = f /\ job'.name = p /\ job'.answers = a
      BY <1>0, <2>1, <2>2 DEF JobTyped
    <2>4. SourceStands(f, p, a)
      BY <2>2 DEF SourceStands
    <2>5. UNCHANGED custom
      BY <1>6 DEF derive_bootloader, files
    <2>6. SourceStands(f, p, a)'
      BY <1>1, <2>4, <2>5, StandsKept
    <2>7. QED
      BY <1>2, <2>3, <2>6 DEF JobTrue
  <1>7. QED
    BY <1>3, <1>4, <1>5, <1>6

LEMMA TrueWrites ==
  ASSUME TInv, JobTrue, RecordTrue, Aside \/ Place
  PROVE  JobTrue' /\ RecordTrue'
  <1>0. job.fw \in Fw /\ JobTyped /\ FilesTyped /\ stale \in [Fw -> BOOLEAN]
    BY TypeParts DEF JobTyped, TInv, RestTyped
  <1>1. UNCHANGED <<tree, custom, record>> /\ HasRead
    BY DEF Aside, Place, HasRead
  <1>2. UNCHANGED <<job.fw, job.name, job.op, job.answers, job.moved, job.late>>
    BY <1>0 DEF Aside, Place, Goes, JobTyped
  <1>3. \A g \in Fw \ {job.fw} : config'[g] = config[g]
    BY <1>0 DEF Aside, Place, FilesTyped
  <1>4. RecordTrue'
    <2>1. \A f \in Fw : stale[f] => stale'[f]
      BY <1>0 DEF Aside, Place
    <2>2. QED
      BY <1>1, <2>1, RecordTrueKept
  <1>5. Applies /\ job.name = Derived => config'["app"] = config["app"]
    BY <1>3 DEF TInv, Ready, Fw
  <1>6. job'.pc = "record" => config'[job.fw] = job.answers
    <2>1. CASE Aside
      BY <1>0, <2>1 DEF Aside, Goes, JobTyped
    <2>2. CASE Place
      BY <1>0, <2>2 DEF Place, FilesTyped
    <2>3. QED
      BY <2>1, <2>2
  <1>7. QED
    BY <1>1, <1>2, <1>4, <1>5, <1>6, JobTrueKept

LEMMA TrueRecords ==
  ASSUME TInv, JobTrue, RecordTrue, Record
  PROVE  JobTrue' /\ RecordTrue'
  <1>0. /\ job.fw \in Fw /\ JobTyped /\ FilesTyped /\ stale \in [Fw -> BOOLEAN]
        /\ job.name \in Profile /\ Applies /\ HasRead /\ TypeOK
    BY TypeParts DEF JobTyped, TInv, RestTyped, Ready, Record, Applies, HasRead
  <1>1. JobTrue'
    <2>1. job'.pc \in {"idle", "refuse", "note"}
      <3>1. CASE Ends
        BY <3>1 DEF Ends, Idle
      <3>2. CASE Goes("note")
        BY <1>0, <3>2 DEF Goes, JobTyped
      <3>3. CASE ~Ends /\ ~Goes("note")
        <4>1. job' = [job EXCEPT !.pc = "refuse", !.fw = "boot", !.name = Derived,
                                 !.late = FALSE, !.moved = FALSE]
          BY <3>3 DEF Record
        <4>2. QED
          BY <1>0, <4>1 DEF JobTyped
      <3>4. QED
        BY <3>1, <3>2, <3>3
    <2>2. QED
      BY <2>1, JobTrueIdle DEF HasRead
  <1>2. CASE UNCHANGED record /\ UNCHANGED stale
    BY <1>1, <1>2, RecordTrueKept
  <1>3. CASE /\ write_record
             /\ stale' = [stale EXCEPT ![job.fw] = job.late \/ job.moved]
    <2>1. PICK f \in Fw, p \in Profile, a \in SUBSET Answer :
             f = job.fw /\ p = job.name /\ a = job.answers
      BY <1>0 DEF JobTyped
    <2>2. /\ record'[f].profile = p /\ record'[f].config = config[f]
          /\ record'[f].source = _current_source_sha(f, p)
          /\ \A g \in Fw \ {f} : record'[g] = record[g]
      BY <1>0, <1>3, <2>1 DEF write_record, FilesTyped
    <2>3. /\ stale'[f] <=> (job.late \/ job.moved)
          /\ \A g \in Fw \ {f} : stale'[g] = stale[g]
      BY <1>0, <1>3, <2>1
    <2>4. ASSUME ~stale'[f]
          PROVE  /\ record'[f].source # None
                 /\ IF record'[f].profile = Derived
                    THEN _check_addresses(record'[f].source.answers, record'[f].config)
                    ELSE record'[f].config = record'[f].source.answers
      <3>1. SourceStands(f, p, a) /\ config[f] = a
        BY <1>0, <2>1, <2>3, <2>4 DEF JobTrue, Record
      <3>2. CASE p = Derived
        <4>1. /\ _current_source_sha(f, p) = [answers |-> config["app"], at |-> 0]
              /\ config["app"] \in Content
          BY <1>0, <3>1, <3>2 DEF _current_source_sha, SourceStands, FilesTyped, Fw
        <4>2. _current_source_sha(f, p) # None
          BY <4>1, ProfilesAssumption DEF Source
        <4>3. QED
          BY <2>2, <3>1, <3>2, <4>1, <4>2 DEF SourceStands
      <3>3. CASE p # Derived
        <4>1. p \in available(f) /\ _current_source_sha(f, p).answers = a
          BY <3>1, <3>3 DEF SourceStands
        <4>2. _current_source_sha(f, p) # None
          BY <1>0, <4>1, SourceTyped, ProfilesAssumption
        <4>3. QED
          BY <2>2, <3>1, <3>3, <4>1, <4>2
      <3>4. QED
        BY <3>2, <3>3
    <2>5. RecordTrue'
      BY <2>2, <2>3, <2>4 DEF RecordTrue, _check_addresses
    <2>6. QED
      BY <1>1, <2>5
  <1>4. QED
    BY <1>2, <1>3 DEF Record

CInv == TInv /\ JobTrue /\ RecordTrue

LEMMA InitCInv == Init => CInv
  BY InitTInv, InitTrue DEF CInv

LEMMA NextCInv == CInv /\ [Next]_vars => CInv'
  <1> SUFFICES ASSUME TInv, JobTrue, RecordTrue, [Next]_vars
               PROVE  TInv' /\ JobTrue' /\ RecordTrue'
    BY DEF CInv
  <1>1. TInv'
    BY NextTInv
  <1>2. CASE Next
    BY <1>1, <1>2, TrueOutside, TrueBegins, TrueReads, TrueWrites, TrueRecords DEF Next
  <1>3. CASE UNCHANGED vars
    <2>1. UNCHANGED <<tree, config, custom, record, stale, job>>
      BY <1>3 DEF vars, files
    <2>2. RecordTrue'
      BY <2>1, RecordTrueKept
    <2>3. CASE HasRead
      <3>1. job.pc = "record" /\ ~job.late => config[job.fw] = job.answers
        BY DEF JobTrue
      <3>2. QED
        BY <1>1, <2>1, <2>2, <2>3, <3>1, JobTrueKept
    <2>4. CASE ~HasRead
      BY <1>1, <2>1, <2>2, <2>4, JobTrueIdle DEF HasRead
    <2>5. QED
      BY <2>3, <2>4
  <1>4. QED
    BY <1>2, <1>3

\* A config that is reported clean, of a profile that is there, holds what the
\* profile gives now, unless files changed under the job that recorded it.
THEOREM CleanIsCurrent == Spec => []CleanMeansCurrent
  <1>1. CInv => CleanMeansCurrent
    <2> SUFFICES ASSUME CInv, NEW f \in Fw, NEW p,
                        p = IF record[f] = None THEN None ELSE record[f].profile,
                        Clean(f), p \in available(f)
                 PROVE  config[f] = _current_source_sha(f, p).answers
      BY DEF CleanMeansCurrent
    <2>1. /\ record[f] # None /\ p = record[f].profile /\ config[f] = record[f].config
          /\ record[f].source # None
          /\ _current_source_sha(f, p) \in {None, record[f].source}
      BY DEF Clean, status, SeedMoved, CInv, RecordTrue
    <2>2. p \in Profile /\ p # Derived
      BY AvailableTyped, ProfilesAssumption DEF Profile, Custom, Derived
    <2>3. _current_source_sha(f, p) # None
      BY <2>2, SourceTyped, ProfilesAssumption DEF CInv, TInv
    <2>4. QED
      BY <2>1, <2>2, <2>3 DEF CInv, RecordTrue, Clean
  <1>2. QED
    BY InitCInv, NextCInv, <1>1, PTL DEF Spec

\* A bootloader that is reported to be derived from the application as it is
\* jumps to where the application is linked to run, if the application's .config
\* is there and no file changed under the job that recorded it.
THEOREM CleanPairIsBootable == Spec => []CleanPairBoots
  <1>1. CInv => CleanPairBoots
    <2> SUFFICES ASSUME CInv, Clean("boot"), record["boot"].profile = Derived,
                        config["app"] # None
                 PROVE  _check_addresses(config["app"], config["boot"])
      BY DEF CleanPairBoots
    <2>1. /\ record["boot"] # None /\ config["boot"] = record["boot"].config
          /\ record["boot"].source # None
          /\ _current_source_sha("boot", Derived) \in {None, record["boot"].source}
      BY DEF Clean, status, SeedMoved, CInv, RecordTrue, Fw
    <2>2. /\ _current_source_sha("boot", Derived) = [answers |-> config["app"], at |-> 0]
          /\ config["app"] \in Content
      BY DEF CInv, TInv, TypeOK, _current_source_sha, Fw
    <2>3. _current_source_sha("boot", Derived) # None
      BY <2>2, ProfilesAssumption DEF Source
    <2>4. QED
      BY <2>1, <2>2, <2>3 DEF CInv, RecordTrue, Clean, Fw
  <1>2. QED
    BY InitCInv, NextCInv, <1>1, PTL DEF Spec

-----------------------------------------------------------------------------
(* Whose answers a type keeps *)

\* The user's answers are in the .config itself, or in the profile, or in the
\* .bak while the .config is replaced.  They are never those that are recorded as
\* a profile's, and where a .config is edited they are what it holds.
MineAt(f) ==
    mine[f] # None =>
        /\ \/ config[f] = mine[f] \/ Kept(f)
           \/ config[f] = None /\ bak[f] = mine[f]
        /\ record[f] # None => mine[f] # record[f].config
        /\ /\ record[f] # None /\ ~stale[f]
           /\ config[f] # None /\ config[f] # record[f].config
           => config[f] = mine[f]

\* A job that is to replace a .config has kept the answers, unless they came
\* after it looked; a session that is to capture has just written them.
JobKeeps ==
    /\ /\ \/ job.pc \in {"parse", "aside"} /\ job.name \in Vendor /\ record[job.fw] # None
          \/ /\ job.pc \in {"parse", "aside"} /\ job.name \notin Vendor
             /\ ~job.force /\ config[job.fw] # None
          \/ job.pc = "place"
       /\ job.op # "save" /\ ~job.late
       => mine[job.fw] = None \/ Kept(job.fw)
    /\ job.pc = "capture" =>
          config[job.fw] # None /\ mine[job.fw] \in {None, config[job.fw]}

KInv == TInv /\ JobKeeps /\ \A f \in Fw : MineAt(f)

LEMMA InitKInv == Init => KInv
  <1> SUFFICES ASSUME Init PROVE JobKeeps /\ \A f \in Fw : MineAt(f)
    BY InitTInv DEF KInv
  <1>1. JobKeeps
    BY DEF Init, Idle, JobKeeps
  <1>2. \A f \in Fw : MineAt(f)
    BY DEF Init, MineAt
  <1>3. QED
    BY <1>1, <1>2

\* The files of a type that nothing touches.
LEMMA MineAtKept ==
  ASSUME NEW f, MineAt(f),
         config'[f] = config[f], bak'[f] = bak[f], custom'[f] = custom[f],
         mine'[f] \in {None, mine[f]}, stale'[f] = stale[f],
         record'[f] \in {None, record[f]}
  PROVE  MineAt(f)'
  BY DEF MineAt, Kept

LEMMA JobKeepsIdle ==
  ASSUME \/ job'.pc \in {"idle", "refuse", "keep", "record", "note"}
         \/ job'.pc = "aside" /\ job'.op = "save"
  PROVE  JobKeeps'
  BY DEF JobKeeps

LEMMA JobKeepsKept ==
  ASSUME JobKeeps, UNCHANGED <<job.pc, job.fw, job.op, job.name, job.late, job.force>>,
         job.fw \in Fw,
         \A f \in Fw : /\ config'[f] = config[f] /\ custom'[f] = custom[f]
                       /\ mine'[f] = mine[f] /\ record'[f] \in {None, record[f]}
  PROVE  JobKeeps'
  <1>1. PICK g \in Fw : g = job.fw
    OBVIOUS
  <1>2. Kept(g) = Kept(g)'
    BY DEF Kept
  <1>3. QED
    BY <1>1, <1>2 DEF JobKeeps

\* Everything but the files is written.
LEMMA MineOther ==
  ASSUME KInv, TInv',
         \/ Pull \/ Crash \/ Fails
         \/ \E f \in Fw : \/ profile_forget(f) \/ reseed_if_moved(f)
                          \/ \E force \in BOOLEAN : kconfig_open(f, force)
         \/ \E f \in Fw, p \in Vendor \cup {Custom}, force, derive \in BOOLEAN :
               profile_apply(f, p, force, derive)
         \/ \E i \in DOMAIN sessions :
               kconfig_set(i) \/ kconfig_reset(i) \/ kconfig_close(i) \/ kconfig_save(i)
         \/ apply_seed \/ Parse \/ derive_bootloader \/ Note
  PROVE  KInv'
  <1>0. job.fw \in Fw /\ JobTyped /\ FilesTyped /\ JobKeeps
    BY TypeParts DEF JobTyped, TInv, KInv
  <1>1. /\ UNCHANGED <<config, bak, custom, mine, stale>>
        /\ \A f \in Fw : record'[f] \in {None, record[f]}
    BY <1>0 DEF Pull, Crash, Fails, profile_forget, reseed_if_moved, kconfig_open, profile_apply,
           kconfig_set, kconfig_reset, kconfig_close, kconfig_save, apply_seed, Parse,
           derive_bootloader, Note, files, FilesTyped
  <1>2. \A f \in Fw : MineAt(f)'
    BY <1>1, MineAtKept DEF KInv
  <1>3. CASE UNCHANGED <<job.pc, job.fw, job.op, job.name, job.late, job.force>>
    BY <1>0, <1>1, <1>2, <1>3, JobKeepsKept DEF KInv
  <1>4. CASE \/ job'.pc \in {"idle", "refuse", "keep", "record", "note"}
             \/ job'.pc = "aside" /\ job'.op = "save"
    BY <1>2, <1>4, JobKeepsIdle DEF KInv
  <1>5. CASE Pull
    BY <1>0, <1>3, <1>5 DEF Pull, JobTyped
  <1>6. CASE \/ \E f \in Fw : \/ profile_forget(f)
                              \/ \E force \in BOOLEAN : kconfig_open(f, force)
             \/ \E i \in DOMAIN sessions : kconfig_set(i) \/ kconfig_reset(i) \/ kconfig_close(i)
    BY <1>3, <1>6 DEF profile_forget, kconfig_open, kconfig_set, kconfig_reset, kconfig_close
  <1>7. CASE \/ \E f \in Fw : reseed_if_moved(f)
             \/ \E f \in Fw, p \in Vendor \cup {Custom}, force, derive \in BOOLEAN :
                   profile_apply(f, p, force, derive)
             \/ \E i \in DOMAIN sessions : kconfig_save(i)
    BY <1>4, <1>7 DEF reseed_if_moved, profile_apply, kconfig_save, Begin, Idle
  <1>8. CASE Crash \/ Fails \/ Note \/ Ends
    BY <1>4, <1>8 DEF Crash, Fails, Note, Ends, Idle
  <1>9. CASE apply_seed
    <2>1. \/ Ends
          \/ Goes("keep")
          \/ /\ Goes("parse") /\ job.name \notin Vendor
             /\ ~refuse_if_customised(job.fw, job.force)
      BY <1>9 DEF apply_seed
    <2>2. CASE /\ Goes("parse") /\ job.name \notin Vendor
               /\ ~refuse_if_customised(job.fw, job.force)
      <3>1. PICK f \in Fw : f = job.fw
        BY <1>0
      <3>2. /\ job'.pc = "parse"
            /\ UNCHANGED <<job.fw, job.op, job.name, job.late, job.force, record>>
        BY <1>0, <1>9, <2>2 DEF Goes, JobTyped, apply_seed, files
      <3>3. ~job.force /\ config[f] # None => mine[f] = None \/ Kept(f)
        <4> SUFFICES ASSUME ~job.force, config[f] # None PROVE mine[f] = None \/ Kept(f)
          OBVIOUS
        <4>1. record[f] # None /\ config[f] = record[f].config
          BY <2>2, <3>1 DEF refuse_if_customised, status
        <4>2. MineAt(f)
          BY DEF KInv
        <4>3. QED
          BY <4>1, <4>2 DEF MineAt
      <3>4. Kept(f) = Kept(f)'
        BY <1>1 DEF Kept
      <3>5. JobKeeps'
        BY <1>0, <1>1, <2>2, <3>1, <3>2, <3>3, <3>4 DEF JobKeeps
      <3>6. QED
        BY <1>2, <3>5 DEF KInv
    <2>3. QED
      BY <1>0, <1>4, <1>8, <2>1, <2>2 DEF Goes, JobTyped
  <1>10. CASE (Parse \/ derive_bootloader) /\ ~Ends
    <2>1. PICK a : job' = [job EXCEPT !.pc = "aside", !.answers = a]
      BY <1>10 DEF Parse, derive_bootloader
    <2>2. /\ job'.pc = "aside" /\ job.pc = "parse"
          /\ UNCHANGED <<job.fw, job.op, job.name, job.late, job.force, record>>
      BY <1>0, <1>10, <2>1 DEF JobTyped, Parse, derive_bootloader, files
    <2>3. PICK g \in Fw : g = job.fw
      BY <1>0
    <2>4. Kept(g) = Kept(g)'
      BY <1>1 DEF Kept
    <2>5. JobKeeps'
      BY <1>0, <1>1, <2>2, <2>3, <2>4 DEF JobKeeps
    <2>6. QED
      BY <1>2, <2>5 DEF KInv
  <1>11. QED
    BY <1>5, <1>6, <1>7, <1>8, <1>9, <1>10

\* An editor.
LEMMA MineEdited ==
  ASSUME KInv, TInv', NEW f \in Fw, menuconfig_tty(f)
  PROVE  KInv'
  <1>0. job.fw \in Fw /\ JobTyped /\ FilesTyped /\ JobKeeps /\ mine \in [Fw -> Content]
    BY TypeParts DEF JobTyped, TInv, KInv, RestTyped
  <1>1. PICK now \in SUBSET Answer : /\ config' = [config EXCEPT ![f] = now]
                                     /\ mine' = [mine EXCEPT ![f] = Given(f, now)]
    <2>1. PICK x \in AnswersOf(f) :
             LET was == IF config[f] = None THEN {} ELSE config[f]
                 now == (was \cup {x}) \ (was \cap {x})
             IN  /\ config' = [config EXCEPT ![f] = now]
                 /\ mine' = [mine EXCEPT ![f] = Given(f, now)]
      BY DEF menuconfig_tty
    <2>2. QED
      BY <1>0, <2>1, AnswersTyped DEF FilesTyped, Content
  <1>2. /\ config'[f] = now /\ mine'[f] = Given(f, now) /\ now # None
        /\ \A g \in Fw \ {f} : config'[g] = config[g] /\ mine'[g] = mine[g]
    BY <1>0, <1>1, ProfilesAssumption DEF FilesTyped
  <1>3. UNCHANGED <<bak, custom, record, stale>>
    BY DEF menuconfig_tty
  <1>4. MineAt(f)'
    BY <1>2, <1>3 DEF MineAt, Given
  <1>5. \A g \in Fw \ {f} : MineAt(g)'
    BY <1>2, <1>3, MineAtKept DEF KInv
  <1>6. /\ UNCHANGED <<job.pc, job.fw, job.name, job.op, job.force>>
        /\ job'.late = (job.late \/ Decided(f))
    BY <1>0 DEF menuconfig_tty, JobTyped
  <1>7. JobKeeps'
    <2>1. CASE job.fw = f
      BY <1>2, <1>6, <2>1 DEF JobKeeps, Decided, Given
    <2>2. CASE job.fw # f
      <3>1. PICK g \in Fw \ {f} : g = job.fw
        BY <1>0, <2>2
      <3>2. Kept(g) = Kept(g)'
        BY <1>2, <1>3 DEF Kept
      <3>3. QED
        BY <1>0, <1>2, <1>3, <1>6, <3>1, <3>2 DEF JobKeeps
    <2>3. QED
      BY <2>1, <2>2
  <1>8. QED
    BY <1>4, <1>5, <1>7 DEF KInv

\* What is replaced is captured first.
LEMMA MineCaptured ==
  ASSUME KInv, TInv', _keep_current_answers
  PROVE  KInv'
  <1>0. /\ job.fw \in Fw /\ JobTyped /\ FilesTyped /\ JobKeeps /\ mine \in [Fw -> Content]
        /\ job.name \in Vendor /\ TypeOK /\ job.pc = "keep"
    BY TypeParts DEF JobTyped, TInv, KInv, RestTyped, Ready, _keep_current_answers
  <1>1. UNCHANGED <<config, bak, record, stale>>
    BY DEF _keep_current_answers
  <1>2. PICK f \in Fw : f = job.fw
    BY <1>0
  <1>3. Goes("parse") => job'.pc = "parse" /\ UNCHANGED <<job.fw, job.name, job.op, job.late>>
    BY <1>0 DEF Goes, JobTyped
  <1>4. CASE Ends
    <2>1. UNCHANGED <<custom, mine>>
      <3>1. ~Goes("parse")
        BY <1>3, <1>4 DEF Ends, Idle
      <3>2. QED
        BY <3>1 DEF _keep_current_answers
    <2>2. \A g \in Fw : MineAt(g)'
      BY <1>1, <2>1, MineAtKept DEF KInv
    <2>3. QED
      BY <1>4, <2>2, JobKeepsIdle DEF Ends, Idle, KInv
  <1>5. CASE status(f) # "customised" /\ ~Ends
    <2>1. UNCHANGED <<custom, mine>> /\ Goes("parse")
      BY <1>2, <1>5 DEF _keep_current_answers
    <2>2. \A g \in Fw : MineAt(g)'
      BY <1>1, <2>1, MineAtKept DEF KInv
    <2>3. ASSUME record[f] # None PROVE mine[f] = None \/ Kept(f)
      <3>1. config[f] = record[f].config
        BY <1>5, <2>3 DEF status
      <3>2. record[f].config # None
        BY <1>0, <2>3, ProfilesAssumption DEF FilesTyped, Provenance
      <3>3. MineAt(f)
        BY DEF KInv
      <3>4. QED
        BY <2>3, <3>1, <3>2, <3>3 DEF MineAt
    <2>4. Kept(f) = Kept(f)'
      BY <2>1 DEF Kept
    <2>5. JobKeeps'
      BY <1>0, <1>1, <1>2, <1>3, <2>1, <2>3, <2>4 DEF JobKeeps
    <2>6. QED
      BY <2>2, <2>5 DEF KInv
  <1>6. CASE status(f) = "customised" /\ ~Ends
    <2>1. /\ config[f] # None /\ Goes("parse")
          /\ capture_custom(f, minimal_answers(config[f]), record[f].profile)
          /\ mine' = IF stale[f] /\ config[f] # mine[f]
                     THEN [mine EXCEPT ![f] = None] ELSE mine
      BY <1>2, <1>6 DEF _keep_current_answers
    <2>2. record[f] # None /\ config[f] # record[f].config
      BY <1>6 DEF status
    <2>3. record[f].profile \in Profile \cup {None} /\ config[f] \in SUBSET Answer
      BY <1>0, <2>1, <2>2 DEF FilesTyped, Provenance, Content
    <2>4. minimal_answers(config[f]) \in SUBSET (Answer \ Off)
      BY <2>3, MinimalTyped
    <2>5. /\ custom'[f] # None
          /\ custom'[f] = Captured(f, minimal_answers(config[f]), record[f].profile)
          /\ \A g \in Fw \ {f} : custom'[g] = custom[g]
      BY <1>0, <2>1, <2>2, <2>3, <2>4, CaptureTyped
    <2>6. custom'[f].answers = minimal_answers(config[f])
      BY <2>5 DEF Captured
    <2>7. /\ mine'[f] \in {None, mine[f]} /\ (mine'[f] # None => config[f] = mine'[f])
          /\ \A g \in Fw \ {f} : mine'[g] = mine[g]
      <3>1. MineAt(f)
        BY DEF KInv
      <3>2. QED
        BY <1>0, <2>1, <2>2, <3>1 DEF MineAt
    <2>8. MineAt(f)'
      <3>1. MineAt(f)
        BY DEF KInv
      <3>2. QED
        BY <1>1, <2>7, <3>1 DEF MineAt
    <2>9. \A g \in Fw \ {f} : MineAt(g)'
      BY <1>1, <2>5, <2>7, MineAtKept DEF KInv
    <2>10. mine'[f] = None \/ Kept(f)'
      BY <2>5, <2>6, <2>7 DEF Kept, minimal_answers
    <2>11. JobKeeps'
      BY <1>0, <1>2, <1>3, <2>1, <2>10 DEF JobKeeps
    <2>12. QED
      BY <2>8, <2>9, <2>11 DEF KInv
  <1>7. QED
    BY <1>4, <1>5, <1>6

\* A .config goes aside, and its replacement is put in its place.
LEMMA MineAside ==
  ASSUME KInv, TInv', Aside
  PROVE  KInv'
  <1>0. /\ job.fw \in Fw /\ JobTyped /\ FilesTyped /\ JobKeeps /\ mine \in [Fw -> Content]
        /\ bak \in [Fw -> Content] /\ job.pc = "aside"
        /\ job.op # "save" => job.name \in Profile
    BY TypeParts DEF JobTyped, TInv, KInv, RestTyped, Ready, Applies, Aside
  <1>1. UNCHANGED <<custom, record, stale>>
    BY DEF Aside
  <1>2. PICK f \in Fw : f = job.fw
    BY <1>0
  <1>3. /\ config'[f] = None
        /\ bak'[f] = IF config[f] = None THEN bak[f] ELSE config[f]
        /\ mine'[f] = IF job.op # "save" /\ GivesUp(f) THEN None ELSE mine[f]
        /\ \A g \in Fw \ {f} :
              config'[g] = config[g] /\ bak'[g] = bak[g] /\ mine'[g] = mine[g]
    BY <1>0, <1>2 DEF Aside, FilesTyped
  <1>4. job'.pc = "place" /\ UNCHANGED <<job.fw, job.name, job.op, job.late>>
    BY <1>0 DEF Aside, Goes, JobTyped
  <1>5. MineAt(f)'
    <2>1. MineAt(f)
      BY DEF KInv
    <2>2. custom'[f] = custom[f]
      BY <1>1
    <2>3. QED
      BY <1>1, <1>3, <2>1, <2>2 DEF MineAt, Kept
  <1>6. \A g \in Fw \ {f} : MineAt(g)'
    BY <1>1, <1>3, MineAtKept DEF KInv
  <1>7. JobKeeps'
    <2>1. ASSUME job.op # "save", ~job.late, mine'[f] # None PROVE Kept(f)'
      <3>1. mine'[f] = mine[f] /\ mine[f] # None /\ ~GivesUp(f) /\ job.name \in Profile
        BY <1>0, <1>3, <2>1
      <3>2. Kept(f)
        <4>1. CASE job.name \in Vendor
          BY <1>0, <1>2, <2>1, <3>1, <4>1 DEF JobKeeps, GivesUp
        <4>2. CASE job.name \in {Custom, Derived} /\ job.name \notin Vendor
          BY <1>0, <1>2, <2>1, <3>1, <4>2 DEF JobKeeps, GivesUp
        <4>3. QED
          BY <3>1, <4>1, <4>2 DEF Profile
      <3>3. QED
        BY <1>1, <3>1, <3>2 DEF Kept
    <2>2. QED
      BY <1>2, <1>4, <2>1 DEF JobKeeps
  <1>8. QED
    BY <1>5, <1>6, <1>7 DEF KInv

LEMMA MinePlaced ==
  ASSUME KInv, TInv', Place
  PROVE  KInv'
  <1>0. /\ job.fw \in Fw /\ JobTyped /\ FilesTyped /\ JobKeeps /\ mine \in [Fw -> Content]
        /\ stale \in [Fw -> BOOLEAN] /\ job.pc = "place" /\ job.answers \in SUBSET Answer
    BY TypeParts DEF JobTyped, TInv, KInv, RestTyped, Place
  <1>1. UNCHANGED <<bak, custom, record>>
    BY DEF Place
  <1>2. PICK f \in Fw : f = job.fw
    BY <1>0
  <1>3. /\ config'[f] = job.answers /\ config'[f] # None
        /\ \A g \in Fw \ {f} : config'[g] = config[g]
    BY <1>0, <1>2, ProfilesAssumption DEF Place, FilesTyped
  <1>4. \A g \in Fw \ {f} : mine'[g] = mine[g] /\ stale'[g] = stale[g]
    BY <1>0, <1>2 DEF Place
  <1>5. \A g \in Fw \ {f} : MineAt(g)'
    BY <1>1, <1>3, <1>4, MineAtKept DEF KInv
  <1>6. CASE job.op = "save"
    <2>1. mine'[f] = Given(f, job.answers)
      BY <1>0, <1>2, <1>6 DEF Place
    <2>2. MineAt(f)'
      BY <1>1, <1>3, <2>1 DEF MineAt, Given
    <2>3. job'.pc = "capture" /\ job'.fw = f
      BY <1>0, <1>2, <1>6 DEF Place, Goes, JobTyped
    <2>4. JobKeeps'
      BY <1>3, <2>1, <2>3 DEF JobKeeps, Given
    <2>5. QED
      BY <1>5, <2>2, <2>4 DEF KInv
  <1>7. CASE job.op # "save"
    <2>1. job'.pc = "record"
      BY <1>0, <1>7 DEF Place, Goes, JobTyped
    <2>2. mine'[f] = None \/ (mine'[f] = mine[f] /\ (~job.late \/ Kept(f)))
      BY <1>0, <1>2, <1>7 DEF Place
    <2>3. stale'[f]
      BY <1>0, <1>2, <1>7 DEF Place
    <2>4. mine'[f] # None => Kept(f)'
      BY <1>0, <1>1, <1>2, <1>7, <2>2 DEF JobKeeps, Kept
    <2>5. MineAt(f)'
      <3>1. MineAt(f)
        BY DEF KInv
      <3>2. QED
        BY <1>1, <2>2, <2>3, <2>4, <3>1 DEF MineAt
    <2>6. QED
      BY <1>5, <2>1, <2>5, JobKeepsIdle DEF KInv
  <1>8. QED
    BY <1>6, <1>7

\* What is recorded is a profile's, and no longer the user's.
LEMMA MineRecorded ==
  ASSUME KInv, TInv', Record
  PROVE  KInv'
  <1>0. /\ job.fw \in Fw /\ JobTyped /\ FilesTyped /\ mine \in [Fw -> Content]
        /\ stale \in [Fw -> BOOLEAN]
    BY TypeParts DEF JobTyped, TInv, KInv, RestTyped
  <1>1. UNCHANGED <<config, bak, custom>>
    BY DEF Record
  <1>2. JobKeeps'
    <2>1. job'.pc \in {"idle", "refuse", "note"}
      <3>1. CASE Ends
        BY <3>1 DEF Ends, Idle
      <3>2. CASE Goes("note")
        BY <1>0, <3>2 DEF Goes, JobTyped
      <3>3. CASE ~Ends /\ ~Goes("note")
        <4>1. job' = [job EXCEPT !.pc = "refuse", !.fw = "boot", !.name = Derived,
                                 !.late = FALSE, !.moved = FALSE]
          BY <3>3 DEF Record
        <4>2. QED
          BY <1>0, <4>1 DEF JobTyped
      <3>4. QED
        BY <3>1, <3>2, <3>3
    <2>2. QED
      BY <2>1, JobKeepsIdle
  <1>3. CASE UNCHANGED <<record, stale, mine>>
    BY <1>1, <1>2, <1>3, MineAtKept DEF KInv
  <1>4. CASE /\ write_record
             /\ stale' = [stale EXCEPT ![job.fw] = job.late \/ job.moved]
             /\ mine' = [mine EXCEPT ![job.fw] = IF @ = config[job.fw] THEN None ELSE @]
    <2>1. PICK f \in Fw : f = job.fw
      BY <1>0
    <2>2. /\ record'[f].config = config[f]
          /\ mine'[f] = IF mine[f] = config[f] THEN None ELSE mine[f]
          /\ \A g \in Fw \ {f} : /\ record'[g] = record[g] /\ stale'[g] = stale[g]
                                 /\ mine'[g] = mine[g]
      BY <1>0, <1>4, <2>1 DEF write_record, FilesTyped
    <2>3. MineAt(f)'
      <3>1. MineAt(f)
        BY DEF KInv
      <3>2. Kept(f) /\ mine'[f] # None => Kept(f)'
        BY <1>1, <2>2 DEF Kept
      <3>3. QED
        BY <1>1, <2>2, <3>1, <3>2 DEF MineAt
    <2>4. \A g \in Fw \ {f} : MineAt(g)'
      BY <1>1, <2>2, MineAtKept DEF KInv
    <2>5. QED
      BY <1>2, <2>3, <2>4 DEF KInv
  <1>5. QED
    BY <1>3, <1>4 DEF Record

\* The answers of a session.
LEMMA MineSaved ==
  ASSUME KInv, TInv', _capture_answers
  PROVE  KInv'
  <1>0. /\ job.fw \in Fw /\ JobTyped /\ FilesTyped /\ JobKeeps /\ TypeOK
        /\ job.pc = "capture" /\ job.answers \in SUBSET Answer
    BY TypeParts DEF JobTyped, TInv, KInv, _capture_answers
  <1>1. UNCHANGED <<config, bak, record, mine, stale>> /\ Ends
    BY DEF _capture_answers
  <1>2. PICK f \in Fw : f = job.fw
    BY <1>0
  <1>3. \A g \in Fw \ {f} : custom'[g] = custom[g]
    <2>1. CASE ~UNCHANGED custom
      <3>1. PICK parent :
               /\ parent = IF record[f] = None THEN None ELSE record[f].profile
               /\ capture_custom(f, minimal_answers(job.answers), parent)
        BY <1>2, <2>1 DEF _capture_answers
      <3>2. parent \in Profile \cup {None}
        BY <1>0, <3>1 DEF FilesTyped, Provenance
      <3>3. minimal_answers(job.answers) \in SUBSET (Answer \ Off)
        BY <1>0, MinimalTyped
      <3>4. QED
        BY <1>0, <3>1, <3>2, <3>3, CaptureTyped
    <2>2. QED
      BY <2>1
  <1>4. MineAt(f)'
    <2>1. MineAt(f)
      BY DEF KInv
    <2>2. mine[f] = None \/ config[f] = mine[f]
      BY <1>0, <1>2 DEF JobKeeps
    <2>3. QED
      BY <1>1, <2>1, <2>2 DEF MineAt
  <1>5. \A g \in Fw \ {f} : MineAt(g)'
    BY <1>1, <1>3, MineAtKept DEF KInv
  <1>6. JobKeeps'
    BY <1>1, JobKeepsIdle DEF Ends, Idle
  <1>7. QED
    BY <1>4, <1>5, <1>6 DEF KInv

\* The answers a user gave stay in the .config, in the type's own profile, or in
\* the .bak while a .config is replaced, except where the code gives them up
\* (GivesUp, a late edit, and the stale keep of _keep_current_answers).
THEOREM AnswersAreKept == Spec => []KeepsMine
  <1>1. KInv => KeepsMine
    <2> SUFFICES ASSUME KInv, NEW f \in Fw, mine[f] # None
                 PROVE  \/ config[f] # None /\ minimal_answers(config[f]) = minimal_answers(mine[f])
                        \/ custom[f] # None /\ custom[f].answers = minimal_answers(mine[f])
                        \/ config[f] = None /\ bak[f] = mine[f]
      BY DEF KeepsMine
    <2>1. MineAt(f)
      BY DEF KInv
    <2>2. QED
      BY <2>1 DEF MineAt, Kept
  <1>2. KInv /\ [Next]_vars => KInv'
    <2> SUFFICES ASSUME KInv, [Next]_vars PROVE KInv'
      OBVIOUS
    <2>1. TInv'
      BY NextTInv DEF KInv
    <2>2. CASE Next
      BY <2>1, <2>2, MineOther, MineEdited, MineCaptured, MineAside, MinePlaced,
         MineRecorded, MineSaved DEF Next
    <2>3. CASE UNCHANGED vars
      <3>1. UNCHANGED <<config, bak, custom, record, mine, stale, job>>
        BY <2>3 DEF vars, files
      <3>2. job.fw \in Fw
        BY TypeParts DEF KInv, TInv, JobTyped
      <3>3. \A f \in Fw : MineAt(f)'
        BY <3>1, MineAtKept DEF KInv
      <3>4. JobKeeps'
        BY <3>1, <3>2, JobKeepsKept DEF KInv
      <3>5. QED
        BY <2>1, <3>3, <3>4 DEF KInv
    <2>4. QED
      BY <2>2, <2>3
  <1>3. QED
    BY InitKInv, <1>1, <1>2, PTL DEF Spec

-----------------------------------------------------------------------------
(* The configuration file beside them.  The cached parse is the file's      *)
(* whenever its key is, and a parse a reader is given is one its handle     *)
(* had, for any readers, writers, texts and hand edits; and saves under the *)
(* registry lock keep each other's entries.                                 *)

\* No file has been changed after now.
Stamps == \A i \in Inode : node[i].ctime <= stamp

\* Parse d is the text of whatever still has key k, and no rewrite to come can
\* give its file that key again.
Vouched(k, d) ==
    /\ k.mtime + Window < clock
    /\ k.ctime <= node[k.ino].ctime
    /\ _stat_key(k.ino) = k => node[k.ino].text = d

\* The same of the next state, for a key and a parse of this one.
StillVouched(k, d) ==
    /\ k.mtime + Window < clock'
    /\ k.ctime <= node'[k.ino].ctime
    /\ _stat_key(k.ino)' = k => node'[k.ino].text = d

\* A reader past the first fstat knows its handle's key; after the read, if it
\* may keep it, the parse is vouched for.
Handles ==
    \A r \in Reader :
        /\ rd[r].pc \in {"opened", "lookup", "read", "stat"} => rd[r].ino \in Inode
        /\ rd[r].pc \in {"lookup", "read", "stat"} =>
             /\ rd[r].before \in Key /\ rd[r].before.ino = rd[r].ino
             /\ rd[r].before.ctime <= node[rd[r].ino].ctime
        /\ rd[r].started <= clock
        /\ (rd[r].pc = "stat" /\ rd[r].started - rd[r].before.mtime > Window)
             => Vouched(rd[r].before, rd[r].doc)

Stored ==
    /\ cache # Nothing => Vouched(cache.key, cache.doc)
    /\ \A r \in Reader :
         rd[r].entry # Nothing => Vouched(rd[r].entry.key, rd[r].entry.doc)

\* The lock has one holder, and what it holds is the file with its own entry
\* changed, unless a hand crossed it.
Held ==
    /\ \A w \in Writer : wr[w].pc # "idle" <=> lock = w
    /\ tmp # Nothing => tmp # path
    /\ \A w \in Writer : wr[w].pc = "replace" => tmp # Nothing
    /\ \A w \in Writer : ~wr[w].crossed =>
         /\ wr[w].pc = "change" => wr[w].doc = read_fresh
         /\ wr[w].pc = "write" => wr[w].doc \ {w} = read_fresh \ {w}
         /\ wr[w].pc = "replace" => node[tmp].text \ {w} = read_fresh \ {w}

IInv == StoreTypeOK /\ Stamps /\ Handles /\ Stored /\ Held

\* What a step may do to a file: nothing, move its ctime, write it now, or
\* rewrite it under any mtime with a ctime it has not had.
Moved(i) ==
    \/ node'[i] = node[i]
    \/ /\ node'[i].text = node[i].text /\ node'[i].mtime = node[i].mtime
       /\ node'[i].ctime = stamp
    \/ node'[i].mtime = stamp /\ node'[i].ctime = stamp
    \/ node'[i].ctime = stamp /\ node[i].ctime < stamp

FilesMove == clock <= clock' /\ stamp <= stamp' /\ \A i \in Inode : Moved(i)

\* A key that is vouched for stays so: a write of now has a younger mtime, and
\* one that puts an old mtime back has a younger ctime.
LEMMA VouchStays ==
  ASSUME StoreTypeOK, StoreTypeOK', Stamps, FilesMove
  PROVE  /\ \A k \in Key : \A d \in Text : Vouched(k, d) => StillVouched(k, d)
         /\ \A k \in Key : k.ctime <= node[k.ino].ctime => k.ctime <= node'[k.ino].ctime
         /\ Stamps'
  <1> USE StoreAssumption
  <1>0. \A i \in Inode : /\ node[i].text \in Text /\ node[i].mtime \in Int /\ node[i].ctime \in Int
                         /\ node'[i].text \in Text /\ node'[i].mtime \in Int /\ node'[i].ctime \in Int
    BY DEF StoreTypeOK, Time
  <1>1. \A i \in Inode : node[i].ctime <= node'[i].ctime /\ node'[i].ctime <= stamp'
    BY <1>0 DEF StoreTypeOK, Stamps, FilesMove, Moved, Time
  <1>2. ASSUME NEW k \in Key, NEW d \in Text, Vouched(k, d)
        PROVE  StillVouched(k, d)
    <2> DEFINE i == k.ino
    <2>1. i \in Inode /\ k.mtime \in Int /\ k.ctime \in Int
      BY DEF Key, Time
    <2>2. k.mtime + Window < clock' /\ k.ctime <= node'[i].ctime
      BY <1>0, <1>1, <1>2, <2>1 DEF Vouched, FilesMove, StoreTypeOK, Time
    <2>3. ASSUME node'[i].mtime = k.mtime, node'[i].ctime = k.ctime
          PROVE  node'[i].text = d
      <3>1. node[i].mtime = k.mtime /\ node[i].ctime = k.ctime => node[i].text = d
        BY <1>2, <2>1 DEF Vouched, _stat_key, Key
      <3>2. CASE node'[i] = node[i]
        BY <2>3, <3>1, <3>2
      <3>3. CASE /\ node'[i].text = node[i].text /\ node'[i].mtime = node[i].mtime
                 /\ node'[i].ctime = stamp
        BY <1>0, <1>2, <2>1, <2>3, <3>1, <3>3 DEF Vouched, Stamps
      <3>4. CASE node'[i].mtime = stamp /\ node'[i].ctime = stamp
        BY <1>0, <1>2, <2>1, <2>3, <3>4 DEF Vouched, StoreTypeOK, Time
      <3>5. CASE node'[i].ctime = stamp /\ node[i].ctime < stamp
        BY <1>0, <1>2, <2>1, <2>3, <3>5 DEF Vouched
      <3>6. QED
        BY <2>1, <3>2, <3>3, <3>4, <3>5 DEF FilesMove, Moved
    <2>4. QED
      BY <2>1, <2>2, <2>3 DEF StillVouched, _stat_key
  <1>3. \A k \in Key : k.ino \in Inode /\ k.ctime \in Int
    BY DEF Key, Time
  <1>4. QED
    BY <1>0, <1>1, <1>2, <1>3 DEF Stamps

LEMMA InitInv == StoreInit => IInv
  <1> SUFFICES ASSUME StoreInit PROVE IInv
    OBVIOUS
  <1> USE StoreAssumption DEF StoreInit
  <1>1. StoreTypeOK
    BY DEF StoreTypeOK, Time, Text, Entry, Key, NotReading, NotWriting
  <1>2. Stamps /\ Handles /\ Stored
    BY DEF Stamps, Handles, Stored, NotReading
  <1>3. Held
    BY DEF Held, NotWriting
  <1>4. QED
    BY <1>1, <1>2, <1>3 DEF IInv

\* What readers and the cache hold survives a step of the disk, as long as it
\* is kept as it is or dropped.
LEMMA FilesStep ==
  ASSUME IInv, StoreTypeOK', FilesMove, cache' \in {cache, Nothing},
         \A r \in Reader : rd'[r] \in {rd[r], NotReading}
  PROVE  Stamps' /\ Handles' /\ Stored'
  <1> USE StoreAssumption
  <1>1. /\ \A k \in Key : \A d \in Text : Vouched(k, d) => StillVouched(k, d)
        /\ \A k \in Key : k.ctime <= node[k.ino].ctime => k.ctime <= node'[k.ino].ctime
        /\ Stamps'
    BY VouchStays DEF IInv
  <1>2. Stored'
    <2>1. cache' # Nothing => Vouched(cache.key, cache.doc)'
      <3> SUFFICES ASSUME cache' # Nothing PROVE Vouched(cache.key, cache.doc)'
        OBVIOUS
      <3>1. cache' = cache /\ cache.key \in Key /\ cache.doc \in Text
        BY DEF IInv, StoreTypeOK, Entry
      <3>2. StillVouched(cache.key, cache.doc)
        BY <1>1, <3>1 DEF IInv, Stored
      <3>3. QED
        BY <3>1, <3>2 DEF Vouched, StillVouched, _stat_key
    <2>2. ASSUME NEW r \in Reader, rd'[r].entry # Nothing
          PROVE  Vouched(rd[r].entry.key, rd[r].entry.doc)'
      <3>1. rd'[r] = rd[r]
        BY <2>2 DEF NotReading
      <3>2. rd[r].entry.key \in Key /\ rd[r].entry.doc \in Text
        BY <2>2, <3>1 DEF IInv, StoreTypeOK, Entry
      <3>3. StillVouched(rd[r].entry.key, rd[r].entry.doc)
        BY <1>1, <2>2, <3>1, <3>2 DEF IInv, Stored
      <3>4. QED
        BY <3>1, <3>3 DEF Vouched, StillVouched, _stat_key
    <2>3. QED
      BY <2>1, <2>2 DEF Stored
  <1>3. ASSUME NEW r \in Reader
        PROVE  (/\ rd[r].pc \in {"opened", "lookup", "read", "stat"} => rd[r].ino \in Inode
                /\ rd[r].pc \in {"lookup", "read", "stat"} =>
                     /\ rd[r].before \in Key /\ rd[r].before.ino = rd[r].ino
                     /\ rd[r].before.ctime <= node[rd[r].ino].ctime
                /\ rd[r].started <= clock
                /\ (rd[r].pc = "stat" /\ rd[r].started - rd[r].before.mtime > Window)
                     => Vouched(rd[r].before, rd[r].doc))'
    <2>1. CASE rd'[r] = NotReading
      BY <2>1 DEF NotReading, StoreTypeOK, Time
    <2>2. CASE rd'[r] = rd[r]
      <3>1. rd[r].started <= clock'
        BY DEF IInv, Handles, FilesMove, StoreTypeOK, Time
      <3>2. ASSUME rd[r].pc \in {"lookup", "read", "stat"}
            PROVE  /\ rd[r].before \in Key /\ rd[r].before.ino = rd[r].ino
                   /\ rd[r].before.ctime <= node'[rd[r].ino].ctime
        BY <1>1, <3>2 DEF IInv, Handles
      <3>3. ASSUME rd[r].pc = "stat", rd[r].started - rd[r].before.mtime > Window
            PROVE  StillVouched(rd[r].before, rd[r].doc)
        <4>1. rd[r].before \in Key /\ rd[r].doc \in Text
          BY <3>2, <3>3 DEF IInv, StoreTypeOK
        <4>2. QED
          BY <1>1, <3>3, <4>1 DEF IInv, Handles
      <3>4. (rd[r].pc = "stat" /\ rd[r].started - rd[r].before.mtime > Window)'
              => Vouched(rd[r].before, rd[r].doc)'
        BY <2>2, <3>3 DEF Vouched, StillVouched, _stat_key
      <3>5. rd[r].pc \in {"opened", "lookup", "read", "stat"} => rd[r].ino \in Inode
        BY DEF IInv, Handles
      <3>6. QED
        BY <2>2, <3>1, <3>2, <3>4, <3>5
    <2>3. QED
      BY <2>1, <2>2
  <1>4. QED
    BY <1>1, <1>2, <1>3 DEF Handles

\* A reader's step leaves the disk, the lock and the clocks alone.
LEMMA ReaderFrame ==
  ASSUME IInv, StoreTypeOK', UNCHANGED <<clock, stamp, disk, writing>>
  PROVE  Stamps' /\ Held' /\ \A k, d : Vouched(k, d) = StillVouched(k, d)
  <1> USE DEF disk, writing
  <1>1. Stamps' /\ \A k, d : Vouched(k, d) = StillVouched(k, d)
    BY DEF IInv, Stamps, Vouched, StillVouched, _stat_key
  <1>2. Held'
    BY DEF IInv, Held, read_fresh
  <1>3. QED
    BY <1>1, <1>2

-----------------------------------------------------------------------------
(* The readers *)

\* What reader r's step may leave of it, the rest of the state being as it was.
LEMMA ReaderStep ==
  ASSUME IInv, StoreTypeOK', UNCHANGED <<clock, stamp, disk, writing>>, NEW r \in Reader,
         \A q \in Reader \ {r} : rd'[q] = rd[q],
         rd'[r].pc \in {"opened", "lookup", "read", "stat"} => rd'[r].ino \in Inode,
         rd'[r].pc \in {"lookup", "read", "stat"} =>
             /\ rd'[r].before \in Key /\ rd'[r].before.ino = rd'[r].ino
             /\ rd'[r].before.ctime <= node[rd'[r].ino].ctime,
         rd'[r].started <= clock,
         (rd'[r].pc = "stat" /\ rd'[r].started - rd'[r].before.mtime > Window)
             => Vouched(rd'[r].before, rd'[r].doc),
         cache' # Nothing => Vouched(cache'.key, cache'.doc),
         rd'[r].entry # Nothing => Vouched(rd'[r].entry.key, rd'[r].entry.doc)
  PROVE  IInv'
  <1>1. Stamps' /\ Held' /\ clock' = clock /\ node' = node
    BY ReaderFrame DEF disk
  <1>2. cache' # Nothing => Vouched(cache.key, cache.doc)'
    BY <1>1 DEF Vouched, _stat_key
  <1>3. ASSUME NEW q \in Reader
        PROVE  /\ rd'[q].entry # Nothing => Vouched(rd[q].entry.key, rd[q].entry.doc)'
               /\ rd'[q].pc \in {"opened", "lookup", "read", "stat"} => rd'[q].ino \in Inode
               /\ rd'[q].pc \in {"lookup", "read", "stat"} =>
                    /\ rd'[q].before \in Key /\ rd'[q].before.ino = rd'[q].ino
                    /\ rd'[q].before.ctime <= node'[rd'[q].ino].ctime
               /\ rd'[q].started <= clock'
               /\ (rd'[q].pc = "stat" /\ rd'[q].started - rd'[q].before.mtime > Window)
                    => Vouched(rd[q].before, rd[q].doc)'
    <2>1. CASE q = r
      BY <1>1, <2>1 DEF Vouched, _stat_key
    <2>2. CASE q # r
      <3>1. rd'[q] = rd[q]
        BY <2>2
      <3>2. QED
        BY <1>1, <3>1 DEF IInv, Handles, Stored, Vouched, _stat_key
    <2>3. QED
      BY <2>1, <2>2
  <1>4. Handles'
    BY <1>3 DEF Handles
  <1>5. Stored'
    BY <1>2, <1>3 DEF Stored
  <1>6. QED
    BY <1>1, <1>4, <1>5 DEF IInv

LEMMA ReadTypes ==
  ASSUME IInv, NEW r \in Reader, Read(r)
  PROVE  StoreTypeOK'
  <1> USE StoreAssumption DEF disk, reading, writing
  <1>a. StoreTypeOK
    BY DEF IInv
  <1> DEFINE Row == [pc : {"idle", "opened", "lookup", "read", "stat", "store"},
                     ino : Inode \cup {Nothing}, before : Key \cup {Nothing},
                     started : Time, doc : Text, entry : Entry \cup {Nothing}]
  <1>0. /\ StoreTypeOK /\ rd[r] \in Row /\ NotReading \in Row
        /\ \A i \in Inode : _stat_key(i) \in Key /\ node[i].text \in Text
    BY <1>a DEF StoreTypeOK, NotReading, Time, Text, _stat_key, Key
  <1>1. CASE OpenMissing(r)
    BY <1>0, <1>1 DEF OpenMissing, StoreTypeOK
  <1>2. CASE Open(r)
    <2>1. [rd[r] EXCEPT !.pc = "opened", !.ino = path] \in Row
      BY <1>0 DEF StoreTypeOK
    <2>2. rd' = [rd EXCEPT ![r] = [rd[r] EXCEPT !.pc = "opened", !.ino = path]]
      BY <1>2 DEF Open
    <2>3. path \in Inode /\ seen' = [seen EXCEPT ![r] = {node[path].text}]
      BY <1>0, <1>2 DEF Open, StoreTypeOK
    <2>4. seen' \in [Reader -> SUBSET Text]
      BY <1>0, <2>3 DEF StoreTypeOK
    <2>5. rd' \in [Reader -> Row]
      BY <1>0, <2>1, <2>2 DEF StoreTypeOK
    <2>6. QED
      BY <1>0, <1>2, <2>4, <2>5 DEF Open, StoreTypeOK
  <1>3. CASE StatBefore(r)
    <2>1. PICK k \in Key : rd' = [rd EXCEPT ![r] = [rd[r] EXCEPT !.pc = "lookup", !.before = k]]
      <3>1. _stat_key(rd[r].ino) \in Key
        BY <1>0, <1>3 DEF StatBefore, IInv, Handles
      <3>2. QED
        BY <1>3, <3>1 DEF StatBefore
    <2>2. [rd[r] EXCEPT !.pc = "lookup", !.before = k] \in Row
      BY <1>0
    <2>3. rd' \in [Reader -> Row]
      BY <1>0, <2>1, <2>2 DEF StoreTypeOK
    <2>4. QED
      BY <1>0, <1>3, <2>3 DEF StatBefore, StoreTypeOK
  <1>4. CASE Lookup(r)
    <2>1. CASE Hits(r)
      <3>1. rd' = [rd EXCEPT ![r] = NotReading] /\ seen' = [seen EXCEPT ![r] = {}]
        BY <1>4, <2>1 DEF Lookup, Done
      <3>2. rd' \in [Reader -> Row] /\ seen' \in [Reader -> SUBSET Text]
        BY <1>0, <3>1 DEF StoreTypeOK
      <3>3. QED
        BY <1>0, <1>4, <3>2 DEF Lookup, StoreTypeOK
    <2>2. CASE ~Hits(r)
      <3>1. [rd[r] EXCEPT !.pc = "read", !.started = clock] \in Row
        BY <1>0 DEF StoreTypeOK
      <3>2. rd' = [rd EXCEPT ![r] = [rd[r] EXCEPT !.pc = "read", !.started = clock]]
        BY <1>4, <2>2 DEF Lookup
      <3>3. rd' \in [Reader -> Row]
        BY <1>0, <3>1, <3>2 DEF StoreTypeOK
      <3>4. QED
        BY <1>0, <1>4, <2>2, <3>3 DEF Lookup, StoreTypeOK
    <2>3. QED
      BY <2>1, <2>2
  <1>5. CASE ReadText(r)
    <2>1. PICK d \in Text : rd' = [rd EXCEPT ![r] = [rd[r] EXCEPT !.pc = "stat", !.doc = d]]
      <3>1. node[rd[r].ino].text \in Text
        BY <1>0, <1>5 DEF ReadText, IInv, Handles
      <3>2. QED
        BY <1>5, <3>1 DEF ReadText
    <2>2. [rd[r] EXCEPT !.pc = "stat", !.doc = d] \in Row
      BY <1>0
    <2>3. rd' \in [Reader -> Row]
      BY <1>0, <2>1, <2>2 DEF StoreTypeOK
    <2>4. QED
      BY <1>0, <1>5, <2>3 DEF ReadText, StoreTypeOK
  <1>6. CASE StatAfter(r)
    <2>1. PICK e \in Entry \cup {Nothing} :
             rd' = [rd EXCEPT ![r] = [NotReading EXCEPT !.pc = "store", !.entry = e]]
      <3> DEFINE key == _stat_key(rd[r].ino)
      <3>1. key \in Key /\ rd[r].doc \in Text
        BY <1>0, <1>6 DEF StatAfter, IInv, Handles
      <3>2. [doc |-> rd[r].doc, key |-> key] \in Entry
        BY <3>1 DEF Entry
      <3>3. QED
        BY <1>6, <3>2 DEF StatAfter
    <2>2. [NotReading EXCEPT !.pc = "store", !.entry = e] \in Row
      BY <1>0 DEF NotReading
    <2>3. rd' \in [Reader -> Row] /\ seen' \in [Reader -> SUBSET Text]
      BY <1>0, <1>6, <2>1, <2>2 DEF StatAfter, StoreTypeOK
    <2>4. QED
      BY <1>0, <1>6, <2>3 DEF StatAfter, StoreTypeOK
  <1>7. CASE Store(r)
    BY <1>0, <1>7 DEF Store, Done, StoreTypeOK
  <1>8. CASE Raise(r)
    BY <1>0, <1>8 DEF Raise, Done, StoreTypeOK
  <1>9. QED
    BY <1>1, <1>2, <1>3, <1>4, <1>5, <1>6, <1>7, <1>8 DEF Read

LEMMA ReadKeeps ==
  ASSUME IInv, NEW r \in Reader, Read(r)
  PROVE  IInv'
  <1> USE StoreAssumption DEF IInv
  <1>0. StoreTypeOK' /\ StoreTypeOK
    BY ReadTypes
  <1>1. UNCHANGED <<clock, stamp, disk, writing>> /\ \A q \in Reader \ {r} : rd'[q] = rd[q]
    BY <1>0 DEF Read, OpenMissing, Open, StatBefore, Lookup, Done, ReadText, StatAfter, Store,
                Raise, StoreTypeOK
  <1>2. rd[r].started \in Int /\ clock \in Int /\ 0 <= clock
    BY <1>0 DEF StoreTypeOK, Time
  <1>a. /\ cache # Nothing => Vouched(cache.key, cache.doc)
        /\ rd[r].entry # Nothing => Vouched(rd[r].entry.key, rd[r].entry.doc)
        /\ rd[r].started <= clock
    BY DEF Handles, Stored
  <1>3. CASE OpenMissing(r)
    BY <1>0, <1>1, <1>3, ReaderStep DEF OpenMissing, Handles, Stored
  <1>4. CASE Open(r)
    <2>1. rd'[r] = [rd[r] EXCEPT !.pc = "opened", !.ino = path] /\ path \in Inode
      BY <1>0, <1>4 DEF Open, StoreTypeOK
    <2>2. /\ rd'[r].pc = "opened" /\ rd'[r].ino \in Inode /\ rd'[r].started = rd[r].started
          /\ rd'[r].entry = rd[r].entry /\ cache' = cache
      BY <1>0, <1>4, <2>1 DEF Open, StoreTypeOK
    <2>3. QED
      BY <1>0, <1>1, <1>a, <2>2, ReaderStep
  <1>5. CASE StatBefore(r)
    <2>1. rd'[r] = [rd[r] EXCEPT !.pc = "lookup", !.before = _stat_key(rd[r].ino)]
      BY <1>0, <1>5 DEF StatBefore, StoreTypeOK
    <2>2. rd[r].ino \in Inode
      BY <1>5 DEF StatBefore, Handles
    <2>3. /\ rd'[r].before \in Key /\ rd'[r].before.ino = rd'[r].ino
          /\ rd'[r].before.ctime <= node[rd'[r].ino].ctime
      BY <1>0, <2>1, <2>2 DEF _stat_key, Key, StoreTypeOK, Time
    <2>4. /\ rd'[r].pc = "lookup" /\ rd'[r].ino \in Inode /\ rd'[r].started = rd[r].started
          /\ rd'[r].entry = rd[r].entry /\ cache' = cache
      BY <1>0, <1>5, <2>1, <2>2 DEF StatBefore, StoreTypeOK
    <2>5. QED
      BY <1>0, <1>1, <1>a, <2>3, <2>4, ReaderStep
  <1>6. CASE Lookup(r)
    <2>1. CASE Hits(r)
      <3>1. rd'[r] = NotReading
        BY <1>0, <1>6, <2>1 DEF Lookup, Done, StoreTypeOK
      <3>2. QED
        BY <1>0, <1>1, <1>2, <1>6, <3>1, ReaderStep DEF Lookup, NotReading, Handles, Stored
    <2>2. CASE ~Hits(r)
      <3>1. rd'[r] = [rd[r] EXCEPT !.pc = "read", !.started = clock]
        BY <1>0, <1>6, <2>2 DEF Lookup, StoreTypeOK
      <3>2. /\ rd'[r].pc = "read" /\ rd'[r].ino = rd[r].ino /\ rd'[r].before = rd[r].before
            /\ rd'[r].started = clock /\ rd'[r].entry = rd[r].entry /\ cache' = cache
        BY <1>0, <1>6, <3>1 DEF Lookup, StoreTypeOK
      <3>3. /\ rd[r].ino \in Inode /\ rd[r].before \in Key /\ rd[r].before.ino = rd[r].ino
            /\ rd[r].before.ctime <= node[rd[r].ino].ctime
        BY <1>6 DEF Lookup, Handles
      <3>4. QED
        BY <1>0, <1>1, <1>2, <1>a, <3>2, <3>3, ReaderStep
    <2>3. QED
      BY <2>1, <2>2
  <1>7. CASE ReadText(r)
    <2>1. rd'[r] = [rd[r] EXCEPT !.pc = "stat", !.doc = node[rd[r].ino].text]
      BY <1>0, <1>7 DEF ReadText, StoreTypeOK
    <2>2. /\ rd[r].before \in Key /\ rd[r].before.ino = rd[r].ino
          /\ rd[r].before.ctime <= node[rd[r].ino].ctime /\ rd[r].started <= clock
      BY <1>7 DEF ReadText, Handles
    <2>3. rd[r].before.mtime \in Int
      BY <2>2 DEF Key, Time
    <2>4. rd[r].started - rd[r].before.mtime > Window => Vouched(rd'[r].before, rd'[r].doc)
      BY <1>2, <2>1, <2>2, <2>3 DEF Vouched, Time
    <2>5. /\ rd'[r].pc = "stat" /\ rd'[r].ino \in Inode /\ rd'[r].ino = rd[r].ino
          /\ rd'[r].before = rd[r].before /\ rd'[r].started = rd[r].started
          /\ rd'[r].entry = rd[r].entry /\ cache' = cache
      BY <1>0, <1>7, <2>1 DEF ReadText, Handles, StoreTypeOK
    <2>6. QED
      BY <1>0, <1>1, <1>a, <2>2, <2>4, <2>5, ReaderStep
  <1>8. CASE StatAfter(r)
    <2> DEFINE key == _stat_key(rd[r].ino)
               trusted == key = rd[r].before /\ rd[r].started - key.mtime > Window
               e == IF trusted THEN [doc |-> rd[r].doc, key |-> key] ELSE Nothing
    <2>1. rd'[r] = [NotReading EXCEPT !.pc = "store", !.entry = e]
      BY <1>0, <1>8 DEF StatAfter, StoreTypeOK
    <2>2. e # Nothing => Vouched(e.key, e.doc)
      BY <1>8 DEF StatAfter, Handles
    <2> HIDE DEF e
    <2>3. rd'[r].entry = e /\ rd'[r].pc = "store" /\ rd'[r].started = 0
      BY <2>1 DEF NotReading
    <2>4. QED
      BY <1>0, <1>1, <1>2, <1>8, <2>2, <2>3, ReaderStep DEF StatAfter, Stored
  <1>9. CASE Store(r)
    <2>1. rd'[r] = NotReading /\ cache' = rd[r].entry
      BY <1>0, <1>9 DEF Store, Done, StoreTypeOK
    <2>2. QED
      BY <1>0, <1>1, <1>2, <1>9, <2>1, ReaderStep DEF Store, NotReading, Stored
  <1>10. CASE Raise(r)
    <2>1. rd'[r] = NotReading
      BY <1>0, <1>10 DEF Raise, Done, StoreTypeOK
    <2>2. QED
      BY <1>0, <1>1, <1>2, <1>10, <2>1, ReaderStep DEF Raise, NotReading, Stored
  <1>11. QED
    BY <1>3, <1>4, <1>5, <1>6, <1>7, <1>8, <1>9, <1>10 DEF Read

-----------------------------------------------------------------------------
(* The writers *)

Row == [pc : {"idle", "load", "change", "write", "replace", "invalidate", "release"},
        doc : Text, crossed : BOOLEAN]

\* What a writer's document is worth, when no hand crossed it.
Mine(w, row) ==
    /\ row.pc = "change" => row.doc = read_fresh
    /\ row.pc = "write" => row.doc \ {w} = read_fresh \ {w}
    /\ row.pc = "replace" => node[tmp].text \ {w} = read_fresh \ {w}

\* A step of the one writer that holds the lock, or takes it, which leaves the
\* disk alone.
LEMMA WriterStep ==
  ASSUME IInv, UNCHANGED <<clock, stamp, disk, rd, seen>>, cache' \in {cache, Nothing},
         NEW w \in Writer, NEW row \in Row, wr' = [wr EXCEPT ![w] = row],
         lock \in {Nothing, w}, lock' = IF row.pc = "idle" THEN Nothing ELSE w,
         events' \in 0 .. MaxEvents,
         row.pc = "replace" => tmp # Nothing,
         ~row.crossed => Mine(w, row)
  PROVE  IInv'
  <1> USE StoreAssumption DEF disk, IInv
  <1>1. StoreTypeOK'
    <2>1. wr' \in [Writer -> Row]
      BY DEF StoreTypeOK, Row
    <2>2. QED
      BY <2>1 DEF StoreTypeOK, Row
  <1>2. FilesMove
    BY DEF FilesMove, Moved, StoreTypeOK, Time
  <1>3. Stamps' /\ Handles' /\ Stored'
    BY <1>1, <1>2, FilesStep
  <1>4. wr'[w] = row /\ \A v \in Writer \ {w} : wr'[v] = wr[v] /\ wr[v].pc = "idle"
    BY DEF StoreTypeOK, Held
  <1>5. read_fresh' = read_fresh
    BY DEF read_fresh
  <1>6. Held'
    <2>1. \A v \in Writer : (wr[v].pc # "idle" <=> lock = v)'
      BY <1>4
    <2>2. \A v \in Writer : (wr[v].pc = "replace" => tmp # Nothing)'
      BY <1>4
    <2>3. \A v \in Writer : (~wr[v].crossed =>
             /\ wr[v].pc = "change" => wr[v].doc = read_fresh
             /\ wr[v].pc = "write" => wr[v].doc \ {v} = read_fresh \ {v}
             /\ wr[v].pc = "replace" => node[tmp].text \ {v} = read_fresh \ {v})'
      BY <1>4, <1>5 DEF Mine
    <2>4. QED
      BY <2>1, <2>2, <2>3 DEF Held
  <1>7. QED
    BY <1>1, <1>3, <1>6

LEMMA MutateOwnKeeps ==
  ASSUME IInv, NEW w \in Writer,
         \/ Take(w) \/ Load(w) \/ ChangeRegistry(w) \/ ChangeSettings(w) \/ ChangeSeed(w)
         \/ Refuse(w) \/ Invalidate(w) \/ Release(w) \/ Kill(w)
  PROVE  IInv'
  <1> USE StoreAssumption DEF reading
  <1>0. /\ wr[w] \in Row /\ NotWriting \in Row /\ events \in 0 .. MaxEvents
        /\ wr[w].doc \in Text /\ wr[w].crossed \in BOOLEAN
        /\ wr[w].pc # "idle" <=> lock = w
        /\ lock \in Writer \cup {Nothing}
        /\ read_fresh \in Text
    BY DEF IInv, StoreTypeOK, Held, Row, NotWriting, read_fresh, Text
  <1>a. /\ ~wr[w].crossed => Mine(w, wr[w])
        /\ wr[w].pc = "replace" => tmp # Nothing
    BY DEF IInv, Held, Mine
  <1>b. \A d \in Text : \A on \in BOOLEAN : Set(d, w, on) \in Text /\ Set(d, w, on) \ {w} = d \ {w}
    BY DEF Text, Set
  <1>1. CASE Take(w)
    <2> DEFINE row == [NotWriting EXCEPT !.pc = "load"]
    <2>1. /\ wr' = [wr EXCEPT ![w] = row] /\ lock = Nothing /\ lock' = w
          /\ events' \in 0 .. MaxEvents /\ UNCHANGED <<clock, stamp, disk, rd, seen, cache>>
      BY <1>0, <1>1 DEF Take, Happens
    <2>2. row \in Row /\ row.pc = "load" /\ Mine(w, row)
      BY DEF Row, NotWriting, Text, Mine
    <2> HIDE DEF row
    <2>3. QED
      BY <2>1, <2>2, WriterStep
  <1>2. CASE Load(w)
    <2> DEFINE row == [wr[w] EXCEPT !.pc = "change", !.doc = read_fresh]
    <2>1. /\ wr' = [wr EXCEPT ![w] = row] /\ lock = w /\ lock' = w
          /\ events' \in 0 .. MaxEvents /\ UNCHANGED <<clock, stamp, disk, rd, seen, cache>>
      BY <1>0, <1>2 DEF Load
    <2>2. row \in Row /\ row.pc = "change" /\ Mine(w, row)
      BY <1>0 DEF Row, Mine
    <2> HIDE DEF row
    <2>3. QED
      BY <2>1, <2>2, WriterStep
  <1>3. CASE ChangeRegistry(w)
    <2>1. PICK on \in BOOLEAN :
            wr' = [wr EXCEPT ![w] = [wr[w] EXCEPT !.pc = "write", !.doc = Set(wr[w].doc, w, on)]]
      BY <1>3 DEF ChangeRegistry
    <2> DEFINE row == [wr[w] EXCEPT !.pc = "write", !.doc = Set(wr[w].doc, w, on)]
    <2>2. /\ wr[w].pc = "change" /\ wr' = [wr EXCEPT ![w] = row] /\ lock = w /\ lock' = w
          /\ events' \in 0 .. MaxEvents /\ UNCHANGED <<clock, stamp, disk, rd, seen, cache>>
      BY <1>0, <1>3, <2>1 DEF ChangeRegistry
    <2>3. Set(wr[w].doc, w, on) \in Text /\ Set(wr[w].doc, w, on) \ {w} = wr[w].doc \ {w}
      BY <1>0, <1>b
    <2>4. row \in Row /\ row.pc = "write" /\ (~row.crossed => Mine(w, row))
      BY <1>0, <1>a, <2>2, <2>3 DEF Row, Mine
    <2> HIDE DEF row
    <2>5. QED
      BY <2>2, <2>4, WriterStep
  <1>4. CASE ChangeSettings(w)
    <2>1. PICK on \in BOOLEAN :
            LET current == Set(wr[w].doc, w, on) IN
            wr' = IF current = wr[w].doc THEN [wr EXCEPT ![w].pc = "release"]
                  ELSE [wr EXCEPT ![w].pc = "write",
                                  ![w].doc = (read_fresh \ Settings) \cup (current \cap Settings)]
      BY <1>4 DEF ChangeSettings
    <2>2. /\ wr[w].pc = "change" /\ lock = w /\ lock' = w
          /\ events' \in 0 .. MaxEvents /\ UNCHANGED <<clock, stamp, disk, rd, seen, cache>>
      BY <1>0, <1>4 DEF ChangeSettings
    <2> DEFINE current == Set(wr[w].doc, w, on)
               doc == (read_fresh \ Settings) \cup (current \cap Settings)
               same == [wr[w] EXCEPT !.pc = "release"]
               row == [wr[w] EXCEPT !.pc = "write", !.doc = doc]
    <2>3. current \in Text /\ current \ {w} = wr[w].doc \ {w}
      BY <1>0, <1>b
    <2>4. wr' = [wr EXCEPT ![w] = same] \/ wr' = [wr EXCEPT ![w] = row]
      BY <2>1
    <2>5. doc \in Text /\ (wr[w].doc = read_fresh => doc \ {w} = read_fresh \ {w})
      <3> HIDE DEF current
      <3>1. QED
        BY <1>0, <2>3 DEF Text
    <2> HIDE DEF doc
    <2>6. row \in Row /\ row.pc = "write" /\ (~row.crossed => Mine(w, row))
      BY <1>0, <1>a, <2>2, <2>5 DEF Row, Mine
    <2>7. same \in Row /\ same.pc = "release" /\ Mine(w, same)
      BY <1>0 DEF Row, Mine
    <2> HIDE DEF row, same
    <2>8. QED
      BY <2>2, <2>4, <2>6, <2>7, WriterStep
  <1>5. CASE ChangeSeed(w)
    <2> DEFINE same == [wr[w] EXCEPT !.pc = "release"]
               row == [wr[w] EXCEPT !.pc = "write", !.doc = wr[w].doc \cup {w}]
    <2>1. /\ wr[w].pc = "change" /\ lock = w /\ lock' = w
          /\ events' \in 0 .. MaxEvents /\ UNCHANGED <<clock, stamp, disk, rd, seen, cache>>
      BY <1>0, <1>5 DEF ChangeSeed
    <2>2. wr' = [wr EXCEPT ![w] = same] \/ wr' = [wr EXCEPT ![w] = row]
      BY <1>5 DEF ChangeSeed
    <2>3. wr[w].doc \cup {w} \in Text
      BY <1>0 DEF Text
    <2>4. row \in Row /\ row.pc = "write" /\ (~row.crossed => Mine(w, row))
      BY <1>0, <1>a, <2>1, <2>3 DEF Row, Mine
    <2>5. same \in Row /\ same.pc = "release" /\ Mine(w, same)
      BY <1>0 DEF Row, Mine
    <2> HIDE DEF row, same
    <2>6. QED
      BY <2>1, <2>2, <2>4, <2>5, WriterStep
  <1>6. CASE Refuse(w) \/ Invalidate(w)
    <2> DEFINE row == [wr[w] EXCEPT !.pc = "release"]
    <2>1. /\ wr' = [wr EXCEPT ![w] = row] /\ lock = w /\ lock' = w /\ cache' \in {cache, Nothing}
          /\ events' \in 0 .. MaxEvents /\ UNCHANGED <<clock, stamp, disk, rd, seen>>
      BY <1>0, <1>6 DEF Refuse, Invalidate
    <2>2. row \in Row /\ row.pc = "release" /\ Mine(w, row)
      BY <1>0 DEF Row, Mine
    <2> HIDE DEF row
    <2>3. QED
      BY <2>1, <2>2, WriterStep
  <1>7. CASE Release(w) \/ Kill(w)
    <2>1. /\ wr' = [wr EXCEPT ![w] = NotWriting] /\ lock = w /\ lock' = Nothing
          /\ events' \in 0 .. MaxEvents /\ UNCHANGED <<clock, stamp, disk, rd, seen, cache>>
      BY <1>0, <1>7 DEF Release, Kill, Happens
    <2>2. NotWriting.pc = "idle" /\ Mine(w, NotWriting)
      BY DEF NotWriting, Mine
    <2>3. QED
      BY <1>0, <2>1, <2>2, WriterStep
  <1>8. QED
    BY <1>1, <1>2, <1>3, <1>4, <1>5, <1>6, <1>7

LEMMA WriteTmpKeeps == ASSUME IInv, NEW w \in Writer, WriteTmp(w) PROVE IInv'
  <1> USE StoreAssumption DEF IInv, disk, reading
  <1>1. PICK i \in IF tmp = Nothing THEN Inode \ InUse ELSE {tmp} :
          /\ tmp' = i
          /\ \/ /\ node' = Put(i, wr[w].doc, stamp)
                /\ wr' = [wr EXCEPT ![w].pc = "replace"]
             \/ /\ node' = Put(i, {}, stamp)
                /\ wr' = [wr EXCEPT ![w].pc = "release"]
    BY DEF WriteTmp
  <1>2. i \in Inode /\ i # path /\ i # Nothing /\ lock = w /\ wr[w].pc = "write"
        /\ wr[w] \in Row /\ path' = path /\ lock' = lock
    BY <1>1 DEF WriteTmp, InUse, Held, StoreTypeOK, Row
  <1>3. PICK t \in Text, x \in {"replace", "release"} :
          /\ node' = [node EXCEPT ![i] = [text |-> t, mtime |-> stamp, ctime |-> stamp]]
          /\ wr' = [wr EXCEPT ![w] = [wr[w] EXCEPT !.pc = x]]
          /\ x = "replace" => t = wr[w].doc
    BY <1>1, <1>2 DEF Put, Text, Row
  <1> DEFINE row == [wr[w] EXCEPT !.pc = x]
  <1>4. row \in Row /\ row.pc = x /\ row.crossed = wr[w].crossed
    BY <1>2, <1>3 DEF Row
  <1> HIDE DEF row
  <1>5. /\ wr' = [wr EXCEPT ![w] = row]
        /\ wr'[w] = row /\ \A v \in Writer \ {w} : wr'[v] = wr[v] /\ wr[v].pc = "idle"
    BY <1>2, <1>3 DEF StoreTypeOK, Held, row
  <1>6. node'[i] = [text |-> t, mtime |-> stamp, ctime |-> stamp]
        /\ \A j \in Inode \ {i} : node'[j] = node[j]
    BY <1>2, <1>3 DEF StoreTypeOK
  <1>7. StoreTypeOK'
    <2>1. node' \in [Inode -> [text : Text, mtime : Time, ctime : Time]]
      BY <1>2, <1>3 DEF StoreTypeOK
    <2>2. wr' \in [Writer -> Row]
      BY <1>4, <1>5 DEF StoreTypeOK, Row
    <2>3. QED
      BY <1>1, <1>2, <2>1, <2>2 DEF StoreTypeOK, Row, WriteTmp
  <1>8. FilesMove
    BY <1>6 DEF WriteTmp, FilesMove, Moved, StoreTypeOK, Time
  <1>9. Stamps' /\ Handles' /\ Stored'
    BY <1>7, <1>8, FilesStep DEF WriteTmp
  <1>10. read_fresh' = read_fresh
    BY <1>2, <1>6 DEF read_fresh, StoreTypeOK
  <1>11. Held'
    <2>1. \A v \in Writer : (wr[v].pc # "idle" <=> lock = v)'
      BY <1>2, <1>3, <1>4, <1>5 DEF Held
    <2>2. (tmp # Nothing => tmp # path)' /\ \A v \in Writer : (wr[v].pc = "replace" => tmp # Nothing)'
      BY <1>1, <1>2
    <2>3. \A v \in Writer : (~wr[v].crossed =>
             /\ wr[v].pc = "change" => wr[v].doc = read_fresh
             /\ wr[v].pc = "write" => wr[v].doc \ {v} = read_fresh \ {v}
             /\ wr[v].pc = "replace" => node[tmp].text \ {v} = read_fresh \ {v})'
      BY <1>1, <1>2, <1>3, <1>4, <1>5, <1>6, <1>10 DEF Held
    <2>4. QED
      BY <2>1, <2>2, <2>3 DEF Held
  <1>12. QED
    BY <1>7, <1>9, <1>11

\* Names move from one inode to another; only change times do.
LEMMA TouchTyped ==
  ASSUME StoreTypeOK, NEW n, n \in [Inode -> [text : Text, mtime : Time, ctime : Time]],
         NEW i \in Inode \cup {Nothing}
  PROVE  /\ Touch(n, i) \in [Inode -> [text : Text, mtime : Time, ctime : Time]]
         /\ \A j \in Inode : /\ Touch(n, i)[j].text = n[j].text
                             /\ Touch(n, i)[j].mtime = n[j].mtime
                             /\ Touch(n, i)[j].ctime \in {n[j].ctime, stamp}
                             /\ Touch(n, i)[j] = n[j] \/ Touch(n, i)[j].ctime = stamp
  <1>1. CASE i = Nothing
    BY <1>1 DEF Touch
  <1>2. CASE i # Nothing
    <2>1. Touch(n, i) = [n EXCEPT ![i] = [n[i] EXCEPT !.ctime = stamp]] /\ i \in Inode
      BY <1>2 DEF Touch
    <2>2. [n[i] EXCEPT !.ctime = stamp] \in [text : Text, mtime : Time, ctime : Time]
      BY <2>1 DEF StoreTypeOK
    <2>3. QED
      BY <2>1, <2>2
  <1>3. QED
    BY <1>1, <1>2

LEMMA ReplaceKeeps == ASSUME IInv, NEW w \in Writer, Replace(w) PROVE IInv'
  <1> USE StoreAssumption DEF IInv, disk, reading
  <1> DEFINE N == [Inode -> [text : Text, mtime : Time, ctime : Time]]
             n == Touch(node, path)
             row == [wr[w] EXCEPT !.pc = "invalidate"]
  <1>1. /\ tmp \in Inode /\ path' = tmp /\ tmp' = Nothing /\ node' = Touch(n, tmp)
        /\ lock = w /\ lock' = w /\ wr[w] \in Row
        /\ wr' = [wr EXCEPT ![w] = row]
    BY DEF Replace, Held, StoreTypeOK, Row
  <1>2. n \in N /\ \A j \in Inode : /\ n[j].text = node[j].text /\ n[j].mtime = node[j].mtime
                                    /\ n[j] = node[j] \/ n[j].ctime = stamp
    BY TouchTyped DEF StoreTypeOK
  <1> HIDE DEF n
  <1>3. node' \in N /\ \A j \in Inode :
           /\ node'[j].text = n[j].text /\ node'[j].mtime = n[j].mtime
           /\ node'[j] = n[j] \/ node'[j].ctime = stamp
    BY <1>1, <1>2, TouchTyped
  <1>4. row \in Row /\ row.pc = "invalidate"
    BY <1>1 DEF Row
  <1> HIDE DEF row
  <1>5. wr'[w] = row /\ \A v \in Writer \ {w} : wr'[v] = wr[v] /\ wr[v].pc = "idle"
    BY <1>1 DEF StoreTypeOK, Held
  <1>6. StoreTypeOK'
    <2>1. wr' \in [Writer -> Row]
      BY <1>1, <1>4 DEF StoreTypeOK, Row
    <2>2. QED
      BY <1>1, <1>3, <2>1 DEF StoreTypeOK, Row, Replace
  <1>7. FilesMove
    <2>1. \A j \in Inode : Moved(j)
      BY <1>2, <1>3 DEF Moved
    <2>2. QED
      BY <2>1 DEF Replace, FilesMove, StoreTypeOK, Time
  <1>8. Stamps' /\ Handles' /\ Stored'
    BY <1>6, <1>7, FilesStep DEF Replace
  <1>9. Held'
    BY <1>1, <1>4, <1>5 DEF Held
  <1>10. QED
    BY <1>6, <1>8, <1>9

-----------------------------------------------------------------------------
(* Time, the user, and the agent's end *)

LEMMA AdvanceKeeps == ASSUME IInv, Advance PROVE IInv'
  <1> USE StoreAssumption DEF IInv, disk, reading, writing
  <1>1. StoreTypeOK'
    <2>1. /\ clock' \in Time /\ stamp' \in Time /\ stamp' <= clock' /\ clock' - stamp' < Grain
      <3>1. clock \in Int /\ stamp \in Int /\ 0 <= stamp /\ 0 <= clock /\ stamp <= clock
        BY DEF StoreTypeOK, Time
      <3>2. /\ clock' = clock + 1 /\ clock < MaxClock /\ clock' - stamp' < Grain
            /\ stamp' = stamp \/ stamp' = clock + 1
        BY DEF Advance
      <3>3. QED
        BY <3>1, <3>2 DEF Time
    <2>2. UNCHANGED <<node, path, tmp, cache, rd, seen, lock, wr, events>>
      BY DEF Advance
    <2>3. QED
      BY <2>1, <2>2 DEF StoreTypeOK
  <1>2. FilesMove
    BY DEF Advance, FilesMove, Moved, StoreTypeOK, Time
  <1>3. Stamps' /\ Handles' /\ Stored'
    BY <1>1, <1>2, FilesStep DEF Advance
  <1>4. Held'
    BY DEF Advance, Held, read_fresh
  <1>5. QED
    BY <1>1, <1>3, <1>4

LEMMA KillAgentKeeps == ASSUME IInv, KillAgent PROVE IInv'
  <1> USE StoreAssumption DEF IInv, disk
  <1>1. StoreTypeOK'
    BY DEF KillAgent, Happens, StoreTypeOK, NotReading, NotWriting, Time, Text
  <1>2. FilesMove
    BY DEF KillAgent, FilesMove, Moved, StoreTypeOK, Time
  <1>3. Stamps' /\ Handles' /\ Stored'
    BY <1>1, <1>2, FilesStep DEF KillAgent
  <1>4. read_fresh' = read_fresh
    BY DEF KillAgent, read_fresh
  <1>5. Held'
    BY <1>4 DEF KillAgent, Held, NotWriting, StoreTypeOK
  <1>6. QED
    BY <1>1, <1>3, <1>5

\* A hand leaves every writer under way crossed.
LEMMA Crossed ==
  ASSUME StoreTypeOK, Held, Cross, lock' = lock, tmp' = tmp, path' # tmp \/ tmp = Nothing
  PROVE  Held' /\ wr' \in [Writer -> Row]
  <1>1. \A w \in Writer : /\ wr[w] \in Row
                          /\ wr'[w] = [wr[w] EXCEPT !.crossed = wr[w].pc # "idle"]
    BY DEF StoreTypeOK, Row, Cross
  <1>2. \A w \in Writer : [wr[w] EXCEPT !.crossed = wr[w].pc # "idle"] \in Row
    BY <1>1 DEF Row
  <1>3. wr' \in [Writer -> Row]
    BY <1>2 DEF Cross
  <1>4. \A w \in Writer : wr'[w].pc = wr[w].pc /\ (~wr'[w].crossed => wr'[w].pc = "idle")
    BY <1>1 DEF Row
  <1>5. Held'
    BY <1>4 DEF Held
  <1>6. QED
    BY <1>3, <1>5

LEMMA HandRewriteKeeps == ASSUME IInv, HandRewrite PROVE IInv'
  <1> USE StoreAssumption DEF IInv, disk, reading
  <1>1. PICK t \in Text, m \in Time :
          /\ path \in Inode /\ m \in Mtimes(path)
          /\ node' = [node EXCEPT ![path] = [text |-> t, mtime |-> m, ctime |-> stamp]]
          /\ seen' = Witness(path, t)
    <2>1. Edited \subseteq Text /\ read_fresh \in Text
      BY DEF Edited, Set, Text, read_fresh, StoreTypeOK
    <2>2. path \in Inode /\ Mtimes(path) \subseteq Time
      BY DEF HandRewrite, Mtimes, StoreTypeOK
    <2>3. QED
      BY <2>1, <2>2 DEF HandRewrite, Put
  <1>2. Held' /\ wr' \in [Writer -> Row]
    BY Crossed DEF HandRewrite, Held
  <1>3. seen' \in [Reader -> SUBSET Text]
    BY <1>1 DEF Witness, StoreTypeOK
  <1>4. node' \in [Inode -> [text : Text, mtime : Time, ctime : Time]]
    BY <1>1 DEF StoreTypeOK
  <1>5. StoreTypeOK'
    BY <1>2, <1>3, <1>4 DEF HandRewrite, Happens, StoreTypeOK, Row
  <1>6. FilesMove
    <2>1. node'[path] = [text |-> t, mtime |-> m, ctime |-> stamp]
          /\ \A j \in Inode \ {path} : node'[j] = node[j]
      BY <1>1 DEF StoreTypeOK
    <2>2. \A j \in Inode : Moved(j)
      BY <1>1, <2>1 DEF Moved, Mtimes
    <2>3. QED
      BY <2>2 DEF HandRewrite, FilesMove, StoreTypeOK, Time
  <1>7. Stamps' /\ Handles' /\ Stored'
    BY <1>5, <1>6, FilesStep DEF HandRewrite
  <1>8. QED
    BY <1>2, <1>5, <1>7

LEMMA HandReplaceKeeps == ASSUME IInv, HandReplace PROVE IInv'
  <1> USE StoreAssumption DEF IInv, disk, reading
  <1> DEFINE N == [Inode -> [text : Text, mtime : Time, ctime : Time]]
  <1>1. PICK i \in Inode \ InUse, t \in Text, m \in Time :
          /\ m \in Mtimes(i) /\ path' = i
          /\ node' = Touch([node EXCEPT ![i] = [text |-> t, mtime |-> m, ctime |-> stamp]], path)
    <2>1. Edited \subseteq Text
      BY DEF Edited, Set, Text, read_fresh, StoreTypeOK
    <2>2. \A i \in Inode : Mtimes(i) \subseteq Time
      BY DEF Mtimes, StoreTypeOK
    <2>3. QED
      BY <2>1, <2>2 DEF HandReplace, Put
  <1> DEFINE n == [node EXCEPT ![i] = [text |-> t, mtime |-> m, ctime |-> stamp]]
  <1>2. n \in N /\ n[i] = [text |-> t, mtime |-> m, ctime |-> stamp]
        /\ \A j \in Inode \ {i} : n[j] = node[j]
    BY DEF StoreTypeOK
  <1>a. node' = Touch(n, path) /\ path \in Inode \cup {Nothing} /\ path' \in Inode
    BY <1>1 DEF StoreTypeOK
  <1> HIDE DEF n
  <1>3. node' \in N /\ \A j \in Inode :
           /\ node'[j].text = n[j].text /\ node'[j].mtime = n[j].mtime
           /\ node'[j].ctime \in {n[j].ctime, stamp}
           /\ node'[j] = n[j] \/ node'[j].ctime = stamp
    BY <1>2, <1>a, TouchTyped
  <1>4. Held' /\ wr' \in [Writer -> Row]
    BY <1>1, Crossed DEF HandReplace, Held, InUse
  <1>5. StoreTypeOK'
    BY <1>a, <1>3, <1>4 DEF HandReplace, Happens, StoreTypeOK, Row
  <1>6. FilesMove
    <2>1. \A j \in Inode : Moved(j)
      <3>1. Moved(i)
        <4>1. i \in Inode /\ (m = stamp \/ node[i].ctime < stamp)
          BY <1>1 DEF Mtimes
        <4>2. node'[i].mtime = m /\ node'[i].ctime = stamp
          BY <1>2, <1>3, <4>1
        <4>3. QED
          BY <4>1, <4>2 DEF Moved
      <3>2. ASSUME NEW j \in Inode \ {i} PROVE Moved(j)
        BY <1>2, <1>3 DEF Moved
      <3>3. QED
        BY <3>1, <3>2
    <2>2. QED
      BY <2>1 DEF HandReplace, FilesMove, StoreTypeOK, Time
  <1>7. Stamps' /\ Handles' /\ Stored'
    BY <1>5, <1>6, FilesStep DEF HandReplace
  <1>8. QED
    BY <1>4, <1>5, <1>7

LEMMA HandDeleteKeeps == ASSUME IInv, HandDelete PROVE IInv'
  <1> USE StoreAssumption DEF IInv, disk, reading
  <1>1. /\ node' = Touch(node, path) /\ path' = Nothing /\ tmp' = tmp
        /\ node \in [Inode -> [text : Text, mtime : Time, ctime : Time]]
    BY DEF HandDelete, StoreTypeOK
  <1>2. node' \in [Inode -> [text : Text, mtime : Time, ctime : Time]]
        /\ \A j \in Inode : /\ node'[j].text = node[j].text /\ node'[j].mtime = node[j].mtime
                            /\ node'[j] = node[j] \/ node'[j].ctime = stamp
    BY <1>1, TouchTyped DEF StoreTypeOK
  <1>3. Held' /\ wr' \in [Writer -> Row]
    BY <1>1, Crossed DEF HandDelete, Held
  <1>4. StoreTypeOK'
    BY <1>1, <1>2, <1>3 DEF HandDelete, Happens, StoreTypeOK, Row
  <1>5. FilesMove
    <2>1. \A j \in Inode : Moved(j)
      BY <1>2 DEF Moved
    <2>2. QED
      BY <2>1 DEF HandDelete, FilesMove, StoreTypeOK, Time
  <1>6. Stamps' /\ Handles' /\ Stored'
    BY <1>4, <1>5, FilesStep DEF HandDelete
  <1>7. QED
    BY <1>3, <1>4, <1>6

-----------------------------------------------------------------------------
LEMMA Inductive == IInv /\ [StoreNext]_storeVars => IInv'
  <1> SUFFICES ASSUME IInv, [StoreNext]_storeVars PROVE IInv'
    OBVIOUS
  <1>1. ASSUME NEW r \in Reader, Read(r) PROVE IInv'
    BY <1>1, ReadKeeps
  <1>2. ASSUME NEW w \in Writer, Mutate(w) \/ Kill(w) PROVE IInv'
    BY <1>2, MutateOwnKeeps, WriteTmpKeeps, ReplaceKeeps DEF Mutate
  <1>3. CASE UNCHANGED storeVars
    BY <1>3 DEF storeVars, disk, reading, writing, IInv, StoreTypeOK, Stamps, Handles, Stored, Held,
                Vouched, _stat_key, read_fresh
  <1>4. QED
    BY <1>1, <1>2, <1>3, AdvanceKeeps, HandRewriteKeeps, HandReplaceKeeps, HandDeleteKeeps,
       KillAgentKeeps DEF StoreNext

LEMMA Invariant == StoreSpec => []IInv
  <1>1. QED
    BY InitInv, Inductive, PTL DEF StoreSpec

\* The configuration module's type invariant.
THEOREM StoreTypeCorrect == StoreSpec => []StoreTypeOK
  <1>1. IInv => StoreTypeOK
    BY DEF IInv
  <1>2. QED
    BY <1>1, Invariant, PTL

\* While the file has the key of the cached parse, that parse is of its text,
\* however the file was rewritten, replaced or its inode reused
\* (cfgsnapshot.read).
THEOREM CacheIsExact == StoreSpec => []CacheExact
  <1>1. IInv => CacheExact
    BY DEF IInv, Stored, Vouched, _stat_key, StoreTypeOK, Entry, Key, CacheExact
  <1>2. QED
    BY <1>1, Invariant, PTL

\* A save that no hand edit crossed changes nothing but its own entry, whichever
\* process it is made from (Registry.mutate, settings.mutate,
\* seed_firmware_sections).
THEOREM SavesKeep == StoreSpec => SavesKeepOthers
  <1>1. IInv /\ [StoreNext]_storeVars =>
          [\A w \in Writer : (wr[w].pc = "replace" /\ wr'[w].pc = "invalidate" /\ ~wr[w].crossed)
                             => node'[path'].text \ {w} = read_fresh \ {w}]_storeVars
    <2> SUFFICES ASSUME IInv, StoreNext, NEW w \in Writer,
                        wr[w].pc = "replace", wr'[w].pc = "invalidate", ~wr[w].crossed
                 PROVE  node'[path'].text \ {w} = read_fresh \ {w}
      OBVIOUS
    <2>0. /\ tmp \in Inode /\ path \in Inode \cup {Nothing} /\ tmp # Nothing
          /\ node[tmp].text \ {w} = read_fresh \ {w}
      BY StoreAssumption DEF IInv, Held, StoreTypeOK
    <2>1. Replace(w)
      <3>1. wr \in [Writer -> Row]
        BY DEF IInv, StoreTypeOK, Row
      <3>2. ASSUME NEW v \in Writer, Mutate(v) \/ Kill(v) PROVE Replace(w)
        <4>1. v = w
          BY <3>1, <3>2 DEF Row, Mutate, Take, Load, ChangeRegistry, ChangeSettings, ChangeSeed,
             Refuse, WriteTmp, Replace, Invalidate, Release, Kill
        <4>2. QED
          BY <3>1, <3>2, <4>1 DEF Row, Mutate, Take, Load, ChangeRegistry, ChangeSettings,
             ChangeSeed, Refuse, WriteTmp, Invalidate, Release, Kill, NotWriting
      <3>3. wr'[w].pc # wr[w].pc
        OBVIOUS
      <3>4. ASSUME NEW r \in Reader, Read(r) PROVE FALSE
        BY <3>3, <3>4 DEF Read, OpenMissing, Open, StatBefore, Lookup, ReadText, StatAfter, Store,
           Raise, writing
      <3>5. CASE Advance
        BY <3>3, <3>5 DEF Advance, writing
      <3>6. CASE HandRewrite \/ HandReplace \/ HandDelete
        <4>1. wr'[w] = [wr[w] EXCEPT !.crossed = wr[w].pc # "idle"]
          BY <3>6 DEF HandRewrite, HandReplace, HandDelete, Cross
        <4>2. QED
          BY <3>1, <3>3, <4>1 DEF Row
      <3>7. CASE KillAgent
        BY <3>3, <3>7 DEF KillAgent, NotWriting
      <3>8. QED
        BY <3>2, <3>4, <3>5, <3>6, <3>7 DEF StoreNext
    <2>2. path' = tmp /\ node'[tmp].text = node[tmp].text
      <3> DEFINE n == Touch(node, path)
      <3>1. /\ n \in [Inode -> [text : Text, mtime : Time, ctime : Time]]
            /\ n[tmp].text = node[tmp].text
        BY <2>0, TouchTyped DEF IInv, StoreTypeOK
      <3>2. path' = tmp /\ node' = Touch(n, tmp)
        BY <2>1 DEF Replace
      <3> HIDE DEF n
      <3>3. QED
        BY <2>0, <3>1, <3>2, TouchTyped DEF IInv
    <2>3. QED
      BY <2>0, <2>2
  <1>2. QED
    BY <1>1, Invariant, PTL DEF SavesKeepOthers, StoreSpec

-----------------------------------------------------------------------------
(* What a hit hands out *)

HasHandle(r) == rd[r].pc \in {"opened", "lookup", "read", "stat"}

\* What a handle's file has now, it has had since the open, and no writer puts
\* its temporary text into a file somebody reads.
Witnessed ==
    \A r \in Reader : HasHandle(r) => /\ node[rd[r].ino].text \in seen[r]
                                     /\ rd[r].ino # tmp

\* The cache has parse d under key k, or a reader will give it.
Offered(k, d) ==
    \/ cache # Nothing /\ cache.key = k /\ cache.doc = d
    \/ \E q \in Reader : /\ rd[q].entry # Nothing
                        /\ rd[q].entry.key = k /\ rd[q].entry.doc = d
    \/ \E q \in Reader : /\ rd[q].pc = "stat" /\ rd[q].started - rd[q].before.mtime > Window
                        /\ rd[q].before = k /\ rd[q].doc = d

\* Under the key a reader looks up, nothing else is ever offered than a text its
\* own handle has had.
Answers ==
    \A r \in Reader : rd[r].pc = "lookup" =>
        \A d \in Text : Offered(rd[r].before, d) => d \in seen[r]

HInv == IInv /\ Witnessed /\ Answers

LEMMA InitHInv == StoreInit => HInv
  BY InitInv DEF StoreInit, HInv, Witnessed, HasHandle, Answers, NotReading

\* What is offered is vouched for.
LEMMA OfferedVouched ==
  ASSUME IInv, NEW k, NEW d, Offered(k, d)
  PROVE  Vouched(k, d)
  BY DEF IInv, Stored, Handles, Offered

\* Only the reader that steps can offer something new: as its answer to keep, or
\* as what it has just read.
LEMMA OfferedOnly ==
  ASSUME NEW r \in Reader, \A q \in Reader \ {r} : rd'[q] = rd[q],
         cache' = cache \/ cache' = Nothing \/ cache' = rd[r].entry,
         NEW k, NEW d, Offered(k, d)'
  PROVE  \/ Offered(k, d)
         \/ rd'[r].entry # Nothing /\ rd'[r].entry.key = k /\ rd'[r].entry.doc = d
         \/ /\ rd'[r].pc = "stat" /\ rd'[r].started - rd'[r].before.mtime > Window
            /\ rd'[r].before = k /\ rd'[r].doc = d
  <1>1. CASE cache' # Nothing /\ cache'.key = k /\ cache'.doc = d
    BY <1>1 DEF Offered
  <1>2. ASSUME NEW q \in Reader, rd'[q].entry # Nothing, rd'[q].entry.key = k, rd'[q].entry.doc = d
        PROVE  Offered(k, d) \/ q = r
    <2>1. CASE q # r
      BY <1>2, <2>1 DEF Offered
    <2>2. QED
      BY <2>1
  <1>3. ASSUME NEW q \in Reader,
               rd'[q].pc = "stat", rd'[q].started - rd'[q].before.mtime > Window,
               rd'[q].before = k, rd'[q].doc = d
        PROVE  Offered(k, d) \/ q = r
    <2>1. CASE q # r
      <3>1. rd'[q] = rd[q]
        BY <2>1
      <3>2. QED
        BY <1>3, <3>1 DEF Offered
    <2>2. QED
      BY <2>1
  <1>4. \/ cache' # Nothing /\ cache'.key = k /\ cache'.doc = d
        \/ \E q \in Reader : /\ rd'[q].entry # Nothing
                            /\ rd'[q].entry.key = k /\ rd'[q].entry.doc = d
        \/ \E q \in Reader : /\ rd'[q].pc = "stat" /\ rd'[q].started - rd'[q].before.mtime > Window
                            /\ rd'[q].before = k /\ rd'[q].doc = d
    BY DEF Offered
  <1>5. QED
    BY <1>1, <1>2, <1>3, <1>4

\* A step of the disk, the writers or the agent's end: what each handle has is
\* noted, and nobody offers anything new.
LEMMA FilesHit ==
  ASSUME HInv, cache' \in {cache, Nothing},
         \A r \in Reader :
            \/ rd'[r] = NotReading
            \/ /\ rd'[r] = rd[r] /\ seen[r] \subseteq seen'[r]
               /\ HasHandle(r) => /\ node'[rd[r].ino].text \in seen'[r]
                                  /\ rd[r].ino # tmp'
  PROVE  Witnessed' /\ Answers'
  <1>1. NotReading.pc = "idle" /\ NotReading.entry = Nothing
    BY DEF NotReading
  <1> HIDE DEF NotReading
  <1>2. Witnessed'
    BY <1>1 DEF Witnessed, HasHandle
  <1>3. \A k, d : Offered(k, d)' => Offered(k, d)
    BY <1>1 DEF Offered
  <1>4. ASSUME NEW r \in Reader, rd'[r].pc = "lookup", NEW d \in Text, Offered(rd[r].before, d)'
        PROVE  d \in seen'[r]
    <2>1. rd'[r] = rd[r] /\ seen[r] \subseteq seen'[r]
      BY <1>1, <1>4
    <2>2. Offered(rd[r].before, d)
      BY <1>3, <1>4, <2>1
    <2>3. QED
      BY <1>4, <2>1, <2>2 DEF HInv, Answers
  <1>5. QED
    BY <1>2, <1>4 DEF Answers

\* The last fstat and the close leave an entry to store, or none.
LEMMA AfterStat ==
  ASSUME StoreTypeOK, NEW r \in Reader, StatAfter(r)
  PROVE  rd'[r].pc = "store"
  <1>1. PICK e : rd' = [rd EXCEPT ![r] = [NotReading EXCEPT !.pc = "store", !.entry = e]]
    BY DEF StatAfter
  <1>2. rd'[r] = [NotReading EXCEPT !.pc = "store", !.entry = e]
    BY <1>1 DEF StoreTypeOK
  <1>3. QED
    BY <1>2 DEF NotReading

\* A reader's step leaves the disk and every other reader's handle alone; it
\* looks a key up only when that is its file's, and takes as the text of a key
\* only what its file has.
LEMMA ReadHits ==
  ASSUME HInv, NEW r \in Reader, Read(r)
  PROVE  Witnessed' /\ Answers'
  <1> USE StoreAssumption
  <1>0. StoreTypeOK /\ Handles /\ Held /\ Witnessed /\ Answers
    BY DEF HInv, IInv
  <1>1. /\ UNCHANGED <<node, path, tmp>>
        /\ \A q \in Reader \ {r} : rd'[q] = rd[q] /\ seen'[q] = seen[q]
    BY <1>0 DEF Read, OpenMissing, Open, StatBefore, Lookup, Done, ReadText, StatAfter, Store,
                Raise, StoreTypeOK, disk
  <1>2. Witnessed'
    <2>1. CASE Open(r)
      <3>1. rd'[r].ino = path /\ seen'[r] = {node[path].text} /\ path # tmp
        BY <1>0, <2>1 DEF Open, StoreTypeOK, Held
      <3>2. QED
        BY <1>0, <1>1, <3>1 DEF Witnessed, HasHandle
    <2>2. CASE ~Open(r)
      <3> DEFINE Same == /\ rd'[r].ino = rd[r].ino /\ seen'[r] = seen[r]
                         /\ rd[r].pc \in {"opened", "lookup", "read", "stat"}
      <3>1. CASE OpenMissing(r)
        BY <1>0, <1>1, <3>1 DEF OpenMissing, Witnessed, HasHandle
      <3>2. CASE StatBefore(r) \/ ReadText(r)
        <4>1. Same
          BY <1>0, <3>2 DEF StatBefore, ReadText, StoreTypeOK
        <4>2. QED
          BY <1>0, <1>1, <4>1 DEF Witnessed, HasHandle
      <3>3. CASE Lookup(r) /\ ~Hits(r)
        <4>1. Same
          BY <1>0, <3>3 DEF Lookup, StoreTypeOK
        <4>2. QED
          BY <1>0, <1>1, <4>1 DEF Witnessed, HasHandle
      <3>4. CASE (Lookup(r) /\ Hits(r)) \/ StatAfter(r) \/ Store(r) \/ Raise(r)
        <4>1. rd'[r].pc \in {"idle", "store"}
          <5>1. CASE StatAfter(r)
            BY <1>0, <5>1, AfterStat
          <5>2. CASE (Lookup(r) /\ Hits(r)) \/ Store(r) \/ Raise(r)
            BY <1>0, <5>2 DEF Lookup, Done, Store, Raise, StoreTypeOK, NotReading
          <5>3. QED
            BY <3>4, <5>1, <5>2
        <4>2. QED
          BY <1>0, <1>1, <4>1 DEF Witnessed, HasHandle
      <3>5. QED
        BY <2>2, <3>1, <3>2, <3>3, <3>4 DEF Read
    <2>3. QED
      BY <2>1, <2>2
  <1>3. CASE StatBefore(r)
    <2> DEFINE k == _stat_key(rd[r].ino)
    <2>1. /\ rd'[r] = [rd[r] EXCEPT !.pc = "lookup", !.before = k]
          /\ cache' = cache /\ seen' = seen /\ HasHandle(r) /\ rd[r].ino \in Inode
      BY <1>0, <1>3 DEF StatBefore, StoreTypeOK, Handles, HasHandle
    <2>2. /\ rd'[r].pc = "lookup" /\ rd'[r].before = k /\ rd'[r].entry = rd[r].entry
      BY <1>0, <2>1 DEF StoreTypeOK
    <2>3. \A l, d : Offered(l, d)' => Offered(l, d)
      BY <1>1, <2>1, <2>2 DEF Offered
    <2>4. ASSUME NEW d \in Text, Offered(k, d)
          PROVE  d \in seen[r]
      <3>1. Vouched(k, d) /\ k.ino = rd[r].ino
        BY <2>4, OfferedVouched DEF HInv, _stat_key
      <3>2. node[rd[r].ino].text = d
        BY <3>1 DEF Vouched
      <3>3. QED
        BY <1>0, <2>1, <3>2 DEF Witnessed
    <2> HIDE DEF k
    <2>5. ASSUME NEW q \in Reader, rd'[q].pc = "lookup", NEW d \in Text,
                 Offered(rd[q].before, d)'
          PROVE  d \in seen'[q]
      <3>1. Offered(rd'[q].before, d)
        BY <2>3, <2>5
      <3>2. CASE q = r
        BY <2>1, <2>2, <2>4, <3>1, <3>2
      <3>3. CASE q # r
        BY <1>0, <1>1, <2>1, <2>5, <3>1, <3>3 DEF Answers
      <3>4. QED
        BY <3>2, <3>3
    <2>6. QED
      BY <1>2, <2>5 DEF Answers
  <1>4. CASE ReadText(r)
    <2> DEFINE t == node[rd[r].ino].text
    <2>1. /\ rd'[r] = [rd[r] EXCEPT !.pc = "stat", !.doc = t]
          /\ cache' = cache /\ seen' = seen /\ rd[r].pc = "read"
      BY <1>0, <1>4 DEF ReadText, StoreTypeOK
    <2>2. /\ rd'[r].pc = "stat" /\ rd'[r].doc = t /\ rd'[r].before = rd[r].before
          /\ rd'[r].entry = rd[r].entry
      BY <1>0, <2>1 DEF StoreTypeOK
    <2> HIDE DEF t
    <2>3. \A l, d : Offered(l, d)' => Offered(l, d) \/ (l = rd[r].before /\ d = t)
      <3>1. ASSUME NEW l, NEW d, rd[r].entry # Nothing, rd[r].entry.key = l, rd[r].entry.doc = d
            PROVE  Offered(l, d)
        BY <3>1 DEF Offered
      <3>2. ASSUME NEW l, NEW d, Offered(l, d)'
            PROVE  \/ Offered(l, d)
                   \/ rd'[r].entry # Nothing /\ rd'[r].entry.key = l /\ rd'[r].entry.doc = d
                   \/ rd'[r].before = l /\ rd'[r].doc = d
        <4>1. \A q \in Reader \ {r} : rd'[q] = rd[q]
          BY <1>1
        <4>2. cache' = cache
          BY <2>1
        <4>3. QED
          BY ONLY r \in Reader, <4>1, <4>2, <3>2, OfferedOnly
      <3>3. QED
        BY <2>2, <3>1, <3>2
    <2>4. ASSUME NEW q \in Reader, rd'[q].pc = "lookup", NEW d \in Text,
                 Offered(rd[q].before, d)'
          PROVE  d \in seen'[q]
      <3>1. q # r /\ rd'[q] = rd[q] /\ seen'[q] = seen[q] /\ rd[q].pc = "lookup"
        BY <1>1, <2>2, <2>4
      <3>2. CASE Offered(rd[q].before, d)
        BY <1>0, <3>1, <3>2 DEF Answers
      <3>3. CASE rd[q].before = rd[r].before /\ d = t
        <4>1. rd[q].ino = rd[r].ino /\ node[rd[q].ino].text \in seen[q]
          BY <1>0, <2>1, <3>1, <3>3 DEF Handles, Witnessed, HasHandle
        <4>2. QED
          BY <3>1, <3>3, <4>1 DEF t
      <3>4. QED
        BY <2>3, <2>4, <3>1, <3>2, <3>3
    <2>5. QED
      BY <1>2, <2>4 DEF Answers
  <1>5. CASE ~(StatBefore(r) \/ ReadText(r))
    <2>1. \A l, d : Offered(l, d)' => Offered(l, d)
      <3>1. CASE OpenMissing(r)
        BY <3>1 DEF OpenMissing, Offered
      <3>2. CASE Open(r)
        <4>1. /\ rd'[r].pc = "opened" /\ rd'[r].entry = rd[r].entry /\ cache' = cache
          BY <1>0, <3>2 DEF Open, StoreTypeOK
        <4>2. QED
          BY <1>1, <4>1 DEF Offered
      <3>3. CASE Lookup(r)
        <4>1. /\ rd'[r].pc \in {"idle", "read"} /\ rd'[r].entry \in {rd[r].entry, Nothing}
              /\ cache' = cache
          BY <1>0, <3>3 DEF Lookup, Done, NotReading, StoreTypeOK
        <4>2. QED
          BY <1>1, <4>1 DEF Offered
      <3>4. CASE StatAfter(r)
        <4> DEFINE key == _stat_key(rd[r].ino)
                   trusted == key = rd[r].before /\ rd[r].started - key.mtime > Window
                   e == IF trusted THEN [doc |-> rd[r].doc, key |-> key] ELSE Nothing
        <4>1. rd'[r] = [NotReading EXCEPT !.pc = "store", !.entry = e] /\ cache' = cache
          BY <1>0, <3>4 DEF StatAfter, StoreTypeOK
        <4>2. rd'[r].pc = "store" /\ rd'[r].entry = e
          BY <4>1 DEF NotReading
        <4>3. e # Nothing => /\ rd[r].pc = "stat" /\ rd[r].started - rd[r].before.mtime > Window
                          /\ e.key = rd[r].before /\ e.doc = rd[r].doc
          BY <3>4 DEF StatAfter
        <4> HIDE DEF e
        <4>4. ASSUME NEW l, NEW d, e # Nothing, e.key = l, e.doc = d
              PROVE  Offered(l, d)
          BY <4>3, <4>4 DEF Offered
        <4>5. QED
          BY <1>1, <4>1, <4>2, <4>4, OfferedOnly
      <3>5. CASE Store(r) \/ Raise(r)
        <4>1. /\ rd'[r].pc = "idle" /\ rd'[r].entry = Nothing
              /\ cache' \in {cache, rd[r].entry}
          BY <1>0, <3>5 DEF Store, Raise, Done, NotReading, StoreTypeOK
        <4>2. QED
          BY <1>1, <4>1 DEF Offered
      <3>6. QED
        BY <1>5, <3>1, <3>2, <3>3, <3>4, <3>5 DEF Read
    <2>2. rd'[r].pc # "lookup" \/ (rd'[r] = rd[r] /\ seen'[r] = seen[r])
      <3>1. CASE OpenMissing(r)
        BY <3>1 DEF OpenMissing
      <3>2. CASE Open(r)
        BY <1>0, <3>2 DEF Open, StoreTypeOK
      <3>3. CASE Lookup(r)
        BY <1>0, <3>3 DEF Lookup, Done, NotReading, StoreTypeOK
      <3>4. CASE Store(r) \/ Raise(r)
        BY <1>0, <3>4 DEF Store, Raise, Done, NotReading, StoreTypeOK
      <3>5. CASE StatAfter(r)
        BY <1>0, <3>5, AfterStat
      <3>6. QED
        BY <1>5, <3>1, <3>2, <3>3, <3>4, <3>5 DEF Read
    <2>3. ASSUME NEW q \in Reader, rd'[q].pc = "lookup", NEW d \in Text,
                 Offered(rd[q].before, d)'
          PROVE  d \in seen'[q]
      <3>1. rd'[q] = rd[q] /\ seen'[q] = seen[q] /\ Offered(rd[q].before, d)
        BY <1>1, <2>1, <2>2, <2>3
      <3>2. QED
        BY <1>0, <2>3, <3>1 DEF Answers
    <2>4. QED
      BY <1>2, <2>3 DEF Answers
  <1>6. QED
    BY <1>3, <1>4, <1>5

\* The writers, the user and kills.
LEMMA OthersHit ==
  ASSUME HInv,
         \/ Advance \/ HandRewrite \/ HandReplace \/ HandDelete \/ KillAgent
         \/ \E w \in Writer : Mutate(w) \/ Kill(w)
  PROVE  Witnessed' /\ Answers'
  <1> USE StoreAssumption DEF disk, reading, writing
  <1>0. StoreTypeOK /\ Handles /\ Held /\ Witnessed
    BY DEF HInv, IInv
  <1>h. \A r \in Reader : HasHandle(r) =>
           /\ rd[r].ino \in Inode /\ rd[r].ino # tmp /\ node[rd[r].ino].text \in seen[r]
    BY <1>0 DEF Handles, Witnessed, HasHandle
  <1>1. CASE Advance \/ KillAgent
    BY <1>1, <1>h, FilesHit DEF Advance, KillAgent
  <1>2. ASSUME NEW w \in Writer, Mutate(w) \/ Kill(w), ~WriteTmp(w), ~Replace(w)
        PROVE  Witnessed' /\ Answers'
    <2>1. UNCHANGED <<node, tmp, rd, seen>> /\ cache' \in {cache, Nothing}
      BY <1>2 DEF Mutate, Take, Load, ChangeRegistry, ChangeSettings, ChangeSeed, Refuse,
         Invalidate, Release, Kill
    <2>2. QED
      BY <1>h, <2>1, FilesHit
  <1>3. ASSUME NEW w \in Writer, WriteTmp(w)
        PROVE  Witnessed' /\ Answers'
    <2>1. PICK i \in IF tmp = Nothing THEN Inode \ InUse ELSE {tmp} :
            /\ tmp' = i
            /\ node' = Put(i, wr[w].doc, stamp) \/ node' = Put(i, {}, stamp)
      BY <1>3 DEF WriteTmp
    <2>2. \A r \in Reader : HasHandle(r) => rd[r].ino # i
      BY <1>h, <2>1 DEF InUse
    <2>3. \A j \in Inode \ {i} : node'[j] = node[j]
      BY <1>0, <2>1 DEF Put, StoreTypeOK
    <2>4. UNCHANGED <<rd, seen, cache>>
      BY <1>3 DEF WriteTmp
    <2>5. QED
      BY <1>h, <2>1, <2>2, <2>3, <2>4, FilesHit
  <1>4. ASSUME NEW w \in Writer, Replace(w)
        PROVE  Witnessed' /\ Answers'
    <2> DEFINE n == Touch(node, path)
    <2>1. /\ n \in [Inode -> [text : Text, mtime : Time, ctime : Time]]
          /\ \A j \in Inode : n[j].text = node[j].text
      BY <1>0, TouchTyped DEF StoreTypeOK
    <2>2. node' = Touch(n, tmp) /\ tmp' = Nothing /\ UNCHANGED <<rd, seen, cache>>
      BY <1>4 DEF Replace
    <2> HIDE DEF n
    <2>a. tmp \in Inode \cup {Nothing}
      BY <1>0 DEF StoreTypeOK
    <2>3. \A j \in Inode : node'[j].text = node[j].text
      BY <1>0, <2>1, <2>2, <2>a, TouchTyped
    <2>4. QED
      BY <1>h, <2>2, <2>3, FilesHit
  <1>5. CASE HandRewrite
    <2>1. PICK t, m : node' = Put(path, t, m) /\ seen' = Witness(path, t)
      BY <1>5 DEF HandRewrite
    <2>2. path \in Inode /\ UNCHANGED <<rd, cache, tmp>>
      BY <1>0, <1>5 DEF HandRewrite, StoreTypeOK
    <2>3. /\ node'[path].text = t
          /\ \A j \in Inode \ {path} : node'[j] = node[j]
      BY <1>0, <2>1, <2>2 DEF Put, StoreTypeOK
    <2>4. \A r \in Reader : seen'[r] = IF rd[r].ino = path THEN seen[r] \cup {t} ELSE seen[r]
      BY <2>1 DEF Witness
    <2>5. QED
      BY <1>h, <2>2, <2>3, <2>4, FilesHit
  <1>6. CASE HandReplace
    <2>1. PICK i \in Inode \ InUse, t \in Text, m \in Time : node' = Touch(Put(i, t, m), path)
      <3>1. Edited \subseteq Text /\ \A i \in Inode : Mtimes(i) \subseteq Time
        BY <1>0 DEF Edited, Set, Text, read_fresh, StoreTypeOK, Mtimes
      <3>2. QED
        BY <1>6, <3>1 DEF HandReplace
    <2> DEFINE n == Put(i, t, m)
    <2>2. /\ n \in [Inode -> [text : Text, mtime : Time, ctime : Time]]
          /\ \A j \in Inode \ {i} : n[j] = node[j]
      BY <1>0 DEF Put, StoreTypeOK
    <2>a. node' = Touch(n, path) /\ path \in Inode \cup {Nothing}
      BY <1>0, <2>1 DEF StoreTypeOK
    <2> HIDE DEF n
    <2>3. \A j \in Inode \ {i} : node'[j].text = node[j].text
      BY <1>0, <2>2, <2>a, TouchTyped
    <2>4. \A r \in Reader : HasHandle(r) => rd[r].ino # i
      BY DEF InUse
    <2>5. UNCHANGED <<rd, seen, cache, tmp>>
      BY <1>6 DEF HandReplace
    <2>6. QED
      BY <1>h, <2>3, <2>4, <2>5, FilesHit
  <1>7. CASE HandDelete
    <2>0. /\ node' = Touch(node, path) /\ path \in Inode \cup {Nothing}
          /\ node \in [Inode -> [text : Text, mtime : Time, ctime : Time]]
      BY <1>0, <1>7 DEF HandDelete, StoreTypeOK
    <2>1. \A j \in Inode : node'[j].text = node[j].text
      BY <1>0, <2>0, TouchTyped
    <2>2. UNCHANGED <<rd, seen, cache, tmp>>
      BY <1>7 DEF HandDelete
    <2>3. QED
      BY <1>h, <2>1, <2>2, FilesHit
  <1>8. QED
    BY <1>1, <1>2, <1>3, <1>4, <1>5, <1>6, <1>7

LEMMA InductiveHits == HInv /\ [StoreNext]_storeVars => HInv'
  <1> SUFFICES ASSUME HInv, [StoreNext]_storeVars PROVE HInv'
    OBVIOUS
  <1>1. IInv'
    BY Inductive DEF HInv
  <1>2. CASE UNCHANGED storeVars
    BY <1>1, <1>2 DEF storeVars, disk, reading, writing, HInv, Witnessed, HasHandle, Answers, Offered
  <1>3. CASE StoreNext
    BY <1>1, <1>3, ReadHits, OthersHit DEF StoreNext, HInv
  <1>4. QED
    BY <1>2, <1>3

\* A reader that is handed the cached parse is handed a text its own handle had
\* since its open, whoever filled the cache and however late (cfgsnapshot.read).
THEOREM HitsReal == StoreSpec => []HitsAreReal
  <1>1. HInv => HitsAreReal
    <2> SUFFICES ASSUME HInv, NEW r \in Reader, rd[r].pc = "lookup", Hits(r)
                 PROVE  cache.doc \in seen[r]
      BY DEF HitsAreReal
    <2>1. Offered(rd[r].before, cache.doc) /\ cache.doc \in Text
      BY DEF Hits, Offered, HInv, IInv, StoreTypeOK, Entry
    <2>2. QED
      BY <2>1 DEF HInv, Answers
  <1>2. QED
    BY InitHInv, InductiveHits, <1>1, PTL DEF StoreSpec
=============================================================================
