--------------------------- MODULE AdoptionProofs ---------------------------
(***************************************************************************)
(* For any boards, serials, types, clients and pairings: no name of a      *)
(* board is lost, no tracked board is renamed by the agent, no board gets  *)
(* two types but by late adoption, and a pairing acts while it is owed.    *)
(***************************************************************************)
EXTENDS Adoption, TLAPS, FiniteSetTheorems

\* One identity change of the agent at a time.
Holds == \A a \in Handler : desk[a].pc # "idle" => identity = a

\* A type that is not declared tracks nothing.
Emptied == \A t \in Type \ declared : ids[t] = {}

\* A serial that is to be replaced is not tracked where it would be.
Replaced == \A t \in Helped : ids[t] \cap Diagnostic = {}

\* What is about to be tracked is a durable name just given, or needs none.
Recording ==
    \A a \in Asker : desk[a].pc = "record" =>
        IF desk[a].got = None
        THEN desk[a].id \in Serial /\ is_trackable(desk[a].type, desk[a].id)
        ELSE desk[a].got \in Durable

\* The name that the agent is about to write over is tracked nowhere.
Untracked ==
    \A a \in Handler : desk[a].pc \in {"lock", "write"} =>
        /\ desk[a].id \in Diagnostic \cup Durable
        /\ clash \/ find_declared_types(desk[a].id) = {}

Desks == Holds /\ Emptied /\ Replaced /\ Recording /\ Untracked

\* A pairing that may be acted on is one that is owed.
Paired == crossed \/ \A k \in Key : fresh(pairings[k]) => owed[k] = pairings[k]

\* A request on its asker's desk.
Slip == [pc : Pc, op : {"none", "add", "provision", "clear"},
         type : Type \cup {None}, id : Serial \cup {None}, got : Serial \cup {None}]

\* What the bus watcher and the install job keep.
Watching == [pc : {"idle", "adopt", "each", "forget", "forgetting", "pruning",
                   "provision", "write"},
             seen : SUBSET Serial, retry : BOOLEAN, names : SUBSET Type,
             todo : SUBSET Serial, keys : SUBSET Key,
             key : Key \cup {None}, snap : Pairings]
Installing == [pc : {"idle", "write", "read", "record", "wait"},
               type : Type \cup {None}, key : Key \cup {None}, snap : Pairings]

\* The names that somebody was told, and those that an OSError swallowed.
Given == known \cup unsaid

IInv == TypeOK /\ Desks /\ Paired /\ NameIsKnown

-----------------------------------------------------------------------------
(* What a step that leaves a part alone does to it *)

LEMMA DesksKept ==
    ASSUME Desks, UNCHANGED <<declared, ids, desk, identity, clash>>
    PROVE  Desks'
BY DEF Desks, Holds, Emptied, Replaced, Recording, Untracked, is_trackable,
       find_declared_types

LEMMA NamesKept ==
    ASSUME NameIsKnown, UNCHANGED <<name, known, unsaid, desk>>
    PROVE  NameIsKnown'
BY DEF NameIsKnown

LEMMA PairsKept ==
    ASSUME Paired, UNCHANGED <<pairings, owed, crossed, now>>
    PROVE  Paired'
BY DEF Paired, fresh

\* A request that is not past its write may move on, if a name that it gives
\* is said or is being recorded.
LEMMA NamesMove ==
    ASSUME NameIsKnown, NEW a \in Asker, Given \subseteq Given',
           desk[a].pc = "record" => desk[a].got \in Given' \cup {None},
           \A e \in Asker \ {a} : desk'[e] = desk[e],
           \A b \in Board : name[b] # None,
           \A b \in Board : \/ name'[b] = name[b]
                            \/ name'[b] \in Given' \cup (Serial \ Durable)
                            \/ desk'[a].pc = "record" /\ desk'[a].got = name'[b]
    PROVE  NameIsKnown'
<1>1. ASSUME NEW b \in Board, name'[b] \in Durable
      PROVE  \/ name'[b] \in Given'
             \/ \E e \in Asker : desk'[e].pc = "record" /\ desk'[e].got = name'[b]
  <2>1. CASE name'[b] # name[b]
    BY <1>1, <2>1
  <2>2. CASE name'[b] = name[b] /\ name[b] \in Given
    BY <2>2
  <2>3. CASE name'[b] = name[b] /\ name[b] \notin Given
    <3>1. PICK e \in Asker : desk[e].pc = "record" /\ desk[e].got = name[b]
      BY <1>1, <2>3 DEF NameIsKnown, Given
    <3>2. CASE e = a
      BY <2>3, <3>1, <3>2
    <3>3. CASE e # a
      BY <2>3, <3>1, <3>3
    <3> QED BY <3>2, <3>3
  <2> QED BY <2>1, <2>2, <2>3
<1> QED BY <1>1 DEF NameIsKnown, Given

\* The names are safe while boards keep theirs, nothing said is forgotten, and
\* no request is past its write.
LEMMA NamesSafe ==
    ASSUME NameIsKnown, UNCHANGED <<name, known, unsaid>>,
           \A a \in Asker : desk[a].pc = "record" => desk'[a] = desk[a]
    PROVE  NameIsKnown'
BY DEF NameIsKnown

-----------------------------------------------------------------------------
LEMMA InitInv == Init => IInv
<1> SUFFICES ASSUME Init PROVE IInv
  OBVIOUS
<1> USE AdoptionAssumption DEF Init
<1>1. pairings \in Pairings
  BY DEF Pairings, Entry, NoEntry
<1>2. Idle \in Slip
  BY DEF Idle, Pc, Slip
<1>3. name \in [Board -> Serial] /\ used \subseteq Serial
  OBVIOUS
<1>4. TypeOK
  <2>1. watcher \in Watching
    BY <1>1 DEF Watching
  <2>2. job \in Installing
    BY <1>1 DEF Installing
  <2>3. desk \in [Asker -> Slip]
    BY <1>2
  <2>4. ids \in [Type -> SUBSET Id] /\ now \in 0 .. MaxNow /\ asks \in 0 .. MaxAsks
          /\ events \in 0 .. MaxEvents
    OBVIOUS
  <2>5. /\ declared \subseteq Type /\ bus \subseteq Board /\ known \subseteq Serial /\ unsaid \subseteq Serial
        /\ writable \in BOOLEAN /\ crossed \in BOOLEAN /\ clash \in BOOLEAN
        /\ dropped \in BOOLEAN /\ owed \in Pairings
        /\ oplock \in Asker \cup {Watcher, Job, None} /\ identity \in Handler \cup {None}
    BY <1>1
  <2> QED BY <1>1, <1>3, <2>1, <2>2, <2>3, <2>4, <2>5 DEF TypeOK, Slip, Watching, Installing
<1>5. Desks
  BY DEF Desks, Holds, Emptied, Replaced, Recording, Untracked, Idle, Asker
<1>6. NameIsKnown
  BY DEF NameIsKnown
<1>7. Paired
  BY DEF Paired
<1> QED BY <1>4, <1>5, <1>6, <1>7 DEF IInv

-----------------------------------------------------------------------------
(* The registry document *)

\* Untracking, on whatever grounds, and the end of a type.
LEMMA RemoveInv ==
    ASSUME IInv, NEW t \in Type,
           \/ \E i \in Id : serial_remove(t, i) \/ canbus_remove(t, i)
           \/ \E force \in BOOLEAN : type_remove(t, force)
    PROVE  IInv'
<1> USE AdoptionAssumption DEF IInv, told, registry, boards, file, locks
<1>1. /\ declared' \subseteq declared
      /\ ids' \in [Type -> SUBSET Id] /\ \A u \in Type : ids'[u] \subseteq ids[u]
      /\ \A u \in declared \ declared' : ids'[u] = {}
      /\ asks' \in 0 .. MaxAsks
      /\ UNCHANGED <<name, used, bus, pairings, now, writable, oplock, identity, desk,
                     watcher, job, owed, crossed, clash, known, unsaid, dropped, events>>
  <2>1. asks' \in 0 .. MaxAsks
    BY DEF serial_remove, canbus_remove, type_remove, Asks, TypeOK
  <2>2. ASSUME NEW i \in Id, serial_remove(t, i) \/ canbus_remove(t, i)
        PROVE  /\ declared' = declared /\ ids' = [ids EXCEPT ![t] = @ \ {i}]
               /\ UNCHANGED <<name, used, bus, pairings, now, writable, oplock, identity,
                     desk, watcher, job, owed, crossed, clash, known, unsaid, dropped, events>>
    BY <2>2 DEF serial_remove, canbus_remove, remove_declared
  <2>3. ASSUME NEW force, type_remove(t, force)
        PROVE  /\ declared' = declared \ {t} /\ ids' = [ids EXCEPT ![t] = {}]
               /\ UNCHANGED <<name, used, bus, pairings, now, writable, oplock, identity,
                     desk, watcher, job, owed, crossed, clash, known, unsaid, dropped, events>>
    BY <2>3 DEF type_remove
  <2>4. ids \in [Type -> SUBSET Id]
    BY DEF TypeOK
  <2>5. CASE \E i \in Id : serial_remove(t, i) \/ canbus_remove(t, i)
    <3>1. PICK i \in Id : serial_remove(t, i) \/ canbus_remove(t, i)
      BY <2>5
    <3>2. declared' = declared /\ ids' = [ids EXCEPT ![t] = @ \ {i}]
      BY <2>2, <3>1
    <3>3. ids' \in [Type -> SUBSET Id] /\ \A u \in Type : ids'[u] \subseteq ids[u]
      BY <2>4, <3>2
    <3> QED BY <2>1, <2>2, <3>1, <3>2, <3>3
  <2>6. CASE \E force \in BOOLEAN : type_remove(t, force)
    BY <2>1, <2>3, <2>4, <2>6
  <2> QED BY <2>5, <2>6
<1>2. TypeOK'
  BY <1>1 DEF TypeOK
<1>3. Desks'
  BY <1>1 DEF TypeOK, Desks, Holds, Emptied, Replaced, Recording, Untracked, is_trackable,
              find_declared_types
<1> QED BY <1>1, <1>2, <1>3, NamesKept, PairsKept

LEMMA CanbusAddInv ==
    ASSUME IInv, NEW t \in Type, NEW u \in Uuid, canbus_add(t, u)
    PROVE  IInv'
<1> USE AdoptionAssumption DEF IInv, canbus_add, told, registry, boards, file, locks
<1>1. /\ ids' = [ids EXCEPT ![t] = @ \cup {u}] /\ t \in declared
      /\ ids' \in [Type -> SUBSET Id] /\ asks' \in 0 .. MaxAsks
  BY DEF add_declared, Asks, TypeOK, Id
<1>2. TypeOK'
  BY <1>1 DEF TypeOK
<1>3. \A v \in Type, i \in Serial : i \in ids'[v] <=> i \in ids[v]
  BY <1>1 DEF TypeOK
<1>4. \A i \in Serial : find_declared_types(i)' = find_declared_types(i)
  BY <1>3 DEF find_declared_types, TypeOK
<1>5. Emptied' /\ Replaced'
  BY <1>1, <1>3 DEF Desks, Emptied, Replaced, TypeOK
<1>6. Holds' /\ Recording' /\ Untracked'
  BY <1>4 DEF Desks, Holds, Recording, Untracked, is_trackable
<1> QED BY <1>2, <1>5, <1>6, NamesKept, PairsKept DEF Desks

\* A type that comes back is one that Kconfig+make builds: no helper's.
LEMMA TypeAddInv ==
    ASSUME IInv, NEW t \in Type, type_add(t)
    PROVE  IInv'
<1> USE AdoptionAssumption DEF IInv, type_add, told, registry, boards, file, locks
<1>1. TypeOK'
  BY DEF TypeOK, Asks
<1>2. Helped \cap declared' = Helped \cap declared
  OBVIOUS
<1>3. \A i : find_declared_types(i)' = find_declared_types(i)
  BY DEF find_declared_types, Desks, Emptied, TypeOK
<1>4. Desks'
  BY <1>2, <1>3 DEF Desks, Holds, Emptied, Replaced, Recording, Untracked, is_trackable, TypeOK
<1> QED BY <1>1, <1>4, NamesKept, PairsKept

-----------------------------------------------------------------------------
(* Requests *)

\* A request that begins: its asker was idle, and a handler takes the identity
\* lock; where it is about to write, no type tracks the serial.
LEMMA RequestInv ==
    ASSUME IInv, NEW a \in Asker, NEW op \in {"add", "provision", "clear"},
           NEW t \in Type \cup {None}, NEW i \in Serial, NEW pc \in {"lock", "record"},
           _identity_change(a), Request(a, op, t, i, pc),
           pc = "record" => is_trackable(t, i),
           pc = "lock" => i \in Diagnostic \cup Durable /\ find_declared_types(i) = {},
           UNCHANGED <<told, registry, boards, file, now, writable, oplock, watcher,
                       job, clash, events>>
    PROVE  IInv'
<1> USE AdoptionAssumption DEF IInv, told, registry, boards, file
<1>1. desk[a].pc = "idle" /\ asks' \in 0 .. MaxAsks
  BY DEF _identity_change, Asks, TypeOK
<1>2. identity' \in Handler \cup {None} /\ (a \in Handler => identity' = a)
  BY DEF _identity_change, TypeOK
<1>3. /\ desk' = [desk EXCEPT ![a] = desk'[a]]
      /\ desk'[a] \in Slip
      /\ desk'[a].pc = pc /\ desk'[a].type = t /\ desk'[a].id = i /\ desk'[a].got = None
  BY DEF Request, Idle, Pc, TypeOK, Slip
<1>4. desk' \in [Asker -> Slip]
  BY <1>3 DEF TypeOK, Slip
<1>5. \A b \in Asker \ {a} : desk'[b] = desk[b]
  BY <1>3 DEF TypeOK
<1>6. TypeOK'
  BY <1>1, <1>2, <1>4 DEF TypeOK, Slip
<1>7. Holds'
  <2>1. ASSUME NEW h \in Handler, desk'[h].pc # "idle" PROVE identity' = h
    <3>1. CASE h = a
      BY <1>2, <3>1
    <3>2. CASE h # a
      <4>1. identity = h
        BY <1>5, <2>1, <3>2 DEF Desks, Holds, Asker
      <4>2. h # None
        BY DEF Asker
      <4> QED BY <4>1, <4>2, <3>2 DEF _identity_change
    <3> QED BY <3>1, <3>2
  <2> QED BY <2>1 DEF Holds
<1>8. Emptied' /\ Replaced'
  BY DEF Desks, Emptied, Replaced
<1>9. Recording'
  <2>1. \A u, j : is_trackable(u, j)' = is_trackable(u, j)
    BY DEF is_trackable
  <2>2. ASSUME NEW b \in Asker, desk'[b].pc = "record"
        PROVE  IF desk'[b].got = None
               THEN desk'[b].id \in Serial /\ is_trackable(desk'[b].type, desk'[b].id)
               ELSE desk'[b].got \in Durable
    BY <2>2, <1>3, <1>5 DEF Desks, Recording
  <2> QED BY <2>1, <2>2 DEF Recording
<1>10. Untracked'
  BY <1>3, <1>5 DEF Desks, Untracked, find_declared_types, Asker
<1>11. NameIsKnown'
  BY <1>1, <1>5, NamesSafe
<1> QED BY <1>6, <1>7, <1>8, <1>9, <1>10, <1>11, PairsKept DEF Desks

LEMMA AskInv ==
    ASSUME IInv, NEW a \in Asker, NEW i \in Serial,
           \/ \E t \in Type : add_serial(a, t, i)
           \/ \E op \in {"provision", "clear"} : identity_method(a, op, i)
    PROVE  IInv'
<1> USE AdoptionAssumption
<1>1. CASE \E t \in Type : add_serial(a, t, i)
  <2>1. PICK t \in Type : add_serial(a, t, i)
    BY <1>1
  <2> USE <2>1 DEF add_serial
  <2>2. CASE is_trackable(t, i)
    BY <2>2, RequestInv
  <2>3. CASE ~is_trackable(t, i)
    <3>1. i \in Diagnostic /\ t \in Helped
      BY <2>3 DEF is_trackable
    <3>2. find_declared_types(i) = {}
      BY <2>3, <3>1 DEF elsewhere, find_declared_types, IInv, Desks, Replaced
    <3> QED BY <2>3, <3>1, <3>2, RequestInv
  <2> QED BY <2>2, <2>3
<1>2. CASE \E op \in {"provision", "clear"} : identity_method(a, op, i)
  <2>1. PICK op \in {"provision", "clear"} : identity_method(a, op, i)
    BY <1>2
  <2>2. i \in Diagnostic \cup Durable
    BY <2>1 DEF identity_method
  <2> QED BY <2>1, <2>2, RequestInv DEF identity_method
<1> QED BY <1>1, <1>2

\* A request that ends here gives the identity lock back.
LEMMA DoneDesks ==
    ASSUME TypeOK, Desks, NEW a \in Asker, Done(a), desk[a].pc # "idle",
           Emptied', Replaced',
           declared' = declared,
           \A h \in Handler \ {a} :
               desk[h].pc \in {"lock", "write"} =>
                   clash' \/ {t \in declared' : desk[h].id \in ids'[t]} = {}
    PROVE  Desks'
<1> USE AdoptionAssumption DEF Desks
<1>1. desk'[a].pc = "idle" /\ \A b \in Asker \ {a} : desk'[b] = desk[b]
  BY DEF Done, Idle, TypeOK
<1>2. Holds'
  BY <1>1 DEF Holds, Done, Asker
<1>3. Recording'
  BY <1>1 DEF Recording, is_trackable
<1>4. Untracked'
  BY <1>1 DEF Untracked, Asker, find_declared_types
<1> QED BY <1>2, <1>3, <1>4

LEMMA DoneType ==
    ASSUME TypeOK, NEW a \in Asker, Done(a)
    PROVE  /\ desk' \in [Asker -> Slip]
           /\ identity' \in Handler \cup {None}
           /\ \A b \in Asker \ {a} : desk'[b] = desk[b]
BY DEF TypeOK, Done, Idle, Pc, Slip
LEMMA TakeLockInv ==
    ASSUME IInv, NEW a \in Asker, TakeLock(a)
    PROVE  IInv'
<1> USE AdoptionAssumption DEF IInv, TakeLock, told, registry, boards, file
<1>1. CASE oplock # None
  <2>1. TypeOK'
    BY <1>1, DoneType DEF TypeOK, Slip
  <2>2. \A i : find_declared_types(i)' = find_declared_types(i)
    BY DEF find_declared_types
  <2>3. Desks'
    BY <1>1, <2>2, DoneDesks DEF Desks, Emptied, Replaced, Untracked, find_declared_types
  <2>4. NameIsKnown'
    BY <1>1, DoneType, NamesSafe
  <2> QED BY <2>1, <2>3, <2>4, PairsKept
<1>2. CASE oplock = None
  <2>1. oplock' = a /\ desk' = [desk EXCEPT ![a].pc = "write"] /\ identity' = identity
    BY <1>2 DEF Asker
  <2>2. desk' \in [Asker -> Slip]
    <3>1. [desk[a] EXCEPT !.pc = "write"] \in Slip
      <4>1. desk[a] \in Slip
        BY DEF TypeOK, Slip
      <4> QED BY <4>1 DEF Pc, Slip
    <3> QED BY <2>1, <3>1 DEF TypeOK, Slip
  <2>3. TypeOK'
    BY <2>1, <2>2 DEF TypeOK, Slip
  <2>4. /\ desk'[a].pc = "write" /\ desk'[a].id = desk[a].id
        /\ \A b \in Asker \ {a} : desk'[b] = desk[b]
    BY <2>1 DEF TypeOK
  <2>5. Desks'
    BY <2>1, <2>4 DEF Desks, Holds, Emptied, Replaced, Recording, Untracked, Asker,
                       is_trackable, find_declared_types
  <2>6. NameIsKnown'
    BY <2>4, NamesSafe
  <2> QED BY <2>3, <2>5, <2>6, PairsKept
<1> QED BY <1>1, <1>2

\* A new name is said, or is being recorded.
LEMMA WriteIdentityInv ==
    ASSUME IInv, NEW a \in Asker, WriteIdentity(a)
    PROVE  IInv'
<1> USE AdoptionAssumption DEF IInv, told, registry, boards, file
<1>1. /\ desk[a].pc = "write" /\ oplock' = None
      /\ UNCHANGED <<declared, ids, pairings, owed, crossed, now, writable, watcher,
                     job, clash, asks, events>>
  BY DEF WriteIdentity
<1>2. Emptied' /\ Replaced' /\ \A i : find_declared_types(i)' = find_declared_types(i)
  BY <1>1 DEF Desks, Emptied, Replaced, find_declared_types
<1>3. CASE Done(a) /\ UNCHANGED <<boards, told>>
  <2>1. TypeOK'
    BY <1>1, <1>3, DoneType DEF TypeOK, Slip
  <2>2. Desks'
    BY <1>1, <1>2, <1>3, DoneDesks DEF Desks, Untracked, find_declared_types
  <2>3. NameIsKnown'
    BY <1>1, <1>3, DoneType, NamesSafe
  <2> QED BY <1>1, <2>1, <2>2, <2>3, PairsKept
<1>5. \A b \in Board : name[b] # None
  BY DEF TypeOK, Id
<1>4. ASSUME NEW b \in Named(desk[a].id), NEW n \in NewNames(b, desk[a].op), Rename(b, n),
             \/ /\ desk[a].op = "add"
                /\ desk' = [desk EXCEPT ![a].pc = "record", ![a].got = n]
                /\ UNCHANGED <<identity, told>>
             \/ Done(a) /\ Tell(n)
      PROVE  IInv'
  <2>1. b \in Board /\ n \in Serial /\ (n \in Durable \/ n = Factory[b])
    BY <1>4 DEF Named, NewNames, TypeOK
  <2>2. /\ name' = [name EXCEPT ![b] = n] /\ name' \in [Board -> Serial]
        /\ used' \subseteq Serial /\ bus' = bus
        /\ \A c \in Board \ {b} : name'[c] = name[c]
        /\ name'[b] = n
    BY <1>4, <2>1 DEF Rename, TypeOK
  <2>3. CASE /\ desk[a].op = "add"
             /\ desk' = [desk EXCEPT ![a].pc = "record", ![a].got = n]
             /\ UNCHANGED <<identity, told>>
    <3>1. n \in Durable
      BY <1>4, <2>3 DEF NewNames
    <3>2. /\ desk'[a].pc = "record" /\ desk'[a].got = n
          /\ \A c \in Asker \ {a} : desk'[c] = desk[c]
      BY <2>3 DEF TypeOK
    <3>3. desk' \in [Asker -> Slip]
      <4>1. [desk[a] EXCEPT !.pc = "record", !.got = n] \in Slip
        <5>1. desk[a] \in Slip
          BY DEF TypeOK, Slip
        <5> QED BY <5>1, <2>1 DEF Pc, Slip
      <4> QED BY <2>3, <4>1 DEF TypeOK, Slip
    <3>4. TypeOK'
      BY <1>1, <2>2, <2>3, <3>3 DEF TypeOK, Slip
    <3>5. n # None /\ Durable \subseteq Serial
      BY <2>1 DEF Id
    <3>6. \A u, j : is_trackable(u, j)' = is_trackable(u, j)
      BY <1>1 DEF is_trackable
    <3>7. Recording'
      BY <3>1, <3>2, <3>5, <3>6 DEF Desks, Recording
    <3>8. Holds' /\ Untracked'
      BY <1>1, <1>2, <2>3, <3>2 DEF Desks, Holds, Untracked, Asker
    <3>9. NameIsKnown'
      <4>1. Given' = Given
        BY <2>3 DEF Given
      <4>2. \A c \in Board : name'[c] = name[c] \/ (desk'[a].pc = "record" /\ desk'[a].got = name'[c])
        BY <2>2, <3>2
      <4>3. desk[a].pc # "record"
        BY <1>1
      <4>4. Given \subseteq Given' /\ NameIsKnown
        BY <4>1
      <4>5. desk[a].pc = "record" => desk[a].got \in Given' \cup {None}
        BY <4>3
      <4>6. \A c \in Board : \/ name'[c] = name[c]
                             \/ name'[c] \in Given' \cup (Serial \ Durable)
                             \/ desk'[a].pc = "record" /\ desk'[a].got = name'[c]
        BY <4>2
      <4> QED BY <4>4, <4>5, <4>6, <3>2, <1>5, NamesMove
    <3> QED BY <1>1, <1>2, <3>4, <3>7, <3>8, <3>9, PairsKept DEF Desks
  <2>4. CASE Done(a) /\ Tell(n)
    <3>1. known' = known \cup {n} /\ unsaid' = unsaid /\ dropped' = dropped
      BY <2>1, <2>4 DEF Tell, Id
    <3>2. TypeOK'
      BY <1>1, <2>1, <2>2, <2>4, <3>1, DoneType DEF TypeOK, Slip
    <3>3. Desks'
      BY <1>1, <1>2, <2>4, DoneDesks DEF Desks, Untracked, find_declared_types
    <3>4. \A c \in Asker \ {a} : desk'[c] = desk[c]
      BY <2>4, DoneType
    <3>5. NameIsKnown'
      <4>1. \A c \in Board : name'[c] = name[c] \/ name'[c] \in Given'
        BY <2>2, <3>1 DEF Given
      <4>2. desk[a].pc # "record"
        BY <1>1
      <4>3. Given \subseteq Given' /\ NameIsKnown
        BY <3>1 DEF Given
      <4>4. desk[a].pc = "record" => desk[a].got \in Given' \cup {None}
        BY <4>2
      <4>5. \A c \in Board : \/ name'[c] = name[c]
                             \/ name'[c] \in Given' \cup (Serial \ Durable)
                             \/ desk'[a].pc = "record" /\ desk'[a].got = name'[c]
        BY <4>1
      <4> QED BY <4>3, <4>4, <4>5, <3>4, <1>5, NamesMove
    <3> QED BY <1>1, <3>2, <3>3, <3>5, PairsKept
  <2> QED BY <1>4, <2>3, <2>4
<1> QED BY <1>3, <1>4 DEF WriteIdentity

\* What _record tracks is a durable name, or a serial that needs no other: no
\* serial that a handler is about to write over, but from the CLI.
LEMMA RecordInv ==
    ASSUME IInv, NEW a \in Asker, _record(a)
    PROVE  IInv'
<1> USE AdoptionAssumption DEF IInv, told, registry, boards, file
<1>1. /\ desk[a].pc = "record" /\ Done(a) /\ (Tell(desk[a].got) \/ Lose(desk[a].got))
      /\ UNCHANGED <<declared, name, used, bus, pairings, owed, crossed, now, writable,
                     oplock, watcher, job, asks, events>>
  BY DEF _record
<1>2. \A c \in Asker \ {a} : desk'[c] = desk[c]
  BY <1>1, DoneType
<1>3. Given \subseteq Given' /\ known' \subseteq Serial /\ unsaid' \subseteq Serial
        /\ dropped' = dropped /\ (desk[a].got # None => desk[a].got \in Given')
  BY <1>1 DEF Tell, Lose, Given, TypeOK
<1>4. NameIsKnown'
  <2>1. ASSUME NEW c \in Board, name'[c] \in Durable
        PROVE  name'[c] \in Given' \/ \E e \in Asker : desk'[e].pc = "record" /\ desk'[e].got = name'[c]
    <3>1. name[c] \in Serial /\ name[c] # None
      BY DEF TypeOK, Id
    <3> QED BY <1>1, <1>2, <1>3, <2>1, <3>1 DEF NameIsKnown, Given
  <2> QED BY <2>1 DEF NameIsKnown, Given
<1>5. CASE UNCHANGED <<ids, clash>>
  <2>1. TypeOK'
    BY <1>1, <1>3, <1>5, DoneType DEF TypeOK, Slip
  <2>2. Emptied' /\ Replaced' /\ \A i : find_declared_types(i)' = find_declared_types(i)
    BY <1>1, <1>5 DEF Desks, Emptied, Replaced, find_declared_types
  <2>3. Desks'
    BY <1>1, <1>5, <2>2, DoneDesks DEF Desks, Untracked, find_declared_types
  <2> QED BY <1>1, <1>4, <2>1, <2>3, PairsKept
<1>6. CASE /\ desk[a].type \in declared
           /\ elsewhere(Tracked(a), desk[a].type) = {}
           /\ add_declared(desk[a].type, Tracked(a))
           /\ clash' = (clash \/ (a \in Cli /\ identity # None))
  <2> DEFINE t == desk[a].type
             s == Tracked(a)
  <2>1. t \in Type /\ s \in Serial /\ t \in declared
        /\ (s \in Diagnostic => t \notin Helped)
    BY <1>1, <1>6 DEF TypeOK, Desks, Recording, Tracked, is_trackable
  <2> HIDE DEF t, s
  <2>2. ids' = [ids EXCEPT ![t] = @ \cup {s}]
    BY <1>6 DEF add_declared, t, s
  <2>3. ids' \in [Type -> SUBSET Id]
    BY <2>1, <2>2 DEF TypeOK, Id
  <2>4. \A u \in Type : ids'[u] = IF u = t THEN ids[u] \cup {s} ELSE ids[u]
    BY <2>1, <2>2 DEF TypeOK
  <2>5. TypeOK'
    BY <1>1, <1>3, <1>6, <2>3, DoneType DEF TypeOK, Slip
  <2>6. Emptied' /\ Replaced'
    <3>1. Emptied'
      BY <1>1, <2>1, <2>4 DEF Desks, Emptied
    <3>2. ASSUME NEW u \in Helped PROVE ids'[u] \cap Diagnostic = {}
      BY <2>1, <2>4 DEF Desks, Replaced
    <3> QED BY <3>1, <3>2 DEF Replaced
  <2>7. ASSUME NEW h \in Handler \ {a}, desk[h].pc \in {"lock", "write"}
        PROVE  clash'
    <3>1. identity = h /\ h # None
      BY <2>7 DEF Desks, Holds, Asker
    <3>2. a \in Cli
      <4>1. a \notin Handler
        BY <1>1, <2>7, <3>1 DEF Desks, Holds
      <4> QED BY <4>1 DEF Asker
    <3> QED BY <1>6, <3>1, <3>2
  <2>8. Desks'
    BY <1>1, <2>6, <2>7, DoneDesks
  <2> QED BY <1>1, <1>4, <2>5, <2>8, PairsKept
<1> QED BY <1>5, <1>6 DEF _record
-----------------------------------------------------------------------------
(* The pairings *)

\* A file written from what it still holds keeps what is owed.
LEMMA RecordWriteInv == ASSUME IInv, RecordWrite PROVE IInv'
<1> USE AdoptionAssumption DEF IInv, RecordWrite, told, registry, boards, locks
<1> DEFINE e == [type |-> job.type, at |-> now]
<1>1. /\ pairings' = [job.snap EXCEPT ![job.key] = e]
      /\ owed' = [owed EXCEPT ![job.key] = e]
      /\ crossed' = (crossed \/ job.snap # pairings)
  BY DEF WriteFile, record
<1>2. e \in Entry /\ job.snap \in Pairings /\ owed \in Pairings /\ pairings \in Pairings
  BY DEF TypeOK, Entry
<1> HIDE DEF e
<1>3. pairings' \in Pairings /\ owed' \in Pairings /\ crossed' \in BOOLEAN
  <2>1. pairings' \in Pairings /\ owed' \in Pairings
    BY <1>1, <1>2 DEF Pairings
  <2>2. crossed' \in BOOLEAN
    BY <1>1
  <2> QED BY <2>1, <2>2
<1>4. TypeOK'
  <2>1. job \in Installing
    BY DEF TypeOK, Installing
  <2>2. job' \in Installing
    BY <2>1 DEF Installing
  <2> QED BY <1>3, <2>2 DEF TypeOK, Installing
<1>5. Paired'
  <2>1. ASSUME ~crossed', NEW k \in Key, fresh(pairings[k])'
        PROVE  owed'[k] = pairings'[k]
    <3>1. ~crossed /\ job.snap = pairings
      BY <1>1, <2>1
    <3>2. CASE k = job.key
      BY <1>1, <1>2, <3>2 DEF Pairings
    <3>3. CASE k # job.key
      BY <1>1, <1>2, <2>1, <3>1, <3>3 DEF Pairings, Paired, fresh
    <3> QED BY <3>2, <3>3
  <2> QED BY <2>1 DEF Paired
<1> QED BY <1>4, <1>5, DesksKept, NamesKept

LEMMA JobInv ==
    ASSUME IInv, (\E t \in Type, b \in Board : add_mcu_start(t, b)) \/ JobWrites
                 \/ RecordRead \/ JobEnds
    PROVE  IInv'
<1> USE AdoptionAssumption DEF IInv, told, registry, boards, file, locks
<1>1. job \in Installing /\ pairings \in Pairings /\ RomKey \in [Board -> Key \cup {None}]
  BY DEF TypeOK, Installing
<1>2. CASE \E t \in Type, b \in Board : add_mcu_start(t, b)
  <2>1. PICK t \in Type, b \in Board : add_mcu_start(t, b)
    BY <1>2
  <2>2. RomKey[b] \in Key \cup {None}
    BY <1>1
  <2>3. job' \in Installing /\ oplock' = Job /\ asks' \in 0 .. MaxAsks
    <3>1. asks' \in 0 .. MaxAsks
      <4>1. Asks
        BY <2>1 DEF add_mcu_start
      <4> QED BY <4>1 DEF Asks, TypeOK
    <3>2. job' = [job EXCEPT !.pc = "write", !.type = t, !.key = RomKey[b]] /\ oplock' = Job
      BY <2>1 DEF add_mcu_start
    <3>3. job' \in Installing
      BY <1>1, <2>2, <3>2 DEF Installing
    <3> QED BY <3>1, <3>2, <3>3
  <2>4. TypeOK'
    BY <2>1, <2>3 DEF add_mcu_start, TypeOK, Installing
  <2> QED BY <2>1, <2>4, DesksKept, NamesKept, PairsKept DEF add_mcu_start
<1>3. CASE JobWrites
  <2>1. job' \in Installing
    BY <1>1, <1>3 DEF JobWrites, Installing
  <2>2. TypeOK'
    BY <1>3, <2>1 DEF JobWrites, TypeOK, Installing
  <2> QED BY <1>3, <2>2, DesksKept, NamesKept, PairsKept DEF JobWrites
<1>4. CASE RecordRead
  <2>1. job' \in Installing
    BY <1>1, <1>4 DEF RecordRead, Installing
  <2>2. TypeOK'
    BY <1>4, <2>1 DEF RecordRead, TypeOK, Installing
  <2> QED BY <1>4, <2>2, DesksKept, NamesKept, PairsKept DEF RecordRead
<1>5. CASE JobEnds
  <2>1. job' \in Installing
    BY <1>1, <1>5 DEF JobEnds, Installing
  <2>2. TypeOK'
    BY <1>5, <2>1 DEF JobEnds, TypeOK, Installing
  <2> QED BY <1>5, <2>2, DesksKept, NamesKept, PairsKept DEF JobEnds
<1> QED BY <1>2, <1>3, <1>4, <1>5

LEMMA ForgetInv == ASSUME IInv, ForgetWrite PROVE IInv'
<1> USE AdoptionAssumption DEF IInv, ForgetWrite, told, registry, boards, locks
<1>1. /\ pairings' = [watcher.snap EXCEPT ![watcher.key] = NoEntry]
      /\ owed' = [owed EXCEPT ![watcher.key] = NoEntry]
      /\ crossed' = (crossed \/ watcher.snap # pairings)
  BY DEF WriteFile, forget
<1>2. NoEntry \in Entry /\ watcher.snap \in Pairings /\ owed \in Pairings /\ pairings \in Pairings
  BY DEF TypeOK, Entry, NoEntry
<1>3. pairings' \in Pairings /\ owed' \in Pairings /\ crossed' \in BOOLEAN
  <2>1. pairings' \in Pairings /\ owed' \in Pairings
    <3>1. ASSUME NEW data \in Pairings, NEW k PROVE [data EXCEPT ![k] = NoEntry] \in Pairings
      BY <1>2 DEF Pairings
    <3>2. pairings' \in Pairings
      BY <1>1, <1>2, <3>1
    <3>3. [owed EXCEPT ![watcher.key] = NoEntry] \in Pairings
      BY <1>2, <3>1
    <3>4. owed' \in Pairings
      BY ONLY <1>1, <3>3
    <3> QED BY <3>2, <3>4
  <2>2. crossed' \in BOOLEAN
    BY <1>1
  <2> QED BY <2>1, <2>2
<1>4. TypeOK'
  <2>1. watcher \in Watching
    BY DEF TypeOK, Watching
  <2>2. watcher' \in Watching
    BY <2>1 DEF Watching
  <2> QED BY <1>3, <2>2 DEF TypeOK, Watching
<1>5. Paired'
  <2>1. ASSUME ~crossed', NEW k \in Key, fresh(pairings[k])'
        PROVE  owed'[k] = pairings'[k]
    <3>1. ~crossed /\ watcher.snap = pairings
      BY <1>1, <2>1
    <3>2. CASE k = watcher.key
      BY <1>1, <1>2, <3>2 DEF Pairings
    <3>3. CASE k # watcher.key
      BY <1>1, <1>2, <2>1, <3>1, <3>3 DEF Pairings, Paired, fresh
    <3> QED BY <3>2, <3>3
  <2> QED BY <2>1 DEF Paired
<1> QED BY <1>4, <1>5, DesksKept, NamesKept

LEMMA PruneInv == ASSUME IInv, PruneWrite PROVE IInv'
<1> USE AdoptionAssumption DEF IInv, PruneWrite, told, registry, boards, locks
<1> DEFINE p == prune(watcher.snap)
<1>1. p \in Pairings /\ \A k \in Key : p[k] = watcher.snap[k] \/ p[k].type = None
  BY DEF prune, Pairings, Entry, NoEntry, TypeOK
<1>2. watcher' \in Watching
  <2>1. watcher \in Watching
    BY DEF TypeOK, Watching
  <2> QED BY <2>1 DEF StartProvisioning, Unprovisioned, Watching
<1> HIDE DEF p
<1>3. CASE UNCHANGED file
  <2>1. TypeOK'
    BY <1>2, <1>3 DEF TypeOK, file, Watching
  <2> QED BY <1>3, <2>1, DesksKept, NamesKept, PairsKept DEF file
<1>4. CASE pairings' = p /\ crossed' = (crossed \/ watcher.snap # pairings) /\ owed' = owed
  <2>1. TypeOK'
    BY <1>1, <1>2, <1>4 DEF TypeOK, Watching
  <2>2. Paired'
    BY <1>1, <1>4 DEF Paired, fresh
  <2> QED BY <2>1, <2>2, DesksKept, NamesKept
<1> QED BY <1>3, <1>4 DEF WriteFile, p

LEMMA TickInv == ASSUME IInv, Tick PROVE IInv'
<1> USE AdoptionAssumption DEF IInv, Tick, told, registry, boards, file, locks
<1>1. TypeOK'
  BY DEF TypeOK
<1>2. \A k \in Key : fresh(pairings[k])' => fresh(pairings[k])
  BY DEF fresh, TypeOK, Pairings, Entry
<1>3. Paired'
  BY <1>2 DEF Paired
<1> QED BY <1>1, <1>3, DesksKept, NamesKept
-----------------------------------------------------------------------------
(* The watcher *)

LEMMA WatcherInv ==
    ASSUME IInv, _poll \/ AdoptScan \/ ReadFile \/ HandlerReturns \/ \E s \in Serial : TakeOrRetry(s)
    PROVE  IInv'
<1> USE AdoptionAssumption DEF IInv, told, registry, boards, file, locks
<1>1. watcher \in Watching /\ pairings \in Pairings
  BY DEF TypeOK, Watching
<1>2. Seen \subseteq Serial /\ names \subseteq Type
  BY DEF Seen, names, TypeOK
<1>3. watcher' \in Watching
  <2>1. CASE _poll
    BY <1>1, <1>2, <2>1 DEF _poll, Watching
  <2>2. CASE AdoptScan
    <3>1. StartProvisioning(watcher) \in Watching
      BY <1>1 DEF StartProvisioning, Unprovisioned, Watching
    <3>2. \A S : Unambiguous(S) \subseteq Key
      BY DEF Unambiguous
    <3>3. [watcher EXCEPT !.pc = "each", !.names = names, !.todo = Seen \ all_serials,
                          !.keys = Unambiguous(Seen \ all_serials)] \in Watching
      BY <1>1, <1>2, <3>2 DEF Watching
    <3> QED BY <2>2, <3>1, <3>3 DEF AdoptScan
  <2>3. CASE ReadFile
    BY <1>1, <2>3 DEF ReadFile, Watching
  <2>4. CASE HandlerReturns
    BY <1>1, <2>4 DEF HandlerReturns, Watching
  <2>5. CASE \E s \in Serial : TakeOrRetry(s)
    <3>1. PICK s \in Serial : TakeOrRetry(s)
      BY <2>5
    <3>2. CASE watcher' = [watcher EXCEPT !.pc = "write"]
      BY <1>1, <3>2 DEF Watching
    <3>3. CASE watcher' = [watcher EXCEPT !.todo = @ \ {s}, !.retry = TRUE]
      BY <1>1, <3>3 DEF Watching
    <3> QED BY <3>1, <3>2, <3>3 DEF TakeOrRetry
  <2> QED BY <2>1, <2>2, <2>3, <2>4, <2>5
<1>4. /\ UNCHANGED <<declared, ids, name, used, bus, pairings, now, writable, identity,
                     desk, job, owed, crossed, clash, known, unsaid, dropped, asks, events>>
      /\ oplock' \in {oplock, Watcher}
  BY DEF _poll, AdoptScan, ReadFile, HandlerReturns, TakeOrRetry
<1>5. TypeOK'
  BY <1>3, <1>4 DEF TypeOK, Watching
<1> QED BY <1>4, <1>5, DesksKept, NamesKept, PairsKept

\* What is adopted has a key, so it is not a name that anyone writes over.
LEMMA AdoptOneInv ==
    ASSUME IInv, NEW s \in Serial, AdoptOne(s)
    PROVE  IInv'
<1> USE AdoptionAssumption DEF IInv, told, registry, boards, file, locks
<1>1. watcher \in Watching
  BY DEF TypeOK, Watching
<1>2. UNCHANGED <<declared, name, used, bus, pairings, now, writable, oplock, identity,
                  desk, job, owed, crossed, clash, known, unsaid, dropped, asks, events>>
  BY DEF AdoptOne
<1>3. CASE watcher' = [watcher EXCEPT !.todo = @ \ {s}] /\ ids' = ids
  <2>1. watcher' \in Watching
    BY <1>1, <1>3 DEF Watching
  <2>2. ids' = ids
    BY <1>3
  <2>3. TypeOK'
    BY <1>2, <2>1, <2>2 DEF TypeOK, Watching
  <2> QED BY <1>2, <2>2, <2>3, DesksKept, NamesKept, PairsKept
<1>4. ASSUME NEW k \in PairedKey(s),
             pairings[k].type \in watcher.names \cap declared,
             add_declared(pairings[k].type, s),
             watcher' = [watcher EXCEPT !.todo = @ \ {s}, !.key = k, !.pc = "forget"]
      PROVE  IInv'
  <2> DEFINE t == pairings[k].type
  <2>1. CandidateKeys[s] # <<>> /\ k \in Key
    BY <1>4 DEF PairedKey
  <2>2. s \notin Diagnostic \cup Durable
    BY <2>1
  <2>3. t \in Type /\ t \in declared
    BY <1>4, <1>1 DEF Watching
  <2>4. ids' = [ids EXCEPT ![t] = @ \cup {s}]
    BY <1>4 DEF add_declared
  <2> HIDE DEF t
  <2>5. ids' \in [Type -> SUBSET Id]
    BY <2>3, <2>4 DEF TypeOK, Id
  <2>6. watcher' \in Watching
    BY <1>1, <1>4, <2>1 DEF Watching
  <2>7. TypeOK'
    BY <1>2, <2>5, <2>6 DEF TypeOK, Watching
  <2>8. \A u \in Type : ids'[u] = IF u = t THEN ids[u] \cup {s} ELSE ids[u]
    BY <2>3, <2>4 DEF TypeOK
  <2>9. Emptied'
    BY <1>2, <2>3, <2>8 DEF Desks, Emptied
  <2>10. ASSUME NEW u \in Helped PROVE ids'[u] \cap Diagnostic = {}
    BY <2>2, <2>8 DEF Desks, Replaced
  <2>11. \A i \in Diagnostic \cup Durable : find_declared_types(i)' = find_declared_types(i)
    <3>1. ASSUME NEW i \in Diagnostic \cup Durable, NEW u \in Type
          PROVE  i \in ids'[u] <=> i \in ids[u]
      BY <2>2, <2>8
    <3>2. declared \subseteq Type /\ declared' = declared
      BY <1>2 DEF TypeOK
    <3> QED BY <3>1, <3>2 DEF find_declared_types
  <2>12. Holds' /\ Recording' /\ Untracked'
    BY <1>2, <2>11 DEF Desks, Holds, Recording, Untracked, is_trackable
  <2> QED BY <1>2, <2>7, <2>9, <2>10, <2>12, NamesKept, PairsKept DEF Desks, Replaced
<1> QED BY <1>3, <1>4 DEF AdoptOne

LEMMA AutoProvisionInv ==
    ASSUME IInv, NEW s \in Serial, AutoProvision(s)
    PROVE  IInv'
<1> USE AdoptionAssumption DEF IInv, told, registry, boards, file, locks
<1>1. /\ watcher' = [watcher EXCEPT !.pc = "provision", !.todo = @ \ {s}] /\ oplock' = None
      /\ UNCHANGED <<declared, ids, pairings, owed, crossed, now, writable, identity, desk,
                     job, clash, asks, events>>
  BY DEF AutoProvision
<1>2. watcher' \in Watching
  <2>1. watcher \in Watching
    BY DEF TypeOK, Watching
  <2> QED BY <1>1, <2>1 DEF Watching
<1>3. CASE dropped' = TRUE /\ UNCHANGED <<boards, known, unsaid>>
  <2>1. TypeOK'
    BY <1>1, <1>2, <1>3 DEF TypeOK, Watching
  <2> QED BY <1>1, <1>3, <2>1, DesksKept, NamesKept, PairsKept
<1>4. ASSUME NEW b \in Named(s), NEW n \in Durable \ used, Rename(b, n), Tell(n)
      PROVE  IInv'
  <2>1. b \in Board /\ n \in Serial /\ n # None
    BY <1>4 DEF Named, TypeOK, Id
  <2>2. known' = known \cup {n} /\ unsaid' = unsaid /\ dropped' = dropped
    BY <1>4, <2>1 DEF Tell
  <2>3. name' = [name EXCEPT ![b] = n] /\ used' = used \cup {n} /\ bus' = bus
    BY <1>4 DEF Rename
  <2>4. name' \in [Board -> Serial] /\ \A c \in Board : name'[c] = name[c] \/ name'[c] = n
    BY <2>1, <2>3 DEF TypeOK
  <2>5. TypeOK'
    BY <1>1, <1>2, <2>1, <2>2, <2>3, <2>4 DEF TypeOK, Watching
  <2>6. NameIsKnown'
    BY <1>1, <2>2, <2>4 DEF NameIsKnown
  <2> QED BY <1>1, <2>5, <2>6, DesksKept, PairsKept
<1> QED BY <1>3, <1>4 DEF AutoProvision

LEMMA OutsideInv ==
    ASSUME IInv, (\E b \in Board : Plug(b)) \/ SetFlashing
    PROVE  IInv'
<1> USE AdoptionAssumption DEF IInv, told, registry, boards, file, locks
<1>1. TypeOK'
  <2>1. CASE \E b \in Board : Plug(b)
    BY <2>1 DEF Plug, Happens, TypeOK
  <2>2. CASE SetFlashing
    BY <2>2 DEF SetFlashing, Happens, TypeOK
  <2> QED BY <2>1, <2>2
<1>2. UNCHANGED <<declared, ids, desk, identity, clash, name, known, unsaid, pairings, owed, crossed, now>>
  BY DEF Plug, SetFlashing
<1> QED BY <1>1, <1>2, DesksKept, NamesKept, PairsKept

LEMMA StepInv == ASSUME IInv, [Next]_vars PROVE IInv'
<1>1. CASE UNCHANGED vars
  <2>1. TypeOK'
    BY <1>1 DEF IInv, TypeOK, vars
  <2> QED BY <1>1, <2>1, DesksKept, NamesKept, PairsKept DEF IInv, vars
<1>2. CASE Next
  <2>1. ASSUME NEW t \in Type,
               \/ \E s \in Serial : serial_remove(t, s)
               \/ \E u \in Uuid : canbus_remove(t, u)
               \/ \E force \in BOOLEAN : type_remove(t, force)
        PROVE  IInv'
    BY <2>1, RemoveInv DEF Id
  <2>2. ASSUME NEW t \in Type, \E u \in Uuid : canbus_add(t, u) PROVE IInv'
    BY <2>2, CanbusAddInv
  <2>3. ASSUME NEW t \in Type, type_add(t) PROVE IInv'
    BY <2>3, TypeAddInv
  <2>4. ASSUME NEW a \in Asker, NEW i \in Serial,
               \/ \E t \in Type : add_serial(a, t, i)
               \/ \E op \in {"provision", "clear"} : identity_method(a, op, i)
        PROVE  IInv'
    BY <2>4, AskInv
  <2>5. ASSUME NEW a \in Asker, TakeLock(a) \/ WriteIdentity(a) \/ _record(a) PROVE IInv'
    BY <2>5, TakeLockInv, WriteIdentityInv, RecordInv
  <2>6. ASSUME (\E t \in Type, b \in Board : add_mcu_start(t, b)) \/ JobWrites \/ RecordRead
               \/ JobEnds
        PROVE  IInv'
    BY <2>6, JobInv
  <2>7. ASSUME RecordWrite \/ ForgetWrite \/ PruneWrite \/ Tick PROVE IInv'
    BY <2>7, RecordWriteInv, ForgetInv, PruneInv, TickInv
  <2>8. ASSUME \/ _poll \/ AdoptScan \/ ReadFile \/ HandlerReturns
               \/ \E s \in Serial : TakeOrRetry(s)
        PROVE  IInv'
    BY <2>8, WatcherInv
  <2>9. ASSUME NEW s \in Serial, AdoptOne(s) \/ AutoProvision(s) PROVE IInv'
    BY <2>9, AdoptOneInv, AutoProvisionInv
  <2>10. ASSUME (\E b \in Board : Plug(b)) \/ SetFlashing PROVE IInv'
    BY <2>10, OutsideInv
  <2> QED BY <1>2, <2>1, <2>2, <2>3, <2>4, <2>5, <2>6, <2>7, <2>8, <2>9, <2>10 DEF Next
<1> QED BY <1>1, <1>2

THEOREM Invariance == Spec => []IInv
BY InitInv, StepInv, PTL DEF Spec

\* The type invariant, for any boards, types, clients and pairings.
THEOREM TypeCorrect == Spec => []TypeOK
<1>1. IInv => TypeOK
  BY DEF IInv
<1> QED BY <1>1, Invariance, PTL

\* Whatever is refused or crossed, a durable name that a board was given is told
\* or being recorded, or its record failed with an OSError of the save, the one
\* refusal that add_serial does not annotate (tracking.py).
THEOREM NamesAreKnown == Spec => []NameIsKnown
<1>1. IInv => NameIsKnown
  BY DEF IInv
<1> QED BY <1>1, Invariance, PTL

-----------------------------------------------------------------------------
(* What single steps may do *)

\* A write of the agent ends only in WriteIdentity.
LEMMA WriteEnds ==
    ASSUME IInv, [Next]_vars, NEW a \in Handler,
           desk[a].pc = "write", desk'[a].pc # "write"
    PROVE  WriteIdentity(a)
<1> USE AdoptionAssumption
<1>1. desk \in [Asker -> Slip] /\ a \in Asker
  BY DEF IInv, TypeOK, Slip, Asker
<1>2. ASSUME UNCHANGED desk PROVE FALSE
  BY <1>2
<1>3. ASSUME NEW e \in Asker, NEW slip, desk' = [desk EXCEPT ![e] = slip],
             desk[e].pc # "write"
      PROVE  FALSE
  BY <1>1, <1>3
<1>4. ASSUME NEW e \in Asker, NEW i \in Serial,
             \/ \E t \in Type : add_serial(e, t, i)
             \/ \E op \in {"provision", "clear"} : identity_method(e, op, i)
      PROVE  FALSE
  <2>1. desk[e].pc = "idle" /\ \E slip : desk' = [desk EXCEPT ![e] = slip]
    BY <1>4 DEF add_serial, identity_method, _identity_change, Request
  <2> QED BY <1>3, <2>1
<1>5. ASSUME NEW e \in Asker, TakeLock(e) \/ _record(e) PROVE FALSE
  <2>1. CASE TakeLock(e)
    <3>1. CASE desk' = [desk EXCEPT ![e].pc = "write"]
      BY <1>1, <2>1, <3>1 DEF TakeLock, Slip
    <3>2. CASE Done(e)
      BY <1>3, <2>1, <3>2 DEF TakeLock, Done
    <3> QED BY <2>1, <3>1, <3>2 DEF TakeLock
  <2>2. CASE _record(e)
    BY <1>3, <2>2 DEF _record, Done
  <2> QED BY <1>5, <2>1, <2>2
<1>6. ASSUME NEW e \in Asker, WriteIdentity(e) PROVE WriteIdentity(a)
  <2>1. desk[e].pc = "write" /\ \A c \in Asker \ {e} : desk'[c] = desk[c]
    BY <1>1, <1>6 DEF WriteIdentity, Done
  <2> QED BY <1>1, <1>6, <2>1
<1>7. CASE UNCHANGED vars
  BY <1>2, <1>7 DEF vars
<1>8. CASE Next
  <2>1. ASSUME UNCHANGED desk PROVE WriteIdentity(a)
    BY <1>2, <2>1
  <2>2. ASSUME NEW t \in Type,
               \/ \E s \in Serial : serial_remove(t, s)
               \/ \E u \in Uuid : canbus_add(t, u) \/ canbus_remove(t, u)
               \/ type_add(t)
               \/ \E force \in BOOLEAN : type_remove(t, force)
               \/ \E b \in Board : add_mcu_start(t, b)
        PROVE  UNCHANGED desk
    BY <2>2 DEF serial_remove, canbus_add, canbus_remove, type_add, type_remove,
                add_mcu_start
  <2>3. ASSUME \/ JobWrites \/ RecordRead \/ RecordWrite \/ JobEnds
               \/ _poll \/ AdoptScan \/ ReadFile \/ ForgetWrite \/ PruneWrite
               \/ HandlerReturns \/ SetFlashing \/ Tick
               \/ \E b \in Board : Plug(b)
        PROVE  UNCHANGED desk
    BY <2>3 DEF JobWrites, RecordRead, RecordWrite, JobEnds, _poll, AdoptScan,
                ReadFile, ForgetWrite, PruneWrite, HandlerReturns, SetFlashing,
                Tick, Plug
  <2>4. ASSUME NEW s \in Serial, AdoptOne(s) \/ TakeOrRetry(s) \/ AutoProvision(s)
        PROVE  UNCHANGED desk
    BY <2>4 DEF AdoptOne, TakeOrRetry, AutoProvision
  <2> QED BY <1>4, <1>5, <1>6, <1>8, <2>1, <2>2, <2>3, <2>4 DEF Next
<1> QED BY <1>7, <1>8

\* An identity write of the agent takes away no name that is tracked, unless
\* the command line tracked one beside it (_identity_change).
THEOREM TrackedNamesStay == Spec => NeverRetiresTracked
<1>1. ASSUME IInv, [Next]_vars, NEW a \in Handler, NEW b \in Board,
             desk[a].pc = "write", desk'[a].pc # "write", name'[b] # name[b]
      PROVE  find_declared_types(name[b]) = {} \/ clash
  <2>1. WriteIdentity(a)
    BY <1>1, WriteEnds
  <2>2. PICK c \in Named(desk[a].id) : \E n : Rename(c, n)
    BY <1>1, <2>1 DEF WriteIdentity, boards
  <2>3. name \in [Board -> Serial]
    BY <1>1 DEF IInv, TypeOK
  <2>4. b = c /\ name[b] = desk[a].id
    BY <1>1, <2>2, <2>3 DEF Rename, Named
  <2> QED BY <1>1, <2>4 DEF IInv, Desks, Untracked
<1>2. IInv /\ [Next]_vars
      => [\A a \in Handler, b \in Board :
            desk[a].pc = "write" /\ desk'[a].pc # "write" /\ name'[b] # name[b]
            => find_declared_types(name[b]) = {} \/ clash]_vars
  BY <1>1
<1> QED BY <1>2, Invariance, PTL DEF Spec, NeverRetiresTracked

\* What is tracked only shrinks, but by late adoption and by one addition that
\* looked at every declared type.
LEMMA Additions ==
    ASSUME IInv, [Next]_vars, watcher.pc # "each"
    PROVE  \/ \A t \in Type : ids'[t] \subseteq ids[t]
           \/ \E t \in declared, i \in Id : elsewhere(i, t) = {} /\ add_declared(t, i)
<1> USE AdoptionAssumption
<1>1. ids \in [Type -> SUBSET Id] /\ desk \in [Asker -> Slip]
  BY DEF IInv, TypeOK, Slip
<1>2. CASE UNCHANGED ids
  BY <1>2
<1>3. CASE \E t \in Type :
             \/ \E i \in Id : remove_declared(t, i)
             \/ ids' = [ids EXCEPT ![t] = {}]
  BY <1>1, <1>3 DEF remove_declared
<1>4. ASSUME NEW t \in Type, \E u \in Uuid : canbus_add(t, u)
      PROVE  \E v \in declared, i \in Id : elsewhere(i, v) = {} /\ add_declared(v, i)
  BY <1>4 DEF canbus_add, Id
<1>5. ASSUME NEW a \in Asker, _record(a), ~UNCHANGED ids
      PROVE  \E v \in declared, i \in Id : elsewhere(i, v) = {} /\ add_declared(v, i)
  <2>1. Tracked(a) \in Id
    BY <1>1, <1>5 DEF _record, Tracked, IInv, Desks, Recording, Id
  <2> QED BY <1>5, <2>1 DEF _record
<1>6. CASE UNCHANGED vars
  BY <1>2, <1>6 DEF vars, registry
<1>7. CASE Next
  <2>1. ASSUME NEW t \in Type,
               \/ \E s \in Serial : serial_remove(t, s)
               \/ \E u \in Uuid : canbus_remove(t, u)
               \/ \E force \in BOOLEAN : type_remove(t, force)
        PROVE  \E v \in Type : \/ \E i \in Id : remove_declared(v, i)
                               \/ ids' = [ids EXCEPT ![v] = {}]
    BY <2>1 DEF serial_remove, canbus_remove, type_remove, Id
  <2>2. ASSUME NEW t \in Type,
               \/ type_add(t)
               \/ \E b \in Board : add_mcu_start(t, b)
               \/ \E a \in Asker, i \in Serial : add_serial(a, t, i)
        PROVE  UNCHANGED ids
    BY <2>2 DEF type_add, add_mcu_start, add_serial, registry
  <2>3. ASSUME NEW a \in Asker,
               \/ \E op \in {"provision", "clear"}, i \in Serial : identity_method(a, op, i)
               \/ TakeLock(a) \/ WriteIdentity(a)
        PROVE  UNCHANGED ids
    BY <2>3 DEF identity_method, TakeLock, WriteIdentity, registry
  <2>4. ASSUME \/ JobWrites \/ RecordRead \/ RecordWrite \/ JobEnds
               \/ _poll \/ AdoptScan \/ ReadFile \/ ForgetWrite \/ PruneWrite
               \/ HandlerReturns \/ SetFlashing \/ Tick
               \/ \E b \in Board : Plug(b)
               \/ \E s \in Serial : TakeOrRetry(s) \/ AutoProvision(s)
        PROVE  UNCHANGED ids
    BY <2>4 DEF JobWrites, RecordRead, RecordWrite, JobEnds, _poll, AdoptScan,
                ReadFile, ForgetWrite, PruneWrite, HandlerReturns, SetFlashing,
                Tick, Plug, TakeOrRetry, AutoProvision, registry
  <2>5. \A s \in Serial : ~AdoptOne(s)
    BY DEF AdoptOne
  <2> QED BY <1>2, <1>3, <1>4, <1>5, <1>7, <2>1, <2>2, <2>3, <2>4, <2>5 DEF Next
<1> QED BY <1>6, <1>7

\* Nothing gets a second owner but by late adoption (_elsewhere_error).
THEOREM OwnersStaySingle == Spec => OneOwner
<1>1. ASSUME IInv, [Next]_vars, NEW i \in Id, watcher.pc # "each"
      PROVE  \/ Cardinality({t \in Type : i \in ids'[t]}) <= 1
             \/ {t \in Type : i \in ids'[t]} \subseteq {t \in Type : i \in ids[t]}
  <2>1. CASE \A t \in Type : ids'[t] \subseteq ids[t]
    BY <2>1
  <2>2. ASSUME NEW t \in declared, NEW j \in Id, elsewhere(j, t) = {}, add_declared(t, j)
        PROVE  \/ Cardinality({u \in Type : i \in ids'[u]}) <= 1
               \/ {u \in Type : i \in ids'[u]} \subseteq {u \in Type : i \in ids[u]}
    <3>1. t \in Type /\ ids \in [Type -> SUBSET Id]
      BY <1>1 DEF IInv, TypeOK
    <3>2. \A u \in Type : ids'[u] = IF u = t THEN ids[u] \cup {j} ELSE ids[u]
      BY <2>2, <3>1 DEF add_declared
    <3>3. CASE i # j
      BY <3>2, <3>3
    <3>4. CASE i = j
      <4>1. \A u \in Type : u # t => j \notin ids[u]
        BY <1>1, <2>2 DEF elsewhere, find_declared_types, IInv, Desks, Emptied
      <4>2. {u \in Type : i \in ids'[u]} = {t}
        BY <3>1, <3>2, <3>4, <4>1
      <4>3. Cardinality({t}) = 1
        BY FS_Singleton
      <4> QED BY <4>2, <4>3
    <3> QED BY <3>3, <3>4
  <2> QED BY <1>1, <2>1, <2>2, Additions
<1>2. IInv /\ [Next]_vars
      => [\A i \in Id :
            Cardinality({t \in Type : i \in ids'[t]}) <= 1
            \/ {t \in Type : i \in ids'[t]} \subseteq {t \in Type : i \in ids[t]}
            \/ watcher.pc = "each"]_vars
  BY <1>1
<1> QED BY <1>2, Invariance, PTL DEF Spec, OneOwner

\* The watcher goes from a board to the file of pairings by adopting it.
LEMMA AdoptionStep ==
    ASSUME IInv, [Next]_vars, watcher.pc = "each", watcher'.pc = "forget"
    PROVE  \E s \in Serial : AdoptOne(s)
<1>1. ~UNCHANGED watcher
  OBVIOUS
<1>2. ASSUME NEW t \in Type,
             \/ \E s \in Serial : serial_remove(t, s)
             \/ \E u \in Uuid : canbus_add(t, u) \/ canbus_remove(t, u)
             \/ type_add(t)
             \/ \E force \in BOOLEAN : type_remove(t, force)
             \/ \E a \in Asker, i \in Serial : add_serial(a, t, i)
             \/ \E b \in Board : add_mcu_start(t, b)
      PROVE  UNCHANGED watcher
  BY <1>2 DEF serial_remove, canbus_add, canbus_remove, type_add, type_remove,
              add_serial, add_mcu_start
<1>3. ASSUME NEW a \in Asker,
             \/ \E op \in {"provision", "clear"}, i \in Serial : identity_method(a, op, i)
             \/ TakeLock(a) \/ WriteIdentity(a) \/ _record(a)
      PROVE  UNCHANGED watcher
  BY <1>3 DEF identity_method, TakeLock, WriteIdentity, _record
<1>4. ASSUME \/ JobWrites \/ RecordRead \/ RecordWrite \/ JobEnds
             \/ SetFlashing \/ Tick
             \/ \E b \in Board : Plug(b)
      PROVE  UNCHANGED watcher
  BY <1>4 DEF JobWrites, RecordRead, RecordWrite, JobEnds, SetFlashing, Tick, Plug
<1>5. ~(\/ _poll \/ AdoptScan \/ ForgetWrite \/ PruneWrite \/ HandlerReturns
        \/ \E s \in Serial : TakeOrRetry(s) \/ AutoProvision(s))
  BY DEF _poll, AdoptScan, ForgetWrite, PruneWrite, HandlerReturns, TakeOrRetry,
         AutoProvision
<1>6. ~ReadFile
  <2>1. watcher \in Watching
    BY DEF IInv, TypeOK, Watching
  <2> QED BY <2>1 DEF ReadFile, Watching
<1>7. ~UNCHANGED vars
  BY <1>1 DEF vars
<1> QED BY <1>1, <1>2, <1>3, <1>4, <1>5, <1>6, <1>7 DEF Next

\* A pairing that was acted on, or is too old, adopts nothing, unless two
\* updates of the file crossed (adopt_paired).
THEOREM OnlyOwedAreAdopted == Spec => AdoptsWhatIsOwed
<1>1. ASSUME IInv, [Next]_vars, NEW t \in Type, NEW s \in Serial,
             watcher.pc = "each", watcher'.pc = "forget", s \in ids'[t] \ ids[t]
      PROVE  crossed \/ (fresh(owed[watcher'.key]) /\ owed[watcher'.key].type = t)
  <2>1. watcher \in Watching /\ ids \in [Type -> SUBSET Id] /\ Paired
    BY <1>1 DEF IInv, TypeOK, Watching
  <2>2. PICK r \in Serial : AdoptOne(r)
    BY <1>1, AdoptionStep
  <2>3. PICK k \in PairedKey(r) :
          /\ add_declared(pairings[k].type, r)
          /\ watcher' = [watcher EXCEPT !.todo = @ \ {r}, !.key = k, !.pc = "forget"]
    BY <1>1, <2>2 DEF AdoptOne
  <2>4. watcher'.key = k
    BY <2>1, <2>3 DEF Watching
  <2>5. t = pairings[k].type
    BY <1>1, <2>1, <2>3 DEF add_declared
  <2>6. k \in Key /\ fresh(pairings[k])
    <3>1. PICK i \in DOMAIN CandidateKeys[r] :
            k = CandidateKeys[r][i] /\ fresh(pairings[CandidateKeys[r][i]])
      BY <2>3 DEF PairedKey
    <3>2. CandidateKeys[r] \in Seq(Key)
      BY AdoptionAssumption
    <3> QED BY <3>1, <3>2
  <2> QED BY <2>1, <2>4, <2>5, <2>6 DEF Paired
<1>2. IInv /\ [Next]_vars
      => [\A t \in Type, s \in Serial :
            watcher.pc = "each" /\ watcher'.pc = "forget" /\ s \in ids'[t] \ ids[t]
            => crossed \/ (/\ fresh(owed[watcher'.key])
                           /\ owed[watcher'.key].type = t)]_vars
  BY <1>1
<1> QED BY <1>2, Invariance, PTL DEF Spec, AdoptsWhatIsOwed
=============================================================================
