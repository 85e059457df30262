-------------------------- MODULE FlashBatchProofs --------------------------
(***************************************************************************)
(* The safety properties of FlashBatch for any boards, flashers, order of  *)
(* selection and number of outside events, and those of the log of a job   *)
(* (JobStream), which is how such a batch is followed.                     *)
(*                                                                         *)
(* None of them is inductive.  What is: where the batch is and what it has *)
(* in hand (InHand, Outage), that every board is in one place only (Fresh, *)
(* Accounted), what the boards hold (Held), that the offset was asked for  *)
(* (Asked), and who is on its way back (Back).  For the log: what the       *)
(* batcher holds (RingHeld), and that what was sent, what is in hand and   *)
(* what is to be added continue one another (LogInv).                      *)
(***************************************************************************)
EXTENDS FlashBatch, JobStream, TLAPS, SequenceTheorems

Busy == {"locate", "probe", "await", "write", "record", "settle"}

\* Boards nobody has begun with, those of the group to come included.
Untouched == todo \cup (IF group = "free" THEN InGroup("stopped") ELSE {})

\* Where the batch is and what it has in hand.
InHand ==
    /\ pc \in Busy <=> cur # Nobody
    /\ pc \in Busy => cur \in InGroup(group)
    /\ todo \subseteq InGroup(group)
    /\ pc \in {"locate", "probe"} => ~moved
    /\ pc = "await" => Kind[cur] = "usb"
    /\ pc = "unwind" => raised # "no"
    /\ raised # "no" => pc \in {"unwind", "done"}
    /\ (pc \in {"ready", "done"} /\ raised = "no") => Untouched = {}

\* While boards are written the services are down exactly for the group that
\* asked for it.
Outage ==
    pc \in Busy \cup {"open", "next"} => (klipper = "down" <=> group = "stopped")

\* Every board is in one place only: not begun, in hand, flashed or failed.
Fresh ==
    /\ \A b \in Untouched : b \notin flashed \cup failures /\ b # cur /\ holds[b] = "old"
    /\ pc \in Busy \ {"settle"} => cur \notin flashed \cup failures
    /\ pc \in Busy \ {"record", "settle"} => holds[cur] = "old"
    /\ pc = "record" => holds[cur] = "new"
    /\ pc = "settle" => cur \in flashed

Accounted ==
    /\ raised = "no" => Board \subseteq Untouched \cup flashed \cup failures \cup {cur}
    /\ Refused \subseteq failures
    /\ flashed \cap failures = {}

\* What the boards hold, against the results.
Held ==
    /\ flashed = Written \ failures
    /\ \A b \in Board : holds[b] = "half" => b \in failures
    /\ ledger \cup unfiled = {b \in flashed : Kind[b] # "dfu"}

\* The write of a board whose bootloader must be asked comes after a match.
Checked(b) == Linked /\ (Kind[b] = "usb" \/ (Kind[b] = "native" /\ Known[b]))
Asked ==
    /\ pc \in {"await", "write"} => (Checked(cur) => jump[cur] = "match")
    /\ \A b \in Board : Checked(b) /\ jump[b] # "match" => holds[b] = "old"

\* A board written over USB is on its way back only while it is waited for, or
\* has been in vain.
Back ==
    \A b \in flashed :
        (Kind[b] = "usb" /\ mode[b] = "rebooting")
        => b \in late \/ (pc = "settle" /\ cur = b)

IInv ==
    /\ TypeOK /\ InHand /\ Outage /\ Fresh /\ Accounted /\ Held /\ Asked /\ Back

\* At the start nothing is begun, flashed or filed, and what selection refused is
\* listed (batch.py write_all, first lines).
LEMMA InitIInv == Init => IInv
  <1> SUFFICES ASSUME Init PROVE IInv
    OBVIOUS
  <1> USE BatchAssumption DEF Init, Busy, Mode
  <1>1. TypeOK
    <2>1. events \in 0 .. MaxEvents
      BY DEF BatchAssumption
    <2>2. moved \in BOOLEAN /\ cancel \in BOOLEAN
      OBVIOUS
    <2>3. mode \in [Board -> Mode] /\ todo \in SUBSET Board
      BY DEF InGroup
    <2> QED BY <2>1, <2>2, <2>3 DEF TypeOK
  <1>2. InHand
    BY DEF InHand, InGroup
  <1>3. Outage
    BY DEF Outage
  <1>4. Fresh
    BY DEF Fresh, Untouched, InGroup
  <1>5. Accounted
    BY DEF Accounted, Untouched, InGroup, Stops
  <1>6. Held
    BY DEF Held, Written
  <1>7. Asked
    BY DEF Asked
  <1>8. Back
    BY DEF Back
  <1> QED BY <1>1, <1>2, <1>3, <1>4, <1>5, <1>6, <1>7, <1>8 DEF IInv

\* A session opens for boards of the group, or raises.
LEMMA OpenSessionPreserves == IInv /\ OpenSession => IInv'
  <1> SUFFICES ASSUME IInv, OpenSession PROVE IInv'
    OBVIOUS
  <1> USE BatchAssumption DEF IInv, TypeOK, InHand, Busy, devices, results,
        OpenSession, Raise
  <1>1. TypeOK'
    BY DEF Mode, InGroup
  <1>2. InHand'
    BY DEF Untouched, InGroup
  <1>3. Outage'
    BY DEF Outage, InGroup
  <1>4. Fresh'
    BY DEF Fresh, Untouched, InGroup
  <1>5. Accounted'
    BY DEF Fresh, Accounted, Untouched
  <1>6. Held'
    BY DEF Fresh, Held, Written, InGroup
  <1>7. Asked'
    BY DEF Fresh, Asked, Checked
  <1>8. Back'
    BY DEF Fresh, Back
  <1> QED BY <1>1, <1>2, <1>3, <1>4, <1>5, <1>6, <1>7, <1>8

\* The next board is one not begun, and a cancel leaves all in place.
LEMMA NextBoardPreserves == IInv /\ NextBoard => IInv'
  <1> SUFFICES ASSUME IInv, NextBoard PROVE IInv'
    OBVIOUS
  <1> USE BatchAssumption DEF IInv, TypeOK, InHand, Busy, devices, results,
        NextBoard, Raise, Mine, First
  <1>1. TypeOK'
    <2>1. CASE cancel
      BY <2>1
    <2>2. CASE ~cancel
      <3>1. PICK b \in Mine : cur' = b /\ todo' = todo \ {b}
        BY <2>2
      <3> QED BY <2>2, <3>1
    <2> QED BY <2>1, <2>2
  <1>2. InHand'
    BY DEF Untouched, InGroup
  <1>3. Outage'
    BY DEF Outage, InGroup
  <1>4. Fresh'
    BY DEF Fresh, Untouched, InGroup
  <1>5. Accounted'
    BY DEF Fresh, Accounted, Untouched
  <1>6. Held'
    BY DEF Fresh, Held, Written, InGroup
  <1>7. Asked'
    BY DEF Fresh, Asked, Checked
  <1>8. Back'
    BY DEF Fresh, Back
  <1> QED BY <1>1, <1>2, <1>3, <1>4, <1>5, <1>6, <1>7, <1>8

\* A session closes with nothing in hand.
LEMMA CloseSessionPreserves == IInv /\ CloseSession => IInv'
  <1> SUFFICES ASSUME IInv, CloseSession PROVE IInv'
    OBVIOUS
  <1> USE BatchAssumption DEF IInv, TypeOK, InHand, Busy, devices, results,
        CloseSession, Mine
  <1>1. TypeOK'
    BY DEF Mode, InGroup
  <1>2. InHand'
    BY DEF Untouched, InGroup
  <1>3. Outage'
    BY DEF Outage, InGroup
  <1>4. Fresh'
    BY DEF Fresh, Untouched, InGroup
  <1>5. Accounted'
    BY DEF Fresh, Accounted, Untouched
  <1>6. Held'
    BY DEF Fresh, Held, Written, InGroup
  <1>7. Asked'
    BY DEF Fresh, Asked, Checked
  <1>8. Back'
    BY DEF Fresh, Back
  <1> QED BY <1>1, <1>2, <1>3, <1>4, <1>5, <1>6, <1>7, <1>8

\* The group that needs the outage begins as it starts, or never.
LEMMA EnterOutagePreserves == IInv /\ EnterOutage => IInv'
  <1> SUFFICES ASSUME IInv, EnterOutage PROVE IInv'
    OBVIOUS
  <1> USE BatchAssumption DEF IInv, TypeOK, InHand, Busy, devices, results,
        EnterOutage, Raise
  <1>1. TypeOK'
    BY DEF Mode, InGroup
  <1>2. InHand'
    BY DEF Untouched, InGroup
  <1>3. Outage'
    BY DEF Outage, InGroup
  <1>4. Fresh'
    BY DEF Fresh, Untouched, InGroup
  <1>5. Accounted'
    BY DEF Fresh, Accounted, Untouched
  <1>6. Held'
    BY DEF Fresh, Held, Written, InGroup
  <1>7. Asked'
    BY DEF Fresh, Asked, Checked
  <1>8. Back'
    BY DEF Fresh, Back
  <1> QED BY <1>1, <1>2, <1>3, <1>4, <1>5, <1>6, <1>7, <1>8

\* Services start when both groups are through.
LEMMA LeaveOutagePreserves == IInv /\ LeaveOutage => IInv'
  <1> SUFFICES ASSUME IInv, LeaveOutage PROVE IInv'
    OBVIOUS
  <1> USE BatchAssumption DEF IInv, TypeOK, InHand, Busy, devices, results,
        LeaveOutage
  <1>1. TypeOK'
    BY DEF Mode, InGroup
  <1>2. InHand'
    BY DEF Untouched, InGroup
  <1>3. Outage'
    BY DEF Outage, InGroup
  <1>4. Fresh'
    BY DEF Fresh, Untouched, InGroup
  <1>5. Accounted'
    BY DEF Fresh, Accounted, Untouched
  <1>6. Held'
    BY DEF Fresh, Held, Written, InGroup
  <1>7. Asked'
    BY DEF Fresh, Asked, Checked
  <1>8. Back'
    BY DEF Fresh, Back
  <1> QED BY <1>1, <1>2, <1>3, <1>4, <1>5, <1>6, <1>7, <1>8

\* An exception ends the outage wherever it was raised.
LEMMA UnwindPreserves == IInv /\ Unwind => IInv'
  <1> SUFFICES ASSUME IInv, Unwind PROVE IInv'
    OBVIOUS
  <1> USE BatchAssumption DEF IInv, TypeOK, InHand, Busy, devices, results,
        Unwind
  <1>1. TypeOK'
    BY DEF Mode, InGroup
  <1>2. InHand'
    BY DEF Untouched, InGroup
  <1>3. Outage'
    BY DEF Outage, InGroup
  <1>4. Fresh'
    BY DEF Fresh, Untouched, InGroup
  <1>5. Accounted'
    BY DEF Fresh, Accounted, Untouched
  <1>6. Held'
    BY DEF Fresh, Held, Written, InGroup
  <1>7. Asked'
    BY DEF Fresh, Asked, Checked
  <1>8. Back'
    BY DEF Fresh, Back
  <1> QED BY <1>1, <1>2, <1>3, <1>4, <1>5, <1>6, <1>7, <1>8

\* The wait for Klipper changes no result.
LEMMA ReadyPreserves == IInv /\ Ready => IInv'
  <1> SUFFICES ASSUME IInv, Ready PROVE IInv'
    OBVIOUS
  <1> USE BatchAssumption DEF IInv, TypeOK, InHand, Busy, devices, results,
        Ready
  <1>1. TypeOK'
    BY DEF Mode, InGroup
  <1>2. InHand'
    BY DEF Untouched, InGroup
  <1>3. Outage'
    BY DEF Outage, InGroup
  <1>4. Fresh'
    BY DEF Fresh, Untouched, InGroup
  <1>5. Accounted'
    BY DEF Fresh, Accounted, Untouched
  <1>6. Held'
    BY DEF Fresh, Held, Written, InGroup
  <1>7. Asked'
    BY DEF Fresh, Asked, Checked
  <1>8. Back'
    BY DEF Fresh, Back
  <1> QED BY <1>1, <1>2, <1>3, <1>4, <1>5, <1>6, <1>7, <1>8

\* A board is located, or fails untouched.
LEMMA LocatePreserves == IInv /\ Locate => IInv'
  <1> SUFFICES ASSUME IInv, Locate PROVE IInv'
    OBVIOUS
  <1> USE BatchAssumption DEF IInv, TypeOK, InHand, Busy, devices, results,
        Locate, Fail
  <1>1. TypeOK'
    BY DEF Mode, InGroup
  <1>2. InHand'
    BY DEF Untouched, InGroup
  <1>3. Outage'
    BY DEF Outage, InGroup
  <1>4. Fresh'
    BY DEF Fresh, Untouched, InGroup
  <1>5. Accounted'
    BY DEF Fresh, Accounted, Untouched
  <1>6. Held'
    BY DEF Fresh, Held, Written, InGroup
  <1>7. Asked'
    BY DEF Fresh, Asked, Checked
  <1>8. Back'
    BY DEF Fresh, Back
  <1> QED BY <1>1, <1>2, <1>3, <1>4, <1>5, <1>6, <1>7, <1>8

\* Only a match goes on to the write.
LEMMA ProbePreserves == IInv /\ Probe => IInv'
  <1> SUFFICES ASSUME IInv, Probe PROVE IInv'
    OBVIOUS
  <1> USE BatchAssumption DEF IInv, TypeOK, InHand, Busy, devices, results,
        Probe, Fail, ProbeMoves
  <1>1. TypeOK'
    BY DEF Mode, InGroup
  <1>2. InHand'
    BY DEF Untouched, InGroup
  <1>3. Outage'
    BY DEF Outage, InGroup
  <1>4. Fresh'
    BY DEF Fresh, Untouched, InGroup
  <1>5. Accounted'
    BY DEF Fresh, Accounted, Untouched
  <1>6. Held'
    BY DEF Fresh, Held, Written, InGroup
  <1>7. Asked'
    BY DEF Fresh, Asked, Checked
  <1>8. Back'
    BY DEF Fresh, Back
  <1> QED BY <1>1, <1>2, <1>3, <1>4, <1>5, <1>6, <1>7, <1>8

\* No answer goes on to the write only where a bridge is possible.
LEMMA ProbeSilentPreserves == IInv /\ ProbeSilent => IInv'
  <1> SUFFICES ASSUME IInv, ProbeSilent PROVE IInv'
    OBVIOUS
  <1> USE BatchAssumption DEF IInv, TypeOK, InHand, Busy, devices, results,
        ProbeSilent, Fail
  <1>1. TypeOK'
    BY DEF Mode, InGroup
  <1>2. InHand'
    BY DEF Untouched, InGroup
  <1>3. Outage'
    BY DEF Outage, InGroup
  <1>4. Fresh'
    BY DEF Fresh, Untouched, InGroup
  <1>5. Accounted'
    BY DEF Fresh, Accounted, Untouched
  <1>6. Held'
    BY DEF Fresh, Held, Written, InGroup
  <1>7. Asked'
    BY DEF Fresh, Asked, Checked
  <1>8. Back'
    BY DEF Fresh, Back
  <1> QED BY <1>1, <1>2, <1>3, <1>4, <1>5, <1>6, <1>7, <1>8

\* The board is back in its bootloader, or fails.
LEMMA AwaitPreserves == IInv /\ Await => IInv'
  <1> SUFFICES ASSUME IInv, Await PROVE IInv'
    OBVIOUS
  <1> USE BatchAssumption DEF IInv, TypeOK, InHand, Busy, devices, results,
        Await, Fail
  <1>1. TypeOK'
    BY DEF Mode, InGroup
  <1>2. InHand'
    BY DEF Untouched, InGroup
  <1>3. Outage'
    BY DEF Outage, InGroup
  <1>4. Fresh'
    BY DEF Fresh, Untouched, InGroup
  <1>5. Accounted'
    BY DEF Fresh, Accounted, Untouched
  <1>6. Held'
    BY DEF Fresh, Held, Written, InGroup
  <1>7. Asked'
    BY DEF Fresh, Asked, Checked
  <1>8. Back'
    BY DEF Fresh, Back
  <1> QED BY <1>1, <1>2, <1>3, <1>4, <1>5, <1>6, <1>7, <1>8

\* The board in hand gets the image.
LEMMA WritePreserves == IInv /\ Write => IInv'
  <1> SUFFICES ASSUME IInv, Write PROVE IInv'
    OBVIOUS
  <1> USE BatchAssumption DEF IInv, TypeOK, InHand, Busy, devices, results,
        Write, Reached
  <1>1. TypeOK'
    BY DEF Mode, InGroup
  <1>2. InHand'
    BY DEF Untouched, InGroup
  <1>3. Outage'
    BY DEF Outage, InGroup
  <1>4. Fresh'
    BY DEF Fresh, Untouched, InGroup
  <1>5. Accounted'
    BY DEF Fresh, Accounted, Untouched
  <1>6. Held'
    BY DEF Fresh, Held, Written, InGroup
  <1>7. Asked'
    BY DEF Fresh, Asked, Checked
  <1>8. Back'
    BY DEF Fresh, Back
  <1> QED BY <1>1, <1>2, <1>3, <1>4, <1>5, <1>6, <1>7, <1>8

\* The board in hand fails, whatever it holds.
LEMMA WriteFailsPreserves == IInv /\ WriteFails => IInv'
  <1> SUFFICES ASSUME IInv, WriteFails PROVE IInv'
    OBVIOUS
  <1> USE BatchAssumption DEF IInv, TypeOK, InHand, Busy, devices, results,
        WriteFails, Fail, Reached
  <1>1. TypeOK'
    BY DEF Mode, InGroup
  <1>2. InHand'
    BY DEF Untouched, InGroup
  <1>3. Outage'
    BY DEF Outage, InGroup
  <1>4. Fresh'
    BY DEF Fresh, Untouched, InGroup
  <1>5. Accounted'
    BY DEF Fresh, Accounted, Untouched
  <1>6. Held'
    BY DEF Fresh, Held, Written, InGroup
  <1>7. Asked'
    BY DEF Fresh, Asked, Checked
  <1>8. Back'
    BY DEF Fresh, Back
  <1> QED BY <1>1, <1>2, <1>3, <1>4, <1>5, <1>6, <1>7, <1>8

\* The image is on the board and the record follows.
LEMMA RecordPreserves == IInv /\ Record => IInv'
  <1> SUFFICES ASSUME IInv, Record PROVE IInv'
    OBVIOUS
  <1> USE BatchAssumption DEF IInv, TypeOK, InHand, Busy, devices, results,
        Record
  <1>1. TypeOK'
    BY DEF Mode, InGroup
  <1>2. InHand'
    BY DEF Untouched, InGroup
  <1>3. Outage'
    BY DEF Outage, InGroup
  <1>4. Fresh'
    BY DEF Fresh, Untouched, InGroup
  <1>5. Accounted'
    BY DEF Fresh, Accounted, Untouched
  <1>6. Held'
    BY DEF Fresh, Held, Written, InGroup
  <1>7. Asked'
    BY DEF Fresh, Asked, Checked
  <1>8. Back'
    BY DEF Fresh, Back
  <1> QED BY <1>1, <1>2, <1>3, <1>4, <1>5, <1>6, <1>7, <1>8

\* The board is back, or late.
LEMMA SettlePreserves == IInv /\ Settle => IInv'
  <1> SUFFICES ASSUME IInv, Settle PROVE IInv'
    OBVIOUS
  <1> USE BatchAssumption DEF IInv, TypeOK, InHand, Busy, devices, results,
        Settle
  <1>1. TypeOK'
    BY DEF Mode, InGroup
  <1>2. InHand'
    BY DEF Untouched, InGroup
  <1>3. Outage'
    BY DEF Outage, InGroup
  <1>4. Fresh'
    BY DEF Fresh, Untouched, InGroup
  <1>5. Accounted'
    BY DEF Fresh, Accounted, Untouched
  <1>6. Held'
    BY DEF Fresh, Held, Written, InGroup
  <1>7. Asked'
    BY DEF Fresh, Asked, Checked
  <1>8. Back'
    BY DEF Fresh, Back
  <1> QED BY <1>1, <1>2, <1>3, <1>4, <1>5, <1>6, <1>7, <1>8

\* What happens to boards by themselves, and a request to cancel, disturb nothing
\* the batch relies on.
LEMMA OutsidePreserves ==
  ASSUME IInv,
         (\E b \in Board : Enumerate(b) \/ Unplug(b) \/ PowerCycle(b)) \/ RequestCancel
  PROVE  IInv'
  <1> USE BatchAssumption DEF IInv, TypeOK, InHand, Busy, results, rest, RequestCancel,
        Enumerate, Unplug, PowerCycle
  <1>1. TypeOK'
    <2>1. events' \in 0 .. MaxEvents
      BY DEF BatchAssumption
    <2>2. mode' \in [Board -> Mode]
      BY DEF Mode
    <2>3. cancel' \in BOOLEAN
      OBVIOUS
    <2> QED BY <2>1, <2>2, <2>3
  <1>2. InHand'
    BY DEF Untouched, InGroup
  <1>3. Outage'
    BY DEF Outage, InGroup
  <1>4. Fresh'
    BY DEF Fresh, Untouched, InGroup
  <1>5. Accounted'
    BY DEF Fresh, Accounted, Untouched, InGroup
  <1>6. Held'
    BY DEF Fresh, Held, Written, InGroup
  <1>7. Asked'
    BY DEF Fresh, Asked, Checked
  <1>8. Back'
    BY DEF Fresh, Back
  <1> QED BY <1>1, <1>2, <1>3, <1>4, <1>5, <1>6, <1>7, <1>8

\* Every step preserves the invariant: one lemma for each of write_all's own.
LEMMA NextPreserves == IInv /\ [Next]_vars => IInv'
  <1> SUFFICES ASSUME IInv, [Next]_vars PROVE IInv'
    OBVIOUS
  <1>1. CASE Step
    BY <1>1, OpenSessionPreserves, NextBoardPreserves, CloseSessionPreserves,
       EnterOutagePreserves, LeaveOutagePreserves, UnwindPreserves, ReadyPreserves,
       LocatePreserves, ProbePreserves, ProbeSilentPreserves, AwaitPreserves,
       WritePreserves, WriteFailsPreserves, RecordPreserves, SettlePreserves
    DEF Step
  <1>2. CASE (\E b \in Board : Enumerate(b) \/ Unplug(b) \/ PowerCycle(b)) \/ RequestCancel
    BY <1>2, OutsidePreserves
  <1>3. CASE UNCHANGED vars
    BY <1>3
    DEF vars, devices, results, IInv, TypeOK, InHand, Outage, Fresh, Accounted, Held,
        Asked, Back, Untouched, InGroup, Written
  <1> QED BY <1>1, <1>2, <1>3 DEF Next

\* The invariant holds throughout any batch.
LEMMA Invariance == Spec => []IInv
  BY InitIInv, NextPreserves, PTL DEF Spec

\* Type correctness of the batch, for any boards and any number of events.
THEOREM TypeCorrect == Spec => []TypeOK
  <1>1. IInv => TypeOK
    BY DEF IInv
  <1> QED BY <1>1, Invariance, PTL

\* No board is written whose bootloader is known to start something else, for
\* any boards, any failures of the probe and any cancel (flash.py
\* _verify_offset_before_write, flash_katapult_can).
THEOREM OffsetIsGuarded == Spec => []OffsetGuarded
  <1>1. IInv => OffsetGuarded
    BY DEF IInv, Asked, Checked, OffsetGuarded
  <1> QED BY <1>1, Invariance, PTL

\* The ledger follows the writes, whatever fails after them (batch.py write_all).
THEOREM LedgerIsExact == Spec => []LedgerExact
  <1>1. IInv => LedgerExact
    BY DEF IInv, Held, LedgerExact, Written
  <1> QED BY <1>1, Invariance, PTL

\* The result accounts for every device once (batch.py write_all).
THEOREM ResultIsExact == Spec => []ResultExact
  <1>1. ASSUME IInv PROVE ResultExact
    <2> USE <1>1 DEF IInv
    <2>1. flashed \cap failures = {} /\ flashed = Written \ failures
      BY DEF Accounted, Held
    <2>2. \A b \in Board : holds[b] = "half" => b \in failures
      BY DEF Held
    <2>3. ASSUME pc = "done", raised = "no"
          PROVE  flashed \cup failures = Board \cup Refused
      <3>1. Untouched = {} /\ cur = Nobody
        BY <2>3 DEF InHand, Busy
      <3>2. Board \subseteq flashed \cup failures
        BY <2>3, <3>1, BatchAssumption DEF Accounted
      <3> QED BY <3>2 DEF Accounted, TypeOK
    <2> QED BY <2>1, <2>2, <2>3 DEF ResultExact
  <1> QED BY <1>1, Invariance, PTL

\* Ledger and result agree with the boards, whatever failed or was cancelled.
THEOREM AccountIsExact == Spec => []AccountExact
  <1>1. LedgerExact /\ ResultExact => AccountExact
    BY DEF AccountExact
  <1> QED BY <1>1, LedgerIsExact, ResultIsExact, PTL

\* A board that needs the outage is written and rebooted within it only, and one
\* that does not, outside (batch.py write_all).
THEOREM TouchesInTheirOutage == Spec => TouchedInItsOutage
  <1> DEFINE Inside == \A b \in Board :
         (holds'[b] # holds[b] \/ (mode[b] = "app" /\ mode'[b] = "leaving"))
         => (klipper = "down") = Stops(b)
  <1>1. ASSUME IInv, [Next]_vars PROVE Inside
    <2> SUFFICES ASSUME NEW b \in Board,
                        holds'[b] # holds[b] \/ (mode[b] = "app" /\ mode'[b] = "leaving")
                 PROVE  (klipper = "down") = Stops(b)
      OBVIOUS
    <2> USE <1>1
    <2>1. pc \in Busy /\ cur = b
      <3>1. CASE Step
        BY <3>1
        DEF Step, OpenSession, NextBoard, CloseSession, EnterOutage, LeaveOutage, Unwind,
            Ready, Locate, Probe, ProbeMoves, ProbeSilent, Await, Write, WriteFails, Record,
            Settle, devices, Busy, IInv, TypeOK
      <3>2. CASE (\E c \in Board : Enumerate(c) \/ Unplug(c) \/ PowerCycle(c)) \/ RequestCancel
        BY <3>2 DEF Enumerate, Unplug, PowerCycle, RequestCancel, rest, IInv, TypeOK
      <3>3. CASE UNCHANGED vars
        BY <3>3 DEF vars, devices
      <3> QED BY <3>1, <3>2, <3>3 DEF Next
    <2>2. b \in InGroup(group)
      BY <2>1 DEF IInv, InHand
    <2>3. klipper = "down" <=> group = "stopped"
      BY <2>1 DEF IInv, Outage
    <2> QED BY <2>2, <2>3 DEF InGroup, Stops
  <1> QED BY <1>1, Invariance, PTL DEF Spec, TouchedInItsOutage

\* A refusal says that the check rebooted the board (flash.py aftermath).
THEOREM RefusalsTellWhere == Spec => RefusalTellsWhere
  <1> DEFINE Told == \A b \in Board :
         (/\ Kind[b] = "usb"
          /\ b \in failures' \ failures
          /\ pc \in {"probe", "await"}
          /\ moved' /\ mode'[b] \in {"leaving", "katapult"})
         => b \in told'
  <1>1. ASSUME IInv, [Next]_vars PROVE Told
    <2> USE <1>1
    <2>1. CASE Step
      BY <2>1
      DEF Step, OpenSession, NextBoard, CloseSession, EnterOutage, LeaveOutage, Unwind,
          Ready, Locate, Probe, ProbeSilent, Await, Write, WriteFails, Record, Settle,
          Fail, results, IInv, TypeOK, InHand
    <2>2. CASE (\E c \in Board : Enumerate(c) \/ Unplug(c) \/ PowerCycle(c)) \/ RequestCancel
      BY <2>2 DEF Enumerate, Unplug, PowerCycle, RequestCancel, rest, results
    <2>3. CASE UNCHANGED vars
      BY <2>3 DEF vars, results
    <2> QED BY <2>1, <2>2, <2>3 DEF Next
  <1> QED BY <1>1, Invariance, PTL DEF Spec, RefusalTellsWhere

\* Services start when every board written over USB is back, or late
\* (flashtool.py settled).
THEOREM SettlesBeforeRestart == Spec => SettledBeforeRestart
  <1> DEFINE Ok == (klipper = "down" /\ klipper' = "up") =>
         \A b \in flashed :
            (Kind[b] = "usb" /\ mode[b] = "rebooting") => b \in late
  <1>1. ASSUME IInv, [Next]_vars PROVE Ok
    <2> USE <1>1
    <2>1. CASE Step
      BY <2>1
      DEF Step, OpenSession, NextBoard, CloseSession, EnterOutage, LeaveOutage, Unwind,
          Ready, Locate, Probe, ProbeSilent, Await, Write, WriteFails, Record, Settle,
          IInv, Back
    <2>2. CASE (\E c \in Board : Enumerate(c) \/ Unplug(c) \/ PowerCycle(c)) \/ RequestCancel
      BY <2>2 DEF Enumerate, Unplug, PowerCycle, RequestCancel, rest
    <2>3. CASE UNCHANGED vars
      BY <2>3 DEF vars
    <2> QED BY <2>1, <2>2, <2>3 DEF Next
  <1> QED BY <1>1, Invariance, PTL DEF Spec, SettledBeforeRestart
-----------------------------------------------------------------------------
(* What a batch says while it runs: the job log, for any number of jobs,   *)
(* lines and disconnections.  Batches of a job go out in order, and its    *)
(* end is not announced over lines that are still pending.  The invariant  *)
(* says where each index is: below Floor[j] the lines of j have been       *)
(* handed to the connection, from there to Added(j) they are in the        *)
(* batcher, and at most one more is in the job's ring but not there.       *)

AtLine == {"line", "step", "lastline"}

\* The lines of a job that the batcher has been given.
Added(j) == IF work[j] \in AtLine THEN next[j] - 1 ELSE next[j]

\* The lines of a job that have been handed to the connection.
Floor == [j \in Jobs |-> IF batch.job = j THEN batch.from ELSE Added(j)]

\* A job that was not submitted has no thread, and a line stage has its line.
Appended ==
    \A j \in Jobs : /\ state[j] = "none" => work[j] = "none"
                    /\ work[j] \in AtLine => next[j] > 0

\* The batch holds the newest lines of its job, and never a full load.
RingHeld ==
    /\ batch.from <= batch.to /\ Pending(batch) < MaxBatch
    /\ batch.job = 0 => Pending(batch) = 0
    /\ batch.job \in Jobs => batch.to = Added(batch.job)

\* What main and cancel() announce is a job.
Taken == /\ main \in {"copy", "tell"} => snap.job \in Jobs
         /\ rpc.at \in {"flush", "copy", "tell"} => rpc.job \in Jobs

Calls == [at : {"no", "flush", "copy", "tell"}, job : {0} \cup Jobs, state : State]

Ordered(q) == \A i, k \in Logs(q) : i < k /\ q[i].job = q[k].job => After(q, i) <= q[k].seq
Below(q, f) == \A i \in Logs(q) : After(q, i) <= f[q[i].job]

LogInv == AgentOK /\ Appended /\ RingHeld /\ Taken /\ Ordered(wire) /\ Below(wire, Floor) /\ VerdictAfterLines

\* An event that is no batch changes nothing about the batches before it.
LEMMA PlainEvent ==
    ASSUME NEW q \in Seq(Event), NEW e \in Event, e.e # "log", NEW f, Ordered(q), Below(q, f)
    PROVE  /\ q \o <<e>> \in Seq(Event)
           /\ Ordered(q \o <<e>>) /\ Below(q \o <<e>>, f)
<1> DEFINE r == q \o <<e>>
<1>1. r \in Seq(Event) /\ Len(r) = Len(q) + 1 /\ r[Len(q) + 1] = e
      /\ \A i \in 1..Len(q) : r[i] = q[i]
  OBVIOUS
<1>2. Logs(r) = Logs(q) /\ Logs(q) \subseteq 1..Len(q)
  BY <1>1 DEF Logs
<1>3. \A i \in Logs(q) : r[i] = q[i]
  BY <1>1, <1>2
<1> HIDE DEF r
<1> QED BY <1>1, <1>2, <1>3 DEF Ordered, Below, After, r

\* The batcher's lines go out behind everything that went before.
LEMMA BatchSent ==
    ASSUME NEW q \in Seq(Event), NEW f \in [Jobs -> Int], NEW g \in [Jobs -> Int],
           NEW b \in [job : {0} \cup Jobs, from : Index, to : Index],
           b.from <= b.to, Pending(b) <= MaxBatch, Pending(b) > 0 => b.job \in Jobs,
           Pending(b) > 0 => f[b.job] <= b.from /\ b.to <= g[b.job],
           \A j \in Jobs : f[j] <= g[j],
           Ordered(q), Below(q, f)
    PROVE  /\ q \o Batches(b) \in Seq(Event)
           /\ Ordered(q \o Batches(b)) /\ Below(q \o Batches(b), g)
           /\ Below(q, g)
<1> USE StreamAssumption
<1>0. \A i \in Logs(q) : i \in 1..Len(q) /\ q[i] \in Event /\ q[i].e = "log"
  BY DEF Logs
<1>1. \A i \in Logs(q) : q[i].job \in Jobs /\ q[i].seq \in Nat /\ q[i].n \in Nat
  <2> TAKE i \in Logs(q)
  <2>1. q[i] \in [e : {"log"}, job : Jobs, seq : Index, n : 1..MaxBatch]
    BY <1>0 DEF Event
  <2> QED BY <2>1 DEF Index
<1>2. Below(q, g)
  <2> SUFFICES ASSUME NEW i \in Logs(q) PROVE After(q, i) <= g[q[i].job]
    BY DEF Below
  <2>1. q[i].seq + q[i].n <= f[q[i].job] /\ f[q[i].job] <= g[q[i].job]
    BY <1>1 DEF Below, After
  <2> QED BY <2>1, <1>1 DEF After
<1>3. CASE Pending(b) = 0
  <2>1. Batches(b) = <<>> /\ q \o <<>> = q
    BY <1>3 DEF Batches
  <2> QED BY <2>1, <1>2
<1>4. CASE Pending(b) # 0
  <2> DEFINE e == [e |-> "log", job |-> b.job, seq |-> b.from, n |-> Pending(b)]
             r == q \o <<e>>
  <2>0. Pending(b) \in 1..MaxBatch /\ b.job \in Jobs
    BY <1>4 DEF Pending, Index
  <2>1. e \in [e : {"log"}, job : Jobs, seq : Index, n : 1..MaxBatch]
    BY <2>0
  <2>2. e \in Event /\ e.e = "log" /\ e.job = b.job /\ e.seq = b.from /\ e.seq + e.n = b.to
    BY <2>0, <2>1 DEF Event, Pending, Index
  <2>3. Batches(b) = <<e>>
    BY <1>4 DEF Batches
  <2> HIDE DEF e
  <2>4. r \in Seq(Event) /\ Len(r) = Len(q) + 1 /\ r[Len(q) + 1] = e
        /\ \A i \in 1..Len(q) : r[i] = q[i]
    BY <2>2
  <2>5. \A i \in Logs(r) : i \in Logs(q) \/ i = Len(q) + 1
    BY <2>4 DEF Logs
  <2>6. \A i \in Logs(q) : r[i] = q[i] /\ i <= Len(q)
    BY <2>4, <1>0
  <2> HIDE DEF r
  <2>7. Below(r, g)
    <3> SUFFICES ASSUME NEW i \in Logs(r) PROVE After(r, i) <= g[r[i].job]
      BY DEF Below
    <3>1. CASE i \in Logs(q)
      BY <3>1, <2>6, <1>2 DEF Below, After
    <3>2. CASE i = Len(q) + 1
      BY <3>2, <2>0, <2>2, <2>4 DEF After
    <3> QED BY <3>1, <3>2, <2>5
  <2>8. Ordered(r)
    <3> SUFFICES ASSUME NEW i \in Logs(r), NEW k \in Logs(r), i < k, r[i].job = r[k].job
                 PROVE  After(r, i) <= r[k].seq
      BY DEF Ordered
    <3>1. CASE k \in Logs(q)
      <4>1. i \in Logs(q)
        BY <3>1, <2>5, <2>6, <1>0
      <4> QED BY <3>1, <4>1, <2>6 DEF Ordered, After
    <3>2. CASE k = Len(q) + 1
      <4>1. i \in Logs(q)
        BY <3>2, <2>5
      <4>2. q[i].seq + q[i].n <= f[b.job] /\ f[b.job] <= b.from
        BY <4>1, <3>2, <2>0, <2>2, <2>4, <2>6 DEF Below, After
      <4>3. f[b.job] \in Int /\ b.from \in Int
        BY <2>0 DEF Index
      <4>4. After(r, i) = q[i].seq + q[i].n /\ r[k].seq = b.from
        BY <4>1, <3>2, <2>2, <2>4, <2>6 DEF After
      <4>5. q[i].seq + q[i].n \in Int
        BY <4>1, <1>1
      <4> QED BY <4>2, <4>3, <4>4, <4>5
    <3> QED BY <3>1, <3>2, <2>5
  <2> QED BY <2>3, <2>4, <2>7, <2>8, <1>2 DEF r
<1> QED BY <1>3, <1>4

-----------------------------------------------------------------------------
(* The invariant *)

THEOREM LogInitially == LogInit => LogInv
<1> SUFFICES ASSUME LogInit PROVE LogInv
  OBVIOUS
<1> USE StreamAssumption DEF LogInit, Index
<1>1. AgentOK
  BY DEF AgentOK, State, Stage
<1>2. Appended /\ RingHeld /\ Taken /\ VerdictAfterLines
  BY DEF Appended, AtLine, RingHeld, Pending, Jobs, Taken, VerdictAfterLines
<1>3. Logs(wire) = {}
  BY DEF Logs
<1> QED BY <1>1, <1>2, <1>3 DEF LogInv, Ordered, Below

LEMMA FloorType ==
    ASSUME AgentOK PROVE Floor \in [Jobs -> Int] /\ \A j \in Jobs : Added(j) \in Int
BY DEF AgentOK, Floor, Added, Index

\* An event that is no batch, or a received one, leaves the order as it was.
LEMMA Relayed ==
    ASSUME NEW f, wire \in Seq(Event), Ordered(wire), Below(wire, f),
           \/ wire' = wire
           \/ \E e \in Event : e.e # "log" /\ wire' = wire \o <<e>>
           \/ wire # <<>> /\ wire' = Tail(wire)
    PROVE  wire' \in Seq(Event) /\ Ordered(wire') /\ Below(wire', f)
<1>1. CASE wire' = wire
  BY <1>1
<1>2. CASE \E e \in Event : e.e # "log" /\ wire' = wire \o <<e>>
  BY <1>2, PlainEvent
<1>3. CASE wire # <<>> /\ wire' = Tail(wire)
  <2> DEFINE r == Tail(wire)
  <2>1. r \in Seq(Event) /\ Len(r) = Len(wire) - 1 /\ \A i \in 1..Len(r) : r[i] = wire[i + 1]
    BY <1>3
  <2>2. \A i \in Logs(r) : i \in 1..Len(r) /\ i + 1 \in Logs(wire) /\ r[i] = wire[i + 1]
    BY <2>1 DEF Logs
  <2> HIDE DEF r
  <2>3. Below(r, f)
    BY <2>2 DEF Below, After
  <2>4. Ordered(r)
    <3> SUFFICES ASSUME NEW i \in Logs(r), NEW k \in Logs(r), i < k, r[i].job = r[k].job
                 PROVE  After(r, i) <= r[k].seq
      BY DEF Ordered
    <3>1. i + 1 < k + 1
      BY <2>2, <2>1
    <3> QED BY <3>1, <2>2 DEF Ordered, After
  <2> QED BY <2>1, <2>3, <2>4, <1>3 DEF r
<1> QED BY <1>1, <1>2, <1>3

\* A step that leaves jobs and batch alone, and puts no batch on the wire.
LEMMA Elsewhere ==
    ASSUME LogInv, UNCHANGED <<state, next, work, batch>>, slot' = slot,
           conn' \in BOOLEAN, main' \in {"down", "look", "copy", "tell", "serve"},
           snap' \in [job : {0} \cup Jobs, state : State], rpc' \in Calls, Taken',
           \/ wire' = wire
           \/ \E e \in Event : e.e # "log" /\ wire' = wire \o <<e>>
           \/ wire # <<>> /\ wire' = Tail(wire)
    PROVE  LogInv'
<1> USE DEF LogInv
<1>1. wire' \in Seq(Event) /\ Ordered(wire') /\ Below(wire', Floor)
  BY Relayed DEF AgentOK
<1>2. Floor' = Floor
  BY DEF Floor, Added
<1>3. AgentOK'
  BY <1>1 DEF AgentOK, Calls
<1>4. Appended' /\ RingHeld' /\ VerdictAfterLines'
  BY DEF Appended, RingHeld, VerdictAfterLines, Added, Pending
<1> QED BY <1>1, <1>2, <1>3, <1>4

\* A step of a job that sends no batch and gives none to the batcher.
LEMMA JobMoves ==
    ASSUME LogInv, NEW j \in Jobs, UNCHANGED <<batch, conn, main, snap, rpc>>,
           slot' \in {0} \cup Jobs, state' \in [Jobs -> State], next' \in [Jobs -> Index],
           work' \in [Jobs -> Stage], Appended', VerdictAfterLines',
           \A i \in Jobs : Added(i)' = Added(i),
           \/ wire' = wire
           \/ \E e \in Event : e.e # "log" /\ wire' = wire \o <<e>>
    PROVE  LogInv'
<1> USE DEF LogInv
<1>1. wire' \in Seq(Event) /\ Ordered(wire') /\ Below(wire', Floor)
  BY Relayed DEF AgentOK
<1>2. Floor' = Floor
  BY DEF Floor
<1>3. AgentOK' /\ Taken'
  BY <1>1 DEF AgentOK, Taken
<1>4. RingHeld'
  BY DEF RingHeld, Pending
<1> QED BY <1>1, <1>2, <1>3, <1>4

-----------------------------------------------------------------------------
(* The steps *)

\* _flush_locked, by whichever thread.
LEMMA Flushed ==
    ASSUME LogInv, Emit(Batches(batch)), batch' = Cleared(batch), UNCHANGED <<slot, state, next, conn, main, snap>>,
           rpc' \in Calls, Taken', work' \in [Jobs -> Stage], \A j \in Jobs : Added(j)' = Added(j), Appended',
           VerdictAfterLines'
    PROVE  LogInv'
<1> USE StreamAssumption DEF LogInv
<1> DEFINE f == Floor
           g == [j \in Jobs |-> Added(j)]
<1>1. f \in [Jobs -> Int] /\ g \in [Jobs -> Int]
  BY FloorType
<1>2. batch \in [job : {0} \cup Jobs, from : Index, to : Index]
  BY DEF AgentOK
<1>3. batch.job \in Jobs => batch.to = g[batch.job] /\ f[batch.job] = batch.from
  BY DEF RingHeld, Floor
<1>4. \A j \in Jobs : f[j] <= g[j]
  BY <1>1, <1>2, <1>3 DEF RingHeld, Floor, Index
<1>5. /\ Pending(batch) <= MaxBatch /\ (Pending(batch) > 0 => batch.job \in Jobs)
      /\ Pending(batch) > 0 => f[batch.job] <= batch.from /\ batch.to <= g[batch.job]
  BY <1>1, <1>2, <1>3 DEF RingHeld, Pending, Index
<1>6. wire \in Seq(Event)
  BY DEF AgentOK
<1> HIDE DEF f, g
<1>7. /\ wire \o Batches(batch) \in Seq(Event)
      /\ Ordered(wire \o Batches(batch)) /\ Below(wire \o Batches(batch), g)
      /\ Below(wire, g)
  BY <1>1, <1>2, <1>4, <1>5, <1>6, BatchSent DEF f, RingHeld
<1>8. wire' \in Seq(Event) /\ Ordered(wire') /\ Below(wire', g)
  BY <1>6, <1>7 DEF Emit
<1>9. batch' \in [job : {0} \cup Jobs, from : Index, to : Index]
      /\ batch'.job = batch.job /\ batch'.from = batch.to /\ batch'.to = batch.to
  BY <1>2 DEF Cleared
<1>10. Floor' = g
  BY <1>3, <1>9 DEF Floor, g
<1>11. AgentOK'
  BY <1>8, <1>9 DEF AgentOK, Calls
<1>12. RingHeld'
  BY <1>2, <1>3, <1>9 DEF RingHeld, Pending, g, Index
<1> QED BY <1>8, <1>10, <1>11, <1>12

LEMMA StepTick == ASSUME LogInv, Tick PROVE LogInv'
<1>1. batch'.from = batch'.to /\ Pending(batch)' = 0
  BY DEF Tick, Cleared, LogInv, AgentOK, Pending, Index
<1>2. VerdictAfterLines'
  BY <1>1 DEF VerdictAfterLines
<1>3. Appended' /\ work' \in [Jobs -> Stage] /\ \A j \in Jobs : Added(j)' = Added(j)
  BY DEF Tick, LogInv, Appended, AgentOK, Added
<1>4. Taken' /\ rpc' \in Calls
  BY DEF Tick, link, LogInv, AgentOK, Taken, Calls
<1> QED BY <1>2, <1>3, <1>4, Flushed DEF Tick, link

LEMMA StepFlushFirst == ASSUME LogInv, NEW j \in Jobs, FlushFirst(j) PROVE LogInv'
<1> USE DEF FlushFirst, LogInv, AgentOK, Go
<1>1. batch'.from = batch'.to /\ Pending(batch)' = 0
  BY DEF Cleared, Pending, Index
<1>2. VerdictAfterLines'
  BY <1>1 DEF VerdictAfterLines
<1>3. Appended' /\ work' \in [Jobs -> Stage] /\ \A i \in Jobs : Added(i)' = Added(i)
  BY DEF Appended, Added, AtLine, Stage
<1>4. Taken' /\ rpc' \in Calls
  BY DEF link, Taken, Calls
<1> QED BY <1>2, <1>3, <1>4, Flushed DEF link

\* cancel() flushes in its RPC thread, whatever the worker is at.
LEMMA StepCancelFlushes == ASSUME LogInv, CancelFlushes PROVE LogInv'
<1> USE DEF CancelFlushes, LogInv, AgentOK
<1>1. batch'.from = batch'.to /\ Pending(batch)' = 0
  BY DEF Cleared, Pending, Index
<1>2. VerdictAfterLines'
  BY <1>1 DEF VerdictAfterLines
<1>3. Appended' /\ work' \in [Jobs -> Stage] /\ \A i \in Jobs : Added(i)' = Added(i)
  BY DEF Appended, Added
<1>4. Taken' /\ rpc' \in Calls
  BY DEF Taken, Calls
<1> QED BY <1>2, <1>3, <1>4, Flushed

LEMMA StepSubmit == ASSUME LogInv, NEW j \in Jobs, Submit(j) PROVE LogInv'
<1> USE DEF Submit, LogInv, AgentOK, Go
<1>1. work' \in [Jobs -> Stage] /\ state' \in [Jobs -> State]
  BY DEF Stage, State
<1>2. Appended' /\ VerdictAfterLines'
  BY DEF Appended, AtLine, VerdictAfterLines, Pending
<1>3. \A i \in Jobs : Added(i)' = Added(i)
  BY DEF Added, AtLine, Appended
<1> QED BY <1>1, <1>2, <1>3, JobMoves DEF link

LEMMA JobEvent ==
    ASSUME NEW j \in Jobs, NEW s \in State, NEW by \in {"worker", "cancel", "main"}
    PROVE  \E e \in Event : e.e # "log" /\ Job(j, s, by) = <<e>>
<1> DEFINE e == [e |-> "job", job |-> j, state |-> s, by |-> by]
<1>1. e \in [e : {"job"}, job : Jobs, state : State, by : {"worker", "cancel", "main"}]
  OBVIOUS
<1>2. e \in Event
  BY <1>1 DEF Event
<1> QED BY <1>2 DEF Job

LEMMA StepAnnounce == ASSUME LogInv, NEW j \in Jobs, Announce(j) PROVE LogInv'
<1> USE DEF Announce, LogInv, AgentOK, Go
<1>1. work' \in [Jobs -> Stage]
  BY DEF Stage
<1>2. Appended'
  BY DEF Appended, AtLine
<1>3. VerdictAfterLines'
  BY DEF VerdictAfterLines, Pending
<1>4. \A i \in Jobs : Added(i)' = Added(i)
  BY DEF Added, AtLine
<1>5. \E e \in Event : e.e # "log" /\ Job(j, state[j], "worker") = <<e>>
  BY JobEvent
<1>6. wire' = wire \/ \E e \in Event : e.e # "log" /\ wire' = wire \o <<e>>
  BY <1>5 DEF Emit
<1> QED BY <1>1, <1>2, <1>3, <1>4, <1>6, JobMoves DEF link

LEMMA StepAppendLine == ASSUME LogInv, NEW j \in Jobs, AppendLine(j) PROVE LogInv'
<1> USE StreamAssumption DEF AppendLine, LogInv, AgentOK, Go
<1>1. work' \in [Jobs -> Stage]
  BY DEF Stage
<1>2. next[j] \in Nat /\ next' = [next EXCEPT ![j] = next[j] + 1] /\ next' \in [Jobs -> Index]
  BY DEF Index
<1>3. work'[j] \in AtLine /\ work[j] \notin AtLine /\ work[j] # "none"
      /\ \A i \in Jobs : i # j => work'[i] = work[i] /\ next'[i] = next[i]
  BY DEF AtLine
<1>4. Appended'
  BY <1>2, <1>3 DEF Appended
<1>5. VerdictAfterLines'
  BY DEF VerdictAfterLines, Pending
<1>6. \A i \in Jobs : Added(i)' = Added(i)
  BY <1>2, <1>3 DEF Added
<1> QED BY <1>1, <1>2, <1>4, <1>5, <1>6, JobMoves DEF link

LEMMA StepEnd == ASSUME LogInv, NEW j \in Jobs, End(j) PROVE LogInv'
<1> USE DEF End, LogInv, AgentOK, Go
<1>1. work' \in [Jobs -> Stage] /\ state' \in [Jobs -> State]
  BY DEF Stage, State
<1>2. Appended'
  BY DEF Appended, AtLine
<1>3. VerdictAfterLines'
  BY DEF VerdictAfterLines, Pending
<1>4. \A i \in Jobs : Added(i)' = Added(i)
  BY DEF Added, AtLine
<1> QED BY <1>1, <1>2, <1>3, <1>4, JobMoves DEF link

LEMMA StepFreeSlot == ASSUME LogInv, NEW j \in Jobs, FreeSlot(j) PROVE LogInv'
<1> USE DEF FreeSlot, LogInv, AgentOK, Go
<1>1. work' \in [Jobs -> Stage]
  BY DEF Stage
<1>2. Appended'
  BY DEF Appended, AtLine
<1>3. VerdictAfterLines'
  BY DEF VerdictAfterLines, Pending
<1>4. \A i \in Jobs : Added(i)' = Added(i)
  BY DEF Added, AtLine
<1> QED BY <1>1, <1>2, <1>3, <1>4, JobMoves DEF link

\* add(): the other job's lines, then, when full, this one's.
LEMMA StepAdd == ASSUME LogInv, NEW j \in Jobs, Add(j) PROVE LogInv'
<1> USE StreamAssumption DEF LogInv
<1> DEFINE other == batch.job # j
           grown == [job |-> j, from |-> IF other \/ Pending(batch) = 0 THEN next[j] - 1 ELSE batch.from,
                     to |-> next[j]]
           full == Pending(grown) >= MaxBatch
           f == Floor
           m == [i \in Jobs |-> IF i = j THEN grown.from ELSE Added(i)]
           g == [i \in Jobs |-> Added(i)']
<1>0. /\ work[j] \in AtLine /\ work'[j] \in {"body", "flush", "free"}
      /\ work' \in [Jobs -> Stage] /\ \A i \in Jobs : i # j => work'[i] = work[i]
      /\ UNCHANGED <<slot, state, next, conn, main, snap, rpc>>
  BY DEF Add, Go, AgentOK, AtLine, Stage, link
<1>1. next[j] \in Index /\ next[j] > 0 /\ Added(j) = next[j] - 1
  BY <1>0 DEF AgentOK, Appended, Added
<1>2. /\ \A i \in Jobs : i # j => Added(i)' = Added(i)
      /\ Added(j)' = next[j]
  BY <1>0 DEF Added, AtLine
<1>3. batch \in [job : {0} \cup Jobs, from : Index, to : Index] /\ wire \in Seq(Event)
  BY DEF AgentOK
<1>4. batch.job = j => batch.to = next[j] - 1
  BY <1>1 DEF RingHeld
<1>5. /\ grown \in [job : {0} \cup Jobs, from : Index, to : Index]
      /\ grown.job = j /\ grown.to = next[j] /\ grown.from <= next[j] - 1
      /\ (~other => grown.from = batch.from)
      /\ (other => grown.from = next[j] - 1)
      /\ Pending(grown) <= MaxBatch /\ Pending(grown) > 0
  BY <1>1, <1>3, <1>4 DEF RingHeld, Pending, Index
<1>6. f \in [Jobs -> Int] /\ m \in [Jobs -> Int] /\ g \in [Jobs -> Int]
  <2>1. \A i \in Jobs : Added(i) \in Int /\ Added(i)' \in Int
    BY FloorType, <1>1, <1>2 DEF Index
  <2> QED BY <2>1, FloorType, <1>5 DEF Index
<1>7. \A i \in Jobs : f[i] <= m[i] /\ m[i] <= g[i]
  BY <1>1, <1>2, <1>3, <1>4, <1>5, <1>6 DEF Floor, RingHeld, Index
<1> DEFINE X == IF other THEN Batches(batch) ELSE <<>>
           Y == IF full THEN Batches(grown) ELSE <<>>
<1>8. Emit(X \o Y) /\ batch' = (IF full THEN Cleared(grown) ELSE grown)
  BY DEF Add
<1>9. X \in Seq(Event) /\ Y \in Seq(Event) /\ wire \o (X \o Y) = (wire \o X) \o Y
  <2>1. ASSUME NEW b \in [job : {0} \cup Jobs, from : Index, to : Index],
               Pending(b) \in 0..MaxBatch, Pending(b) > 0 => b.job \in Jobs
        PROVE  Batches(b) \in Seq(Event)
    <3> DEFINE e == [e |-> "log", job |-> b.job, seq |-> b.from, n |-> Pending(b)]
    <3>1. CASE Pending(b) > 0
      <4>1. e \in [e : {"log"}, job : Jobs, seq : Index, n : 1..MaxBatch]
        BY <2>1, <3>1
      <4>2. e \in Event
        BY <4>1 DEF Event
      <4> HIDE DEF e
      <4>3. <<e>> \in Seq(Event)
        BY <4>2
      <4> QED BY <4>3, <3>1 DEF Batches, e
    <3>2. CASE Pending(b) = 0
      BY <3>2 DEF Batches
    <3> QED BY <3>1, <3>2, <2>1
  <2>2. Batches(batch) \in Seq(Event) /\ Batches(grown) \in Seq(Event)
    <3>1. Pending(batch) \in 0..MaxBatch /\ Pending(grown) \in 0..MaxBatch
      BY <1>3, <1>5 DEF RingHeld, Pending, Index
    <3>2. Pending(batch) > 0 => batch.job \in Jobs
      BY <1>3 DEF RingHeld
    <3> QED BY <3>1, <3>2, <2>1, <1>3, <1>5
  <2>3. X \in Seq(Event) /\ Y \in Seq(Event)
    BY <2>2
  <2> HIDE DEF X, Y
  <2>4. wire \in Seq(Event) /\ X \in Seq(Event) /\ Y \in Seq(Event)
    BY <2>3, <1>3
  <2> QED BY <2>4, ConcatAssociative
<1> HIDE DEF f, m, g, grown
<1>10. wire \o X \in Seq(Event) /\ Ordered(wire \o X) /\ Below(wire \o X, m) /\ Below(wire, m)
  <2> DEFINE b == IF other THEN batch ELSE [batch EXCEPT !.from = batch.to]
  <2>1. b \in [job : {0} \cup Jobs, from : Index, to : Index] /\ b.from <= b.to
    BY <1>3 DEF RingHeld, Index
  <2>2. Pending(b) <= MaxBatch /\ (Pending(b) > 0 => other /\ b = batch)
    BY <1>3 DEF RingHeld, Pending, Index
  <2>3. X = Batches(b)
    BY <1>3 DEF Batches, Pending, Index
  <2>4. Pending(b) > 0 => b.job \in Jobs /\ f[b.job] <= b.from /\ b.to <= m[b.job]
    <3> SUFFICES ASSUME Pending(b) > 0 PROVE b.job \in Jobs /\ f[b.job] <= b.from /\ b.to <= m[b.job]
      OBVIOUS
    <3>1. b = batch /\ batch.job \in Jobs /\ batch.job # j
      BY <2>2, <1>3 DEF RingHeld
    <3>2. f[batch.job] = batch.from /\ m[batch.job] = batch.to
      BY <3>1 DEF f, m, Floor, RingHeld
    <3> QED BY <3>1, <3>2, <1>3 DEF Index
  <2> HIDE DEF b
  <2>5. Below(wire, f)
    BY DEF f
  <2> QED BY <2>1, <2>2, <2>3, <2>4, <2>5, <1>3, <1>6, <1>7, BatchSent
<1> HIDE DEF X
<1>11. /\ (wire \o X) \o Y \in Seq(Event)
       /\ Ordered((wire \o X) \o Y) /\ Below((wire \o X) \o Y, IF full THEN g ELSE m)
       /\ Below(wire, IF full THEN g ELSE m)
  <2>1. m[j] = grown.from /\ g[j] = grown.to
    BY <1>2, <1>5 DEF m, g
  <2>2. /\ (wire \o X) \o Batches(grown) \in Seq(Event)
        /\ Ordered((wire \o X) \o Batches(grown)) /\ Below((wire \o X) \o Batches(grown), g)
    <3> DEFINE q == wire \o X
    <3>1. q \in Seq(Event) /\ Ordered(q) /\ Below(q, m)
      BY <1>10
    <3>2. grown.from <= grown.to /\ grown.job \in Jobs /\ Pending(grown) <= MaxBatch
      BY <1>1, <1>5 DEF Index
    <3>3. m[grown.job] <= grown.from /\ grown.to <= g[grown.job]
      BY <2>1, <1>5 DEF Index
    <3> HIDE DEF q
    <3>4. /\ q \o Batches(grown) \in Seq(Event)
          /\ Ordered(q \o Batches(grown)) /\ Below(q \o Batches(grown), g)
      BY <3>1, <3>2, <3>3, <1>5, <1>6, <1>7, BatchSent
    <3> QED BY <3>4 DEF q
  <2>3. Below(wire, g)
    <3> SUFFICES ASSUME NEW i \in Logs(wire) PROVE After(wire, i) <= g[wire[i].job]
      BY DEF Below
    <3>1. wire[i] \in [e : {"log"}, job : Jobs, seq : Index, n : 1..MaxBatch]
      BY <1>3 DEF Logs, Event
    <3>2. After(wire, i) \in Int /\ wire[i].job \in Jobs
      BY <3>1 DEF After, Index
    <3> QED BY <3>2, <1>6, <1>7, <1>10 DEF Below
  <2>4. CASE full
    BY <2>2, <2>3, <2>4
  <2>5. CASE ~full
    <3>1. Y = <<>> /\ (wire \o X) \o Y = wire \o X
      BY <2>5, <1>10
    <3> QED BY <3>1, <2>5, <1>10
  <2> QED BY <2>4, <2>5
<1> HIDE DEF Y
<1>12. wire' \in Seq(Event) /\ Ordered(wire') /\ Below(wire', IF full THEN g ELSE m)
  BY <1>8, <1>9, <1>10, <1>11 DEF Emit
<1>13. /\ batch' \in [job : {0} \cup Jobs, from : Index, to : Index]
       /\ batch'.job = j /\ batch'.to = next[j]
       /\ batch'.from = IF full THEN next[j] ELSE grown.from
  BY <1>5, <1>8 DEF Cleared
<1>14. Floor' = IF full THEN g ELSE m
  BY <1>2, <1>13 DEF Floor, g, m
<1>15. AgentOK' /\ Taken' /\ Appended'
  <2>1. AgentOK'
    BY <1>0, <1>12, <1>13 DEF AgentOK
  <2>2. Taken' /\ Appended'
    BY <1>0 DEF Taken, Appended, AtLine
  <2> QED BY <2>1, <2>2
<1>16. RingHeld'
  <2>1. CASE full
    BY <2>1, <1>1, <1>2, <1>13 DEF RingHeld, Pending, Index, Jobs
  <2>2. CASE ~full
    BY <2>2, <1>1, <1>2, <1>5, <1>13 DEF RingHeld, Pending, Index, Jobs
  <2> QED BY <2>1, <2>2
<1>17. VerdictAfterLines'
  BY <1>0, <1>13 DEF VerdictAfterLines
<1> QED BY <1>12, <1>14, <1>15, <1>16, <1>17

LEMMA StepLink == ASSUME LogInv, Drop \/ Connect \/ Reannounce PROVE LogInv'
<1> USE DEF agent, AgentOK, LogInv, Calls
<1>1. CASE Drop
  BY <1>1, Elsewhere DEF Drop, Taken
<1>2. CASE Connect
  <2>1. [e |-> "connected"] \in Event /\ [e |-> "connected"].e # "log"
    BY DEF Event
  <2>2. wire' = wire \/ \E e \in Event : e.e # "log" /\ wire' = wire \o <<e>>
    BY <1>2, <2>1 DEF Connect
  <2> QED BY <1>2, <2>2, Elsewhere DEF Connect, Taken
<1>3. CASE TakeCurrent
  BY <1>3, Elsewhere DEF TakeCurrent, Taken, State
<1>4. CASE CopyCurrent
  BY <1>4, Elsewhere DEF CopyCurrent, Taken
<1>5. CASE TellCurrent
  <2>1. snap.job \in Jobs /\ snap.state \in State
    BY <1>5 DEF TellCurrent, Taken
  <2>2. \E x \in Event : x.e # "log" /\ Job(snap.job, snap.state, "main") = <<x>>
    BY <2>1, JobEvent
  <2>3. wire' = wire \/ \E x \in Event : x.e # "log" /\ wire' = wire \o <<x>>
    BY <1>5, <2>2 DEF TellCurrent, Emit
  <2> QED BY <1>5, <2>3, Elsewhere DEF TellCurrent, Taken, State
<1> QED BY <1>1, <1>2, <1>3, <1>4, <1>5 DEF Reannounce

\* cancel() looks at the job, and its RPC thread copies and tells it.
LEMMA StepCancel ==
    ASSUME LogInv, CancelCopies \/ CancelTells \/ \E j \in Jobs : CancelLooks(j)
    PROVE  LogInv'
<1> USE DEF agent, AgentOK, LogInv
<1>1. ASSUME NEW j \in Jobs, CancelLooks(j) PROVE LogInv'
  <2>1. rpc' \in Calls /\ Taken'
    BY <1>1 DEF CancelLooks, Calls, Taken
  <2> QED BY <1>1, <2>1, Elsewhere DEF CancelLooks
<1>2. CASE CancelCopies
  <2>1. rpc' \in Calls /\ Taken'
    BY <1>2 DEF CancelCopies, Calls, Taken
  <2> QED BY <1>2, <2>1, Elsewhere DEF CancelCopies
<1>3. CASE CancelTells
  <2>1. rpc' \in Calls /\ Taken'
    BY <1>3 DEF CancelTells, Calls, Taken, State
  <2>2. rpc.job \in Jobs /\ rpc.state \in State
    BY <1>3 DEF CancelTells, Taken
  <2>3. \E x \in Event : x.e # "log" /\ Job(rpc.job, rpc.state, "cancel") = <<x>>
    BY <2>2, JobEvent
  <2>4. wire' = wire \/ \E x \in Event : x.e # "log" /\ wire' = wire \o <<x>>
    BY <1>3, <2>3 DEF CancelTells, Emit
  <2> QED BY <1>3, <2>1, <2>4, Elsewhere DEF CancelTells
<1> QED BY <1>1, <1>2, <1>3

LEMMA StepPage ==
    ASSUME LogInv, Open \/ Refresh \/ Answer \/ Take \/ Receive
    PROVE  LogInv'
<1>1. UNCHANGED <<agent, link>>
  BY DEF Open, Refresh, Answer, AnswerPing, AnswerStatus, AnswerGet, Take, TakePing, TakeStatus,
         TakeGet, Receive, ReceiveConnected, ReceiveJob, ReceiveLog
<1>2. wire' = wire \/ (wire # <<>> /\ wire' = Tail(wire))
  BY DEF Open, Refresh, Answer, AnswerPing, AnswerStatus, AnswerGet, Take, TakePing, TakeStatus,
         TakeGet, Receive, ReceiveConnected, ReceiveJob, ReceiveLog
<1> QED BY <1>1, <1>2, Elsewhere DEF agent, link, LogInv, AgentOK, Taken, Calls

THEOREM LogInductive == LogInv /\ [LogNext]_logVars => LogInv'
<1> SUFFICES ASSUME LogInv, [LogNext]_logVars PROVE LogInv'
  OBVIOUS
<1>1. ASSUME NEW j \in Jobs, Submit(j) \/ Work(j) PROVE LogInv'
  BY <1>1, StepSubmit, StepAppendLine, StepAdd, StepEnd, StepFreeSlot, StepFlushFirst, StepAnnounce
     DEF Work
<1>2. CASE Tick
  BY <1>2, StepTick
<1>3. CASE Drop \/ Connect \/ Reannounce
  BY <1>3, StepLink
<1>4. CASE Open \/ Refresh \/ Answer \/ Take \/ Receive
  BY <1>4, StepPage
<1>5. CASE UNCHANGED logVars
  BY <1>5, Elsewhere DEF logVars, agent, link, LogInv, AgentOK, Taken, Calls
<1>6. CASE Cancel \/ \E j \in Jobs : CancelLooks(j)
  BY <1>6, StepCancel, StepCancelFlushes DEF Cancel
<1> QED BY <1>1, <1>2, <1>3, <1>4, <1>5, <1>6 DEF LogNext

THEOREM LogInvariance == LogSpec => []LogInv
BY LogInitially, LogInductive, PTL DEF LogSpec

\* The agent's state and what it sends keep their types: no event is malformed
\* and no batch is empty or larger than MAX_LINES (events.py).
THEOREM AgentCorrect == LogSpec => []AgentOK
<1>1. LogInv => AgentOK
  BY DEF LogInv
<1> QED BY <1>1, LogInvariance, PTL

\* For any number of jobs, lines, flushing threads and lost connections, the
\* batches of a job go out in order and repeat no line (_flush_locked).
THEOREM BatchesAreOrdered == LogSpec => []LinesInOrder
<1>1. LogInv => LinesInOrder
  BY DEF LogInv, Ordered, LinesInOrder
<1> QED BY <1>1, LogInvariance, PTL

\* When a job's own thread announces its end, every line of it was handed over,
\* whoever else flushes in between, cancel() in its RPC thread included
\* (_on_job_change).
THEOREM VerdictComesLast == LogSpec => []VerdictAfterLines
<1>1. LogInv => VerdictAfterLines
  BY DEF LogInv
<1> QED BY <1>1, LogInvariance, PTL

-----------------------------------------------------------------------------
(* Nothing follows the end that a job's own thread announces.              *)

Trailing(q) ==
    \A i \in 1..Len(q), k \in Logs(q) : SaysEnd(q[i]) /\ q[k].job = q[i].job => k < i
Concluded(q, w) == \A i \in 1..Len(q) : SaysEnd(q[i]) => w[q[i].job] = "done"

EndInv ==
    /\ \A j \in Jobs : work[j] = "done" => state[j] = "ended"
    /\ Concluded(wire, work) /\ Trailing(wire)

\* Lines of jobs whose end is not announced may go behind anything.
LEMMA LinesSent ==
    ASSUME NEW q \in Seq(Event), NEW x \in Seq(Event), NEW w,
           \A i \in 1..Len(x) : x[i].e = "log" /\ w[x[i].job] # "done",
           Concluded(q, w), Trailing(q)
    PROVE  Concluded(q \o x, w) /\ Trailing(q \o x)
<1> DEFINE r == q \o x
<1>1. r \in Seq(Event) /\ Len(r) = Len(q) + Len(x) /\ Len(q) \in Nat /\ Len(x) \in Nat
      /\ \A i \in 1..Len(q) : r[i] = q[i]
  OBVIOUS
<1>2. \A k \in 1..Len(x) : r[Len(q) + k] = x[k]
  OBVIOUS
<1> HIDE DEF r
<1>3. \A i \in 1..Len(r) : i \notin 1..Len(q) => r[i].e = "log" /\ w[r[i].job] # "done"
  <2> SUFFICES ASSUME NEW i \in 1..Len(r), i \notin 1..Len(q)
               PROVE  r[i].e = "log" /\ w[r[i].job] # "done"
    OBVIOUS
  <2> DEFINE k == i - Len(q)
  <2>1. k \in 1..Len(x) /\ i = Len(q) + k
    BY <1>1
  <2> HIDE DEF k
  <2>2. r[Len(q) + k] = x[k]
    BY <2>1, <1>2
  <2>3. x[k].e = "log" /\ w[x[k].job] # "done"
    BY <2>1
  <2>4. r[i] = x[k]
    BY <2>1, <2>2
  <2> QED BY <2>3, <2>4
<1>4. \A i \in 1..Len(r) : SaysEnd(r[i]) => i \in 1..Len(q) /\ r[i] = q[i]
  BY <1>1, <1>3 DEF SaysEnd
<1>5. Concluded(r, w)
  BY <1>1, <1>4 DEF Concluded
<1>6. Trailing(r)
  <2> SUFFICES ASSUME NEW i \in 1..Len(r), NEW k \in Logs(r), SaysEnd(r[i]), r[k].job = r[i].job
               PROVE  k < i
    BY DEF Trailing
  <2>1. i \in 1..Len(q) /\ r[i] = q[i] /\ w[q[i].job] = "done"
    BY <1>4 DEF Concluded
  <2>2. k \in 1..Len(r) /\ r[k].e = "log"
    BY DEF Logs
  <2>3. k \in 1..Len(q) /\ r[k] = q[k]
    BY <1>1, <1>3, <2>1, <2>2
  <2> QED BY <2>1, <2>2, <2>3 DEF Trailing, Logs
<1> QED BY <1>5, <1>6 DEF r

\* One more event that is no batch, said of a job that is done if it says so.
LEMMA EventSent ==
    ASSUME NEW q \in Seq(Event), NEW e \in Event, e.e # "log", NEW w,
           SaysEnd(e) => w[e.job] = "done", Concluded(q, w), Trailing(q)
    PROVE  Concluded(q \o <<e>>, w) /\ Trailing(q \o <<e>>)
<1> DEFINE r == q \o <<e>>
<1>1. r \in Seq(Event) /\ Len(r) = Len(q) + 1 /\ r[Len(q) + 1] = e /\ Len(q) \in Nat
      /\ \A i \in 1..Len(q) : r[i] = q[i]
  OBVIOUS
<1> HIDE DEF r
<1>2. Logs(r) = Logs(q) /\ Logs(q) \subseteq 1..Len(q)
  BY <1>1 DEF Logs
<1>3. \A i \in 1..Len(r) : i \in 1..Len(q) \/ i = Len(q) + 1
  BY <1>1
<1>4. Concluded(r, w)
  BY <1>1, <1>3 DEF Concluded
<1>5. Trailing(r)
  BY <1>1, <1>2, <1>3 DEF Trailing
<1> QED BY <1>4, <1>5 DEF r

\* The first event has arrived.
LEMMA Arrived ==
    ASSUME NEW q \in Seq(Event), q # <<>>, NEW w, Concluded(q, w), Trailing(q)
    PROVE  Concluded(Tail(q), w) /\ Trailing(Tail(q))
<1> DEFINE r == Tail(q)
<1>1. r \in Seq(Event) /\ Len(r) = Len(q) - 1 /\ \A i \in 1..Len(r) : r[i] = q[i + 1]
  OBVIOUS
<1>2. \A i \in 1..Len(r) : i + 1 \in 1..Len(q) /\ r[i] = q[i + 1]
  BY <1>1
<1>3. \A k \in Logs(r) : k \in 1..Len(r) /\ k + 1 \in Logs(q)
  BY <1>2 DEF Logs
<1> HIDE DEF r
<1>4. Concluded(r, w)
  BY <1>2 DEF Concluded
<1>5. Trailing(r)
  <2> SUFFICES ASSUME NEW i \in 1..Len(r), NEW k \in Logs(r), SaysEnd(r[i]), r[k].job = r[i].job
               PROVE  k < i
    BY DEF Trailing
  <2>1. k + 1 < i + 1
    BY <1>2, <1>3 DEF Trailing
  <2> QED BY <2>1, <1>3
<1> QED BY <1>4, <1>5 DEF r

\* A job that is done stays so, and what a step sends is allowed to follow.
LEMMA EndKept ==
    ASSUME LogInv, EndInv,
           \A j \in Jobs : work[j] = "done" => work'[j] = "done",
           \A j \in Jobs : work'[j] = "done" => state'[j] = "ended",
           wire' \in Seq(Event), Concluded(wire', work), Trailing(wire')
    PROVE  EndInv'
<1>1. \A e \in Event : SaysEnd(e) => e.job \in Jobs
  BY DEF Event, SaysEnd
<1>2. \A i \in 1..Len(wire') : wire'[i] \in Event
  OBVIOUS
<1>3. Concluded(wire', work')
  BY <1>1, <1>2 DEF Concluded
<1>4. NoLineAfterVerdict'
  BY DEF Trailing, NoLineAfterVerdict
<1> QED BY <1>3, <1>4 DEF EndInv, Trailing, NoLineAfterVerdict, Concluded

Lines(x) == x \in Seq(Event) /\ \A i \in 1..Len(x) : x[i].e = "log" /\ work[x[i].job] # "done"

\* What is flushed is lines of a job whose end is not announced.
LEMMA FlushIsLines ==
    ASSUME NEW b \in [job : {0} \cup Jobs, from : Index, to : Index],
           Pending(b) \in 0..MaxBatch, Pending(b) > 0 => b.job \in Jobs /\ work[b.job] # "done"
    PROVE  Lines(Batches(b))
<1> DEFINE e == [e |-> "log", job |-> b.job, seq |-> b.from, n |-> Pending(b)]
<1>1. CASE Pending(b) > 0
  <2>1. e \in [e : {"log"}, job : Jobs, seq : Index, n : 1..MaxBatch]
    BY <1>1
  <2>2. e \in Event /\ e.e = "log" /\ work[e.job] # "done"
    BY <2>1, <1>1 DEF Event
  <2> HIDE DEF e
  <2>3. Lines(<<e>>)
    BY <2>2 DEF Lines
  <2> QED BY <2>3, <1>1 DEF Batches, e
<1>2. CASE Pending(b) = 0
  BY <1>2 DEF Batches, Lines
<1> QED BY <1>1, <1>2

\* The batcher holds none of a job whose end its thread announced.
LEMMA PendingIsOpen ==
    ASSUME LogInv, EndInv
    PROVE  Lines(Batches(batch)) /\ (Pending(batch) > 0 => batch.job \in Jobs)
<1> USE StreamAssumption
<1>1. batch \in [job : {0} \cup Jobs, from : Index, to : Index] /\ Pending(batch) \in 0..MaxBatch
  BY DEF LogInv, AgentOK, RingHeld, Pending, Index
<1>2. Pending(batch) > 0 => batch.job \in Jobs
  BY <1>1 DEF LogInv, RingHeld
<1>3. Pending(batch) > 0 => work[batch.job] # "done"
  BY <1>2 DEF LogInv, EndInv, VerdictAfterLines
<1> QED BY <1>1, <1>2, <1>3, FlushIsLines

LEMMA BothLines ==
    ASSUME NEW x, NEW y, Lines(x), Lines(y) PROVE Lines(x \o y)
<1>1. x \in Seq(Event) /\ y \in Seq(Event)
  BY DEF Lines
<1> DEFINE r == x \o y
<1>2. r \in Seq(Event)
      /\ \A k \in 1..Len(r) : \/ k \in 1..Len(x) /\ r[k] = x[k]
                              \/ k - Len(x) \in 1..Len(y) /\ r[k] = y[k - Len(x)]
  BY <1>1
<1> HIDE DEF r
<1>3. Lines(r)
  BY <1>2 DEF Lines
<1> QED BY <1>3 DEF r

\* What add() sends: the other job's lines and a full load of this one's.
LEMMA AddIsLines ==
    ASSUME LogInv, EndInv, NEW j \in Jobs, Add(j)
    PROVE  \E x : Lines(x) /\ Emit(x)
<1> USE StreamAssumption
<1> DEFINE other == batch.job # j
           grown == [job |-> j, from |-> IF other \/ Pending(batch) = 0 THEN next[j] - 1 ELSE batch.from,
                     to |-> next[j]]
           full == Pending(grown) >= MaxBatch
           X == IF other THEN Batches(batch) ELSE <<>>
           Y == IF full THEN Batches(grown) ELSE <<>>
<1>1. Emit(X \o Y)
  BY DEF Add
<1>2. work[j] \in AtLine /\ next[j] \in Index /\ next[j] > 0
  BY DEF Add, LogInv, AgentOK, Appended, AtLine
<1>3. batch \in [job : {0} \cup Jobs, from : Index, to : Index]
      /\ batch.from <= batch.to /\ Pending(batch) < MaxBatch
      /\ (batch.job = j => batch.to = next[j] - 1)
  BY <1>2 DEF LogInv, AgentOK, RingHeld, Added
<1>4. grown \in [job : {0} \cup Jobs, from : Index, to : Index] /\ grown.job = j
      /\ Pending(grown) \in 0..MaxBatch
  BY <1>2, <1>3 DEF Pending, Index
<1>5. work[j] # "done"
  BY <1>2 DEF AtLine
<1>6. Lines(<<>>)
  BY DEF Lines
<1> HIDE DEF grown
<1>7. Lines(X) /\ Lines(Y)
  BY <1>4, <1>5, <1>6, FlushIsLines, PendingIsOpen
<1> QED BY <1>1, <1>7, BothLines

\* What a step sends may follow: lines, another event, or nothing, and events
\* arrive from the front.
LEMMA Follows ==
    ASSUME LogInv, EndInv,
           \/ wire' = wire
           \/ \E x : Lines(x) /\ wire' = wire \o x
           \/ \E e \in Event : e.e # "log" /\ ~SaysEnd(e) /\ wire' = wire \o <<e>>
           \/ wire # <<>> /\ wire' = Tail(wire)
    PROVE  Concluded(wire', work) /\ Trailing(wire')
<1>1. wire \in Seq(Event) /\ Concluded(wire, work) /\ Trailing(wire)
  BY DEF LogInv, AgentOK, EndInv
<1>2. CASE wire' = wire
  BY <1>1, <1>2
<1>3. ASSUME NEW x, Lines(x), wire' = wire \o x
      PROVE  Concluded(wire', work) /\ Trailing(wire')
  BY <1>1, <1>3, LinesSent DEF Lines
<1>4. ASSUME NEW e \in Event, e.e # "log", ~SaysEnd(e), wire' = wire \o <<e>>
      PROVE  Concluded(wire', work) /\ Trailing(wire')
  BY <1>1, <1>4, EventSent
<1>5. CASE wire # <<>> /\ wire' = Tail(wire)
  BY <1>1, <1>5, Arrived
<1> QED BY <1>2, <1>3, <1>4, <1>5

LEMMA QuietEvent ==
    ASSUME NEW j \in Jobs, NEW s \in State, NEW by \in {"worker", "cancel", "main"},
           by # "worker" \/ s # "ended"
    PROVE  \E e \in Event : e.e # "log" /\ ~SaysEnd(e) /\ Job(j, s, by) = <<e>>
<1> DEFINE e == [e |-> "job", job |-> j, state |-> s, by |-> by]
<1>1. e \in [e : {"job"}, job : Jobs, state : State, by : {"worker", "cancel", "main"}]
  OBVIOUS
<1>2. e \in Event /\ ~SaysEnd(e)
  BY <1>1 DEF Event, SaysEnd
<1> QED BY <1>2 DEF Job

\* An announcement by the job's own thread: when it says the end, no line of
\* the job is pending any more, and the job is done.
LEMMA AnnounceEnds ==
    ASSUME LogInv, EndInv, NEW j \in Jobs, Announce(j), wire' \in Seq(Event) PROVE EndInv'
<1>1. wire \in Seq(Event) /\ Concluded(wire, work) /\ Trailing(wire)
  BY DEF LogInv, AgentOK, EndInv
<1>2. /\ work[j] = "send" /\ state[j] \in {"running", "ended"} /\ state' = state
      /\ work' = [work EXCEPT ![j] = IF state[j] = "running" THEN "body" ELSE "done"]
      /\ work \in [Jobs -> Stage]
  BY DEF Announce, Go, LogInv, AgentOK, Appended, State
<1>3. \A i \in Jobs : /\ work[i] = "done" => work'[i] = "done"
                      /\ work'[i] = "done" => state'[i] = "ended"
  BY <1>2 DEF EndInv
<1>4. PICK e \in Event : e.e # "log" /\ Job(j, state[j], "worker") = <<e>> /\ e.job = j
                        /\ (SaysEnd(e) => state[j] = "ended")
  <2> DEFINE e == [e |-> "job", job |-> j, state |-> state[j], by |-> "worker"]
  <2>1. e \in [e : {"job"}, job : Jobs, state : State, by : {"worker", "cancel", "main"}]
    BY <1>2 DEF State
  <2>2. e \in Event /\ (SaysEnd(e) => state[j] = "ended")
    BY <2>1 DEF Event, SaysEnd
  <2> QED BY <2>2 DEF Job
<1>5. wire' = wire \/ wire' = wire \o <<e>>
  BY <1>4 DEF Announce, Emit
<1>6. \A x \in Event : SaysEnd(x) => x.job \in Jobs
  BY DEF Event, SaysEnd
<1>7. \A i \in 1..Len(wire) : wire[i] \in Event
  BY <1>1
<1>8. Concluded(wire, work')
  BY <1>1, <1>3, <1>6, <1>7 DEF Concluded
<1>9. SaysEnd(e) => work'[e.job] = "done"
  BY <1>2, <1>4
<1>10. Concluded(wire', work') /\ Trailing(wire')
  BY <1>1, <1>4, <1>5, <1>8, <1>9, EventSent
<1> QED BY <1>3, <1>10 DEF EndInv

THEOREM EndInductive == LogInv /\ EndInv /\ [LogNext]_logVars => EndInv'
<1> SUFFICES ASSUME LogInv, EndInv, [LogNext]_logVars PROVE EndInv'
  OBVIOUS
<1>1. wire' \in Seq(Event) /\ work \in [Jobs -> Stage] /\ state \in [Jobs -> State]
  BY LogInductive DEF LogInv, AgentOK
<1> DEFINE Sends == \/ wire' = wire
                    \/ \E x : Lines(x) /\ wire' = wire \o x
                    \/ \E e \in Event : e.e # "log" /\ ~SaysEnd(e) /\ wire' = wire \o <<e>>
                    \/ wire # <<>> /\ wire' = Tail(wire)
           Kept == /\ \A i \in Jobs : work[i] = "done" => work'[i] = "done"
                   /\ \A i \in Jobs : work'[i] = "done" => state'[i] = "ended"
<1>2. ASSUME Sends, Kept PROVE EndInv'
  BY <1>1, <1>2, Follows, EndKept
<1>3. UNCHANGED <<work, state>> => Kept
  BY DEF EndInv
<1> HIDE DEF Kept
<1>4. ASSUME NEW j \in Jobs, Submit(j) PROVE EndInv'
  <2>1. Kept
    BY <1>1, <1>4 DEF Submit, Go, EndInv, LogInv, Appended, Kept
  <2> QED BY <2>1, <1>2, <1>4 DEF Submit
<1>5. ASSUME NEW j \in Jobs, AppendLine(j) \/ End(j) \/ FreeSlot(j) PROVE EndInv'
  <2>1. Kept
    BY <1>1, <1>5 DEF AppendLine, End, FreeSlot, Go, EndInv, Kept
  <2>2. wire' = wire
    BY <1>5 DEF AppendLine, End, FreeSlot
  <2> QED BY <2>1, <2>2, <1>2
<1>6. ASSUME NEW j \in Jobs, FlushFirst(j) PROVE EndInv'
  <2>1. Kept
    BY <1>1, <1>6 DEF FlushFirst, Go, EndInv, Kept
  <2>2. wire' = wire \/ \E x : Lines(x) /\ wire' = wire \o x
    BY <1>6, PendingIsOpen DEF FlushFirst, Emit
  <2> QED BY <2>1, <2>2, <1>2
<1>7. ASSUME NEW j \in Jobs, Add(j) PROVE EndInv'
  <2>1. Kept
    BY <1>1, <1>7 DEF Add, Go, EndInv, Kept
  <2>2. wire' = wire \/ \E x : Lines(x) /\ wire' = wire \o x
    BY <1>7, AddIsLines DEF Emit
  <2> QED BY <2>1, <2>2, <1>2
<1>8. ASSUME NEW j \in Jobs, Announce(j) PROVE EndInv'
  BY <1>1, <1>8, AnnounceEnds
<1>9. CASE Tick \/ CancelFlushes
  <2>1. Kept
    BY <1>3, <1>9 DEF Tick, CancelFlushes
  <2>2. wire' = wire \/ \E x : Lines(x) /\ wire' = wire \o x
    BY <1>9, PendingIsOpen DEF Tick, CancelFlushes, Emit
  <2> QED BY <2>1, <2>2, <1>2
<1>10. CASE CancelTells
  <2>1. rpc.job \in Jobs /\ rpc.state \in State
    BY <1>10 DEF CancelTells, LogInv, Taken, AgentOK
  <2>2. wire' = wire \/ \E e \in Event : e.e # "log" /\ ~SaysEnd(e) /\ wire' = wire \o <<e>>
    BY <1>10, <2>1, QuietEvent DEF CancelTells, Emit
  <2>3. Kept
    BY <1>3, <1>10 DEF CancelTells, agent
  <2> QED BY <2>2, <2>3, <1>2
<1>11. CASE TellCurrent
  <2>1. snap.job \in Jobs /\ snap.state \in State
    BY <1>11 DEF TellCurrent, LogInv, Taken, AgentOK
  <2>2. wire' = wire \/ \E e \in Event : e.e # "log" /\ ~SaysEnd(e) /\ wire' = wire \o <<e>>
    BY <1>11, <2>1, QuietEvent DEF TellCurrent, Emit
  <2>3. Kept
    BY <1>3, <1>11 DEF TellCurrent, agent
  <2> QED BY <2>2, <2>3, <1>2
<1>12. CASE Connect
  <2>1. [e |-> "connected"] \in Event /\ [e |-> "connected"].e # "log" /\ ~SaysEnd([e |-> "connected"])
    BY DEF Event, SaysEnd
  <2>2. wire' = wire \/ \E e \in Event : e.e # "log" /\ ~SaysEnd(e) /\ wire' = wire \o <<e>>
    BY <1>12, <2>1 DEF Connect
  <2>3. Kept
    BY <1>3, <1>12 DEF Connect, agent
  <2> QED BY <2>2, <2>3, <1>2
<1>13. CASE \/ CancelCopies \/ TakeCurrent \/ CopyCurrent \/ Drop \/ UNCHANGED logVars
            \/ \E j \in Jobs : CancelLooks(j)
  <2>1. UNCHANGED <<agent, wire>>
    BY <1>13 DEF CancelCopies, CancelLooks, TakeCurrent, CopyCurrent, Drop, logVars
  <2>2. Kept
    BY <1>3, <2>1 DEF agent
  <2> QED BY <2>1, <2>2, <1>2
<1>14. CASE Open \/ Refresh \/ Answer \/ Take \/ Receive
  <2>1. UNCHANGED agent /\ (wire' = wire \/ (wire # <<>> /\ wire' = Tail(wire)))
    BY <1>14 DEF Open, Refresh, Answer, AnswerPing, AnswerStatus, AnswerGet, Take, TakePing,
       TakeStatus, TakeGet, Receive, ReceiveConnected, ReceiveJob, ReceiveLog
  <2>2. Kept
    BY <1>3, <2>1 DEF agent
  <2> QED BY <2>1, <2>2, <1>2
<1> QED BY <1>4, <1>5, <1>6, <1>7, <1>8, <1>9, <1>10, <1>11, <1>12, <1>13, <1>14
        DEF LogNext, Work, Cancel, Reannounce

\* Whichever threads flush, whoever cancels and whatever connection is lost, a
\* job's lines go out in order, all of them before its own thread announces its
\* end and none after that (_flush_locked, _on_job_change).  The copies that
\* cancel() and run_once() send of a job keep no such order.
THEOREM StreamIsOrdered == LogSpec => []LinesThenVerdict
<1>1. LogInit => EndInv
  BY DEF LogInit, EndInv, Concluded, Trailing
<1>2. LogSpec => []EndInv
  BY <1>1, LogInvariance, EndInductive, PTL DEF LogSpec
<1>3. LogInv /\ EndInv => LinesThenVerdict
  BY DEF LogInv, EndInv, Ordered, LinesInOrder, Trailing, NoLineAfterVerdict, LinesThenVerdict
<1> QED BY <1>2, <1>3, LogInvariance, PTL
=============================================================================
