-------------------------- MODULE SoftwareWdt_proofs --------------------------
(***************************************************************************)
(* The watchdog table, for every number of slots, every threshold and      *)
(* every set of threads that may fall silent.                              *)
(***************************************************************************)
EXTENDS SoftwareWdt, TLAPS

(* What makes the invariants inductive: a thread that has not registered    *)
(* yet holds no slot number, so that a name in the table tells two threads  *)
(* apart.                                                                  *)
NewHasNone == \A t \in Thread : mode[t] = "new" => wdtId[t] = -1

IInv == TypeOK /\ SlotOwned /\ CountHonest /\ NewHasNone

-----------------------------------------------------------------------------
(* The first state of the program satisfies the invariant. *)
LEMMA InitIInv == Init => IInv
<1> SUFFICES ASSUME Init PROVE IInv
  OBVIOUS
<1>1. MaxStarve \in Nat
  BY WdtAssumption
<1>2. TypeOK
  BY <1>1 DEF Init, TypeOK
<1>3. SlotOwned /\ CountHonest /\ NewHasNone
  BY DEF Init, SlotOwned, CountHonest, NewHasNone
<1>4. QED
  BY <1>2, <1>3 DEF IInv

(* The saturating history still grows past whatever a counter can reach: a  *)
(* counter that is bumped stays within the aged history of its owner.       *)
LEMMA BumpWithinAge ==
  ASSUME TypeOK, SlotOwned, CountHonest, NEW b \in Slot, reqFlg[b]
  PROVE  /\ Bump(b) \in Nat
         /\ Bump(b) <= Age[wdtName[b]]
         /\ wdtCount[b] <= Age[wdtName[b]]
<1> DEFINE t == wdtName[b]
<1>1. t \in Thread /\ wdtTimeout[b] = Timeout[t]
  BY DEF SlotOwned
<1>2. wdtCount[b] \in Nat /\ wdtTimeout[b] \in Nat /\ starve[t] \in 0..MaxStarve
  BY <1>1 DEF TypeOK
<1>3. MaxStarve \in Nat /\ Timeout[t] \in Nat /\ Timeout[t] + 1 < MaxStarve
  BY <1>1, WdtAssumption
<1>4. wdtCount[b] <= starve[t]
  BY DEF CountHonest
<1>5. Age[t] = IF starve[t] < MaxStarve THEN starve[t] + 1 ELSE starve[t]
  BY <1>1 DEF Age
<1>6. QED
  BY <1>1, <1>2, <1>3, <1>4, <1>5 DEF Bump

(* Every step keeps the invariant. *)
LEMMA NextIInv == IInv /\ [Next]_vars => IInv'
<1> SUFFICES ASSUME IInv, [Next]_vars PROVE IInv'
  OBVIOUS
<1> USE DEF IInv
<1>1. ASSUME NEW t \in Thread, TakeSlot(t) PROVE IInv'
  <2>1. PICK b \in Slot :
          /\ reqFlg' = [reqFlg EXCEPT ![b] = TRUE]
          /\ wdtCount' = [wdtCount EXCEPT ![b] = 0]
          /\ wdtTimeout' = [wdtTimeout EXCEPT ![b] = Timeout[t]]
          /\ wdtName' = [wdtName EXCEPT ![b] = t]
          /\ wdtId' = [wdtId EXCEPT ![t] = b]
    BY <1>1 DEF TakeSlot
  <2>2. /\ mode' = [mode EXCEPT ![t] = "live"]
        /\ starve' = [starve EXCEPT ![t] = 0]
        /\ monitor' = monitor
    BY <1>1 DEF TakeSlot
  <2>3. mode[t] = "new" /\ wdtId[t] = -1
    BY <1>1 DEF TakeSlot, MayStart, NewHasNone
  <2>4. TypeOK'
    <3>1. Timeout[t] \in Nat /\ MaxStarve \in Nat
      BY WdtAssumption
    <3>2. wdtTimeout' \in [Slot -> Nat] /\ wdtCount' \in [Slot -> Nat]
      BY <2>1, <3>1 DEF TypeOK
    <3>3. /\ reqFlg' \in [Slot -> BOOLEAN]
          /\ wdtName' \in [Slot -> Thread \union {NoName}]
          /\ wdtId' \in [Thread -> Slot \union {-1}]
      BY <2>1 DEF TypeOK
    <3>4. /\ mode' \in [Thread -> {"new", "live", "silent", "gone"}]
          /\ starve' \in [Thread -> 0..MaxStarve]
          /\ monitor' \in {"scan", "alarm"}
      BY <2>2, <3>1 DEF TypeOK
    <3>5. QED
      BY <3>2, <3>3, <3>4 DEF TypeOK
  <2>5. ASSUME NEW c \in Slot, c # b, reqFlg[c]
        PROVE  wdtName[c] \in Thread /\ wdtName[c] # t
    BY <2>3, <2>5 DEF SlotOwned, Slot
  <2>6. SlotOwned'
    BY <2>1, <2>5, WdtAssumption DEF SlotOwned, TypeOK
  <2>7. CountHonest'
    BY <2>1, <2>2, <2>5 DEF CountHonest, TypeOK
  <2>8. NewHasNone'
    BY <2>1, <2>2 DEF NewHasNone, TypeOK
  <2>9. QED
    BY <2>4, <2>6, <2>7, <2>8
<1>2. ASSUME NEW t \in Thread, RequestFull(t) PROVE IInv'
  BY <1>2 DEF RequestFull, table, TypeOK, SlotOwned, CountHonest, NewHasNone
<1>3. ASSUME NEW t \in Thread, Feed(t) PROVE IInv'
  <2>1. TypeOK'
    BY <1>3, WdtAssumption DEF Feed, TypeOK
  <2>2. SlotOwned' /\ NewHasNone'
    BY <1>3 DEF Feed, SlotOwned, NewHasNone
  <2>3. CountHonest'
    BY <1>3 DEF Feed, CountHonest, SlotOwned, TypeOK
  <2>4. QED
    BY <2>1, <2>2, <2>3
<1>4. CASE FeedShip
  <2>1. TypeOK'
    BY <1>4 DEF FeedShip, TypeOK
  <2>2. SlotOwned' /\ NewHasNone'
    BY <1>4 DEF FeedShip, SlotOwned, NewHasNone
  <2>3. CountHonest'
    BY <1>4 DEF FeedShip, CountHonest, SlotOwned, TypeOK
  <2>4. QED
    BY <2>1, <2>2, <2>3
<1>5. ASSUME NEW t \in Thread, FallSilent(t) PROVE IInv'
  BY <1>5 DEF FallSilent, table, TypeOK, SlotOwned, CountHonest, NewHasNone
<1>6. ASSUME NEW t \in Thread, Recover(t) PROVE IInv'
  BY <1>6 DEF Recover, table, TypeOK, SlotOwned, CountHonest, NewHasNone
<1>7. CASE Release
  BY <1>7 DEF Release, TypeOK, SlotOwned, CountHonest, NewHasNone
<1>8. CASE QuitShip
  BY <1>8 DEF QuitShip, table, TypeOK, SlotOwned, CountHonest, NewHasNone
<1>9. CASE Scan
  <2>1. starve' = Age /\ Age \in [Thread -> 0..MaxStarve]
    BY <1>9, WdtAssumption DEF Scan, Age, TypeOK
  <2>2. ASSUME NEW b \in Slot
        PROVE  /\ wdtCount'[b] \in Nat
               /\ reqFlg[b] => wdtCount'[b] <= Age[wdtName[b]]
    BY <1>9, BumpWithinAge DEF Scan, TypeOK
  <2>3. wdtCount' \in [Slot -> Nat]
    BY <1>9, <2>2 DEF Scan
  <2>4. TypeOK' /\ SlotOwned' /\ NewHasNone'
    BY <1>9, <2>1, <2>3 DEF Scan, TypeOK, SlotOwned, NewHasNone
  <2>5. CountHonest'
    BY <1>9, <2>1, <2>2 DEF Scan, CountHonest
  <2>6. QED
    BY <2>4, <2>5
<1>10. CASE Alarm
  <2>1. starve' = Age /\ Age \in [Thread -> 0..MaxStarve]
    BY <1>10, WdtAssumption DEF Alarm, Age, TypeOK
  <2>2. \A b \in Slot : ~reqFlg'[b]
    BY <1>10 DEF Alarm
  <2>3. TypeOK'
    BY <1>10, <2>1 DEF Alarm, TypeOK
  <2>4. SlotOwned' /\ CountHonest' /\ NewHasNone'
    BY <1>10, <2>2 DEF Alarm, SlotOwned, CountHonest, NewHasNone
  <2>5. QED
    BY <2>3, <2>4
<1>11. CASE UNCHANGED vars
  BY <1>11 DEF vars, table, TypeOK, SlotOwned, CountHonest, NewHasNone
<1>12. QED
  BY <1>1, <1>2, <1>3, <1>4, <1>5, <1>6, <1>7, <1>8, <1>9, <1>10, <1>11
  DEF Next, Request

LEMMA AlwaysIInv == Spec => []IInv
  BY InitIInv, NextIInv, PTL DEF Spec

-----------------------------------------------------------------------------
(* The table of RequestSoftwareWdtID, KeepSoftwareWdtAlive and             *)
(* ReleaseSoftwareWdtID keeps its types, whatever the threads do.           *)
THEOREM TypeCorrect == Spec => []TypeOK
  BY AlwaysIInv, PTL DEF IInv

(* A registered slot is owned by exactly the thread whose number it is:     *)
(* KeepSoftwareWdtAlive never clears the counter of another thread's slot.  *)
THEOREM SlotsAreOwned == Spec => []SlotOwned
  BY AlwaysIInv, PTL DEF IInv

(* MontiorWdtRunState never counts more than the scans a thread missed.     *)
THEOREM CountersAreHonest == Spec => []CountHonest
  BY AlwaysIInv, PTL DEF IInv

(* MontiorWdtRunState returns -1 only for a trans_message that let more     *)
(* scans pass than the threshold it registered with.                       *)
THEOREM NoFalseAlarms == Spec => NoFalseAlarm
<1>1. IInv /\ [Next]_vars
        => [monitor' = "alarm" /\ monitor = "scan"
              => starve'[Trans] > Timeout[Trans]]_vars
  <2> SUFFICES ASSUME IInv, [Next]_vars, monitor' = "alarm", monitor = "scan"
               PROVE  starve'[Trans] > Timeout[Trans]
    OBVIOUS
  <2>1. Alarm
    BY DEF Next, Request, TakeSlot, RequestFull, Feed, FeedShip, FallSilent,
           Recover, Release, QuitShip, Scan, vars
  <2>2. PICK b \in Slot : TimesOut(b) /\ wdtName[b] = Trans
    BY <2>1 DEF Alarm, Detects
  <2>3. /\ reqFlg[b] /\ wdtCount[b] + 1 > Timeout[Trans]
        /\ wdtCount[b] <= starve[Trans] /\ Trans \in Thread
    BY <2>2 DEF TimesOut, IInv, SlotOwned, CountHonest
  <2>4. /\ wdtCount[b] \in Nat /\ starve[Trans] \in 0..MaxStarve
        /\ starve'[Trans] = IF starve[Trans] < MaxStarve
                            THEN starve[Trans] + 1 ELSE starve[Trans]
    BY <2>1, <2>3 DEF Alarm, Age, IInv, TypeOK
  <2>5. /\ MaxStarve \in Nat /\ Timeout[Trans] \in Nat
        /\ Timeout[Trans] + 1 < MaxStarve
    BY <2>3, WdtAssumption
  <2>6. QED
    BY <2>3, <2>4, <2>5
<1>2. QED
  BY AlwaysIInv, <1>1, PTL DEF Spec, NoFalseAlarm
=============================================================================
