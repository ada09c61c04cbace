---------------------------- MODULE LinkLoss_proofs ----------------------------
(***************************************************************************)
(* Proofs about LinkLoss: what the timeouts of the loop and of the          *)
(* watchdog promise together, and which relations between them they need.  *)
(***************************************************************************)
EXTENDS LinkLoss, WellFoundedInduction, TLAPS

-----------------------------------------------------------------------------
(* The inductive invariant. *)

Scanned(n) == n * TickTime
Selected(n) == n * SelectTime

Typed ==
  /\ pc \in {"top", "select", "asleep", "resend", "replayed"}
  /\ link \in {"up", "eof", "none"}
  /\ pc = "select" => wake \in 0..SelectTime
  /\ pc = "replayed" => wake \in 0..ReplayTime
  /\ pc = "asleep" => link # "up"
  /\ count \in Nat /\ scan \in 0..TickTime
  /\ alarmed \in BOOLEAN /\ masked \in BOOLEAN /\ (~alarmed => count <= Timeout)
  /\ age \in Int /\ age <= HeartbeatTime
  /\ sinceBeat \in Nat /\ quiet \in Nat /\ lost \in Nat
  /\ others \in 0..MaxOther

(* How long the current select, or the pause after a replay, has waited.    *)
Waited ==
  IF pc = "select" THEN SelectTime - wake
  ELSE IF pc = "replayed" THEN ReplayTime - wake
  ELSE 0

(* The first scan since the last feed lies no further back than the selects *)
(* or the replay since then.                                               *)
Fed ==
  /\ Replaying => others = 0
  /\ link = "up" => Scanned(count) - scan <= Selected(others) + Waited

(* The link was lost no longer ago than the scans since the last feed,      *)
(* when none of them ended early.                                          *)
Losing ==
  /\ link = "up" \/ Replaying => lost = 0
  /\ ~masked => lost <= Scanned(count) + TickTime - scan

(* The clock of the heartbeat is not behind true time.                      *)
Ahead == age >= 0 /\ (sinceBeat <= age \/ age = HeartbeatTime)

(* While the link is up it was quiet for no longer than the current select, *)
(* or no heartbeat was due when this select began.                         *)
Beating ==
  link = "up" =>
    /\ Replaying => quiet = 0
    /\ quiet <= Waited \/ sinceBeat < HeartbeatTime + Waited
-----------------------------------------------------------------------------
(* The constants, and the operators on time. *)

LEMMA Times ==
  /\ SelectTime \in Nat \ {0} /\ HeartbeatTime \in Nat \ {0} /\ TickTime \in Nat \ {0}
  /\ Timeout \in Nat \ {0} /\ {MaxOther, ReplayTime} \subseteq Nat
  /\ ClockSteps \subseteq Int /\ MinAge \in Int /\ MinAge <= 0
BY LinkLossAssumption DEF LinkLossAssumption

LEMMA UpToIs ==
  ASSUME NEW bound \in Int, NEW n \in Int
  PROVE  UpTo(bound, n) = IF bound <= n THEN bound ELSE n
<1> DEFINE m == IF bound <= n THEN bound ELSE n
<1>1. m \in {bound, n} /\ \A y \in {bound, n} : m <= y
  OBVIOUS
<1>2. ASSUME NEW x \in {bound, n}, \A y \in {bound, n} : x <= y PROVE x = m
  BY <1>2
<1>3. QED
  BY <1>1, <1>2 DEF UpTo, Min

LEMMA Scans ==
  /\ Scanned(0) = 0
  /\ \A n \in Nat : Scanned(n) \in Nat /\ Scanned(n + 1) = Scanned(n) + TickTime
<1>1. \A n \in Nat : n * TickTime \in Nat /\ (n + 1) * TickTime = n * TickTime + TickTime
  BY Times
<1>2. QED
  BY <1>1, Times DEF Scanned

LEMMA Selects ==
  /\ Selected(0) = 0
  /\ \A n \in Nat : Selected(n) \in Nat /\ Selected(n + 1) = Selected(n) + SelectTime
<1>1. \A n \in Nat : n * SelectTime \in Nat /\ (n + 1) * SelectTime = n * SelectTime + SelectTime
  BY Times
<1>2. QED
  BY <1>1, Times DEF Selected

LEMMA TimesGrow ==
  ASSUME NEW a \in Nat, NEW b \in Nat, NEW c \in Nat, a <= b
  PROVE  a * c <= b * c
<1>1. PICK d \in Nat : b = a + d
  <2>1. b - a \in Nat /\ b = a + (b - a)
    OBVIOUS
  <2>2. QED
    BY <2>1
<1>2. b * c = a * c + d * c /\ d * c \in Nat /\ a * c \in Nat
  BY <1>1
<1>3. QED
  BY <1>2

-----------------------------------------------------------------------------
LEMMA TypedInit == Init => Typed
<1> SUFFICES ASSUME Init PROVE Typed
  OBVIOUS
<1>1. /\ pc = "top" /\ link = "up" /\ count = 0 /\ scan \in 0..TickTime
      /\ age = 0 /\ sinceBeat = 0 /\ quiet = 0 /\ lost = 0 /\ others = 0
  BY DEF Init
<1>2. alarmed \in BOOLEAN /\ masked \in BOOLEAN
  BY DEF Init
<1>3. QED
  BY <1>1, <1>2, Times DEF Typed

LEMMA TypedNext == Typed /\ [Next]_vars => Typed'
<1> SUFFICES ASSUME Typed, [Next]_vars PROVE Typed'
  OBVIOUS
<1>h. HeartbeatTime \in Int /\ Horizon \in Nat /\ LongestLoss + 1 \in Nat
  <2>1. (Timeout + 1) * TickTime \in Nat
    BY Times
  <2>2. QED
    BY <2>1, Times DEF Horizon, LongestLoss
<1>1. CASE Select
  BY Times, <1>1 DEF Select, Typed, thread, dog, beat, loss
<1>2. CASE BackOff
  BY Times, <1>2 DEF BackOff, Typed, thread, dog, beat, loss
<1>3. CASE WakeUp
  BY Times, <1>3 DEF WakeUp, Typed, thread, dog, beat, loss
<1>4. CASE SelectTimeout
  BY Times, <1>4 DEF SelectTimeout, Typed, thread, dog, beat, loss
<1>5. CASE Poll
  BY Times, <1>5 DEF Poll, Typed, thread, dog, beat, loss
<1>r1. CASE Replay
  BY Times, <1>r1 DEF Replay, Typed, dog, beat, loss
<1>r2. CASE ReplayFeeds
  BY Times, <1>r2 DEF ReplayFeeds, Typed, dog, beat, loss
<1>r3. CASE ReplaysEnd
  BY Times, <1>r3 DEF ReplaysEnd, Typed, dog, beat, loss
<1>6. CASE OtherPacket
  BY Times, <1>6 DEF OtherPacket, Typed, thread, dog, beat, loss
<1>7. CASE LinkEnds
  BY Times, <1>7 DEF LinkEnds, Typed, thread, dog, beat, loss
<1>8. ASSUME NEW stops \in BOOLEAN, Scan(stops) PROVE Typed'
  <2>1. /\ scan' = TickTime /\ count' \in {count, count + 1} /\ alarmed' = (count' > Timeout)
        /\ UNCHANGED <<pc, wake, link, age, sinceBeat, quiet, lost, others>>
    BY <1>8 DEF Scan, thread, beat, loss
  <2>2. alarmed' \in BOOLEAN /\ masked' \in BOOLEAN
    BY <1>8 DEF Scan
  <2>3. ~alarmed' => count' <= Timeout
    <3>1. count' > Timeout \/ ~(count' > Timeout)
      OBVIOUS
    <3>2. count' > Timeout => alarmed'
      BY <2>1, Zenon
    <3>3. count' \in Int /\ Timeout \in Int
      BY <2>1, Times DEF Typed
    <3>4. ~(count' > Timeout) => count' <= Timeout
      BY <3>3
    <3>5. QED
      BY <3>1, <3>2, <3>4, Zenon
  <2>4. QED
    BY <2>1, <2>2, <2>3, Times DEF Typed
<1>9. CASE Tick
  <2>1. /\ UpTo(HeartbeatTime, age + 1) \in Int /\ UpTo(HeartbeatTime, age + 1) <= HeartbeatTime
        /\ UpTo(Horizon, sinceBeat + 1) \in Nat /\ UpTo(SelectTime + 1, quiet + 1) \in Nat
        /\ UpTo(LongestLoss + 1, lost + 1) \in Nat
    BY <1>h, UpToIs, Times DEF Typed
  <2>2. /\ ~alarmed /\ scan > 0 /\ wake > 0
        /\ wake' = wake - 1 /\ scan' = scan - 1
        /\ UNCHANGED <<pc, retries, link, count, alarmed, masked, others>>
    BY <1>9 DEF Tick, Idle
  <2>3. /\ age' = UpTo(HeartbeatTime, age + 1)
        /\ sinceBeat' \in {0, UpTo(Horizon, sinceBeat + 1)}
        /\ quiet' \in {0, UpTo(SelectTime + 1, quiet + 1)}
        /\ lost' \in {0, UpTo(LongestLoss + 1, lost + 1)}
    BY <1>9 DEF Tick
  <2>4. age' \in Int /\ age' <= HeartbeatTime /\ {sinceBeat', quiet', lost'} \subseteq Nat
    BY <2>1, <2>3
  <2>5. /\ (pc' = "select" => wake' \in 0..SelectTime) /\ scan' \in 0..TickTime
        /\ pc' = "replayed" => wake' \in 0..ReplayTime
    BY <2>2, Times DEF Typed
  <2>6. QED
    BY <2>2, <2>4, <2>5 DEF Typed
<1>10. ASSUME NEW step \in ClockSteps, TimePacket(step) PROVE Typed'
  <2>1. UpTo(HeartbeatTime, age + step) \in Int /\ UpTo(HeartbeatTime, age + step) <= HeartbeatTime
    BY <1>h, UpToIs, Times DEF Typed
  <2>2. QED
    BY <2>1, <1>10, Times DEF TimePacket, Typed, loss
<1>11. ASSUME NEW ok \in BOOLEAN, NEW spent \in ReinitTime, Reconnect(ok, spent)
       PROVE Typed'
  BY Times, <1>11 DEF Reconnect, Typed, thread, dog, beat, loss
<1>12. CASE UNCHANGED vars
  BY Times, <1>12 DEF vars, Typed, thread, dog, beat, loss
<1>13. QED
  BY <1>1, <1>2, <1>3, <1>4, <1>5, <1>6, <1>7, <1>8, <1>9, <1>10, <1>11, <1>12,
     <1>r1, <1>r2, <1>r3 DEF Next, Loop, Packet

-----------------------------------------------------------------------------
LEMMA FedInit == Init => Fed
BY Times, Scans, Selects DEF Init, Fed, Waited

LEMMA FedNext == Typed /\ Fed /\ [Next]_vars => Fed'
<1> SUFFICES ASSUME Typed, Fed, [Next]_vars PROVE Fed'
  OBVIOUS
<1>s. /\ Scanned(count) \in Nat /\ Scanned(count + 1) = Scanned(count) + TickTime
      /\ Selected(others) \in Nat /\ Selected(others + 1) = Selected(others) + SelectTime
      /\ Scanned(0) = 0 /\ Selected(0) = 0
  BY Scans, Selects DEF Typed
<1>t. Typed'
  BY TypedNext
<1>1. CASE Select
  BY Times, <1>s, <1>t, <1>1 DEF Select, Typed, Fed, Waited, Replaying, thread, dog, beat, loss
<1>2. CASE BackOff
  BY Times, <1>s, <1>t, <1>2 DEF BackOff, Typed, Fed, Waited, Replaying, thread, dog, beat, loss
<1>3. CASE WakeUp
  BY Times, <1>s, <1>t, <1>3 DEF WakeUp, Typed, Fed, Waited, Replaying, thread, dog, beat, loss
<1>4. CASE SelectTimeout
  BY Times, <1>s, <1>t, <1>4 DEF SelectTimeout, Typed, Fed, Waited, Replaying, thread, dog, beat, loss
<1>5. CASE Poll
  BY Times, <1>s, <1>t, <1>5 DEF Poll, Typed, Fed, Waited, Replaying, thread, dog, beat, loss
<1>r1. CASE Replay
  BY Times, <1>s, <1>t, <1>r1 DEF Replay, Typed, Fed, Waited, Replaying, dog, beat, loss
<1>r2. CASE ReplayFeeds
  BY Times, <1>s, <1>t, <1>r2 DEF ReplayFeeds, Typed, Fed, Waited, Replaying, dog, beat, loss
<1>r3. CASE ReplaysEnd
  BY Times, <1>s, <1>t, <1>r3 DEF ReplaysEnd, Typed, Fed, Waited, Replaying, dog, beat, loss
<1>6. CASE OtherPacket
  BY Times, <1>s, <1>t, <1>6 DEF OtherPacket, Typed, Fed, Waited, Replaying, thread, dog, beat, loss
<1>7. CASE LinkEnds
  BY Times, <1>s, <1>t, <1>7 DEF LinkEnds, Typed, Fed, Waited, Replaying, thread, dog, beat, loss
<1>8. ASSUME NEW stops \in BOOLEAN, Scan(stops) PROVE Fed'
  BY Times, <1>s, <1>t, <1>8 DEF Scan, Typed, Fed, Waited, Replaying, thread, beat
<1>9. CASE Tick
  <2>1. /\ scan > 0 /\ wake > 0 /\ wake' = wake - 1 /\ scan' = scan - 1
        /\ UNCHANGED <<pc, link, count, others>>
        /\ pc \in {"select", "replayed"} \/ link # "up"
    BY <1>9 DEF Tick, Idle, Typed
  <2>2. QED
    BY <1>s, <2>1, Times DEF Typed, Fed, Waited, Replaying
<1>10. ASSUME NEW step \in ClockSteps, TimePacket(step) PROVE Fed'
  BY Times, <1>s, <1>t, <1>10 DEF TimePacket, Typed, Fed, Waited, Replaying, thread, dog, beat, loss
<1>11. ASSUME NEW ok \in BOOLEAN, NEW spent \in ReinitTime, Reconnect(ok, spent)
       PROVE Fed'
  BY Times, <1>s, <1>t, <1>11 DEF Reconnect, Typed, Fed, Waited, Replaying, thread, dog, beat, loss
<1>12. CASE UNCHANGED vars
  BY Times, <1>s, <1>t, <1>12 DEF vars, Typed, Fed, Waited, Replaying, thread, dog, beat, loss
<1>13. QED
  BY <1>1, <1>2, <1>3, <1>4, <1>5, <1>6, <1>7, <1>8, <1>9, <1>10, <1>11, <1>12,
     <1>r1, <1>r2, <1>r3 DEF Next, Loop, Packet

LEMMA LosingInit == Init => Losing
BY Times, Scans DEF Init, Losing

LEMMA LosingNext == Typed /\ Losing /\ [Next]_vars => Losing'
<1> SUFFICES ASSUME Typed, Losing, [Next]_vars PROVE Losing'
  OBVIOUS
<1>s. /\ Scanned(count) \in Nat /\ Scanned(count + 1) = Scanned(count) + TickTime
      /\ Scanned(0) = 0 /\ LongestLoss + 1 \in Int
  <2>1. (Timeout + 1) * TickTime \in Nat
    BY Times
  <2>2. QED
    BY <2>1, Scans DEF Typed, LongestLoss
<1>1. CASE Select
  BY Times, <1>s, <1>1 DEF Select, Typed, Losing, Replaying, thread, dog, beat, loss
<1>2. CASE BackOff
  BY Times, <1>s, <1>2 DEF BackOff, Typed, Losing, Replaying, thread, dog, beat, loss
<1>3. CASE WakeUp
  BY Times, <1>s, <1>3 DEF WakeUp, Typed, Losing, Replaying, thread, dog, beat, loss
<1>4. CASE SelectTimeout
  BY Times, <1>s, <1>4 DEF SelectTimeout, Typed, Losing, Replaying, thread, dog, beat, loss
<1>5. CASE Poll
  BY Times, <1>s, <1>5 DEF Poll, Typed, Losing, Replaying, thread, dog, beat, loss
<1>r1. CASE Replay
  BY Times, <1>s, <1>r1 DEF Replay, Replaying, Typed, Losing, dog, beat, loss
<1>r2. CASE ReplayFeeds
  BY Times, <1>s, <1>r2 DEF ReplayFeeds, Replaying, Typed, Losing, dog, beat, loss
<1>r3. CASE ReplaysEnd
  BY Times, <1>s, <1>r3 DEF ReplaysEnd, Replaying, Typed, Losing, dog, beat, loss
<1>6. CASE OtherPacket
  BY Times, <1>s, <1>6 DEF OtherPacket, Typed, Losing, Replaying, thread, dog, beat, loss
<1>7. CASE LinkEnds
  BY Times, <1>s, <1>7 DEF LinkEnds, Typed, Losing, Replaying, thread, dog, beat, loss
<1>8. ASSUME NEW stops \in BOOLEAN, Scan(stops) PROVE Losing'
  <2>1. /\ scan = 0 /\ scan' = TickTime /\ UNCHANGED <<pc, link, lost>>
        /\ count' = (IF stops THEN count ELSE count + 1)
    BY <1>8 DEF Scan, thread
  <2>2. stops => masked' \/ link = "up"
    BY <1>8 DEF Scan
  <2>3. ~masked' => ~masked \/ link = "up"
    BY <1>8 DEF Scan
  <2>4. lost \in Nat /\ Scanned(count') \in Nat
    BY <1>s, <2>1, Times DEF Typed
  <2>5. CASE link = "up"
    BY <2>1, <2>4, <2>5, Times DEF Losing, Replaying
  <2>6. CASE link # "up" /\ ~masked'
    BY <1>s, <2>1, <2>2, <2>3, <2>4, <2>6, Times DEF Losing, Replaying
  <2>7. CASE link # "up" /\ masked'
    BY <2>1, <2>7 DEF Losing, Replaying
  <2>8. QED
    BY <2>5, <2>6, <2>7
<1>9. CASE Tick
  <2>1. /\ scan > 0 /\ scan' = scan - 1 /\ UNCHANGED <<pc, link, count, masked>>
        /\ lost' = IF link = "up" \/ Replaying THEN 0 ELSE UpTo(LongestLoss + 1, lost + 1)
    BY <1>9 DEF Tick, Idle
  <2>2. UpTo(LongestLoss + 1, lost + 1) <= lost + 1 /\ UpTo(LongestLoss + 1, lost + 1) \in Int
    BY <1>s, UpToIs DEF Typed
  <2>3. lost' \in Int /\ lost' <= lost + 1 /\ (link' = "up" \/ Replaying' => lost' = 0)
    BY <2>1, <2>2 DEF Typed, Replaying
  <2>4. QED
    BY <1>s, <2>1, <2>3, Times DEF Typed, Losing
<1>10. ASSUME NEW step \in ClockSteps, TimePacket(step) PROVE Losing'
  BY Times, <1>s, <1>10 DEF TimePacket, Typed, Losing, Replaying, thread, dog, beat, loss
<1>11. ASSUME NEW ok \in BOOLEAN, NEW spent \in ReinitTime, Reconnect(ok, spent)
       PROVE Losing'
  BY Times, <1>s, <1>11 DEF Reconnect, Typed, Losing, Replaying, thread, dog, beat, loss
<1>12. CASE UNCHANGED vars
  BY Times, <1>s, <1>12 DEF vars, Typed, Losing, Replaying, thread, dog, beat, loss
<1>13. QED
  BY <1>1, <1>2, <1>3, <1>4, <1>5, <1>6, <1>7, <1>8, <1>9, <1>10, <1>11, <1>12,
     <1>r1, <1>r2, <1>r3 DEF Next, Loop, Packet

LEMMA LossInv == Spec => [](Typed /\ Losing)
<1>1. Init => Typed /\ Losing
  BY TypedInit, LosingInit
<1>2. Typed /\ Losing /\ [Next]_vars => (Typed /\ Losing)'
  BY TypedNext, LosingNext
<1>3. QED
  BY <1>1, <1>2, PTL DEF Spec

(* A lost link ends the process within Timeout + 1 scans of the watchdog,   *)
(* for any timeouts, any durations of the reinitialisation, and however     *)
(* often it succeeds, when every scan reaches the slot of trans_message:    *)
(* nothing but a packet, a replay or a select that times out on a link that *)
(* is up feeds that slot.                                                  *)
THEOREM LossEndsProcess == Spec => []LossIsBounded
<1>1. Typed /\ Losing => LossIsBounded
  <2> SUFFICES ASSUME Typed, Losing, ~alarmed, ~masked PROVE lost <= LongestLoss
    BY DEF LossIsBounded
  <2>1. /\ count \in Nat /\ count <= Timeout /\ scan \in 0..TickTime /\ lost \in Nat
        /\ lost <= Scanned(count) + TickTime - scan
    BY DEF Typed, Losing
  <2>2. count * TickTime <= Timeout * TickTime /\ count * TickTime \in Nat
    BY <2>1, Times, TimesGrow
  <2>3. (Timeout + 1) * TickTime = Timeout * TickTime + TickTime /\ Timeout * TickTime \in Nat
    BY Times
  <2>4. QED
    BY <2>1, <2>2, <2>3, Times DEF Scanned, LongestLoss
<1>2. QED
  BY <1>1, LossInv, PTL

-----------------------------------------------------------------------------
(* The scan that finds the process silent finds the link lost.              *)
LEMMA AlarmNext ==
  Patient /\ Typed /\ Fed /\ NoAlarmWhileUp /\ [Next]_vars => NoAlarmWhileUp'
<1> SUFFICES ASSUME Patient, Typed, Fed, NoAlarmWhileUp, [Next]_vars, alarmed', link' = "up"
             PROVE  FALSE
  BY DEF NoAlarmWhileUp
<1>1. ASSUME NEW stops \in BOOLEAN, Scan(stops) PROVE FALSE
  <2>1. /\ ~alarmed /\ scan = 0 /\ link = "up" /\ count' \in {count, count + 1}
        /\ count' > Timeout
    BY <1>1 DEF Scan, thread
  <2>2. count = Timeout /\ count \in Nat /\ others \in Nat /\ others <= MaxOther
    BY <2>1, Times DEF Typed
  <2>r. Replaying => Scanned(count) <= ReplayTime
    <3>1. Waited <= ReplayTime \/ ~Replaying
      BY Times DEF Typed, Waited, Replaying
    <3>2. Scanned(count) \in Nat /\ Selected(0) = 0 /\ Waited \in Int
      BY <2>2, Times, Scans, Selects DEF Typed, Waited
    <3>3. QED
      BY <2>1, <3>1, <3>2, Times DEF Fed
  <2>3. ~Replaying => Scanned(count) <= Selected(others) + SelectTime
    <3>1. ~Replaying => Waited <= SelectTime /\ Waited \in Nat
      BY Times DEF Typed, Waited, Replaying
    <3>2. Scanned(count) \in Nat /\ Selected(others) \in Nat
      BY <2>2, Scans, Selects
    <3>3. QED
      BY <2>1, <3>1, <3>2, Times DEF Fed
  <2>4. Selected(others) <= Selected(MaxOther) /\ Selected(others) \in Nat /\ Selected(MaxOther) \in Nat
    BY <2>2, Times, TimesGrow, Selects DEF Selected
  <2>5. Selected(MaxOther) + SelectTime = (MaxOther + 1) * SelectTime
    BY Times, Selects DEF Selected
  <2>6. Scanned(count) = Timeout * TickTime /\ Timeout * TickTime \in Nat
        /\ (MaxOther + 1) * SelectTime \in Nat
    BY <2>2, Times DEF Scanned
  <2>7. QED
    BY <2>r, <2>3, <2>4, <2>5, <2>6, Times DEF Patient
<1>2. CASE UNCHANGED vars
  BY <1>2 DEF vars, dog, NoAlarmWhileUp
<1>3. CASE Loop \/ Packet \/ LinkEnds \/ Tick
  BY <1>3 DEF Loop, Packet, Select, BackOff, WakeUp, SelectTimeout, Reconnect, Poll,
              Replay, ReplayFeeds, ReplaysEnd, TimePacket, OtherPacket, LinkEnds, Tick, dog
<1>4. QED
  BY <1>1, <1>2, <1>3 DEF Next

(* As long as the packets in a row that do not feed, with one more select,  *)
(* fit into Timeout scans, and so does the pause of a replay, the watchdog  *)
(* raises the alarm only on a lost     *)
(* link.  The two sides may not be equal: a scan can come just before the   *)
(* select that is about to time out.                                       *)
THEOREM UpMeansNoAlarm ==
  ASSUME Patient
  PROVE  Spec => []NoAlarmWhileUp
<1> DEFINE I == Typed /\ Fed /\ NoAlarmWhileUp
<1>1. Init => I
  BY TypedInit, FedInit DEF Init, NoAlarmWhileUp
<1>2. I /\ [Next]_vars => I'
  BY Patient, TypedNext, FedNext, AlarmNext
<1>3. QED
  BY <1>1, <1>2, PTL DEF Spec

-----------------------------------------------------------------------------
LEMMA AheadNext == Forward /\ Typed /\ Ahead /\ [Next]_vars => Ahead'
<1> SUFFICES ASSUME Forward, Typed, Ahead, [Next]_vars PROVE Ahead'
  OBVIOUS
<1>h. HeartbeatTime \in Int /\ Horizon \in Int
  BY Times DEF Horizon
<1>1. CASE Select
  BY Times, <1>1 DEF Select, Typed, Ahead, thread, dog, beat, loss
<1>2. CASE BackOff
  BY Times, <1>2 DEF BackOff, Typed, Ahead, thread, dog, beat, loss
<1>3. CASE WakeUp
  BY Times, <1>3 DEF WakeUp, Typed, Ahead, thread, dog, beat, loss
<1>4. CASE SelectTimeout
  BY Times, <1>4 DEF SelectTimeout, Typed, Ahead, thread, dog, beat, loss
<1>5. CASE Poll
  BY Times, <1>5 DEF Poll, Typed, Ahead, thread, dog, beat, loss
<1>r1. CASE Replay
  BY Times, <1>r1 DEF Replay, Typed, Ahead, dog, beat, loss
<1>r2. CASE ReplayFeeds
  BY Times, <1>r2 DEF ReplayFeeds, Typed, Ahead, dog, beat, loss
<1>r3. CASE ReplaysEnd
  BY Times, <1>r3 DEF ReplaysEnd, Typed, Ahead, dog, beat, loss
<1>6. CASE OtherPacket
  BY Times, <1>6 DEF OtherPacket, Typed, Ahead, thread, dog, beat, loss
<1>7. CASE LinkEnds
  BY Times, <1>7 DEF LinkEnds, Typed, Ahead, thread, dog, beat, loss
<1>8. ASSUME NEW stops \in BOOLEAN, Scan(stops) PROVE Ahead'
  BY Times, <1>8 DEF Scan, Typed, Ahead, thread, dog, beat, loss
<1>9. CASE Tick
  <2>1. /\ age' = UpTo(HeartbeatTime, age + 1) /\ sinceBeat' \in {0, UpTo(Horizon, sinceBeat + 1)}
    BY <1>9 DEF Tick
  <2>2. age' = IF HeartbeatTime <= age + 1 THEN HeartbeatTime ELSE age + 1
    BY <1>h, <2>1, UpToIs DEF Typed
  <2>3. sinceBeat' \in Int /\ sinceBeat' <= sinceBeat + 1
    <3>1. sinceBeat' \in {0, IF Horizon <= sinceBeat + 1 THEN Horizon ELSE sinceBeat + 1}
      BY <1>h, <2>1, UpToIs DEF Typed
    <3>2. QED
      BY <1>h, <3>1 DEF Typed
  <2>4. QED
    BY <2>2, <2>3, Times DEF Typed, Ahead
<1>10. ASSUME NEW step \in ClockSteps, TimePacket(step) PROVE Ahead'
  <2>1. step \in Nat /\ age' = UpTo(HeartbeatTime, age + step) /\ sinceBeat' = sinceBeat
    BY <1>10 DEF TimePacket, Forward
  <2>2. age' = IF HeartbeatTime <= age + step THEN HeartbeatTime ELSE age + step
    BY <1>h, <2>1, UpToIs DEF Typed
  <2>3. QED
    BY <2>1, <2>2, Times DEF Typed, Ahead
<1>11. ASSUME NEW ok \in BOOLEAN, NEW spent \in ReinitTime, Reconnect(ok, spent)
       PROVE Ahead'
  BY Times, <1>11 DEF Reconnect, Typed, Ahead, thread, dog, beat, loss
<1>12. CASE UNCHANGED vars
  BY Times, <1>12 DEF vars, Typed, Ahead, thread, dog, beat, loss
<1>13. QED
  BY <1>1, <1>2, <1>3, <1>4, <1>5, <1>6, <1>7, <1>8, <1>9, <1>10, <1>11, <1>12,
     <1>r1, <1>r2, <1>r3 DEF Next, Loop, Packet

LEMMA BeatingNext == Typed /\ Ahead /\ Beating /\ [Next]_vars => Beating'
<1> SUFFICES ASSUME Typed, Ahead, Beating, [Next]_vars, link' = "up" PROVE Beating'
  BY DEF Beating
<1>a. Typed'
  BY TypedNext
<1>b. link = "up" => /\ Replaying => quiet = 0
                     /\ quiet <= Waited \/ sinceBeat < HeartbeatTime + Waited
  BY DEF Beating
<1>p. ASSUME quiet' = 0 PROVE Beating'
  <2>1. Waited' >= 0
    BY <1>a, Times DEF Waited, Typed
  <2>2. QED
    BY <1>p, <2>1 DEF Beating
<1>1. CASE Select
  BY <1>1, <1>b, Times DEF Select, Beating, Waited, Replaying, beat
<1>2. CASE BackOff \/ WakeUp \/ LinkEnds
  BY <1>2 DEF BackOff, WakeUp, LinkEnds, Typed
<1>3. CASE SelectTimeout
  <2>1. /\ pc' = "top"
        /\ \/ age >= HeartbeatTime /\ sinceBeat' = 0
           \/ age < HeartbeatTime /\ sinceBeat' = sinceBeat
    BY <1>3, Times DEF SelectTimeout, HeartbeatDue, Typed, beat
  <2>2. sinceBeat' < HeartbeatTime
    BY <2>1, Times DEF Ahead, Typed
  <2>3. Waited' = 0 /\ ~Replaying'
    BY <2>1 DEF Waited, Replaying
  <2>4. QED
    BY <1>a, <2>2, <2>3, Times DEF Beating, Typed
<1>4. CASE Packet
  BY <1>4, <1>p DEF Packet, Poll, TimePacket, OtherPacket
<1>r1. CASE Replay \/ ReplayFeeds \/ ReplaysEnd
  <2>1. Replaying /\ link = "up" /\ quiet' = quiet
    BY <1>r1 DEF Replay, ReplayFeeds, ReplaysEnd, Replaying
  <2>2. QED
    BY <1>b, <1>p, <2>1
<1>5. ASSUME NEW ok \in BOOLEAN, NEW spent \in ReinitTime, Reconnect(ok, spent) PROVE Beating'
  BY <1>5 DEF Reconnect
<1>6. ASSUME NEW stops \in BOOLEAN, Scan(stops) PROVE Beating'
  BY <1>6, <1>b DEF Scan, Beating, Waited, Replaying, thread, beat
<1>7. CASE Tick
  <2>1. CASE Replaying
    BY <1>7, <1>p, <2>1 DEF Tick
  <2>2. CASE ~Replaying
    <3>1. /\ pc = "select" /\ pc' = "select" /\ link = "up" /\ wake' = wake - 1
          /\ wake \in 1..SelectTime
          /\ sinceBeat' = UpTo(Horizon, sinceBeat + 1) /\ quiet' = UpTo(SelectTime + 1, quiet + 1)
      BY <1>7, <2>2, Times DEF Tick, Idle, Typed, Replaying
    <3>2. Waited \in Nat /\ Waited' = Waited + 1 /\ ~Replaying'
      BY <3>1, Times DEF Waited, Replaying
    <3>3. Horizon \in Int
      BY Times DEF Horizon
    <3>4. sinceBeat' <= sinceBeat + 1 /\ quiet' <= quiet + 1 /\ {sinceBeat', quiet'} \subseteq Int
      BY <3>1, <3>3, UpToIs, Times DEF Typed
    <3>5. QED
      BY <1>b, <2>2, <3>1, <3>2, <3>4, Times DEF Beating, Typed
  <2>3. QED
    BY <2>1, <2>2
<1>8. CASE UNCHANGED vars
  BY <1>8, <1>b DEF vars, Beating, Waited, Replaying, thread, beat
<1>9. QED
  BY <1>1, <1>2, <1>3, <1>4, <1>r1, <1>5, <1>6, <1>7, <1>8 DEF Next, Loop

(* When time packets never set the clock back, a link that is up and was    *)
(* silent for a select has heard a heartbeat within HeartbeatTime and one   *)
(* select, wherever polls and replays left the selects: the select that     *)
(* times out finds last_heartbeat due when true time does.                 *)
THEOREM QuietLinkIsBeaten ==
  ASSUME Forward
  PROVE  Spec => []HeartbeatWhenQuiet
<1> DEFINE I == Typed /\ Ahead /\ Beating
<1>1. Init => I
  <2> SUFFICES ASSUME Init PROVE I
    OBVIOUS
  <2>1. Waited = 0 /\ ~Replaying /\ quiet = 0
    BY DEF Init, Waited, Replaying
  <2>2. QED
    BY <2>1, TypedInit DEF Init, Ahead, Beating
<1>2. I /\ [Next]_vars => I'
  BY Forward, TypedNext, AheadNext, BeatingNext
<1>3. I => HeartbeatWhenQuiet
  <2> SUFFICES ASSUME Typed, Beating, link = "up", quiet > SelectTime
               PROVE  sinceBeat < HeartbeatTime + SelectTime
    BY DEF HeartbeatWhenQuiet
  <2>1. sinceBeat \in Nat /\ quiet \in Nat
    BY DEF Typed
  <2>2. ~Replaying
    BY <2>1, Times DEF Beating
  <2>3. Waited <= SelectTime /\ Waited \in Nat
    BY <2>2, Times DEF Waited, Typed, Replaying
  <2>4. QED
    BY <2>1, <2>3, Times DEF Beating
<1>4. QED
  BY <1>1, <1>2, <1>3, PTL DEF Spec
-----------------------------------------------------------------------------
(* Types.  What a recursive function on 0..20 is, by induction. *)

LEMMA UpToTwenty ==
  ASSUME NEW S, 0 \in S, \A k \in 0..19 : k \in S => k + 1 \in S
  PROVE  \A k \in 0..20 : k \in S
<1> DEFINE Less == {p \in Nat \X Nat : p[1] < p[2]}
           Out == {k \in 0..20 : k \notin S}
<1> SUFFICES ASSUME Out # {} PROVE FALSE
  OBVIOUS
<1>1. IsWellFoundedOn(Less, Nat)
  BY NatLessThanWellFounded DEF OpToRel
<1>2. Out \subseteq Nat /\ Out # {}
  OBVIOUS
<1> HIDE DEF Out, Less
<1>3. PICK n \in Out : \A k \in Out : <<k, n>> \notin Less
  BY <1>1, <1>2, WFMin, Zenon
<1> USE DEF Out, Less
<1>4. n # 0 /\ n - 1 \in 0..19 /\ n - 1 \in Nat /\ n \in Nat /\ n - 1 < n
  BY <1>3
<1>5. <<n - 1, n>>[1] = n - 1 /\ <<n - 1, n>>[2] = n /\ <<n - 1, n>> \in Nat \X Nat
  BY <1>4
<1>6. n - 1 \in S
  BY <1>3, <1>4, <1>5
<1>7. (n - 1) + 1 \in S /\ (n - 1) + 1 = n
  BY <1>4, <1>6
<1>8. QED
  BY <1>3, <1>7

LEMMA PowersOfTwo == PowerOfTwo \in [0..20 -> Nat]
<1> DEFINE Doubles(f, k) == f[0] = 1 /\ \A i \in 1..k : f[i] = 2 * f[i - 1]
           S == {k \in 0..20 : \E f \in [0..20 -> Nat] : Doubles(f, k)}
           Is(f) == f = [shift \in 0..20 |-> IF shift = 0 THEN 1 ELSE 2 * f[shift - 1]]
<1>1. 0 \in S
  <2> DEFINE one == [k \in 0..20 |-> 1]
  <2>1. one \in [0..20 -> Nat] /\ one[0] = 1 /\ 0 \in 0..20
    OBVIOUS
  <2> HIDE DEF one
  <2>2. QED
    BY <2>1
<1>2. ASSUME NEW k \in 0..19, k \in S PROVE k + 1 \in S
  <2>1. PICK f \in [0..20 -> Nat] : Doubles(f, k)
    BY <1>2
  <2> DEFINE g == [f EXCEPT ![k + 1] = 2 * f[k]]
  <2>2. /\ k + 1 \in 0..20 /\ k \in 0..20 /\ 2 * f[k] \in Nat /\ g \in [0..20 -> Nat]
        /\ g[k + 1] = 2 * f[k] /\ \A i \in 0..k : g[i] = f[i]
    OBVIOUS
  <2> HIDE DEF g
  <2>3. g[0] = 1
    BY <2>1, <2>2
  <2>4. ASSUME NEW i \in 1..(k + 1) PROVE g[i] = 2 * g[i - 1]
    <3>1. CASE i = k + 1
      BY <2>2, <3>1
    <3>2. CASE i \in 1..k
      BY <2>1, <2>2, <3>2
    <3>3. QED
      BY <3>1, <3>2
  <2>5. QED
    BY <2>2, <2>3, <2>4
<1>3. \E f \in [0..20 -> Nat] : Doubles(f, 20)
  <2>1. 20 \in S
    <3> HIDE DEF S
    <3>1. 20 \in 0..20
      OBVIOUS
    <3>2. \A k \in 0..20 : k \in S
      BY <1>1, <1>2, UpToTwenty, Zenon
    <3>3. QED
      BY <3>1, <3>2
  <2>2. QED
    BY <2>1
<1>4. PICK f \in [0..20 -> Nat] : Doubles(f, 20)
  BY <1>3
<1>5. Is(f)
  <2>1. \A k \in 0..20 : f[k] = IF k = 0 THEN 1 ELSE 2 * f[k - 1]
    BY <1>4
  <2>2. QED
    BY <2>1
<1>6. Is(PowerOfTwo)
  <2> HIDE DEF Is
  <2>1. PowerOfTwo = CHOOSE p : Is(p)
    BY DEF PowerOfTwo, Is
  <2>2. QED
    BY <1>5, <2>1
<1>7. ASSUME NEW k \in 0..20 PROVE PowerOfTwo[k] = f[k]
  <2> DEFINE Same == {m \in 0..20 : PowerOfTwo[m] = f[m]}
  <2>1. \A m \in 0..20 : PowerOfTwo[m] = IF m = 0 THEN 1 ELSE 2 * PowerOfTwo[m - 1]
    BY <1>6
  <2>2. 0 \in Same
    BY <1>4, <2>1
  <2>3. \A m \in 0..19 : m \in Same => m + 1 \in Same
    BY <1>4, <2>1
  <2> HIDE DEF Same
  <2>4. \A m \in 0..20 : m \in Same
    BY <2>2, <2>3, UpToTwenty, Zenon
  <2>5. QED
    BY <2>4 DEF Same
<1>8. QED
  <2>1. PowerOfTwo = [k \in 0..20 |-> PowerOfTwo[k]]
    BY <1>6
  <2>2. QED
    BY <1>7, <2>1

(* The longest delay is BackoffMax, whatever was counted.                   *)
LEMMA DelayIs == ASSUME NEW r \in 0..20 PROVE NextDelay(r) \in 0..BackoffMax
<1>1. UpTo(20, r) \in 0..20
  BY UpToIs
<1>2. PICK p \in Nat : p = PowerOfTwo[UpTo(20, r)]
  BY <1>1, PowersOfTwo
<1>3. BackoffBase \in Nat /\ BackoffMax \in Nat
  BY LinkLossAssumption DEF LinkLossAssumption
<1>4. BackoffBase * p \in Nat
  BY <1>2, <1>3
<1>5. QED
  BY <1>2, <1>3, <1>4, UpToIs DEF NextDelay

LEMMA MaxIs ==
  ASSUME NEW S, NEW m \in S, S \subseteq Int, \A x \in S : x <= m
  PROVE  Max(S) = m
<1>1. \A n \in S : (\A x \in S : n >= x) => n = m
  OBVIOUS
<1>2. \A x \in S : m >= x
  OBVIOUS
<1>3. QED
  BY <1>1, <1>2 DEF Max

(* No wait is longer than LongestWait.                                      *)
LEMMA Waits ==
  ASSUME LongestReinit
  PROVE  /\ LongestWait \in Nat /\ SelectTime <= LongestWait /\ BackoffMax <= LongestWait
         /\ ReplayTime <= LongestWait
         /\ \A spent \in ReinitTime :
              spent \in Nat /\ FailTime + PauseTime + spent <= LongestWait
<1>1. PICK longest \in ReinitTime : \A spent \in ReinitTime : spent <= longest
  BY DEF LongestReinit
<1>2. ReinitTime \subseteq Nat /\ {SelectTime, ReplayTime, BackoffMax, FailTime, PauseTime} \subseteq Nat
  BY LinkLossAssumption DEF LinkLossAssumption
<1>3. Max(ReinitTime) = longest
  <2>1. ReinitTime \subseteq Int
    BY <1>2
  <2>2. QED
    BY <1>1, <2>1, MaxIs
<1> DEFINE c == FailTime + PauseTime + longest
           S == {SelectTime, ReplayTime, BackoffMax, c}
<1>4. c \in Nat /\ S \subseteq Int
  BY <1>2
<1>5. PICK m \in S : \A x \in S : x <= m
  BY <1>2, <1>4
<1>6. LongestWait = m
  <2>1. Max(S) = m
    BY <1>4, <1>5, MaxIs
  <2>2. QED
    BY <1>3, <2>1 DEF LongestWait
<1>7. m \in Nat /\ SelectTime <= m /\ ReplayTime <= m /\ BackoffMax <= m /\ c <= m
  BY <1>2, <1>4, <1>5
<1>8. QED
  BY <1>1, <1>2, <1>6, <1>7

Bounded ==
  /\ wake \in 0..LongestWait /\ retries \in 0..20
  /\ count <= Timeout + 1 /\ age >= MinAge
  /\ sinceBeat <= Horizon /\ quiet <= SelectTime + 1 /\ lost <= LongestLoss + 1

LEMMA BoundedNext ==
  ASSUME LongestReinit, Typed, Bounded, [Next]_vars
  PROVE  Bounded'
<1>w. /\ LongestWait \in Nat /\ SelectTime <= LongestWait /\ BackoffMax <= LongestWait
      /\ ReplayTime <= LongestWait
      /\ \A spent \in ReinitTime :
           spent \in Nat /\ FailTime + PauseTime + spent <= LongestWait
  BY Waits
<1>c. /\ {FailTime, PauseTime, BackoffMax} \subseteq Nat
      /\ HeartbeatTime \in Int /\ Horizon \in Nat /\ LongestLoss + 1 \in Nat
  <2>1. (Timeout + 1) * TickTime \in Nat
    BY Times
  <2>2. QED
    BY <2>1, Times, LinkLossAssumption DEF Horizon, LongestLoss, LinkLossAssumption
<1>1. CASE Select
  BY Times, <1>w, <1>c, <1>1 DEF Select, Bounded, thread, dog, beat, loss
<1>2. CASE BackOff
  <2>1. NextDelay(retries) \in 0..BackoffMax /\ UpTo(20, retries + 1) \in 0..20
    BY DelayIs, UpToIs DEF Bounded
  <2>2. QED
    BY <1>w, <1>c, <1>2, <2>1 DEF BackOff, Bounded, dog, beat, loss
<1>3. CASE WakeUp
  BY <1>3 DEF WakeUp, Bounded, dog, beat, loss
<1>4. CASE SelectTimeout
  BY Times, <1>c, <1>4 DEF SelectTimeout, Bounded, beat, loss
<1>5. CASE Poll
  BY Times, <1>w, <1>c, <1>5 DEF Poll, Bounded, beat, loss
<1>r1. CASE Replay
  BY Times, <1>w, <1>c, <1>r1 DEF Replay, Bounded, dog, beat, loss
<1>r2. CASE ReplayFeeds
  BY Times, <1>w, <1>c, <1>r2 DEF ReplayFeeds, Bounded, dog, beat, loss
<1>r3. CASE ReplaysEnd
  BY Times, <1>w, <1>c, <1>r3 DEF ReplaysEnd, Bounded, dog, beat, loss
<1>6. CASE OtherPacket
  BY Times, <1>w, <1>c, <1>6 DEF OtherPacket, Bounded, dog, beat, loss
<1>7. CASE LinkEnds
  BY Times, <1>c, <1>7 DEF LinkEnds, Bounded, thread, dog, beat, loss
<1>8. ASSUME NEW stops \in BOOLEAN, Scan(stops) PROVE Bounded'
  BY Times, <1>8 DEF Scan, Typed, Bounded, thread, beat
<1>9. CASE Tick
  <2>1. /\ UpTo(HeartbeatTime, age + 1) >= MinAge
        /\ UpTo(Horizon, sinceBeat + 1) <= Horizon /\ UpTo(SelectTime + 1, quiet + 1) <= SelectTime + 1
        /\ UpTo(LongestLoss + 1, lost + 1) <= LongestLoss + 1
    BY <1>c, UpToIs, Times DEF Typed, Bounded
  <2>2. /\ wake > 0 /\ wake' = wake - 1 /\ UNCHANGED <<retries, count>>
        /\ age' = UpTo(HeartbeatTime, age + 1) /\ sinceBeat' \in {0, UpTo(Horizon, sinceBeat + 1)}
        /\ quiet' \in {0, UpTo(SelectTime + 1, quiet + 1)}
        /\ lost' \in {0, UpTo(LongestLoss + 1, lost + 1)}
    BY <1>9 DEF Tick, Idle
  <2>3. wake' \in 0..LongestWait
    BY <1>w, <2>2 DEF Bounded
  <2>4. QED
    BY Times, <1>c, <2>1, <2>2, <2>3 DEF Bounded
<1>10. ASSUME NEW step \in ClockSteps, TimePacket(step) PROVE Bounded'
  <2>1. UpTo(HeartbeatTime, age + step) >= MinAge
    BY <1>10, <1>c, UpToIs, Times DEF Typed, TimePacket
  <2>2. QED
    BY Times, <1>w, <1>c, <1>10, <2>1 DEF TimePacket, Bounded, loss
<1>11. ASSUME NEW ok \in BOOLEAN, NEW spent \in ReinitTime, Reconnect(ok, spent)
       PROVE  Bounded'
  <2>1. spent + PauseTime + 0 \in 0..LongestWait /\ spent + PauseTime + FailTime \in 0..LongestWait
    BY <1>w, <1>c
  <2>2. wake' \in 0..LongestWait
    BY <1>11, <2>1 DEF Reconnect
  <2>3. QED
    BY <1>11, <2>2 DEF Reconnect, Bounded, dog, beat, loss
<1>12. CASE UNCHANGED vars
  BY <1>12 DEF vars, Bounded, thread, dog, beat, loss
<1>13. QED
  BY <1>1, <1>2, <1>3, <1>4, <1>5, <1>6, <1>7, <1>8, <1>9, <1>10, <1>11, <1>12,
     <1>r1, <1>r2, <1>r3 DEF Next, Loop, Packet

(* Every variable has its type, for any timeouts: no wait is longer than the *)
(* longest of the loop's own, however often it backs off, and the watchdog   *)
(* counts one scan past its timeout and no further.                         *)
THEOREM TypeCorrect ==
  ASSUME LongestReinit
  PROVE  Spec => []TypeOK
<1> DEFINE Both == Typed /\ Bounded
<1>1. Init => Both
  <2> SUFFICES ASSUME Init PROVE Bounded
    BY TypedInit
  <2>1. Horizon \in Nat /\ LongestLoss + 1 \in Nat
    <3>1. (Timeout + 1) * TickTime \in Nat
      BY Times
    <3>2. QED
      BY <3>1, Times DEF Horizon, LongestLoss
  <2>2. QED
    BY <2>1, Waits, Times DEF Init, Bounded
<1>2. Both /\ [Next]_vars => Both'
  BY TypedNext, BoundedNext
<1>3. Both => TypeOK
  <2> SUFFICES ASSUME Typed, Bounded PROVE TypeOK
    OBVIOUS
  <2>1. Horizon \in Nat /\ LongestLoss + 1 \in Nat
    <3>1. (Timeout + 1) * TickTime \in Nat
      BY Times
    <3>2. QED
      BY <3>1, Times DEF Horizon, LongestLoss
  <2>2. QED
    BY <2>1, Times DEF Typed, Bounded, TypeOK
<1> HIDE DEF Both
<1>4. QED
  BY <1>1, <1>2, <1>3, PTL DEF Spec
=============================================================================
