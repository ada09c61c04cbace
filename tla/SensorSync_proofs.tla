--------------------------- MODULE SensorSync_proofs ---------------------------
(***************************************************************************)
(* Proofs about SensorSync, for any number of polls and sensors, with and  *)
(* without alarms and late answers.                                        *)
(***************************************************************************)
EXTENDS SensorSync, TLAPS

(* A poll stands behind every round begun, behind the flag that is set, and  *)
(* behind the flag that trans_message is about to set.                     *)
One(b) == IF b THEN 1 ELSE 0

PollsCover == rounds + One(ready) + One(trans \in {"lock", "set"}) <= polls

(* While a round is read: the sensors before index_flag have the value of    *)
(* this round or failed, the others are reset.                             *)
WasRead(i) == i < index_flag \/ ship = "lock"

ReadSoFar ==
  ship \in {"start", "collect", "lock"} =>
    /\ \A i \in unread : WasRead(i)
    /\ sensor_values = [i \in 0..sensor_count - 1 |->
                          IF WasRead(i) /\ i \notin unread THEN rounds ELSE Missing]

(* Before the first round nothing was polled and nothing read.              *)
NotStarted == ship = "start" => index_flag = 0 /\ unread = {}

(* A join that returned has seen its thread dead.                          *)
Joined ==
  /\ monitor \in {"gps", "trans", "done"} => ship = "dead"
  /\ monitor \in {"trans", "done"} => gps = "dead"
  /\ monitor = "done" => trans = "dead"
  /\ main = "exit" => monitor = "done"

-----------------------------------------------------------------------------
(* Types.  They include who holds the mutex at which point of its code.     *)

LEMMA TypeInit == Init => TypeOK
<1> SUFFICES ASSUME Init PROVE TypeOK
  OBVIOUS
<1>1. sensor_values \in [0..sensor_count - 1 -> Nat \union {Missing}]
  BY DEF Init, Nothing
<1>2. 0 \in 0..sensor_count - 1 /\ 0 \in 0..MaxPolls
  BY SensorSyncAssumption DEF SensorSyncAssumption
<1>3. QED
  BY <1>1, <1>2 DEF Init, TypeOK

(* The one action that changes values of sensors.                          *)
LEMMA TypeReadSensor == TypeOK /\ ReadSensor => TypeOK'
<1> SUFFICES ASSUME TypeOK, ReadSensor PROVE TypeOK'
  OBVIOUS
<1>1. sensor_count \in Nat \ {0}
  BY SensorSyncAssumption DEF SensorSyncAssumption
<1>2. index_flag \in 0..sensor_count - 1 /\ rounds \in Nat
  BY DEF TypeOK
<1>3. PICK value \in {rounds, Missing} :
        IF value = Missing
        THEN unread' = unread \union {index_flag} /\ sensor_values' = sensor_values
        ELSE /\ sensor_values' = [sensor_values EXCEPT ![index_flag] = value]
             /\ unread' = unread
  BY DEF ReadSensor, readSensorValue
<1>4. sensor_values' \in [0..sensor_count - 1 -> Nat \union {Missing}]
  BY <1>2, <1>3 DEF TypeOK
<1>5. unread' \subseteq 0..sensor_count - 1
  BY <1>2, <1>3 DEF TypeOK
<1>6. index_flag' \in 0..sensor_count - 1
  BY <1>1, <1>2 DEF ReadSensor
<1>7. QED
  BY <1>4, <1>5, <1>6 DEF ReadSensor, TypeOK

LEMMA TypeNext == TypeOK /\ [Next]_vars => TypeOK'
<1> SUFFICES ASSUME TypeOK, [Next]_vars PROVE TypeOK'
  OBVIOUS
<1>1. CASE OpenModbus
  BY <1>1 DEF OpenModbus, roundVars, TypeOK
<1>2. CASE ReadSensor
  BY <1>2, TypeReadSensor
<1>3. CASE LockShip \/ CondWait \/ Reacquire \/ ShipDies \/ SpuriousWakeup
  BY <1>3, ZenonT(60) DEF LockShip, CondWait, Reacquire, ShipDies, SpuriousWakeup, roundVars,
                        TypeOK
<1>4. CASE TakeReady
  <2>1. Nothing \in [0..sensor_count - 1 -> Nat \union {Missing}]
    BY DEF Nothing
  <2>2. 0 \in 0..sensor_count - 1
    BY SensorSyncAssumption DEF SensorSyncAssumption
  <2>3. /\ mtx' \in {"free", "ship", "trans"} /\ ready' \in BOOLEAN
        /\ ship' \in {"start", "collect", "lock", "test", "waiting", "woken", "dead"}
    BY <1>4 DEF TakeReady, TypeOK
  <2>4. rounds' \in Nat
    <3>1. rounds \in Nat /\ rounds' = rounds + 1
      BY <1>4 DEF TakeReady, TypeOK
    <3>2. QED
      BY <3>1
  <2>5. ((mtx = "trans") <=> (trans = "set"))'
    BY <1>4 DEF TakeReady, TypeOK
  <2>6. QED
    BY <1>4, <2>1, <2>2, <2>3, <2>4, <2>5 DEF TakeReady, NewRound, TypeOK
<1>5. CASE LockTrans
  BY <1>5 DEF LockTrans, roundVars, TypeOK
<1>6. CASE SetReady
  BY <1>6 DEF SetReady, roundVars, TypeOK
<1>7. CASE Broadcast
  BY <1>7 DEF Broadcast, roundVars, TypeOK
<1>8. CASE Send \/ TransDies
  BY <1>8, ZenonT(60) DEF Send, TransDies, roundVars, TypeOK
<1>9. CASE JoinShip \/ JoinGps
  BY <1>9, ZenonT(60) DEF JoinShip, JoinGps, roundVars, TypeOK
<1>10. CASE JoinTrans \/ GpsEnds
  BY <1>10, ZenonT(60) DEF JoinTrans, GpsEnds, roundVars, TypeOK
<1>11. CASE Alarm
  BY <1>11 DEF Alarm, roundVars, TypeOK
<1>12. CASE Poll
  BY <1>12, SensorSyncAssumption DEF SensorSyncAssumption, Poll, roundVars, TypeOK
<1>13. CASE UNCHANGED vars
  BY <1>13 DEF vars, roundVars, TypeOK
<1>14. QED
  BY <1>1, <1>2, <1>3, <1>4, <1>5, <1>6, <1>7, <1>8, <1>9, <1>10, <1>11, <1>12, <1>13
  DEF Next, ShipStep, TransStep, MonitorStep

LEMMA TypeCorrect == Spec => []TypeOK
BY TypeInit, TypeNext, PTL DEF Spec

-----------------------------------------------------------------------------
(* A round begins for a poll, never for a spurious or a second wake-up: a    *)
(* round uses up the flag, and the flag is set once for a poll.            *)
THEOREM RoundsForPolls == Spec => []RoundsArePolled
<1>1. Init => PollsCover
  BY DEF Init, PollsCover, One
<1>2. TypeOK /\ PollsCover /\ [Next]_vars => PollsCover'
  <2> SUFFICES ASSUME TypeOK, PollsCover, [Next]_vars PROVE PollsCover'
    OBVIOUS
  <2>0. rounds \in Nat /\ polls \in Nat /\ ready \in BOOLEAN
    BY DEF TypeOK
  <2>1. CASE ShipStep
    BY <2>0, <2>1
    DEF ShipStep, OpenModbus, ReadSensor, LockShip, TakeReady, CondWait, Reacquire,
        ShipDies, PollsCover, One
  <2>2. CASE TransStep \/ Poll
    BY <2>0, <2>2
    DEF TransStep, LockTrans, SetReady, Broadcast, Send, TransDies, Poll,
        PollsCover, One
  <2>3. CASE MonitorStep \/ SpuriousWakeup \/ GpsEnds \/ Alarm
    BY <2>3
    DEF MonitorStep, JoinShip, JoinGps, JoinTrans, SpuriousWakeup, GpsEnds, Alarm,
        PollsCover
  <2>4. CASE UNCHANGED vars
    BY <2>4 DEF vars, PollsCover
  <2>5. QED
    BY <2>1, <2>2, <2>3, <2>4 DEF Next
<1>3. TypeOK /\ PollsCover => RoundsArePolled
  BY DEF TypeOK, PollsCover, One, RoundsArePolled
<1>4. QED
  BY <1>1, <1>2, <1>3, TypeCorrect, PTL DEF Spec

(* No lost wake-up: between the test of the flag and the sleep the mutex is  *)
(* held, and whoever sets the flag still has its broadcast to come.        *)
THEOREM WakeUpIsNotLost == Spec => []NoLostWakeup
<1>1. Init => NoLostWakeup
  BY DEF Init, NoLostWakeup
<1>2. NoLostWakeup /\ [Next]_vars => NoLostWakeup'
  <2> SUFFICES ASSUME NoLostWakeup, [Next]_vars PROVE NoLostWakeup'
    OBVIOUS
  <2>1. CASE ShipStep
    BY <2>1
    DEF ShipStep, OpenModbus, ReadSensor, LockShip, TakeReady, CondWait, Reacquire,
        ShipDies, NoLostWakeup
  <2>2. CASE TransStep \/ Poll
    BY <2>2
    DEF TransStep, LockTrans, SetReady, Broadcast, Send, TransDies, Poll, NoLostWakeup
  <2>3. CASE MonitorStep \/ SpuriousWakeup \/ GpsEnds \/ Alarm
    BY <2>3
    DEF MonitorStep, JoinShip, JoinGps, JoinTrans, SpuriousWakeup, GpsEnds, Alarm,
        NoLostWakeup
  <2>4. CASE UNCHANGED vars
    BY <2>4 DEF vars, NoLostWakeup
  <2>5. QED
    BY <2>1, <2>2, <2>3, <2>4 DEF Next
<1>3. QED
  BY <1>1, <1>2, PTL DEF Spec

-----------------------------------------------------------------------------
(* Reading one sensor extends what ReadSoFar says by that sensor.           *)
LEMMA ReadOneMore == TypeOK /\ ReadSoFar /\ ReadSensor => ReadSoFar'
<1> SUFFICES ASSUME TypeOK, ReadSoFar, ReadSensor PROVE ReadSoFar'
  OBVIOUS
<1> DEFINE n == sensor_count
<1>1. n \in Nat \ {0}
  BY SensorSyncAssumption DEF SensorSyncAssumption
<1>2. /\ index_flag \in 0..n - 1 /\ rounds \in Nat /\ unread \subseteq 0..n - 1
      /\ ship = "collect" /\ rounds' = rounds
  BY DEF TypeOK, ReadSensor
<1>3. /\ \A i \in unread : i < index_flag
      /\ sensor_values = [i \in 0..n - 1 |->
            IF i < index_flag /\ i \notin unread THEN rounds ELSE Missing]
  BY <1>2 DEF ReadSoFar, WasRead
<1>4. PICK value \in {rounds, Missing} :
        IF value = Missing
        THEN unread' = unread \union {index_flag} /\ sensor_values' = sensor_values
        ELSE /\ sensor_values' = [sensor_values EXCEPT ![index_flag] = value]
             /\ unread' = unread
  BY DEF ReadSensor, readSensorValue
<1>5. \A i \in 0..n - 1 : WasRead(i)' <=> i <= index_flag
  BY <1>1, <1>2 DEF ReadSensor, WasRead
<1>6. /\ unread' \subseteq 0..n - 1
      /\ \A i \in unread' : i <= index_flag
  <2>1. unread' \subseteq unread \union {index_flag}
    BY <1>4
  <2>2. \A i \in unread : i <= index_flag
    BY <1>1, <1>2, <1>3
  <2>3. QED
    BY <1>1, <1>2, <2>1, <2>2
<1>7. ASSUME NEW i \in 0..n - 1
      PROVE  sensor_values'[i]
               = IF i <= index_flag /\ i \notin unread' THEN rounds ELSE Missing
  <2>0. i \in Int /\ index_flag \in Int
    BY <1>1, <1>2
  <2>1. CASE i = index_flag
    <3>1. i \notin unread
      BY <2>0, <2>1, <1>3
    <3>2. CASE value = Missing
      BY <3>1, <3>2, <2>0, <2>1, <1>3, <1>4
    <3>3. CASE value # Missing
      <4>1. /\ sensor_values' = [sensor_values EXCEPT ![index_flag] = value]
            /\ unread' = unread /\ value = rounds
        BY <3>3, <1>4
      <4>2. index_flag \in DOMAIN sensor_values
        BY <1>2, <1>3
      <4>3. sensor_values'[index_flag] = rounds
        BY <4>1, <4>2
      <4>4. QED
        BY <4>1, <4>3, <3>1, <2>0, <2>1
    <3>4. QED
      BY <3>2, <3>3
  <2>2. CASE i # index_flag
    <3>1. sensor_values'[i] = sensor_values[i] /\ (i \in unread' <=> i \in unread)
      BY <2>2, <1>3, <1>4
    <3>2. i <= index_flag <=> i < index_flag
      BY <2>0, <2>2
    <3>3. QED
      BY <3>1, <3>2, <1>3
  <2>3. QED
    BY <2>1, <2>2
<1>8. DOMAIN sensor_values' = 0..n - 1
      /\ sensor_values' = [i \in 0..n - 1 |-> sensor_values'[i]]
  BY <1>3, <1>4
<1>9. sensor_values' = [i \in 0..n - 1 |->
         IF WasRead(i)' /\ i \notin unread' THEN rounds' ELSE Missing]
  BY <1>2, <1>5, <1>7, <1>8
<1>10. \A i \in unread' : WasRead(i)'
  BY <1>5, <1>6
<1>11. QED
  BY <1>9, <1>10 DEF ReadSoFar

(* Every packet holds, for every sensor, what was read in its own round, or  *)
(* the mark of a missing value exactly if that read failed.                 *)
THEOREM PacketsAreOfOneRound == Spec => []ValuesOfThisRound
<1> DEFINE I == ReadSoFar /\ NotStarted
<1>1. TypeOK /\ Init => I
  <2> SUFFICES ASSUME TypeOK, Init PROVE I
    OBVIOUS
  <2>1. \A i \in 0..sensor_count - 1 : ~WasRead(i)
    BY SensorSyncAssumption DEF SensorSyncAssumption, Init, WasRead
  <2>2. QED
    BY <2>1 DEF Init, Nothing, ReadSoFar, NotStarted
<1>2. TypeOK /\ I /\ [Next]_vars => I'
  <2> SUFFICES ASSUME TypeOK, I, [Next]_vars PROVE I'
    OBVIOUS
  <2>1. CASE ReadSensor
    BY <2>1, ReadOneMore DEF ReadSensor, NotStarted
  <2>2. CASE TakeReady
    <3>1. \A i \in 0..sensor_count - 1 : ~WasRead(i)'
      BY <2>2, SensorSyncAssumption
      DEF SensorSyncAssumption, TakeReady, NewRound, WasRead
    <3>2. QED
      BY <3>1, <2>2 DEF TakeReady, NewRound, Nothing, ReadSoFar, NotStarted
  <2>3. CASE OpenModbus
    BY <2>3 DEF OpenModbus, roundVars, ReadSoFar, WasRead, NotStarted
  <2>4. CASE LockShip \/ CondWait \/ Reacquire \/ ShipDies \/ SpuriousWakeup
    BY <2>4
    DEF LockShip, CondWait, Reacquire, ShipDies, SpuriousWakeup, ReadSoFar, NotStarted
  <2>5. CASE TransStep \/ Poll
    BY <2>5
    DEF TransStep, LockTrans, SetReady, Broadcast, Send, TransDies, Poll, roundVars,
        ReadSoFar, WasRead, NotStarted
  <2>6. CASE MonitorStep \/ GpsEnds \/ Alarm \/ UNCHANGED vars
    BY <2>6
    DEF MonitorStep, JoinShip, JoinGps, JoinTrans, GpsEnds, Alarm, vars, roundVars,
        ReadSoFar, WasRead, NotStarted
  <2>7. QED
    BY <2>1, <2>2, <2>3, <2>4, <2>5, <2>6 DEF Next, ShipStep
<1>3. I => ValuesOfThisRound
  BY DEF ReadSoFar, WasRead, ValuesOfThisRound
<1>4. QED
  BY <1>1, <1>2, <1>3, TypeCorrect, PTL DEF Spec

-----------------------------------------------------------------------------
(* When the main thread handles SIGUSR1 every thread that pushes or pops has *)
(* ended: the joins come in a row, and a dead thread stays dead.           *)
THEOREM ExitIsQuiet == Spec => []QuietAtExit
<1>1. Init => Joined
  BY DEF Init, Joined
<1>2. Joined /\ [Next]_vars => Joined'
  <2> SUFFICES ASSUME Joined, [Next]_vars PROVE Joined'
    OBVIOUS
  <2>1. CASE ShipStep \/ SpuriousWakeup
    BY <2>1
    DEF ShipStep, OpenModbus, ReadSensor, LockShip, TakeReady, CondWait, Reacquire,
        ShipDies, SpuriousWakeup, Joined
  <2>2. CASE TransStep \/ Poll
    BY <2>2
    DEF TransStep, LockTrans, SetReady, Broadcast, Send, TransDies, Poll, Joined
  <2>3. CASE MonitorStep \/ GpsEnds \/ Alarm
    BY <2>3 DEF MonitorStep, JoinShip, JoinGps, JoinTrans, GpsEnds, Alarm, Joined
  <2>4. CASE UNCHANGED vars
    BY <2>4 DEF vars, Joined
  <2>5. QED
    BY <2>1, <2>2, <2>3, <2>4 DEF Next
<1>3. Joined => QuietAtExit
  BY DEF Joined, QuietAtExit
<1>4. QED
  BY <1>1, <1>2, <1>3, PTL DEF Spec
=============================================================================
