------------------------------ MODULE SensorSync ------------------------------
(***************************************************************************)
(* The hand-over between trans_message and the thread ship_data, and the   *)
(* way the watchdog stops both.  A poll sets ship_data_ready under a mutex *)
(* and broadcasts a condition variable (device_context.h); the sensor      *)
(* thread waits for the flag between two rounds, in each of which it reads *)
(* one sensor after the other (sensor_driver.cpp).  After an alarm the     *)
(* watchdog thread cancels and joins ship_data, gps and trans_message in   *)
(* this order and then signals the main thread (software_wdt.cpp).         *)
(* Cancellation is deferred: a cancelled thread ends only inside a call    *)
(* that is a cancellation point, which pthread_mutex_lock is not.          *)
(*                                                                         *)
(* A value is abstracted to the round in which it was read.  The mutex is  *)
(* of the default type, whose lock does not fail.                          *)
(***************************************************************************)
EXTENDS Integers

CONSTANTS
  MaxPolls,   \* bound: polls the gateway sends
  Alarms,     \* whether the watchdog may find trans_message silent
  LateAnswers, \* whether trans_message may come back after the alarm
  sensor_count \* sensors of a round (23)

ASSUME SensorSyncAssumption ==
  MaxPolls \in Nat /\ sensor_count \in Nat \ {0} /\ Alarms \in BOOLEAN /\ LateAnswers \in BOOLEAN

VARIABLES
  mtx,       \* owner of sensorSync().mtx
  ready,     \* ship_data_ready
  ship,      \* program counter of ship_data
  trans,     \* program counter of trans_message
  gps,       \* whether the GPS thread lives
  monitor,   \* program counter of the watchdog thread
  cancelled, \* threads with a cancellation request
  main,      \* the main thread waits in pause(), or its handler exits
  index_flag,    \* the sensor to be read next, or the last one read
  sensor_values, \* what the next packet will say of each sensor
  unread,    \* history: sensors whose read failed in this round
  polls,     \* history: polls answered by trans_message
  rounds     \* history: rounds begun because of a poll

roundVars == <<index_flag, sensor_values, unread>>
vars == <<mtx, ready, ship, trans, gps, monitor, cancelled, main, roundVars,
          polls, rounds>>

Missing == -999
Nothing == [i \in 0..sensor_count - 1 |-> Missing]

Init ==
  /\ mtx = "free" /\ ready = FALSE
  /\ ship = "start" /\ trans = "poll" /\ gps = "run"
  /\ monitor = "watch" /\ cancelled = {} /\ main = "pause"
  /\ index_flag = 0 /\ sensor_values = Nothing /\ unread = {}
  /\ polls = 0 /\ rounds = 0

Up == main = "pause"

-----------------------------------------------------------------------------
(* The sensor thread. *)

(* The Modbus port is opened; when it cannot be, run returns at once.       *)
OpenModbus ==
  /\ Up /\ ship = "start"
  /\ ship' \in {"collect", "dead"}
  /\ UNCHANGED <<mtx, ready, trans, gps, monitor, cancelled, main, roundVars, polls, rounds>>

(* The registers of the sensor as they are in this round, or an error.      *)
readSensorValue == {rounds, Missing}

(* One sensor is read; an error leaves its value alone.  After the last one  *)
(* the packet is pushed; no lock is held yet.                              *)
ReadSensor ==
  /\ Up /\ ship = "collect" /\ "ship" \notin cancelled
  /\ \E value \in readSensorValue :
       IF value = Missing
       THEN unread' = unread \union {index_flag} /\ UNCHANGED sensor_values
       ELSE /\ sensor_values' = [sensor_values EXCEPT ![index_flag] = value]
            /\ UNCHANGED unread
  /\ IF index_flag = sensor_count - 1
     THEN ship' = "lock" /\ UNCHANGED index_flag
     ELSE index_flag' = index_flag + 1 /\ UNCHANGED ship
  /\ UNCHANGED <<mtx, ready, trans, gps, monitor, cancelled, main, polls, rounds>>

LockShip ==
  /\ Up /\ ship = "lock" /\ mtx = "free"
  /\ mtx' = "ship" /\ ship' = "test"
  /\ UNCHANGED <<ready, trans, gps, monitor, cancelled, main, roundVars, polls, rounds>>

NewRoundKeepsValues ==
  index_flag' = 0 /\ unread' = {} /\ UNCHANGED sensor_values

(* All values are reset before the next round.                              *)
NewRound == index_flag' = 0 /\ unread' = {} /\ sensor_values' = Nothing

(* The flag is set: take it, unlock, begin a round.                        *)
TakeReady ==
  /\ Up /\ ship = "test" /\ ready
  /\ ready' = FALSE /\ mtx' = "free" /\ ship' = "collect"
  /\ rounds' = rounds + 1 /\ NewRound
  /\ UNCHANGED <<trans, gps, monitor, cancelled, main, polls>>

(* The flag is not set: pthread_cond_wait unlocks and sleeps in one step.  *)
CondWait ==
  /\ Up /\ ship = "test" /\ ~ready
  /\ mtx' = "free" /\ ship' = "waiting"
  /\ UNCHANGED <<ready, trans, gps, monitor, cancelled, main, roundVars, polls, rounds>>

SpuriousWakeup ==
  /\ Up /\ ship = "waiting"
  /\ ship' = "woken"
  /\ UNCHANGED <<mtx, ready, trans, gps, monitor, cancelled, main, roundVars, polls, rounds>>

ReacquireUntested ==
  /\ Up /\ ship = "woken" /\ mtx = "free"
  /\ ready' = FALSE /\ ship' = "collect" /\ rounds' = rounds + 1 /\ NewRound
  /\ UNCHANGED <<mtx, trans, gps, monitor, cancelled, main, polls>>

(* pthread_cond_wait returns with the mutex, and the flag is tested again. *)
Reacquire ==
  /\ Up /\ ship = "woken" /\ mtx = "free"
  /\ mtx' = "ship" /\ ship' = "test"
  /\ UNCHANGED <<ready, trans, gps, monitor, cancelled, main, roundVars, polls, rounds>>

ShipDiesCollecting ==
  /\ Up /\ "ship" \in cancelled /\ ship = "collect"
  /\ ship' = "dead"
  /\ UNCHANGED <<mtx, ready, trans, gps, monitor, cancelled, main, roundVars, polls, rounds>>

(* A cancelled thread ends in a sleep or a Modbus read; or in              *)
(* pthread_cond_wait, which takes the mutex back first: the only cleanup   *)
(* handler pushed is the one that closes the Modbus connection.            *)
ShipDies ==
  /\ Up /\ "ship" \in cancelled
  /\ \/ ship = "collect" /\ UNCHANGED mtx
     \/ ship = "waiting" /\ mtx = "free" /\ mtx' = "ship"
  /\ ship' = "dead"
  /\ UNCHANGED <<ready, trans, gps, monitor, cancelled, main, roundVars, polls, rounds>>

-----------------------------------------------------------------------------
(* The transmitter. *)

MayMove == Up /\ (monitor = "watch" \/ LateAnswers)

(* A poll arrives while no cancellation request is pending.                *)
Poll ==
  /\ MayMove /\ trans = "poll" /\ "trans" \notin cancelled
  /\ polls < MaxPolls
  /\ polls' = polls + 1
  /\ trans' = "lock"
  /\ UNCHANGED <<mtx, ready, ship, gps, monitor, cancelled, main, roundVars, rounds>>

LockTrans ==
  /\ MayMove /\ trans = "lock" /\ mtx = "free"
  /\ mtx' = "trans" /\ trans' = "set"
  /\ UNCHANGED <<ready, ship, gps, monitor, cancelled, main, roundVars, polls, rounds>>

SetReady ==
  /\ MayMove /\ trans = "set"
  /\ ready' = TRUE /\ mtx' = "free" /\ trans' = "broadcast"
  /\ UNCHANGED <<ship, gps, monitor, cancelled, main, roundVars, polls, rounds>>

BroadcastNobody ==
  /\ MayMove /\ trans = "broadcast"
  /\ trans' = "send"
  /\ UNCHANGED <<mtx, ready, ship, gps, monitor, cancelled, main, roundVars, polls, rounds>>

Broadcast ==
  /\ MayMove /\ trans = "broadcast"
  /\ ship' = IF ship = "waiting" THEN "woken" ELSE ship
  /\ trans' = "send"
  /\ UNCHANGED <<mtx, ready, gps, monitor, cancelled, main, roundVars, polls, rounds>>

(* The packets are written; a write that blocks leaves the thread here.    *)
Send ==
  /\ MayMove /\ trans = "send" /\ "trans" \notin cancelled
  /\ trans' = "poll"
  /\ UNCHANGED <<mtx, ready, ship, gps, monitor, cancelled, main, roundVars, polls, rounds>>

TransDies ==
  /\ Up /\ "trans" \in cancelled /\ trans \in {"poll", "send"}
  /\ trans' = "dead"
  /\ UNCHANGED <<mtx, ready, ship, gps, monitor, cancelled, main, roundVars, polls, rounds>>

(* The GPS thread ends by itself when its device fails, or is cancelled.   *)
GpsEnds ==
  /\ Up /\ gps = "run"
  /\ gps' = "dead"
  /\ UNCHANGED <<mtx, ready, ship, trans, monitor, cancelled, main, roundVars, polls, rounds>>

-----------------------------------------------------------------------------
(* The watchdog thread. *)

(* trans_message let its scans pass: it sat in a select, a sleep or a write. *)
Alarm ==
  /\ Up /\ Alarms /\ monitor = "watch" /\ trans \in {"poll", "send"}
  /\ monitor' = "ship"
  /\ cancelled' = cancelled \union {"ship"}
  /\ UNCHANGED <<mtx, ready, ship, trans, gps, main, roundVars, polls, rounds>>

JoinShip ==
  /\ Up /\ monitor = "ship" /\ ship = "dead"
  /\ monitor' = "gps"
  /\ cancelled' = cancelled \union {"gps"}
  /\ UNCHANGED <<mtx, ready, ship, trans, gps, main, roundVars, polls, rounds>>

JoinGps ==
  /\ Up /\ monitor = "gps" /\ gps = "dead"
  /\ monitor' = "trans"
  /\ cancelled' = cancelled \union {"trans"}
  /\ UNCHANGED <<mtx, ready, ship, trans, gps, main, roundVars, polls, rounds>>

JoinTransAtOnce ==
  /\ Up /\ monitor = "trans"
  /\ monitor' = "done" /\ main' = "exit"
  /\ UNCHANGED <<mtx, ready, ship, trans, gps, cancelled, roundVars, polls, rounds>>

(* The last join returns and SIGUSR1 makes the main thread persist and exit. *)
JoinTrans ==
  /\ Up /\ monitor = "trans" /\ trans = "dead"
  /\ monitor' = "done" /\ main' = "exit"
  /\ UNCHANGED <<mtx, ready, ship, trans, gps, cancelled, roundVars, polls, rounds>>

-----------------------------------------------------------------------------
ShipStep ==
  \/ OpenModbus \/ ReadSensor \/ LockShip \/ TakeReady \/ CondWait
  \/ Reacquire \/ ShipDies

TransStep ==
  LockTrans \/ SetReady \/ Broadcast \/ Send \/ TransDies

MonitorStep == JoinShip \/ JoinGps \/ JoinTrans

Next ==
  \/ ShipStep \/ TransStep \/ MonitorStep
  \/ Poll \/ SpuriousWakeup \/ GpsEnds \/ Alarm

Spec == Init /\ [][Next]_vars

(***************************************************************************)
(* Every thread that can run is scheduled; a thread that waits for the     *)
(* mutex gets it when it is free again and again; a cancelled thread that  *)
(* enters a cancellation point again and again ends in one.  Neither a poll *)
(* nor an alarm has to come.                                               *)
(***************************************************************************)
Fairness ==
  /\ WF_vars(OpenModbus \/ ReadSensor \/ TakeReady \/ CondWait)
  /\ SF_vars(ShipDies)
  /\ SF_vars(LockShip) /\ SF_vars(Reacquire)
  /\ SF_vars(LockTrans)
  /\ WF_vars(SetReady \/ Broadcast \/ Send \/ TransDies)
  /\ WF_vars(MonitorStep)
  /\ WF_vars(GpsEnds /\ "gps" \in cancelled)

FairSpec == Spec /\ Fairness

-----------------------------------------------------------------------------
(* The mutex is held where the code between lock and unlock says, and by a *)
(* sensor thread that died in pthread_cond_wait.                           *)
TypeOK ==
  /\ mtx \in {"free", "ship", "trans"}
  /\ ready \in BOOLEAN
  /\ ship \in {"start", "collect", "lock", "test", "waiting", "woken", "dead"}
  /\ trans \in {"poll", "lock", "set", "broadcast", "send", "dead"}
  /\ gps \in {"run", "dead"}
  /\ monitor \in {"watch", "ship", "gps", "trans", "done"}
  /\ cancelled \subseteq {"ship", "gps", "trans"}
  /\ main \in {"pause", "exit"}
  /\ index_flag \in 0..sensor_count - 1 /\ unread \subseteq 0..sensor_count - 1
  /\ sensor_values \in [0..sensor_count - 1 -> Nat \union {Missing}]
  /\ polls \in 0..MaxPolls /\ rounds \in Nat
  /\ (mtx = "trans") <=> (trans = "set")
  /\ ship = "test" => mtx = "ship"
  /\ mtx = "ship" => ship \in {"test", "dead"}

(* No lost wake-up: the sensor thread never sleeps on a flag that is set    *)
(* unless a broadcast is about to come, although notifySensorDataReady     *)
(* broadcasts after it unlocked.                                           *)
NoLostWakeup == ship = "waiting" /\ ready => trans = "broadcast"

(* A round begins for a poll, never for a spurious or a second wake-up.    *)
RoundsArePolled == rounds <= polls

(* Every packet holds, for every sensor, what was read in the round it ends, *)
(* or the mark of a missing value exactly if that read failed: nothing of    *)
(* an earlier round is repeated, although failed reads write no value        *)
(* (sensor_driver.cpp:189-196, :269-272).                                  *)
ValuesOfThisRound ==
  ship = "lock" =>
    sensor_values = [i \in 0..sensor_count - 1 |->
                       IF i \in unread THEN Missing ELSE rounds]

(* When the main thread handles SIGUSR1 every thread that pushes or pops   *)
(* has ended: on this path the unlocked drain of transmit meets nobody.     *)
QuietAtExit ==
  main = "exit" => ship = "dead" /\ gps = "dead" /\ trans = "dead"

(* A poll is answered by a new round, once the Modbus port is open and as   *)
(* long as the watchdog does not cancel the sensor thread.                 *)
PollStartsRound ==
  (ready /\ ship \notin {"start", "dead"}) ~> (~ready \/ "ship" \in cancelled)

(* After an alarm the process exits and is restarted (software_wdt.cpp:87   *)
(* and :138: cancel and join run outside the lock, to avoid a deadlock).    *)
AlarmExits == (monitor = "ship") ~> (main = "exit")
=============================================================================
