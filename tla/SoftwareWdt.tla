----------------------------- MODULE SoftwareWdt -----------------------------
(***************************************************************************)
(* The software watchdog (infra/software_wdt.cpp): a table of slots with a *)
(* counter each, the threads that register and feed a slot, and the        *)
(* monitor that scans the table every four seconds.  Every method holds    *)
(* the mutex of the table, so each is one step.  Cancelling the threads    *)
(* and signalling the main thread after an alarm is module SensorSync.     *)
(***************************************************************************)
EXTENDS Integers, FiniteSets

CONSTANTS
  SlotCount,   \* REQUEST_WDT_MAX_NUM
  Timeout,     \* thread name -> the threshold it registers with
  Gap,         \* thread name -> scans a live thread may need between two feeds
  Silent,      \* threads that may stop feeding
  MaxStarve    \* bound: the history starve saturates here

Regist == "device_regist"
Ship == "get_ship_data"
Trans == "trans_message"
Thread == {Regist, Ship, Trans}

ASSUME WdtAssumption ==
  /\ SlotCount \in Nat \ {0}
  /\ Timeout \in [Thread -> Nat]
  /\ Gap \in [Thread -> Nat \ {0}]
  /\ Silent \subseteq Thread
  /\ MaxStarve \in Nat
  /\ \A t \in Thread : Timeout[t] + 1 < MaxStarve

Slot == 0..(SlotCount - 1)
NoName == ""

VARIABLES
  reqFlg,     \* m_fReqWdtFlg
  wdtCount,   \* m_wWdtCount
  wdtTimeout, \* m_wWdtTimeout
  wdtName,    \* m_wwdtName
  wdtId,      \* the slot number each thread holds, -1 for none
  mode,       \* what each thread is doing
  monitor,    \* "scan", or "alarm" once MontiorWdtRunState returned -1
  starve      \* history: scans since the thread last fed or registered

table == <<reqFlg, wdtCount, wdtTimeout, wdtName>>
vars == <<table, wdtId, mode, monitor, starve>>

Init ==
  /\ reqFlg = [b \in Slot |-> FALSE]
  /\ wdtCount = [b \in Slot |-> 0]
  /\ wdtTimeout = [b \in Slot |-> 0]
  /\ wdtName = [b \in Slot |-> NoName]
  /\ wdtId = [t \in Thread |-> -1]
  /\ mode = [t \in Thread |-> "new"]
  /\ monitor = "scan"
  /\ starve = [t \in Thread |-> 0]

-----------------------------------------------------------------------------
(* The threads. *)

LowestFree(b) == ~reqFlg[b] /\ \A c \in Slot : c < b => reqFlg[c]

(* main joins the registration thread before it creates the other two.     *)
MayStart(t) == mode[t] = "new" /\ (t # Regist => mode[Regist] = "gone")

TakeSlotNameless(t) ==
  /\ MayStart(t)
  /\ \E b \in Slot :
       /\ LowestFree(b)
       /\ reqFlg' = [reqFlg EXCEPT ![b] = TRUE]
       /\ wdtCount' = [wdtCount EXCEPT ![b] = 0]
       /\ wdtTimeout' = [wdtTimeout EXCEPT ![b] = Timeout[t]]
       /\ wdtId' = [wdtId EXCEPT ![t] = b]
  /\ mode' = [mode EXCEPT ![t] = "live"]
  /\ starve' = [starve EXCEPT ![t] = 0]
  /\ UNCHANGED <<wdtName, monitor>>

(* RequestSoftwareWdtID takes the lowest free slot. *)
TakeSlot(t) ==
  /\ MayStart(t)
  /\ \E b \in Slot :
       /\ LowestFree(b)
       /\ reqFlg' = [reqFlg EXCEPT ![b] = TRUE]
       /\ wdtCount' = [wdtCount EXCEPT ![b] = 0]
       /\ wdtTimeout' = [wdtTimeout EXCEPT ![b] = Timeout[t]]
       /\ wdtName' = [wdtName EXCEPT ![b] = t]
       /\ wdtId' = [wdtId EXCEPT ![t] = b]
  /\ mode' = [mode EXCEPT ![t] = "live"]
  /\ starve' = [starve EXCEPT ![t] = 0]
  /\ UNCHANGED monitor

(* No slot is free: the thread goes on with the number -1, unwatched.      *)
RequestFull(t) ==
  /\ MayStart(t)
  /\ mode' = [mode EXCEPT ![t] = "live"]
  /\ UNCHANGED <<table, wdtId, monitor, starve>>

Request(t) ==
  IF \A b \in Slot : reqFlg[b] THEN RequestFull(t) ELSE TakeSlot(t)

FeedNextSlot(t) ==
  /\ mode[t] = "live"
  /\ wdtCount' = [b \in Slot |-> IF b = wdtId[t] + 1 THEN 0 ELSE wdtCount[b]]
  /\ starve' = [starve EXCEPT ![t] = 0]
  /\ UNCHANGED <<reqFlg, wdtTimeout, wdtName, wdtId, mode, monitor>>

(* KeepSoftwareWdtAlive clears the counter of the slot named by the number, *)
(* registered or not; -1 is refused.                                       *)
Feed(t) ==
  /\ mode[t] = "live"
  /\ wdtCount' = IF wdtId[t] \in Slot
                 THEN [wdtCount EXCEPT ![wdtId[t]] = 0] ELSE wdtCount
  /\ starve' = [starve EXCEPT ![t] = 0]
  /\ UNCHANGED <<reqFlg, wdtTimeout, wdtName, wdtId, mode, monitor>>

(* While it resends the offline cache trans_message also feeds ship_wdt_id. *)
FeedShip ==
  /\ mode[Trans] = "live"
  /\ wdtId[Ship] \in Slot
  /\ wdtCount' = [wdtCount EXCEPT ![wdtId[Ship]] = 0]
  /\ UNCHANGED <<reqFlg, wdtTimeout, wdtName, wdtId, mode, monitor, starve>>

(* A thread stays in a call that feeds nothing: pthread_cond_wait without a *)
(* poll, the back-off without a device, a blocked write; it may come back. *)
FallSilent(t) ==
  /\ t \in Silent /\ mode[t] = "live"
  /\ mode' = [mode EXCEPT ![t] = "silent"]
  /\ UNCHANGED <<table, wdtId, monitor, starve>>

Recover(t) ==
  /\ mode[t] = "silent"
  /\ mode' = [mode EXCEPT ![t] = "live"]
  /\ UNCHANGED <<table, wdtId, monitor, starve>>

(* ReleaseSoftwareWdtID: the registration thread gives its slot back; the   *)
(* slot keeps its name.                                                    *)
Release ==
  /\ mode[Regist] = "live"
  /\ wdtId[Regist] \in Slot
  /\ reqFlg' = [reqFlg EXCEPT ![wdtId[Regist]] = FALSE]
  /\ wdtTimeout' = [wdtTimeout EXCEPT ![wdtId[Regist]] = 0]
  /\ wdtCount' = [wdtCount EXCEPT ![wdtId[Regist]] = 0]
  /\ mode' = [mode EXCEPT ![Regist] = "gone"]
  /\ UNCHANGED <<wdtName, wdtId, monitor, starve>>

(* SensorDriver::run returns early (no Modbus): the slot stays registered. *)
QuitShip ==
  /\ Ship \in Silent /\ mode[Ship] = "live"
  /\ mode' = [mode EXCEPT ![Ship] = "gone"]
  /\ UNCHANGED <<table, wdtId, monitor, starve>>

-----------------------------------------------------------------------------
(* The monitor. *)

(* The scan stops at the first slot whose counter passes its threshold.    *)
TimesOut(b) == reqFlg[b] /\ wdtCount[b] + 1 > wdtTimeout[b]
ReachedFromEnd(b) == \A c \in Slot : c > b => ~TimesOut(c)
Reached(b) == \A c \in Slot : c < b => ~TimesOut(c)

(* Only a slot named trans_message makes the scan return -1.               *)
Detects == \E b \in Slot : Reached(b) /\ TimesOut(b) /\ wdtName[b] = Trans

(* A counter is compared with its threshold only: it saturates above it.   *)
Bump(b) ==
  IF wdtCount[b] > wdtTimeout[b] THEN wdtCount[b] ELSE wdtCount[b] + 1

(* A live thread gets the processor: it feeds within Gap scans.            *)
Punctual == \A t \in Thread : mode[t] = "live" => starve[t] < Gap[t]

Age == [t \in Thread |-> IF starve[t] < MaxStarve THEN starve[t] + 1
                                                  ELSE starve[t]]

Scan ==
  /\ monitor = "scan" /\ Punctual
  /\ ~Detects
  /\ wdtCount' = [b \in Slot |->
                    IF reqFlg[b] /\ Reached(b) THEN Bump(b) ELSE wdtCount[b]]
  /\ starve' = Age
  /\ UNCHANGED <<reqFlg, wdtTimeout, wdtName, wdtId, mode, monitor>>

(* Every slot is released and the thread functions are told to stop.       *)
Alarm ==
  /\ monitor = "scan" /\ Punctual
  /\ Detects
  /\ reqFlg' = [b \in Slot |-> FALSE]
  /\ wdtTimeout' = [b \in Slot |-> IF reqFlg[b] THEN 0 ELSE wdtTimeout[b]]
  /\ wdtCount' = [b \in Slot |-> IF reqFlg[b] THEN 0 ELSE wdtCount[b]]
  /\ monitor' = "alarm"
  /\ starve' = Age
  /\ UNCHANGED <<wdtName, wdtId, mode>>

-----------------------------------------------------------------------------
Next ==
  \/ \E t \in Thread :
       Request(t) \/ Feed(t) \/ FallSilent(t) \/ Recover(t)
  \/ FeedShip \/ Release \/ QuitShip
  \/ Scan \/ Alarm

Spec == Init /\ [][Next]_vars

(* Threads that can feed are scheduled.  The monitor sleeps on a timer that *)
(* nobody can stop; its fairness is strong because Punctual, which only    *)
(* says that live threads get the processor in between, disables it often. *)
Fairness ==
  /\ SF_vars(Scan \/ Alarm)
  /\ \A t \in Thread : WF_vars(Feed(t))
  /\ \A t \in Thread : WF_vars(Request(t))
  /\ WF_vars(Release)

FairSpec == Spec /\ Fairness

-----------------------------------------------------------------------------
TypeOK ==
  /\ reqFlg \in [Slot -> BOOLEAN]
  /\ wdtCount \in [Slot -> Nat]
  /\ wdtTimeout \in [Slot -> Nat]
  /\ wdtName \in [Slot -> Thread \union {NoName}]
  /\ wdtId \in [Thread -> Slot \union {-1}]
  /\ mode \in [Thread -> {"new", "live", "silent", "gone"}]
  /\ monitor \in {"scan", "alarm"}
  /\ starve \in [Thread -> 0..MaxStarve]

(* A registered slot belongs to one thread, the one it is named after, and  *)
(* that thread holds its number: no thread feeds a slot it does not own.    *)
SlotOwned ==
  \A b \in Slot : reqFlg[b] =>
    /\ wdtName[b] \in Thread
    /\ wdtId[wdtName[b]] = b
    /\ wdtTimeout[b] = Timeout[wdtName[b]]

(* A counter never runs ahead of the scans its owner really missed,         *)
(* although slots are handed on from thread to thread.                     *)
CountHonest == \A b \in Slot : reqFlg[b] => wdtCount[b] <= starve[wdtName[b]]

(* No false alarm: the process is restarted only when trans_message has     *)
(* let more scans pass than its threshold.                                 *)
NoFalseAlarm == [][monitor' = "alarm" /\ monitor = "scan"
                     => starve'[Trans] > Timeout[Trans]]_vars

(* A transmitter that stops for good is detected (software_wdt.h:67: every  *)
(* registered thread is monitored, a timeout triggers a restart).          *)
SilentTransDetected ==
  (<>[](mode[Trans] = "silent")) => <>(monitor = "alarm")

(* It is when it registered first, whatever the other threads do.          *)
FirstSlotDetected ==
  (<>[](mode[Trans] = "silent" /\ wdtId[Trans] = 0)) => <>(monitor = "alarm")
=============================================================================
