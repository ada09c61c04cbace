------------------------------- MODULE LinkLoss -------------------------------
(***************************************************************************)
(* The clockwork of a running gateway: the loop of trans_message           *)
(* (app/message_transmitter.cpp) with its 30 s select, its heartbeat and   *)
(* its backoff, beside the scans of the software watchdog                  *)
(* (infra/software_wdt.cpp).  A packet of the gateway ends a select early; *)
(* a poll or a time packet for this device feeds the watchdog, any other   *)
(* packet does not.  A poll replays the offline cache, two seconds and one *)
(* feeding a packet.  Nothing else in the process feeds the slot of        *)
(* trans_message, so this module says how long a lost link lasts unless a  *)
(* lower slot that timed out ends the scans before trans_message's slot.   *)
(*                                                                         *)
(* Time waits for whatever is due, and the code between two waits takes    *)
(* none; its unit is that of the constants.  The list of devices is        *)
(* reduced to whether a device is enabled, which CommManager shows to be   *)
(* lost by a successful reinitialisation, and the process ends with the    *)
(* alarm, which SensorSync models.                                         *)
(***************************************************************************)
EXTENDS Integers, FiniteSetsExt

CONSTANTS
  SelectTime,    \* timeout of the select
  HeartbeatTime, \* HEARTBEAT_INTERVAL_SEC
  BackoffBase,   \* first delay of fd_backoff
  BackoffMax,    \* longest delay of fd_backoff
  FailTime,      \* pause after a reinitialisation that failed or was refused
  PauseTime,     \* pause after any reinitialisation
  ReplayTime,    \* pause after a packet replayed from the offline cache
  ReinitTime,    \* durations of the reinitialisation callback
  TickTime,      \* sleep between two scans of the watchdog
  Timeout,       \* scans trans_message may stay unfed
  ClockSteps,    \* by how much a time packet may set the clock
  MaxOther,      \* bound: packets in a row that do not feed the watchdog
  MinAge         \* bound: how far in the future last_heartbeat may lie

ASSUME LinkLossAssumption ==
  /\ {SelectTime, HeartbeatTime, BackoffBase, BackoffMax, TickTime, Timeout}
       \subseteq Nat \ {0}
  /\ {FailTime, PauseTime, ReplayTime, MaxOther} \cup ReinitTime \subseteq Nat
  /\ ReinitTime # {} /\ 0 \in ClockSteps /\ ClockSteps \subseteq Int
  /\ MinAge \in Int /\ MinAge <= 0

VARIABLES
  pc,        \* of trans_message: at the top of the loop, in select, asleep,
             \* about to "resend" a packet or to go on, one "replayed"
  wake,      \* time until the select or the sleep of trans_message ends
  link,      \* "up", at end of file "eof", or no enabled device "none"
  retries,   \* retry_count_ of fd_backoff
  count,     \* m_wWdtCount of trans_message
  scan,      \* time until the next scan
  alarmed,   \* the monitor found trans_message silent
  age,       \* time(NULL) - last_heartbeat, counted up to HeartbeatTime
  sinceBeat, \* true time since the last heartbeat, while the link is up
  quiet,     \* time since the last packet of the gateway and its replays,
             \* while the link is up
  lost,      \* time since the link was lost and the replays on it ended
  masked,    \* a scan since then ended at a lower slot
  others     \* packets in a row that did not feed the watchdog

thread == <<pc, wake, retries>>
dog == <<count, scan, alarmed>>
beat == <<age, sinceBeat>>
loss == <<lost, masked>>
vars == <<thread, link, dog, beat, quiet, loss, others>>

(* Where the ghost counters stop. *)
Horizon == HeartbeatTime + SelectTime + 1
LongestLoss == (Timeout + 1) * TickTime
UpTo(bound, n) == Min({bound, n})

Init ==
  /\ pc = "top" /\ wake = 0 /\ retries = 0
  /\ link = "up"
  /\ count = 0 /\ scan \in 0..TickTime /\ alarmed = FALSE
  /\ age = 0 /\ sinceBeat = 0 /\ quiet = 0
  /\ lost = 0 /\ masked = FALSE /\ others = 0

(* 1LL << shift, for the shifts that nextDelay allows itself.              *)
PowerOfTwo[shift \in 0..20] ==
  IF shift = 0 THEN 1 ELSE 2 * PowerOfTwo[shift - 1]

(* ExponentialBackoff::nextDelay of the r-th retry. *)
NextDelay(r) == UpTo(BackoffMax, BackoffBase * PowerOfTwo[UpTo(20, r)])

(***************************************************************************)
(* The loop of send_mess.                                                  *)
(***************************************************************************)
Select ==
  /\ ~alarmed /\ pc = "top" /\ link # "none"
  /\ pc' = "select" /\ wake' = SelectTime /\ retries' = 0
  /\ UNCHANGED <<link, dog, beat, quiet, loss, others>>

(* getSuccessFd finds no enabled device. *)
BackOff ==
  /\ ~alarmed /\ pc = "top" /\ link = "none"
  /\ pc' = "asleep" /\ wake' = NextDelay(retries)
  /\ retries' = UpTo(20, retries + 1)
  /\ UNCHANGED <<link, dog, beat, quiet, loss, others>>

WakeUp ==
  /\ ~alarmed /\ pc = "asleep" /\ wake = 0
  /\ pc' = "top"
  /\ UNCHANGED <<wake, retries, link, dog, beat, quiet, loss, others>>

HeartbeatDueLate == sinceBeat > HeartbeatTime
HeartbeatDue == age >= HeartbeatTime

(* select returns 0: feed, and send a heartbeat when one is due. *)
SelectTimeoutUnfed ==
  /\ ~alarmed /\ pc = "select" /\ wake = 0 /\ link = "up"
  /\ pc' = "top" /\ others' = 0
  /\ IF HeartbeatDue THEN age' = 0 /\ sinceBeat' = 0 ELSE UNCHANGED beat
  /\ UNCHANGED <<wake, retries, link, dog, quiet, loss>>

SelectTimeout ==
  /\ ~alarmed /\ pc = "select" /\ wake = 0 /\ link = "up"
  /\ pc' = "top"
  /\ count' = 0 /\ others' = 0
  /\ IF HeartbeatDue THEN age' = 0 /\ sinceBeat' = 0 ELSE UNCHANGED beat
  /\ UNCHANGED <<wake, retries, link, scan, alarmed, quiet, loss>>

(* A poll for this device: feed the watchdog, wake the sensors, take what  *)
(* the offline cache holds.                                                *)
Poll ==
  /\ ~alarmed /\ pc = "select" /\ link = "up"
  /\ pc' = "resend" /\ wake' = 0
  /\ count' = 0 /\ quiet' = 0 /\ others' = 0
  /\ UNCHANGED <<retries, link, scan, alarmed, beat, loss>>

(* One more cached packet is written, and a pause follows; a write that    *)
(* fails takes no time.                                                    *)
Replay ==
  /\ ~alarmed /\ pc = "resend"
  /\ pc' = "replayed" /\ wake' = ReplayTime
  /\ UNCHANGED <<retries, link, dog, beat, quiet, loss, others>>

ReplayFeeds ==
  /\ ~alarmed /\ pc = "replayed" /\ wake = 0
  /\ pc' = "resend"
  /\ count' = 0
  /\ UNCHANGED <<wake, retries, link, scan, alarmed, beat, quiet, loss, others>>

(* The packets that failed go back, a live packet is sent or not: the loop *)
(* starts over.                                                            *)
ReplaysEnd ==
  /\ ~alarmed /\ pc = "resend"
  /\ pc' = "top"
  /\ UNCHANGED <<wake, retries, link, dog, beat, quiet, loss, others>>

(* A time packet: feed the watchdog; packet20 sets the clock, by nothing   *)
(* when the packet is short, for another device or no date.                *)
TimePacket(step) ==
  /\ ~alarmed /\ pc = "select" /\ link = "up"
  /\ age + step >= MinAge
  /\ pc' = "top" /\ wake' = 0
  /\ count' = 0 /\ quiet' = 0 /\ others' = 0
  /\ age' = UpTo(HeartbeatTime, age + step)
  /\ UNCHANGED <<retries, link, scan, alarmed, sinceBeat, loss>>

(* A packet that is short, of another protocol, or a poll of another       *)
(* device: the loop starts over.                                           *)
OtherPacket ==
  /\ ~alarmed /\ pc = "select" /\ link = "up"
  /\ others < MaxOther
  /\ pc' = "top" /\ wake' = 0
  /\ quiet' = 0 /\ others' = others + 1
  /\ UNCHANGED <<retries, link, dog, beat, loss>>

(* The gateway closes the connection. *)
LinkEnds ==
  /\ ~alarmed /\ link = "up"
  /\ link' = "eof"
  /\ sinceBeat' = 0 /\ quiet' = 0
  /\ UNCHANGED <<thread, dog, age, loss, others>>

(* read returns 0: reinit, which leaves a reopened device disabled and a   *)
(* device it could not reopen enabled, at end of file still.               *)
ReconnectFeeding(ok, spent) ==
  /\ ~alarmed /\ pc = "select" /\ link = "eof"
  /\ pc' = "asleep"
  /\ link' = IF ok THEN "none" ELSE "eof"
  /\ wake' = spent + PauseTime + (IF ok THEN 0 ELSE FailTime)
  /\ count' = 0
  /\ UNCHANGED <<retries, scan, alarmed, beat, quiet, loss, others>>

Reconnect(ok, spent) ==
  /\ ~alarmed /\ pc = "select" /\ link = "eof"
  /\ pc' = "asleep"
  /\ link' = IF ok THEN "none" ELSE "eof"
  /\ wake' = spent + PauseTime + (IF ok THEN 0 ELSE FailTime)
  /\ UNCHANGED <<retries, dog, beat, quiet, loss, others>>

(***************************************************************************)
(* The watchdog, and time.                                                 *)
(***************************************************************************)
(* The scan stops before the slot of trans_message when a lower slot has   *)
(* timed out, be it for the first time or still.                           *)
Scan(stops) ==
  /\ ~alarmed /\ scan = 0
  /\ scan' = TickTime
  /\ count' = IF stops THEN count ELSE count + 1
  /\ alarmed' = (count' > Timeout)
  /\ masked' = (link # "up" /\ (masked \/ stops))
  /\ UNCHANGED <<thread, link, beat, quiet, lost, others>>

Replaying == pc \in {"resend", "replayed"}

(* Nothing is due. *)
Idle ==
  /\ scan > 0 /\ wake > 0
  /\ pc \in {"asleep", "replayed"} \/ (pc = "select" /\ link = "up")

Tick ==
  /\ ~alarmed /\ Idle
  /\ wake' = wake - 1 /\ scan' = scan - 1
  /\ age' = UpTo(HeartbeatTime, age + 1)
  /\ sinceBeat' = IF link = "up" THEN UpTo(Horizon, sinceBeat + 1) ELSE 0
  /\ quiet' = IF link = "up" /\ ~Replaying THEN UpTo(SelectTime + 1, quiet + 1) ELSE 0
  /\ lost' = IF link = "up" \/ Replaying THEN 0 ELSE UpTo(LongestLoss + 1, lost + 1)
  /\ UNCHANGED <<pc, retries, link, count, alarmed, masked, others>>

Packet ==
  \/ Poll
  \/ \E step \in ClockSteps : TimePacket(step)
  \/ OtherPacket

Loop ==
  \/ Select
  \/ BackOff
  \/ WakeUp
  \/ SelectTimeout
  \/ Replay
  \/ ReplayFeeds
  \/ ReplaysEnd
  \/ \E ok \in BOOLEAN, spent \in ReinitTime : Reconnect(ok, spent)

Next ==
  \/ Loop
  \/ Packet
  \/ LinkEnds
  \/ \E stops \in BOOLEAN : Scan(stops)
  \/ Tick

Spec == Init /\ [][Next]_vars

-----------------------------------------------------------------------------
(* What two of the promises below need of the timeouts.                    *)

(* MaxOther packets in a row that do not feed, each at the end of its      *)
(* select, and one select more, stay below Timeout scans, as the pause of  *)
(* a replay does.                                                          *)
Patient ==
  /\ (MaxOther + 1) * SelectTime < Timeout * TickTime
  /\ ReplayTime < Timeout * TickTime

(* A time packet never sets the clock back. *)
Forward == ClockSteps \subseteq Nat

(* The reinitialisation callback comes back within some time: connects     *)
(* have a timeout.                                                         *)
LongestReinit ==
  \E longest \in ReinitTime : \A spent \in ReinitTime : spent <= longest

LongestWait ==
  Max({SelectTime, ReplayTime, BackoffMax, FailTime + PauseTime + Max(ReinitTime)})

(* Every variable has its type; the waits stay within their longest value  *)
(* and the counter of the watchdog stops one above its timeout.            *)
TypeOK ==
  /\ pc \in {"top", "select", "asleep", "resend", "replayed"}
  /\ wake \in 0..LongestWait
  /\ link \in {"up", "eof", "none"}
  /\ retries \in 0..20
  /\ count \in 0..(Timeout + 1) /\ scan \in 0..TickTime
  /\ alarmed \in BOOLEAN
  /\ age \in MinAge..HeartbeatTime /\ sinceBeat \in 0..Horizon
  /\ quiet \in 0..(SelectTime + 1)
  /\ lost \in 0..(LongestLoss + 1) /\ masked \in BOOLEAN
  /\ others \in 0..MaxOther

(* The watchdog ends the process only after the link was lost, whatever    *)
(* the gateway sends and however much is replayed to it, as long as no     *)
(* more than MaxOther packets in a row are not for this device: selects    *)
(* that time out, packets that feed and replays leave no gap of Timeout    *)
(* scans (message_transmitter.cpp:89, :146, :175, :224).                   *)
NoAlarmWhileUp == alarmed => link # "up"

(* A lost link ends the process within Timeout + 1 scans, however often    *)
(* the device is reinitialised, with success or not: nothing on the        *)
(* reconnect and backoff paths feeds the watchdog                          *)
(* (message_transmitter.cpp:67-71, :119-133).  This takes scans that reach *)
(* the slot of trans_message: with a silent thread in a lower slot they    *)
(* end there (software_wdt.cpp:133) and the loss can last for ever.        *)
LossIsBounded == ~alarmed /\ ~masked => lost <= LongestLoss

(* In a link that was quiet for a whole select the last heartbeat is less  *)
(* than HeartbeatTime and one select old.  It may well be older than       *)
(* HeartbeatTime: packets and replays shift the selects against the        *)
(* heartbeats (message_transmitter.cpp:76, :87-103, :155-186).             *)
HeartbeatWhenQuiet ==
  (link = "up" /\ quiet > SelectTime) => sinceBeat < HeartbeatTime + SelectTime
=============================================================================
