----------------------------- MODULE Transmitter -----------------------------
(***************************************************************************)
(* The life of a data packet in the gateway program: the sensor thread     *)
(* (sensor_driver.cpp) builds one packet per collection round and pushes   *)
(* it on the queue transmit, the thread trans_message                      *)
(* (message_transmitter.cpp) sends packets when the gateway polls it, the  *)
(* signal handler (modbus_9001.cpp) writes what is left of transmit to the *)
(* store file, and the next start of the program reads that file into      *)
(* offline_cache.  Threads interleave between the points where they lock,  *)
(* block or call the system.                                               *)
(***************************************************************************)
EXTENDS Naturals, SequencesExt

CONSTANTS
  MaxPackets, \* bound: packets produced over all lives of the process
  MaxStored,  \* bound: packets already in the store file at first start
  MaxLives,   \* bound: number of starts of the process
  Faults      \* which failures the environment may produce

FaultKinds ==
  {"write",     \* write_full returns a negative value
   "pipe",      \* the peer of a TCP link is gone: SIGPIPE ends the process
   "signal",    \* SIGTERM, SIGINT or SIGUSR1
   "power",     \* the process ends without running any handler
   "race",      \* the unlocked drain meets a push, a pop or itself
   "flash",     \* open or write of the store file fails in the handler
   "fopen",     \* the store file cannot be opened at the start
   "read",      \* reading it ends in an error before its end
   "truncate"}  \* the store file cannot be truncated after it was read

ASSUME TransmitterAssumption ==
  /\ MaxPackets \in Nat
  /\ MaxStored \in 0..MaxPackets
  /\ MaxLives \in Nat \ {0}
  /\ Faults \subseteq FaultKinds

(***************************************************************************)
(* A packet is the number of the collection round it reports, and the      *)
(* protocol number it carries: 06 live, 21 replayed from the store file.   *)
(* A line of the store file, and what is read back of it, is a sequence of *)
(* packets: of one, unless a line was begun behind one that was not ended. *)
(***************************************************************************)
Packet == [n : Nat, proto : {"06", "21"}]

VARIABLES
  main,          \* phase of the main thread, and of the process
  sensor,        \* program counter of the ship_data thread
  trans,         \* program counter of the trans_message thread
  transmit,      \* queues().transmit
  offline_cache, \* queues().offline_cache
  pending,       \* pending_packets, local to send_mess
  failed,        \* failed_packets, local to send_mess
  inflight,      \* the packet popped from transmit and not written yet
  items,         \* items, local to drainAndPersistUnsafe
  storefile,     \* the lines of the store file
  ended,         \* the last line of the store file ends in a newline
  ready,         \* sensorSync().ship_data_ready
  produced,      \* rounds reported so far, over all lives
  sent,          \* history: what the gateway received, in order
  lost,          \* history: rounds that died with a process or a line unread
  retried,       \* history: rounds whose live write failed
  disturbed,     \* history: this life saw a failed write or a replay
  base,          \* value of produced when this life began
  lives,         \* starts of the process so far
  handlers       \* signal handlers entered in this life and not returned from

queueVars == <<transmit, offline_cache, pending, failed, inflight>>
ghostVars == <<sent, lost, retried, disturbed, base>>
vars == <<main, sensor, trans, queueVars, items, storefile, ended, ready, produced,
          ghostVars, lives, handlers>>

Rounds(s) == {s[i].n : i \in DOMAIN s}
LineRounds(s) == UNION {Rounds(s[i]) : i \in DOMAIN s}

(* What only the memory of the process holds. *)
Volatile ==
  Rounds(transmit) \union LineRounds(offline_cache) \union LineRounds(pending)
    \union LineRounds(failed) \union Rounds(inflight) \union Rounds(items)

Stored == LineRounds(storefile)
Sent == Rounds(sent)

(* Worker threads exist, and go on running while the handler executes. *)
Running == main \in {"run", "drain", "persist", "newline", "hung"}

-----------------------------------------------------------------------------
Init ==
  /\ \E k \in 0..MaxStored :
       /\ storefile = [i \in 1..k |-> <<[n |-> i, proto |-> "06"]>>]
       /\ produced = k
       /\ base = k
  /\ ended = TRUE
  /\ main = "boot" /\ sensor = "off" /\ trans = "off"
  /\ transmit = <<>> /\ offline_cache = <<>> /\ pending = <<>>
  /\ failed = <<>> /\ inflight = <<>> /\ items = <<>>
  /\ ready = FALSE
  /\ sent = <<>> /\ lost = {} /\ retried = {} /\ disturbed = FALSE
  /\ lives = 1 /\ handlers = 0

-----------------------------------------------------------------------------
(* The main thread. *)

(* What getline returns: the whole file, or its lines up to an error.      *)
LinesRead ==
  {SubSeq(storefile, 1, k) : k \in {m \in 0..Len(storefile) :
                                      m = Len(storefile) \/ "read" \in Faults}}

LoadStoreUnmarked ==
  /\ main = "boot"
  /\ \E read \in LinesRead : offline_cache' = offline_cache \o read
  /\ main' = "loaded"
  /\ UNCHANGED <<sensor, trans, transmit, pending, failed, inflight, items,
                 storefile, ended, ready, produced, ghostVars, lives, handlers>>

(* readFromFile, first half: every line becomes a replay; a packet that is  *)
(* not the first of its line keeps its 06.                                 *)
LoadStore ==
  /\ main = "boot"
  /\ \E read \in LinesRead :
       offline_cache' = offline_cache \o
         [i \in DOMAIN read |-> [read[i] EXCEPT ![1].proto = "21"]]
  /\ main' = "loaded"
  /\ UNCHANGED <<sensor, trans, transmit, pending, failed, inflight, items,
                 storefile, ended, ready, produced, ghostVars, lives, handlers>>

(* readFromFile, second half: the file is emptied, also when it was not     *)
(* read to its end; then the workers start.                                *)
TruncateAndStart ==
  /\ main = "loaded"
  /\ \/ /\ storefile' = <<>> /\ ended' = TRUE
        /\ lost' = lost \union (Stored \ Volatile)
     \/ "truncate" \in Faults /\ UNCHANGED <<storefile, ended, lost>>
  /\ main' = "run"
  /\ sensor' = "collect"
  /\ trans' = "poll"
  /\ UNCHANGED <<queueVars, items, ready, produced, sent, retried, disturbed, base,
                 lives, handlers>>

(* fopen fails: nothing is replayed, and the file stays as it is.          *)
LoadFails ==
  /\ "fopen" \in Faults
  /\ main = "boot"
  /\ main' = "run"
  /\ sensor' = "collect"
  /\ trans' = "poll"
  /\ UNCHANGED <<queueVars, items, storefile, ended, ready, produced, ghostVars,
                 lives, handlers>>

-----------------------------------------------------------------------------
(* The sensor thread. *)

(* The round is complete: build the 06 packet, push it, wait for a poll. *)
PushRound ==
  /\ Running /\ sensor = "collect"
  /\ produced < MaxPackets
  /\ produced' = produced + 1
  /\ transmit' = Append(transmit, [n |-> produced + 1, proto |-> "06"])
  /\ sensor' = "wait"
  /\ UNCHANGED <<main, trans, offline_cache, pending, failed, inflight,
                 items, storefile, ended, ready, ghostVars, lives, handlers>>

StartRoundKeepsReady ==
  /\ Running /\ sensor = "wait" /\ ready
  /\ sensor' = "collect"
  /\ UNCHANGED <<main, trans, queueVars, items, storefile, ended, ready, produced,
                 ghostVars, lives, handlers>>

(* pthread_cond_wait returns with ship_data_ready set; the flag is taken. *)
StartRound ==
  /\ Running /\ sensor = "wait" /\ ready
  /\ ready' = FALSE
  /\ sensor' = "collect"
  /\ UNCHANGED <<main, trans, queueVars, items, storefile, ended, produced,
                 ghostVars, lives, handlers>>

-----------------------------------------------------------------------------
(* The thread trans_message, between two calls of select. *)

TakePollLiveFirst ==
  /\ Running /\ trans = "poll"
  /\ ready' = TRUE
  /\ IF transmit = <<>>
     THEN /\ pending' = offline_cache /\ offline_cache' = <<>>
          /\ trans' = IF offline_cache = <<>> THEN "pop" ELSE "resend"
     ELSE trans' = "pop" /\ UNCHANGED <<pending, offline_cache>>
  /\ disturbed' = (disturbed \/ offline_cache # <<>>)
  /\ UNCHANGED <<main, sensor, transmit, failed, inflight, items, storefile, ended,
                 produced, sent, lost, retried, base, lives, handlers>>

(* An 03 request for this device: notify the sensor thread, then take the  *)
(* whole offline cache under its lock.                                     *)
TakePoll ==
  /\ Running /\ trans = "poll"
  /\ ready' = TRUE
  /\ pending' = offline_cache
  /\ offline_cache' = <<>>
  /\ trans' = IF offline_cache = <<>> THEN "pop" ELSE "resend"
  /\ disturbed' = (disturbed \/ offline_cache # <<>>)
  /\ UNCHANGED <<main, sensor, transmit, failed, inflight, items, storefile, ended,
                 produced, sent, lost, retried, base, lives, handlers>>

(* One line of the offline cache is written, or joins failed_packets. *)
Resend(ok) ==
  /\ Running /\ trans = "resend" /\ pending # <<>>
  /\ IF ok
     THEN sent' = sent \o Head(pending) /\ UNCHANGED failed
     ELSE failed' = Append(failed, Head(pending)) /\ UNCHANGED sent
  /\ pending' = Tail(pending)
  /\ trans' = IF Len(pending) = 1 THEN "putback" ELSE "resend"
  /\ UNCHANGED <<main, sensor, transmit, offline_cache, inflight, items,
                 storefile, ended, ready, produced, lost, retried, disturbed, base,
                 lives, handlers>>

PutBackForgets ==
  /\ Running /\ trans = "putback"
  /\ failed' = <<>>
  /\ trans' = "poll"
  /\ UNCHANGED <<main, sensor, transmit, offline_cache, pending, inflight,
                 items, storefile, ended, ready, produced, ghostVars, lives, handlers>>

(* The failed ones return to the cache; the live queue waits for a poll. *)
PutBack ==
  /\ Running /\ trans = "putback"
  /\ offline_cache' = offline_cache \o failed
  /\ failed' = <<>>
  /\ trans' = "poll"
  /\ UNCHANGED <<main, sensor, transmit, pending, inflight, items, storefile, ended,
                 ready, produced, ghostVars, lives, handlers>>

PopLiveNewest ==
  /\ Running /\ trans = "pop"
  /\ IF transmit = <<>>
     THEN trans' = "poll" /\ UNCHANGED <<transmit, inflight>>
     ELSE /\ inflight' = <<transmit[Len(transmit)]>>
          /\ transmit' = SubSeq(transmit, 1, Len(transmit) - 1)
          /\ trans' = "write"
  /\ UNCHANGED <<main, sensor, offline_cache, pending, failed, items,
                 storefile, ended, ready, produced, ghostVars, lives, handlers>>

PopLivePeeks ==
  /\ Running /\ trans = "pop"
  /\ IF transmit = <<>>
     THEN trans' = "poll" /\ UNCHANGED inflight
     ELSE inflight' = <<Head(transmit)>> /\ trans' = "write"
  /\ UNCHANGED <<main, sensor, transmit, offline_cache, pending, failed,
                 items, storefile, ended, ready, produced, ghostVars, lives, handlers>>

(* transmit.tryPop *)
PopLive ==
  /\ Running /\ trans = "pop"
  /\ IF transmit = <<>>
     THEN trans' = "poll" /\ UNCHANGED <<transmit, inflight>>
     ELSE /\ inflight' = <<Head(transmit)>>
          /\ transmit' = Tail(transmit)
          /\ trans' = "write"
  /\ UNCHANGED <<main, sensor, offline_cache, pending, failed, items,
                 storefile, ended, ready, produced, ghostVars, lives, handlers>>

WriteLiveDrops(ok) ==
  /\ Running /\ trans = "write"
  /\ sent' = IF ok THEN sent \o inflight ELSE sent
  /\ inflight' = <<>>
  /\ trans' = "poll"
  /\ UNCHANGED <<main, sensor, transmit, offline_cache, pending, failed,
                 items, storefile, ended, ready, produced, lost, retried, disturbed,
                 base, lives, handlers>>

(* write_full of a live packet: on failure it goes to the tail of transmit. *)
WriteLive(ok) ==
  /\ Running /\ trans = "write"
  /\ IF ok
     THEN /\ sent' = sent \o inflight
          /\ UNCHANGED <<transmit, retried, disturbed>>
     ELSE /\ transmit' = transmit \o inflight
          /\ retried' = retried \union Rounds(inflight)
          /\ disturbed' = TRUE
          /\ UNCHANGED sent
  /\ inflight' = <<>>
  /\ trans' = "poll"
  /\ UNCHANGED <<main, sensor, offline_cache, pending, failed, items,
                 storefile, ended, ready, produced, lost, base, lives, handlers>>

WriteFails ==
  /\ "write" \in Faults
  /\ Resend(FALSE) \/ WriteLive(FALSE)

-----------------------------------------------------------------------------
(* Ends of a process. *)

(* Memory is gone: rounds that were neither sent nor stored are lost. *)
Die ==
  /\ main' = "down" /\ sensor' = "off" /\ trans' = "off"
  /\ transmit' = <<>> /\ offline_cache' = <<>> /\ pending' = <<>>
  /\ failed' = <<>> /\ inflight' = <<>> /\ items' = <<>>
  /\ ready' = FALSE /\ handlers' = 0
  /\ lost' = lost \union (Volatile \ (Stored \union Sent))
  /\ UNCHANGED <<storefile, ended, produced, sent, retried, disturbed, base, lives>>

PowerLoss == "power" \in Faults /\ main # "down" /\ Die

(* No handler for SIGPIPE is installed: its default action ends the process. *)
BrokenPipe ==
  /\ "pipe" \in Faults
  /\ Running /\ trans \in {"resend", "write"}
  /\ Die

(* A handled signal arrives; the other threads are not stopped.  The masks  *)
(* are empty, so another of the three signals interrupts a running handler, *)
(* which is not returned to: what it had drained is gone.                   *)
Signal ==
  /\ "signal" \in Faults
  /\ main \notin {"down", "hung"} /\ handlers < 3
  /\ handlers' = handlers + 1
  /\ main' = "drain"
  /\ items' = <<>>
  /\ lost' = lost \union Rounds(items)
  /\ UNCHANGED <<sensor, trans, queueVars, storefile, ended, ready, produced, sent,
                 retried, disturbed, base, lives>>

(* drainUnsafe takes no lock: one element at a time, between the steps of   *)
(* the threads that push and pop.                                          *)
DrainUnsafe ==
  /\ main = "drain" /\ transmit # <<>>
  /\ items' = Append(items, Head(transmit))
  /\ transmit' = Tail(transmit)
  /\ UNCHANGED <<main, sensor, trans, offline_cache, pending, failed,
                 inflight, storefile, ended, ready, produced, ghostVars, lives, handlers>>

(* A push or a pop really simultaneous with the unlocked drain is a data   *)
(* race on std::queue; the outcome kept here is that the process ends.     *)
DrainRace ==
  /\ "race" \in Faults
  /\ main = "drain" /\ transmit # <<>>
  /\ sensor = "collect" \/ trans \in {"pop", "write"}
  /\ Die

(* The drain allocates.  A signal that interrupts it inside malloc starts a  *)
(* handler that waits in malloc for the lock its own thread holds: main      *)
(* hangs, the other threads go on, and no signal ends the process any more.  *)
HandlerHangs ==
  /\ {"race", "signal"} \subseteq Faults
  /\ main = "drain" /\ transmit # <<>> /\ handlers < 3
  /\ handlers' = handlers + 1
  /\ main' = "hung"
  /\ UNCHANGED <<sensor, trans, queueVars, items, storefile, ended, ready, produced,
                 ghostVars, lives>>

(* The queue was seen empty: the store file is opened for appending. *)
EndDrain ==
  /\ main = "drain" /\ transmit = <<>>
  /\ main' = "persist"
  /\ UNCHANGED <<sensor, trans, queueVars, items, storefile, ended, ready, produced,
                 ghostVars, lives, handlers>>

(* One item is appended to the file, behind whatever is there; an open or a  *)
(* write that fails drops the packet.  (A write that is cut short counts as *)
(* done in the code, and leaves a packet without its end; not modelled.)    *)
PersistItem(ok) ==
  /\ main = "persist" /\ items # <<>>
  /\ items' = Tail(items)
  /\ IF ok
     THEN /\ storefile' =
               IF ended THEN Append(storefile, <<Head(items)>>)
               ELSE [storefile EXCEPT ![Len(storefile)] = Append(@, Head(items))]
          /\ ended' = FALSE /\ main' = "newline"
          /\ UNCHANGED lost
     ELSE lost' = lost \union {Head(items).n} /\ UNCHANGED <<storefile, ended, main>>
  /\ UNCHANGED <<sensor, trans, queueVars, ready, produced, sent, retried,
                 disturbed, base, lives, handlers>>

(* The newline is a write of its own; an error is only reported.           *)
PersistNewline(ok) ==
  /\ main = "newline"
  /\ ended' = ok
  /\ main' = "persist"
  /\ UNCHANGED <<sensor, trans, queueVars, items, storefile, ready, produced,
                 ghostVars, lives, handlers>>

(* Every line was written: _exit.  What the threads did after the drain, and *)
(* everything that was not in transmit, is gone.                           *)
Exit == main = "persist" /\ items = <<>> /\ Die

(* The supervising script starts the program again. *)
Restart ==
  /\ main = "down" /\ lives < MaxLives
  /\ main' = "boot"
  /\ lives' = lives + 1
  /\ base' = produced
  /\ disturbed' = FALSE
  /\ UNCHANGED <<sensor, trans, queueVars, items, storefile, ended, ready, produced,
                 sent, lost, retried, handlers>>

-----------------------------------------------------------------------------
TransStep ==
  TakePoll \/ Resend(TRUE) \/ PutBack \/ PopLive \/ WriteLive(TRUE)
    \/ WriteFails

SensorStep == PushRound \/ StartRound

MainStep ==
  LoadStore \/ TruncateAndStart \/ DrainUnsafe \/ EndDrain
    \/ PersistItem(TRUE) \/ PersistNewline(TRUE) \/ Exit

Next ==
  \/ MainStep \/ SensorStep \/ TransStep
  \/ PowerLoss \/ BrokenPipe \/ Signal \/ DrainRace \/ HandlerHangs \/ Restart
  \/ LoadFails
  \/ "flash" \in Faults /\ (PersistItem(FALSE) \/ PersistNewline(FALSE))

Spec == Init /\ [][Next]_vars

(***************************************************************************)
(* Fairness.  Every thread is scheduled (weak fairness of its steps); the  *)
(* gateway keeps polling, which is the fairness of TakePoll; the link is   *)
(* not permanently broken, so that a write that is attempted again and     *)
(* again succeeds at last (strong fairness of the successful writes).      *)
(***************************************************************************)
Fairness ==
  /\ WF_vars(MainStep) /\ WF_vars(SensorStep)
  /\ WF_vars(TakePoll) /\ WF_vars(PutBack) /\ WF_vars(PopLive)
  /\ SF_vars(Resend(TRUE))
  /\ \A r \in 1..MaxPackets :
       SF_vars(WriteLive(TRUE) /\ inflight = <<[n |-> r, proto |-> "06"]>>)

FairSpec == Spec /\ Fairness

-----------------------------------------------------------------------------
(* Types, and which local of a thread is in use at which point of its code. *)
TypeOK ==
  /\ main \in {"boot", "loaded", "run", "drain", "persist", "newline", "hung", "down"}
  /\ sensor \in {"off", "collect", "wait"}
  /\ trans \in {"off", "poll", "resend", "putback", "pop", "write"}
  /\ {transmit, inflight, items, sent} \subseteq Seq(Packet)
  /\ {offline_cache, pending, failed, storefile} \subseteq Seq(Seq(Packet))
  /\ (trans = "write") <=> (inflight # <<>>)
  /\ (trans = "resend") <=> (pending # <<>>)
  /\ failed # <<>> => trans \in {"resend", "putback"}
  /\ Len(inflight) \in {0, 1}
  /\ ready \in BOOLEAN /\ disturbed \in BOOLEAN
  /\ produced \in 0..MaxPackets /\ base \in 0..produced
  /\ lost \subseteq 1..produced /\ retried \subseteq 1..produced
  /\ lives \in 1..MaxLives
  /\ handlers \in 0..3
  /\ (handlers > 0) <=> (main \in {"drain", "persist", "newline", "hung"})

(* Every round that was reported is in some queue, in the store file, at the *)
(* gateway, or lost with a process or a line that could not be read: no step *)
(* of the threads drops one.                                               *)
Accounted == 1..produced = Volatile \union Stored \union Sent \union lost

(* No round is twice in a sequence of lines. *)
Once(lines) ==
  \A i, j \in DOMAIN lines : \A k \in DOMAIN lines[i], l \in DOMAIN lines[j] :
    lines[i][k].n = lines[j][l].n => i = j /\ k = l

(* As long as the store file is really emptied when it is read, a round     *)
(* exists once: it cannot be in two queues, queued again after it was sent, *)
(* or be sent twice, whatever fails and whenever the process ends.          *)
AtMostOneCopy ==
  Once(<<transmit, inflight, items, sent>> \o offline_cache \o pending \o failed)

(* With no failed write and no replay in this life, the notification at     *)
(* each poll is what paces collection: the backlog never exceeds three rounds *)
(* even though queue and flag are not read atomically.                      *)
BacklogBounded == ~disturbed => Len(transmit) + Len(inflight) <= 3

(* A live packet is sent only when nothing is left to replay. *)
OfflineFirst ==
  [][sent' # sent /\ trans = "write"
        => offline_cache = <<>> /\ pending = <<>> /\ failed = <<>>]_vars

(* Live packets leave in the order of collection, except that a round whose *)
(* write failed moves behind those collected since.                         *)
LiveInOrder ==
  [][\A r \in Rounds(inflight) : r \in Sent' \ Sent
        => \A m \in Rounds(transmit) : m > r \/ m \in retried]_vars

(* The gateway can tell a replay from a live report: what is written at      *)
(* once starts with 21 exactly when an earlier life of the process collected *)
(* it, and it is one packet, unless a handler was interrupted or failed      *)
(* before the newline: then all that was glued together is of earlier lives. *)
ReplayMarked ==
  [][sent' # sent =>
       LET new == SubSeq(sent', Len(sent) + 1, Len(sent'))
       IN  /\ new[1].proto = "21" <=> new[1].n <= base
           /\ Len(new) > 1 => \A i \in DOMAIN new : new[i].n <= base]_vars

(* While the process runs and the gateway polls, every round gets through,  *)
(* unless the start did not read it: it was lost with the rest of the store *)
(* file, or it is still there for the next start.                          *)
EverythingSent ==
  \A r \in 1..MaxPackets :
    (produced >= r) ~> (r \in Sent \union lost \union (Stored \ Volatile))

-----------------------------------------------------------------------------
(* The queues, the file and the histories implement PacketLife. *)
LifeOf(r) ==
  CASE r > produced -> "new"
    [] r \in Sent -> "sent"
    [] r \in Volatile \ Sent -> "held"
    [] r \in Stored \ (Sent \union Volatile) -> "stored"
    [] OTHER -> "lost"

Life == [r \in 1..MaxPackets |-> LifeOf(r)]
Ending == main \in {"drain", "persist", "newline", "hung"}

Promise ==
  INSTANCE PacketLife WITH AllRounds <- 1..MaxPackets, life <- Life, ending <- Ending

(* Delivered stays delivered, lost stays lost, nothing is delivered that    *)
(* was not collected, a start loads the whole store file, and only a        *)
(* process that is ending takes a round out of memory undelivered.          *)
KeepsPromise == Promise!LifeSpec
=============================================================================
