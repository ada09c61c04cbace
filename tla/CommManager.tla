------------------------------ MODULE CommManager ------------------------------
(***************************************************************************)
(* What happens when the gateway closes the link: trans_message reads an   *)
(* end of file and has communicaManage (infra/communica_manage.cpp)        *)
(* reinitialise the device, through the callbacks of app/device_init.cpp   *)
(* and behind the circuit breaker of the device.  The descriptors of the   *)
(* process are one table, where open and socket take the lowest free one   *)
(* and close frees one, whoever holds it.  reinit holds the mutex of the   *)
(* list from begin to end, so the list itself changes in one step.         *)
(***************************************************************************)
EXTENDS NodeList, Integers

CONSTANTS
  Clients, \* the communication devices that may be initialised
  FdMax    \* bound: descriptors are 0..FdMax

(* To be assumed where this module is used.                                *)
CommAssumption ==
  /\ Clients # {} /\ Clients \subseteq DeviceName \ {"lan_server"}
  /\ FdMax \in Nat /\ FdMax > Cardinality(Clients) + 2

Fd == 0..FdMax

VARIABLES
  list,  \* the nodes: device, descriptor, enabled, callback, breaker
  owner, \* descriptor -> "free", "std" or a device
  pc,    \* program counter of trans_message inside send_mess and reinit
  newFd, \* descriptor a running reinitialisation opened
  down,  \* a link has ended, and none that is open took its place yet
  delay  \* fd_backoff of send_mess: the next delay, in seconds

vars == <<list, owner, pc, newFd, down, delay>>

(* dev_init registers a reinit callback for every device but 4G.           *)
HasReinit(dev) == dev # "cell4g"

Started == SelectSeq(Order, LAMBDA dev : dev \in Clients)

(* dev_init has filled the list and registration has enabled one device.   *)
(* Descriptors that reinit never frees have no number here.                *)
Init ==
  /\ \E active \in Clients :
       list = setEnable([i \in DOMAIN Started |->
                           [createComnode(Started[i], i)
                              EXCEPT !.cb = HasReinit(Started[i])]], active)
  /\ owner = [f \in Fd |-> IF f = 0 THEN "std"
                           ELSE IF f \in DOMAIN Started THEN Started[f]
                           ELSE "free"]
  /\ pc = "select" /\ newFd = -1 /\ down = FALSE /\ delay = 1

-----------------------------------------------------------------------------
Active == getSuccess(list)
Dev == list[Active].dev

LowestFree(f) == owner[f] = "free" /\ \A g \in Fd : g < f => owner[g] # "free"

Close(f) == owner' = [owner EXCEPT ![f] = "free"]

ParaNodeFd(dev) == list[Active].fd

(* What send_mess passes as the old descriptor: reinit(activeId, 0).       *)
Para(dev) == 0

SetBreaker(b) == list' = [list EXCEPT ![Active].breaker = b]

(* No node is enabled: send_mess sleeps twice as long each time, 30 s at    *)
(* most.                                                                   *)
NoLink ==
  /\ pc = "select" /\ Active = 0
  /\ delay' = IF 2 * delay > 30 THEN 30 ELSE 2 * delay
  /\ UNCHANGED <<list, owner, pc, newFd, down>>

(* The gateway closes the connection: read returns 0.  On a link that is   *)
(* still down select reports that at once.                                 *)
LinkEnds ==
  /\ pc = "select" /\ Active # 0
  /\ delay' = 1
  /\ down' = TRUE
  /\ pc' = "reinit"
  /\ UNCHANGED <<list, owner, newFd>>

(* reinit: while the breaker is open it fails at once.  Otherwise the       *)
(* callback is called, where there is one: lan_reinit closes first.        *)
Begin ==
  /\ pc = "reinit"
  /\ SetBreaker(AfterAllow(list[Active].breaker))
  /\ pc' = IF ~Allows(list[Active].breaker) \/ ~list[Active].cb THEN "pause"
           ELSE IF Dev = "lan" THEN "closeOld" ELSE "open"
  /\ UNCHANGED <<owner, newFd, down, delay>>

(* Then a socket is connected, a serial port set up, and a bluetooth module *)
(* reset and made to find its gateway: what can fail with a descriptor.     *)
Open ==
  /\ pc = "open"
  /\ \E f \in Fd :
       /\ LowestFree(f)
       /\ owner' = [owner EXCEPT ![f] = Dev]
       /\ newFd' = f
  /\ pc' = "connect"
  /\ UNCHANGED <<list, down, delay>>

(* Without a new descriptor only bt_reinit closes the old one.             *)
OpenFails ==
  /\ pc = "open"
  /\ pc' = IF Dev = "bt" THEN "closeOld" ELSE "fail"
  /\ UNCHANGED <<list, owner, newFd, down, delay>>

Connect ==
  /\ pc = "connect"
  /\ pc' = IF Dev = "lan" THEN "succeed" ELSE "closeOld"
  /\ UNCHANGED <<list, owner, newFd, down, delay>>

ConnectFails ==
  /\ pc = "connect"
  /\ pc' = "closeNew"
  /\ UNCHANGED <<list, owner, newFd, down, delay>>

(* connect_nonb, lora_open and bluetooth_open close what they could not     *)
(* use.  wifi_reinit and bt_reinit close the old descriptor also then ...  *)
CloseNew ==
  /\ pc = "closeNew"
  /\ Close(newFd)
  /\ newFd' = IF Dev = "lan" THEN newFd ELSE -1
  /\ pc' = CASE Dev = "lan" -> "closeAgain"
             [] Dev = "lora" -> "fail"
             [] OTHER -> "closeOld"
  /\ UNCHANGED <<list, down, delay>>

(* ... and lan_reinit closes the new number once more.                     *)
CloseAgain ==
  /\ pc = "closeAgain"
  /\ Close(newFd)
  /\ newFd' = -1
  /\ pc' = "fail"
  /\ UNCHANGED <<list, down, delay>>

CloseOld ==
  /\ pc = "closeOld"
  /\ Close(Para(Dev))
  /\ pc' = IF Dev = "lan" THEN "open"
           ELSE IF newFd >= 0 THEN "succeed" ELSE "fail"
  /\ UNCHANGED <<list, newFd, down, delay>>

Fail ==
  /\ pc = "fail"
  /\ SetBreaker(AfterFailure(list[Active].breaker))
  /\ newFd' = -1
  /\ pc' = "pause"
  /\ UNCHANGED <<owner, down, delay>>

SucceedOnHead ==
  /\ pc = "succeed"
  /\ list' = callbackRgist(insertNode(Tail(list), createComnode(Dev, newFd)),
                           Dev, list[Active].cb)
  /\ newFd' = -1 /\ down' = (owner[newFd] # Dev)
  /\ pc' = "select"
  /\ UNCHANGED <<owner, delay>>

(* The node is deleted and a new one, not enabled, appended with the same   *)
(* callbacks, whether its descriptor is still open or not.                 *)
Succeed ==
  /\ pc = "succeed"
  /\ list' = callbackRgist(insertNode(deletecommunicateNode(list, Dev),
                                      createComnode(Dev, newFd)),
                           Dev, list[Active].cb)
  /\ newFd' = -1 /\ down' = (owner[newFd] # Dev)
  /\ pc' = "select"
  /\ UNCHANGED <<owner, delay>>

PauseTooShort == 30

(* After a reinit that failed: sleep(30), then sleep(2).                   *)
PauseSeconds == 32

Pause ==
  /\ pc = "pause"
  /\ SetBreaker(Older(list[Active].breaker, PauseSeconds))
  /\ pc' = "select"
  /\ UNCHANGED <<owner, newFd, down, delay>>

-----------------------------------------------------------------------------
Reinit ==
  \/ Begin \/ Open \/ OpenFails \/ Connect \/ ConnectFails
  \/ CloseNew \/ CloseAgain \/ CloseOld \/ Fail \/ Succeed \/ Pause

Next == NoLink \/ LinkEnds \/ Reinit

Spec == Init /\ [][Next]_vars

(* trans_message is scheduled, and the device can be opened and connected   *)
(* again at last.                                                          *)
Fairness ==
  /\ WF_vars(Reinit) /\ WF_vars(LinkEnds /\ down) /\ WF_vars(NoLink)
  /\ SF_vars(Open) /\ SF_vars(Connect)

FairSpec == Spec /\ Fairness

-----------------------------------------------------------------------------
TypeOK ==
  /\ \A i \in DOMAIN list :
       /\ list[i].dev \in Clients /\ list[i].fd \in Fd
       /\ list[i].enabled \in BOOLEAN /\ list[i].cb \in BOOLEAN
       /\ list[i].breaker \in Breaker
  /\ owner \in [Fd -> {"free", "std"} \union Clients]
  /\ pc \in {"select", "reinit", "open", "connect", "closeNew", "closeAgain",
             "closeOld", "fail", "succeed", "pause"}
  /\ newFd \in Fd \union {-1}
  /\ down \in BOOLEAN /\ delay \in 1..30
  /\ pc # "select" => down /\ Active # 0

(* The pause of send_mess is longer than the cool-down, so the breaker it   *)
(* waits for never refuses a reinitialisation, however many failed.         *)
NeverRefused == pc = "reinit" => Allows(list[Active].breaker)

(* "SAP Will reConnect" (message_transmitter.cpp:121): a link that ended is *)
(* served again.                                                           *)
WillReconnect == (pc = "reinit") ~> (~down /\ Active # 0)
=============================================================================
