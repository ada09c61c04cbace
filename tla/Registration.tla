----------------------------- MODULE Registration -----------------------------
(***************************************************************************)
(* device_regist (app/regist_manage.cpp): the thread that registers the    *)
(* device at the gateway.  It walks the communication devices from the     *)
(* highest id down; on each it waits for an idle channel, sends the 01     *)
(* request, waits for the 17 parameters, confirms with 02 and waits for    *)
(* the 20 timestamp.  One step is one pass through a state of its switch,  *)
(* or one select and read inside a state.  The gateway and the links       *)
(* answer anything at any time.                                            *)
(***************************************************************************)
EXTENDS Descent

CONSTANTS
  NumDevices,  \* length of the vector of devices, sorted by id
  RegistLimit, \* 5: value of regist_num that ends a device
  IdleLimit,   \* 100: listens to a channel before the thread fails
  IdlePackets, \* 5: value of select_num at which a complete packet means idle
  Retry17,     \* 5: listens for the 17 parameters
  ListenNum    \* 8: listens for the 20 timestamp

ASSUME RegistrationAssumption ==
  /\ NumDevices \in Nat \ {0}
  /\ RegistLimit \in Nat /\ RegistLimit >= 2
  /\ IdleLimit \in Nat \ {0}
  /\ IdlePackets \in Nat \ {0}
  /\ Retry17 \in Nat \ {0}
  /\ ListenNum \in Nat \ {0}

Device == 0..(NumDevices - 1)

VARIABLES
  state,      \* RegistState
  size,       \* index of the current device, -1 when none is left
  regist_num, \* what regist_num counts: 1 + requests and confirms that failed
  select_num,
  myCount,
  retry,
  listen_num,
  id,         \* the identity the gateway assigned, "FF" for none
  enabled,    \* devices setEnable was called for
  requests,   \* history: 01 requests attempted on each device
  confirms    \* history: 02 confirms attempted

counters == <<size, regist_num, select_num, myCount, retry, listen_num>>
history == <<requests, confirms>>
regist == <<state, counters, id, enabled, history>>

Ended == state \in {"Success", "Failed"}

(* The thread function's local variables, and the identity of the device.  *)
RegistInit ==
  /\ state = "SelectChannel"
  /\ size = NumDevices - 1
  /\ regist_num = 1 /\ select_num = 1 /\ myCount = 0
  /\ retry = 0 /\ listen_num = ListenNum
  /\ id = "FF" /\ enabled = {}
  /\ requests = [d \in Device |-> 0] /\ confirms = 0

(* The thread starts, for n devices. *)
RegistStarts(n) ==
  /\ state' = "SelectChannel"
  /\ size' = n - 1
  /\ regist_num' = 1 /\ select_num' = 1 /\ myCount' = 0
  /\ retry' = 0 /\ listen_num' = ListenNum
  /\ id' = "FF" /\ enabled' = {}
  /\ requests' = [d \in Device |-> 0] /\ confirms' = 0

-----------------------------------------------------------------------------
(* The device has used up its attempts: the next one starts afresh.        *)
NextDevice ==
  IF regist_num = RegistLimit
  THEN size' = size - 1 /\ regist_num' = 1
  ELSE UNCHANGED <<size, regist_num>>

SelectChannel ==
  /\ state = "SelectChannel"
  /\ NextDevice
  /\ IF size' < 0
     THEN state' = "Failed" /\ UNCHANGED <<select_num, myCount>>
     ELSE /\ select_num' = 1 /\ myCount' = 0
          /\ state' = "WaitForIdle"
  /\ UNCHANGED <<retry, listen_num, id, enabled, requests, confirms>>

(* What one select and read on the channel can bring.                      *)
Heard == {"last",    \* a short packet that does not start with $
          "full",    \* a packet from $ to @
          "other",   \* any other data
          "eof",     \* read returned 0 or an error: the loop goes on
          "timeout", \* nothing for 15 seconds
          "error"}   \* select failed

TellsIdle(o) ==
  o \in {"last", "timeout"} \/ (o = "full" /\ select_num = IdlePackets)

ListenIdle(o) ==
  /\ state = "WaitForIdle"
  /\ myCount' = myCount + 1
  /\ IF myCount' >= IdleLimit \/ o = "error"
     THEN state' = "Failed" /\ UNCHANGED select_num
     ELSE /\ state' = IF TellsIdle(o) THEN "SendRegister" ELSE state
          /\ select_num' = IF TellsIdle(o) \/ o = "eof" THEN select_num
                                                       ELSE select_num + 1
  /\ UNCHANGED <<size, regist_num, retry, listen_num, id, enabled, requests,
                 confirms>>

(* Another round with this device, unless regist_num reached its limit.    *)
TryAgain ==
  /\ select_num' = 1
  /\ regist_num' = regist_num + 1
  /\ state' = "SelectChannel"

SendRegisterUncounted(ok) ==
  /\ state = "SendRegister"
  /\ requests' = [requests EXCEPT ![size] = @ + 1]
  /\ IF ok
     THEN /\ retry' = Retry17 /\ state' = "WaitFor17"
          /\ UNCHANGED <<select_num, regist_num>>
     ELSE state' = "SelectChannel" /\ UNCHANGED <<select_num, regist_num, retry>>
  /\ UNCHANGED <<size, myCount, listen_num, id, enabled, confirms>>

SendRegister(ok) ==
  /\ state = "SendRegister"
  /\ requests' = [requests EXCEPT ![size] = @ + 1]
  /\ IF ok
     THEN /\ retry' = Retry17 /\ state' = "WaitFor17"
          /\ UNCHANGED <<select_num, regist_num>>
     ELSE TryAgain /\ UNCHANGED retry
  /\ UNCHANGED <<size, myCount, listen_num, id, enabled, confirms>>

(* One select for the 17 parameters: nothing usable, or a packet for this   *)
(* device that carries an identity.                                        *)
Listen17(answer) ==
  /\ state = "WaitFor17" /\ retry > 0
  /\ retry' = IF answer = "nothing" THEN retry - 1 ELSE 0
  /\ id' = IF answer = "nothing" THEN id ELSE answer
  /\ UNCHANGED <<state, size, regist_num, select_num, myCount, listen_num,
                 enabled, history>>

(* The loop over the selects is over: confirm, or go back with a count.    *)
Judge17 ==
  /\ state = "WaitFor17" /\ retry = 0
  /\ IF id # "FF"
     THEN state' = "SendConfirm" /\ UNCHANGED <<select_num, regist_num>>
     ELSE TryAgain
  /\ UNCHANGED <<size, myCount, retry, listen_num, id, enabled, history>>

(* A confirm that cannot be written is logged, and waited on all the same. *)
SendConfirm ==
  /\ state = "SendConfirm"
  /\ confirms' = confirms + 1
  /\ listen_num' = ListenNum
  /\ state' = "WaitForTimestamp"
  /\ UNCHANGED <<size, regist_num, select_num, myCount, retry, id, enabled,
                 requests>>

(* One select for the timestamp: a valid 20 enables the current device.    *)
ListenTimestamp(valid) ==
  /\ state = "WaitForTimestamp" /\ listen_num > 0
  /\ listen_num' = listen_num - 1
  /\ IF valid
     THEN state' = "Success" /\ enabled' = enabled \union {size}
     ELSE UNCHANGED <<state, enabled>>
  /\ UNCHANGED <<size, regist_num, select_num, myCount, retry, id, history>>

JudgeTimestampListensOn ==
  /\ state = "WaitForTimestamp" /\ listen_num = 0
  /\ listen_num' = ListenNum
  /\ UNCHANGED <<state, size, regist_num, select_num, myCount, retry, id,
                 enabled, history>>

(* Confirms share the count of the requests; when it is used up the thread *)
(* fails without a look at the other devices.                              *)
JudgeTimestamp ==
  /\ state = "WaitForTimestamp" /\ listen_num = 0
  /\ regist_num' = regist_num + 1
  /\ IF regist_num' >= RegistLimit
     THEN state' = "Failed" /\ UNCHANGED listen_num
     ELSE listen_num' = ListenNum /\ state' = "SendConfirm"
  /\ UNCHANGED <<size, select_num, myCount, retry, id, enabled, history>>

-----------------------------------------------------------------------------
RegistNext ==
  \/ SelectChannel
  \/ \E o \in Heard : ListenIdle(o)
  \/ \E ok \in BOOLEAN : SendRegister(ok)
  \/ \E answer \in {"nothing", "FF", "01"} : Listen17(answer)
  \/ Judge17 \/ SendConfirm
  \/ \E valid \in BOOLEAN : ListenTimestamp(valid)
  \/ JudgeTimestamp

-----------------------------------------------------------------------------
RegistTypeOK ==
  /\ state \in {"SelectChannel", "WaitForIdle", "SendRegister", "WaitFor17",
                "SendConfirm", "WaitForTimestamp", "Success", "Failed"}
  /\ size \in Device \union {-1}
  /\ (size = -1) => (state = "Failed")
  /\ regist_num \in 1..RegistLimit
  /\ select_num \in 1..(IdleLimit + 1)
  /\ myCount \in 0..IdleLimit
  /\ retry \in 0..Retry17 /\ listen_num \in 0..ListenNum
  /\ id \in {"FF", "01"} /\ enabled \subseteq Device
  /\ requests \in [Device -> Nat] /\ confirms \in Nat

(* regist_num pays for requests and confirms alike: however the gateway    *)
(* answers, a device sees at most RegistLimit - 1 requests and no more      *)
(* than RegistLimit requests and confirms together.  Devices are used up   *)
(* from the top: the ones above the current one had all their requests,    *)
(* the ones below none.                                                    *)
SharedBudget ==
  \A d \in Device :
    /\ requests[d] < RegistLimit
    /\ d = size => requests[d] + confirms <= RegistLimit
    /\ d > size => requests[d] = RegistLimit - 1
    /\ d < size => requests[d] = 0

(* A device is enabled only at the end, only the one that registered, and   *)
(* only under an identity the gateway assigned and this thread confirmed.  *)
EnabledIsRegistered ==
  /\ (enabled # {}) <=> (state = "Success")
  /\ enabled \subseteq {size}
  /\ enabled # {} => id # "FF" /\ confirms > 0 /\ requests[size] > 0

(* What is left to the thread: devices, attempts on the current one, states *)
(* to the end of the attempt, listens in this state.                       *)
Stage ==
  CASE state = "SelectChannel" -> 6
    [] state = "WaitForIdle" -> 5
    [] state = "SendRegister" -> 4
    [] state = "WaitFor17" -> 3
    [] state = "SendConfirm" -> 2
    [] state = "WaitForTimestamp" -> 1
    [] OTHER -> 0

Listens ==
  CASE state = "WaitForIdle" -> IdleLimit - myCount
    [] state = "WaitFor17" -> retry
    [] state = "WaitForTimestamp" -> listen_num
    [] OTHER -> 0

Left == <<size + 1, RegistLimit - regist_num, Stage, Listens>>

(* Every pass of the switch and every listen uses something up, whatever   *)
(* the gateway answers: what a state resets is paid for by a counter that  *)
(* it does not reset (regist_manage.cpp:92-330).  So no sequence of answers *)
(* keeps the thread, and main, which joins it without a timeout, for ever. *)
AttemptsRunOut == [][RegistNext => GoesDown(Left', Left)]_regist
=============================================================================
