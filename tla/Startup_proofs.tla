---------------------------- MODULE Startup_proofs ----------------------------
(***************************************************************************)
(* Proofs about Startup and the thread Registration it runs, for any        *)
(* number of devices, retries, signals and restarts.                       *)
(***************************************************************************)
EXTENDS Startup, SequenceTheorems, WellFoundedInduction, TLAPS

-----------------------------------------------------------------------------
(* The inductive invariant of the registration thread. *)

(* An idle listen is counted before it can raise select_num.                *)
Listening ==
  state = "WaitForIdle" => myCount < IdleLimit /\ select_num <= myCount + 1

(* What regist_num has paid for on the current device.                      *)
Paid ==
  /\ state \in {"SelectChannel", "WaitForIdle", "SendRegister"} =>
       requests[size] = regist_num - 1 /\ confirms = 0
  /\ state = "WaitFor17" => requests[size] = regist_num /\ confirms = 0
  /\ state = "SendConfirm" => requests[size] + confirms = regist_num
  /\ state \in {"WaitForTimestamp", "Success"} => requests[size] + confirms = regist_num + 1
  /\ state = "Failed" /\ size # -1 =>
       requests[size] < RegistLimit /\ requests[size] + confirms <= RegistLimit
  /\ state \notin {"SelectChannel", "Failed"} => regist_num < RegistLimit

(* The devices above the current one are used up, those below untouched.    *)
FromTheTop ==
  /\ \A d \in Device : d > size => requests[d] = RegistLimit - 1
  /\ \A d \in Device : d < size => requests[d] = 0

(* What the thread knows once it confirms.                                  *)
Confirming ==
  /\ state \in {"SendConfirm", "WaitForTimestamp", "Success"} =>
       id # "FF" /\ requests[size] > 0
  /\ state \in {"WaitForTimestamp", "Success"} => confirms > 0
  /\ state = "Success" => enabled = {size}
  /\ state # "Success" => enabled = {}

RegistInv == RegistTypeOK /\ Listening /\ Paid /\ FromTheTop /\ Confirming

LEMMA Devices ==
  /\ NumDevices \in Nat \ {0} /\ NumDevices - 1 \in Device
  /\ \A d \in Device : d \in Int /\ d # -1 /\ ~(d < 0) /\ d - 1 \in Device \union {-1}
  /\ -1 \notin Device
BY RegistrationAssumption DEF RegistrationAssumption, Device

LEMMA Limits ==
  /\ RegistLimit \in Nat /\ RegistLimit >= 2
  /\ IdleLimit \in Nat \ {0} /\ IdlePackets \in Nat \ {0}
  /\ Retry17 \in Nat \ {0} /\ ListenNum \in Nat \ {0}
BY RegistrationAssumption DEF RegistrationAssumption

LEMMA RegistInitInv == RegistInit => RegistInv
<1> SUFFICES ASSUME RegistInit PROVE RegistInv
  OBVIOUS
<1> USE DEF RegistInit
<1>1. RegistTypeOK
  BY Devices, Limits DEF RegistTypeOK
<1>2. requests[size] = 0 /\ size \in Device
  BY Devices
<1>3. Listening /\ Confirming
  BY Limits DEF Listening, Confirming
<1>4. Paid
  BY <1>2, Limits DEF Paid
<1>5. FromTheTop
  <2>1. \A d \in Device : ~(d > NumDevices - 1)
    BY Devices DEF Device
  <2>2. QED
    BY <2>1 DEF FromTheTop
<1>6. QED
  BY <1>1, <1>3, <1>4, <1>5 DEF RegistInv

LEMMA RegistStartsInv == RegistStarts(NumDevices) => RegistInv'
<1> SUFFICES ASSUME RegistStarts(NumDevices) PROVE RegistInv'
  OBVIOUS
<1> USE DEF RegistStarts
<1>1. RegistTypeOK'
  BY Devices, Limits DEF RegistTypeOK
<1>2. requests'[size'] = 0 /\ size' \in Device
  BY Devices
<1>3. Listening' /\ Confirming'
  BY Limits DEF Listening, Confirming
<1>4. Paid'
  BY <1>2, Limits DEF Paid
<1>5. FromTheTop'
  <2>1. \A d \in Device : ~(d > NumDevices - 1)
    BY Devices DEF Device
  <2>2. QED
    BY <2>1 DEF FromTheTop
<1>6. QED
  BY <1>1, <1>3, <1>4, <1>5 DEF RegistInv

LEMMA RegistNextInv == RegistInv /\ RegistNext => RegistInv'
<1> SUFFICES ASSUME RegistInv, RegistNext PROVE RegistInv'
  OBVIOUS
<1>l. /\ RegistLimit \in Nat /\ RegistLimit >= 2
      /\ IdleLimit \in Nat \ {0} /\ IdlePackets \in Nat \ {0}
      /\ Retry17 \in Nat \ {0} /\ ListenNum \in Nat \ {0}
  BY Limits
<1>t. /\ size \in Device \union {-1} /\ regist_num \in 1..RegistLimit
      /\ requests \in [Device -> Nat] /\ confirms \in Nat
      /\ state # "Failed" => size \in Device
  BY DEF RegistInv, RegistTypeOK
<1>1. CASE SelectChannel
  <2>1. /\ state = "SelectChannel" /\ size \in Device
        /\ requests[size] = regist_num - 1 /\ confirms = 0
        /\ UNCHANGED <<retry, listen_num, id, enabled, requests, confirms>>
        /\ enabled = {}
    BY <1>1, <1>t DEF SelectChannel, RegistInv, Paid, Confirming
  <2>2. CASE regist_num = RegistLimit
    <3>1. size' = size - 1 /\ regist_num' = 1 /\ size' \in Device \union {-1}
      BY <1>1, <2>1, <2>2, Devices DEF SelectChannel, NextDevice
    <3>2. FromTheTop'
      <4>1. ASSUME NEW d \in Device, d > size' PROVE requests[d] = RegistLimit - 1
        <5>1. d = size \/ d > size
          BY <2>1, <3>1, <4>1, Devices DEF Device
        <5>2. QED
          BY <2>1, <2>2, <5>1 DEF RegistInv, FromTheTop
      <4>2. ASSUME NEW d \in Device, d < size' PROVE requests[d] = 0
        <5>1. d < size
          BY <2>1, <3>1, <4>2, Devices DEF Device
        <5>2. QED
          BY <5>1 DEF RegistInv, FromTheTop
      <4>3. QED
        BY <2>1, <4>1, <4>2 DEF FromTheTop
    <3>3. CASE size' < 0
      <4>1. size' = -1 /\ state' = "Failed" /\ UNCHANGED <<select_num, myCount>>
        BY <1>1, <3>1, <3>3, Devices DEF SelectChannel
      <4>2. RegistTypeOK'
        BY <1>l, <2>1, <3>1, <4>1 DEF RegistInv, RegistTypeOK
      <4>3. Listening' /\ Paid' /\ Confirming'
        BY <2>1, <3>1, <4>1 DEF Listening, Paid, Confirming
      <4>4. QED
        BY <3>2, <4>2, <4>3 DEF RegistInv
    <3>4. CASE ~(size' < 0)
      <4>1. /\ size' \in Device /\ size' < size
            /\ state' = "WaitForIdle" /\ select_num' = 1 /\ myCount' = 0
        BY <1>1, <2>1, <3>1, <3>4, Devices DEF SelectChannel, Device
      <4>2. requests'[size'] = 0
        BY <2>1, <4>1 DEF RegistInv, FromTheTop
      <4>3. RegistTypeOK'
        BY <1>l, <2>1, <3>1, <4>1, Devices DEF RegistInv, RegistTypeOK
      <4>4. Listening' /\ Paid' /\ Confirming'
        BY <1>l, <2>1, <3>1, <4>1, <4>2 DEF Listening, Paid, Confirming
      <4>5. QED
        BY <3>2, <4>3, <4>4 DEF RegistInv
    <3>5. QED
      BY <3>3, <3>4
  <2>3. CASE regist_num # RegistLimit
    <3>1. /\ UNCHANGED <<size, regist_num>>
          /\ state' = "WaitForIdle" /\ select_num' = 1 /\ myCount' = 0
      BY <1>1, <2>1, <2>3, Devices DEF SelectChannel, NextDevice
    <3>2. RegistTypeOK'
      BY <1>l, <2>1, <3>1, Devices DEF RegistInv, RegistTypeOK
    <3>3. Listening' /\ Paid' /\ FromTheTop' /\ Confirming'
      BY <1>l, <1>t, <2>1, <2>3, <3>1 DEF RegistInv, Listening, Paid, FromTheTop, Confirming
    <3>4. QED
      BY <3>2, <3>3 DEF RegistInv
  <2>4. QED
    BY <2>2, <2>3
<1>2. ASSUME NEW o \in Heard, ListenIdle(o) PROVE RegistInv'
  <2>1. /\ state = "WaitForIdle" /\ size \in Device /\ enabled = {}
        /\ myCount < IdleLimit /\ select_num <= myCount + 1
        /\ myCount \in Nat /\ select_num \in Nat /\ select_num >= 1
    BY <1>2, <1>t DEF ListenIdle, RegistInv, RegistTypeOK, Listening, Confirming
  <2>2. /\ myCount' = myCount + 1
        /\ select_num' = select_num \/ select_num' = select_num + 1
        /\ \/ state' = "Failed"
           \/ state' = "SendRegister"
           \/ state' = "WaitForIdle" /\ myCount' < IdleLimit
        /\ UNCHANGED <<size, regist_num, retry, listen_num, id, enabled, requests, confirms>>
    BY <1>2, <1>l, <2>1 DEF ListenIdle
  <2>3. RegistTypeOK'
    BY <1>l, <2>1, <2>2 DEF RegistInv, RegistTypeOK
  <2>4. Listening' /\ FromTheTop' /\ Confirming'
    BY <2>1, <2>2 DEF RegistInv, Listening, FromTheTop, Confirming
  <2>5. Paid'
    BY <1>l, <1>t, <2>1, <2>2 DEF RegistInv, Paid
  <2>6. QED
    BY <2>3, <2>4, <2>5 DEF RegistInv
<1>3. ASSUME NEW ok \in BOOLEAN, SendRegister(ok) PROVE RegistInv'
  <2>1. /\ state = "SendRegister" /\ size \in Device /\ enabled = {}
        /\ requests[size] = regist_num - 1 /\ confirms = 0 /\ regist_num < RegistLimit
        /\ requests' = [requests EXCEPT ![size] = @ + 1]
        /\ UNCHANGED <<size, myCount, listen_num, id, enabled, confirms>>
    BY <1>3, <1>t DEF SendRegister, RegistInv, Paid, Confirming
  <2>2. /\ requests' \in [Device -> Nat] /\ requests'[size] = regist_num
        /\ \A d \in Device : d # size => requests'[d] = requests[d]
    BY <1>t, <2>1
  <2>3. FromTheTop'
    BY <2>1, <2>2, Devices DEF RegistInv, FromTheTop
  <2>4. \/ /\ state' = "WaitFor17" /\ retry' = Retry17
           /\ UNCHANGED <<select_num, regist_num>>
        \/ /\ state' = "SelectChannel" /\ select_num' = 1 /\ regist_num' = regist_num + 1
           /\ UNCHANGED retry
    BY <1>3 DEF SendRegister, TryAgain
  <2>5. RegistTypeOK'
    BY <1>l, <1>t, <2>1, <2>2, <2>4 DEF RegistInv, RegistTypeOK
  <2>6. Listening' /\ Confirming'
    BY <2>1, <2>4 DEF Listening, Confirming
  <2>7. Paid'
    BY <1>l, <1>t, <2>1, <2>2, <2>4 DEF Paid
  <2>8. QED
    BY <2>3, <2>5, <2>6, <2>7 DEF RegistInv
<1>4. ASSUME NEW answer \in {"nothing", "FF", "01"}, Listen17(answer) PROVE RegistInv'
  <2>1. /\ state = "WaitFor17" /\ retry' \in 0..Retry17 /\ id' \in {"FF", "01"}
        /\ UNCHANGED <<state, size, regist_num, select_num, myCount, listen_num,
                       enabled, requests, confirms>>
    BY <1>4, <1>l DEF Listen17, history, RegistInv, RegistTypeOK
  <2>2. QED
    BY <2>1 DEF RegistInv, RegistTypeOK, Listening, Paid, FromTheTop, Confirming
<1>5. CASE Judge17
  <2>1. /\ state = "WaitFor17" /\ size \in Device /\ enabled = {}
        /\ requests[size] = regist_num /\ confirms = 0 /\ regist_num < RegistLimit
        /\ UNCHANGED <<size, myCount, retry, listen_num, id, enabled, requests, confirms>>
    BY <1>5, <1>t DEF Judge17, history, RegistInv, Paid, Confirming
  <2>2. \/ id # "FF" /\ state' = "SendConfirm" /\ UNCHANGED <<select_num, regist_num>>
        \/ state' = "SelectChannel" /\ select_num' = 1 /\ regist_num' = regist_num + 1
    BY <1>5 DEF Judge17, TryAgain
  <2>3. RegistTypeOK'
    BY <1>l, <1>t, <2>1, <2>2 DEF RegistInv, RegistTypeOK
  <2>4. Listening' /\ FromTheTop' /\ Confirming'
    BY <1>t, <2>1, <2>2 DEF RegistInv, Listening, FromTheTop, Confirming
  <2>5. Paid'
    BY <1>l, <1>t, <2>1, <2>2 DEF Paid
  <2>6. QED
    BY <2>3, <2>4, <2>5 DEF RegistInv
<1>6. CASE SendConfirm
  <2>1. /\ state = "SendConfirm" /\ size \in Device /\ enabled = {}
        /\ requests[size] + confirms = regist_num /\ regist_num < RegistLimit
        /\ id # "FF" /\ requests[size] > 0
        /\ confirms' = confirms + 1 /\ listen_num' = ListenNum
        /\ state' = "WaitForTimestamp"
        /\ UNCHANGED <<size, regist_num, select_num, myCount, retry, id, enabled, requests>>
    BY <1>6, <1>t DEF SendConfirm, RegistInv, Paid, Confirming
  <2>2. RegistTypeOK'
    BY <1>l, <1>t, <2>1 DEF RegistInv, RegistTypeOK
  <2>3. Listening' /\ FromTheTop' /\ Confirming'
    BY <1>t, <2>1 DEF RegistInv, Listening, FromTheTop, Confirming
  <2>4. Paid'
    <3>1. requests[size] \in Nat
      BY <1>t, <2>1
    <3>2. requests'[size'] + confirms' = regist_num' + 1
      BY <1>t, <2>1, <3>1
    <3>3. QED
      BY <2>1, <3>2 DEF Paid
  <2>5. QED
    BY <2>2, <2>3, <2>4 DEF RegistInv
<1>7. ASSUME NEW valid \in BOOLEAN, ListenTimestamp(valid) PROVE RegistInv'
  <2>1. /\ state = "WaitForTimestamp" /\ size \in Device /\ enabled = {}
        /\ listen_num' \in 0..ListenNum
        /\ \/ state' = "Success" /\ enabled' = {size}
           \/ UNCHANGED <<state, enabled>>
        /\ UNCHANGED <<size, regist_num, select_num, myCount, retry, id, requests, confirms>>
    BY <1>7, <1>t, <1>l DEF ListenTimestamp, history, RegistInv, RegistTypeOK, Confirming
  <2>2. RegistTypeOK'
    BY <2>1 DEF RegistInv, RegistTypeOK
  <2>3. Listening' /\ FromTheTop' /\ Confirming' /\ Paid'
    BY <2>1 DEF RegistInv, Listening, FromTheTop, Confirming, Paid
  <2>4. QED
    BY <2>2, <2>3 DEF RegistInv
<1>8. CASE JudgeTimestamp
  <2>1. /\ state = "WaitForTimestamp" /\ size \in Device /\ enabled = {}
        /\ requests[size] + confirms = regist_num + 1 /\ regist_num < RegistLimit
        /\ requests[size] > 0 /\ id # "FF" /\ confirms > 0
        /\ regist_num' = regist_num + 1
        /\ \/ state' = "Failed" /\ UNCHANGED listen_num
           \/ state' = "SendConfirm" /\ listen_num' = ListenNum /\ ~(regist_num' >= RegistLimit)
        /\ UNCHANGED <<size, select_num, myCount, retry, id, enabled, requests, confirms>>
    BY <1>8, <1>t DEF JudgeTimestamp, history, RegistInv, Paid, Confirming
  <2>2. requests[size] \in Nat
    BY <1>t, <2>1
  <2>3. RegistTypeOK'
    BY <1>l, <1>t, <2>1 DEF RegistInv, RegistTypeOK
  <2>4. Listening' /\ FromTheTop' /\ Confirming'
    BY <2>1 DEF RegistInv, Listening, FromTheTop, Confirming
  <2>5. Paid'
    BY <1>l, <1>t, <2>1, <2>2 DEF Paid
  <2>6. QED
    BY <2>3, <2>4, <2>5 DEF RegistInv
<1>9. QED
  BY <1>1, <1>2, <1>3, <1>4, <1>5, <1>6, <1>7, <1>8 DEF RegistNext

-----------------------------------------------------------------------------
(* The inductive invariant of main and its handlers. *)

Top == stack[Len(stack)]

(* Every handler on the stack is there for a signal of its own.             *)
Stacked == Len(stack) <= signals

(* How far the handler that runs has brought the file.                      *)
Handling ==
  stack # <<>> =>
    /\ Top = "write" => fdWatch
    /\ Top = "truncate" => fdWatch /\ file # <<>> /\ file[1] = 0
    /\ (Top = "exit" /\ fdWatch) => file = Zero

(* The descriptor is stored after open.                                     *)
Stored == pc \in {"sigaction", "open", "assign"} => ~fdWatch

(* From the pid on, and until main gives up, the file names this process.   *)
Named ==
  (/\ pc \in {"gps", "devices", "register", "join", "load", "ship", "trans", "pause"}
   /\ fdWatch /\ stack = <<>>) => file = Pid(run)

(* When main has given up, the file holds "0".                              *)
GivenUp == (pc = "return" /\ writable /\ stack = <<>>) => file = Zero

(* TypeOK without the registration, its sequences as members of Seq.        *)
FileOK(s) == s \in Seq(0..MaxRun) /\ Len(s) <= 2

StackOK(s) == s \in Seq({"write", "truncate", "exit"})

BootOK ==
  /\ run \in 1..MaxRun
  /\ pc \in Place
  /\ handlers \in BOOLEAN /\ fdWatch \in BOOLEAN /\ writable \in BOOLEAN
  /\ FileOK(file) /\ StackOK(stack)
  /\ signals \in 0..MaxSignals
  /\ started \subseteq
       {"gps", "device_regist", "softwarewd", "ship_data", "trans_message"}
  /\ gone \in {"", "killed", "returned", "handled", "unrecorded"}

Inv ==
  /\ RegistInv /\ BootOK
  /\ Stacked /\ Handling /\ Stored /\ Named /\ GivenUp /\ ZeroWhenStopped

(* The sequences of at most m elements, as TypeOK writes them.              *)
LEMMA Bounded ==
  ASSUME NEW S, NEW m \in Nat, NEW s \in Seq(S), Len(s) <= m
  PROVE  s \in UNION {[1..n -> S] : n \in 0..m}
<1>1. Len(s) \in Nat /\ s \in [1..Len(s) -> S]
  BY LenProperties
<1>2. Len(s) \in 0..m
  BY <1>1
<1>3. QED
  BY <1>1, <1>2

LEMMA Bounds == MaxRun \in Nat \ {0} /\ MaxSignals \in Nat
BY StartupAssumption DEF StartupAssumption

LEMMA InvIsTyped == Inv => TypeOK
<1> SUFFICES ASSUME Inv PROVE TypeOK
  OBVIOUS
<1>1. Len(stack) \in Nat /\ Len(stack) <= MaxSignals
  <2>1. stack \in Seq({"write", "truncate", "exit"}) /\ Len(stack) <= signals
        /\ signals \in 0..MaxSignals
    BY DEF Inv, BootOK, Stacked, StackOK
  <2>2. Len(stack) \in Nat
    BY <2>1, LenProperties
  <2>3. QED
    BY <2>1, <2>2, Bounds
<1>2. stack \in UNION {[1..n -> {"write", "truncate", "exit"}] : n \in 0..MaxSignals}
  BY <1>1, Bounded, Bounds DEF Inv, BootOK, StackOK
<1>3. file \in UNION {[1..n -> 0..MaxRun] : n \in 0..2}
  BY Bounded DEF Inv, BootOK, FileOK
<1>4. QED
  BY <1>2, <1>3 DEF Inv, BootOK, RegistInv, TypeOK

(* What a process can leave in the file.                                    *)
LEMMA Contents ==
  FileOK(<<>>) /\ FileOK(Zero) /\ \A r \in 1..MaxRun : FileOK(Pid(r))
<1>1. <<>> \in Seq(0..MaxRun) /\ Len(<<>>) = 0
  BY EmptySeq
<1>2. Zero \in Seq(0..MaxRun) /\ Len(Zero) = 1
  BY Bounds DEF Zero
<1>3. \A r \in 1..MaxRun : Pid(r) \in Seq(0..MaxRun) /\ Len(Pid(r)) = 2
  BY Bounds DEF Pid
<1>4. FileOK(<<>>)
  BY <1>1 DEF FileOK
<1>5. FileOK(Zero)
  BY <1>2 DEF FileOK
<1>6. ASSUME NEW r \in 1..MaxRun PROVE FileOK(Pid(r))
  <2>1. Pid(r) \in Seq(0..MaxRun) /\ Len(Pid(r)) = 2
    BY <1>3
  <2>2. QED
    BY <2>1 DEF FileOK
<1>7. QED
  BY <1>4, <1>5, <1>6

LEMMA ZeroIs == Len(Zero) = 1 /\ Zero # <<>> /\ Zero[1] = 0
BY DEF Zero

LEMMA NoHandlers == StackOK(<<>>) /\ Len(<<>>) = 0
BY EmptySeq DEF StackOK

LEMMA RegistStays == RegistInv /\ UNCHANGED regist => RegistInv'
BY DEF regist, counters, history, RegistInv, RegistTypeOK, Listening, Paid,
       FromTheTop, Confirming

LEMMA InitInv == Init => Inv
<1> SUFFICES ASSUME Init PROVE Inv
  OBVIOUS
<1>1. RegistInv
  BY RegistInitInv DEF Init
<1>2. /\ run = 1 /\ pc = "sigaction" /\ handlers = FALSE /\ fdWatch = FALSE
      /\ stack = <<>> /\ signals = 0 /\ started = {} /\ gone = ""
      /\ file \in {<<>>, Zero}
  BY DEF Init
<1>3. BootOK
  <2>1. writable \in BOOLEAN
    BY StartupAssumption DEF Init, StartupAssumption
  <2>2. FileOK(file)
    BY <1>2, Contents
  <2>3. StackOK(stack)
    BY <1>2, NoHandlers, Zenon
  <2>4. signals \in 0..MaxSignals /\ run \in 1..MaxRun
    <3>1. signals = 0 /\ run = 1
      BY <1>2
    <3>2. QED
      BY <3>1, Bounds
  <2>5. QED
    BY <1>2, <2>1, <2>2, <2>3, <2>4 DEF BootOK, Place
<1>4. Stacked
  <2>1. Len(stack) = 0
    BY <1>2, NoHandlers, Zenon
  <2>2. signals = 0
    BY <1>2
  <2>3. QED
    BY <2>1, <2>2 DEF Stacked
<1>5. Handling /\ Stored /\ Named /\ GivenUp /\ ZeroWhenStopped
  BY <1>2 DEF Handling, Stored, Named, GivenUp, ZeroWhenStopped
<1>6. QED
  BY <1>1, <1>3, <1>4, <1>5 DEF Inv

(* A step of main finds no handler and leaves none.                         *)
LEMMA MainStepInv == Inv /\ MainStep => Inv'
<1> SUFFICES ASSUME Inv, MainStep PROVE Inv'
  OBVIOUS
<1>1. /\ gone = "" /\ stack = <<>>
      /\ UNCHANGED <<run, writable, stack, signals>> /\ UNCHANGED regist
  BY DEF MainStep, InstallHandlers, OpenWatch, OpenFails, AssignWatch, WritePid,
         StartGps, InitDevices, StartRegistration, RegistrationNotCreated,
         JoinRegistration, LoadStore, StartShip, StartTrans, Rewrite, RewriteFails,
         RewriteZero, Return, Main
<1>2. RegistInv' /\ Stacked' /\ Handling'
  BY <1>1, RegistStays DEF Inv, Stacked, Handling
<1>3. ASSUME BootOK', Stored', Named', GivenUp', ZeroWhenStopped' PROVE Inv'
  BY <1>2, <1>3 DEF Inv
<1>b. BootOK /\ Stored /\ Named /\ GivenUp
  BY DEF Inv
<1> USE DEF Main
<1>4. CASE InstallHandlers
  <2>1. BootOK'
    BY <1>b, <1>4, Contents DEF InstallHandlers, BootOK, Place
  <2>2. Stored' /\ Named' /\ GivenUp' /\ ZeroWhenStopped'
    BY <1>b, <1>1, <1>4 DEF InstallHandlers, Stored, Named, GivenUp, ZeroWhenStopped
  <2>3. QED
    BY <1>3, <2>1, <2>2
<1>5. CASE OpenWatch
  <2>1. BootOK'
    BY <1>b, <1>5, Contents DEF OpenWatch, BootOK, Place
  <2>2. Stored' /\ Named' /\ GivenUp' /\ ZeroWhenStopped'
    BY <1>b, <1>1, <1>5 DEF OpenWatch, Stored, Named, GivenUp, ZeroWhenStopped
  <2>3. QED
    BY <1>3, <2>1, <2>2
<1>6. CASE OpenFails
  <2>1. BootOK'
    BY <1>b, <1>6, Contents DEF OpenFails, BootOK, Place
  <2>2. Stored' /\ Named' /\ GivenUp' /\ ZeroWhenStopped'
    BY <1>b, <1>1, <1>6 DEF OpenFails, Stored, Named, GivenUp, ZeroWhenStopped
  <2>3. QED
    BY <1>3, <2>1, <2>2
<1>7. CASE AssignWatch
  <2>1. BootOK'
    BY <1>b, <1>7, Contents DEF AssignWatch, BootOK, Place
  <2>2. Stored' /\ Named' /\ GivenUp' /\ ZeroWhenStopped'
    BY <1>b, <1>1, <1>7 DEF AssignWatch, Stored, Named, GivenUp, ZeroWhenStopped
  <2>3. QED
    BY <1>3, <2>1, <2>2
<1>8. CASE WritePid
  <2>1. BootOK'
    BY <1>b, <1>8, Contents DEF WritePid, BootOK, Place
  <2>2. Stored' /\ Named' /\ GivenUp' /\ ZeroWhenStopped'
    BY <1>b, <1>1, <1>8 DEF WritePid, Stored, Named, GivenUp, ZeroWhenStopped
  <2>3. QED
    BY <1>3, <2>1, <2>2
<1>9. CASE StartGps
  <2>1. BootOK'
    BY <1>b, <1>9, Contents DEF StartGps, BootOK, Place
  <2>2. Stored' /\ Named' /\ GivenUp' /\ ZeroWhenStopped'
    BY <1>b, <1>1, <1>9 DEF StartGps, Stored, Named, GivenUp, ZeroWhenStopped
  <2>3. QED
    BY <1>3, <2>1, <2>2
<1>10. CASE StartRegistration
  <2>1. BootOK'
    BY <1>b, <1>10, Contents DEF StartRegistration, BootOK, Place
  <2>2. Stored' /\ Named' /\ GivenUp' /\ ZeroWhenStopped'
    BY <1>b, <1>1, <1>10 DEF StartRegistration, Stored, Named, GivenUp, ZeroWhenStopped
  <2>3. QED
    BY <1>3, <2>1, <2>2
<1>11. CASE RegistrationNotCreated
  <2>1. BootOK'
    BY <1>b, <1>11, Contents DEF RegistrationNotCreated, BootOK, Place
  <2>2. Stored' /\ Named' /\ GivenUp' /\ ZeroWhenStopped'
    BY <1>b, <1>1, <1>11 DEF RegistrationNotCreated, Stored, Named, GivenUp, ZeroWhenStopped
  <2>3. QED
    BY <1>3, <2>1, <2>2
<1>12. CASE JoinRegistration
  <2>1. BootOK'
    BY <1>b, <1>12, Contents DEF JoinRegistration, BootOK, Place
  <2>2. Stored' /\ Named' /\ GivenUp' /\ ZeroWhenStopped'
    BY <1>b, <1>1, <1>12 DEF JoinRegistration, Stored, Named, GivenUp, ZeroWhenStopped
  <2>3. QED
    BY <1>3, <2>1, <2>2
<1>13. CASE LoadStore
  <2>1. BootOK'
    BY <1>b, <1>13, Contents DEF LoadStore, BootOK, Place
  <2>2. Stored' /\ Named' /\ GivenUp' /\ ZeroWhenStopped'
    BY <1>b, <1>1, <1>13 DEF LoadStore, Stored, Named, GivenUp, ZeroWhenStopped
  <2>3. QED
    BY <1>3, <2>1, <2>2
<1>14. CASE StartShip
  <2>1. BootOK'
    BY <1>b, <1>14, Contents DEF StartShip, BootOK, Place
  <2>2. Stored' /\ Named' /\ GivenUp' /\ ZeroWhenStopped'
    BY <1>b, <1>1, <1>14 DEF StartShip, Stored, Named, GivenUp, ZeroWhenStopped
  <2>3. QED
    BY <1>3, <2>1, <2>2
<1>15. CASE StartTrans
  <2>1. BootOK'
    BY <1>b, <1>15, Contents DEF StartTrans, BootOK, Place
  <2>2. Stored' /\ Named' /\ GivenUp' /\ ZeroWhenStopped'
    BY <1>b, <1>1, <1>15 DEF StartTrans, Stored, Named, GivenUp, ZeroWhenStopped
  <2>3. QED
    BY <1>3, <2>1, <2>2
<1>16. CASE Rewrite
  <2>1. BootOK'
    BY <1>b, <1>16, Contents DEF Rewrite, BootOK, Place
  <2>2. Stored' /\ Named' /\ GivenUp' /\ ZeroWhenStopped'
    BY <1>b, <1>1, <1>16 DEF Rewrite, Stored, Named, GivenUp, ZeroWhenStopped
  <2>3. QED
    BY <1>3, <2>1, <2>2
<1>17. CASE RewriteFails
  <2>1. BootOK'
    BY <1>b, <1>17, Contents DEF RewriteFails, BootOK, Place
  <2>2. Stored' /\ Named' /\ GivenUp' /\ ZeroWhenStopped'
    <3>1. ~writable
      BY <1>17 DEF RewriteFails
    <3>2. ~writable'
      BY <1>1, <3>1, Zenon
    <3>3. pc' = "return" /\ gone' = ""
      BY <1>1, <1>17 DEF RewriteFails
    <3>4. QED
      BY <3>2, <3>3 DEF Stored, Named, GivenUp, ZeroWhenStopped
  <2>3. QED
    BY <1>3, <2>1, <2>2
<1>18. CASE RewriteZero
  <2>1. BootOK'
    BY <1>b, <1>18, Contents DEF RewriteZero, BootOK, Place
  <2>2. Stored' /\ Named' /\ GivenUp' /\ ZeroWhenStopped'
    BY <1>b, <1>1, <1>18 DEF RewriteZero, Stored, Named, GivenUp, ZeroWhenStopped
  <2>3. QED
    BY <1>3, <2>1, <2>2
<1>19. CASE Return
  <2>1. BootOK'
    BY <1>b, <1>19, Contents DEF Return, BootOK, Place
  <2>2. Stored' /\ Named' /\ GivenUp' /\ ZeroWhenStopped'
    <3>1. pc = "return" /\ pc' = "return" /\ file' = file
      BY <1>19 DEF Return
    <3>2. writable' => file' = Zero
      BY <1>b, <1>1, <3>1 DEF GivenUp
    <3>3. QED
      BY <3>1, <3>2 DEF Stored, Named, GivenUp, ZeroWhenStopped
  <2>3. QED
    BY <1>3, <2>1, <2>2
<1>20. ASSUME NEW ok \in BOOLEAN, InitDevices(ok) PROVE Inv'
  <2>1. BootOK'
    BY <1>b, <1>20 DEF InitDevices, BootOK, Place
  <2>2. Stored' /\ Named' /\ GivenUp' /\ ZeroWhenStopped'
    BY <1>b, <1>1, <1>20 DEF InitDevices, Stored, Named, GivenUp, ZeroWhenStopped
  <2>3. QED
    BY <1>3, <2>1, <2>2
<1>21. QED
  BY <1>4, <1>5, <1>6, <1>7, <1>8, <1>9, <1>10, <1>11, <1>12, <1>13, <1>14, <1>15,
     <1>16, <1>17, <1>18, <1>19, <1>20 DEF MainStep

(* A signal puts one handler on the stack, or ends the process.             *)
LEMMA SignalInv == Inv /\ Signal => Inv'
<1> SUFFICES ASSUME Inv, Signal PROVE Inv'
  OBVIOUS
<1> DEFINE h == IF fdWatch THEN "write" ELSE "exit"
<1>1. /\ gone = "" /\ signals < MaxSignals /\ signals' = signals + 1
      /\ UNCHANGED <<run, pc, handlers, fdWatch, file, started, writable>>
      /\ UNCHANGED regist
      /\ \/ stack' = Append(stack, h) /\ gone' = gone
         \/ stack' = stack /\ gone' = "killed"
  BY DEF Signal
<1>2. /\ stack \in Seq({"write", "truncate", "exit"}) /\ h \in {"write", "truncate", "exit"}
  BY DEF Inv, BootOK, StackOK
<1>n. Len(stack) \in Nat /\ Len(stack) <= signals /\ signals \in 0..MaxSignals
  BY <1>2, LenProperties DEF Inv, BootOK, Stacked
<1>r. RegistInv'
  BY <1>1, RegistStays DEF Inv
<1>s. signals' \in 0..MaxSignals
  <2>1. signals < MaxSignals /\ signals' = signals + 1
    BY <1>1
  <2>2. QED
    BY <1>n, <2>1, Bounds
<1>3. CASE stack' = Append(stack, h) /\ gone' = gone
  <2>1. /\ stack' \in Seq({"write", "truncate", "exit"}) /\ stack' # <<>>
        /\ Len(stack') = Len(stack) + 1 /\ stack'[Len(stack) + 1] = h
    BY <1>2, <1>3, AppendProperties
  <2>2. BootOK'
    <3>1. StackOK(stack')
      BY <2>1 DEF StackOK
    <3>2. QED
      BY <1>1, <1>3, <1>s, <3>1 DEF Inv, BootOK
  <2>3. Stacked'
    <3>1. signals' = signals + 1 /\ Len(stack') = Len(stack) + 1
      BY <1>1, <2>1
    <3>2. QED
      BY <1>n, <3>1 DEF Stacked
  <2>4. Top' = h
    BY <2>1 DEF Top
  <2>5. Handling'
    BY <1>1, <2>4 DEF Handling
  <2>6. Stored' /\ Named' /\ GivenUp' /\ ZeroWhenStopped'
    BY <1>1, <1>3, <2>1 DEF Inv, Stored, Named, GivenUp, ZeroWhenStopped
  <2>7. QED
    BY <1>r, <2>2, <2>3, <2>5, <2>6 DEF Inv
<1>4. CASE stack' = stack /\ gone' = "killed"
  <2>1. BootOK'
    BY <1>1, <1>4, <1>s DEF Inv, BootOK
  <2>2. Stacked'
    <3>1. signals' = signals + 1 /\ stack' = stack
      BY <1>1, <1>4
    <3>2. QED
      BY <1>n, <3>1 DEF Stacked
  <2>3. Handling' /\ Stored' /\ Named' /\ GivenUp' /\ ZeroWhenStopped'
    BY <1>1, <1>4 DEF Inv, Handling, Top, Stored, Named, GivenUp, ZeroWhenStopped
  <2>4. QED
    BY <1>r, <2>1, <2>2, <2>3 DEF Inv
<1>5. QED
  BY <1>1, <1>3, <1>4

(* Only the innermost handler runs, and the last one ends the process.      *)
LEMMA HandlerStepInv == Inv /\ HandlerStep => Inv'
<1> SUFFICES ASSUME Inv, HandlerStep PROVE Inv'
  OBVIOUS
<1> DEFINE Frame == {"write", "truncate", "exit"}
<1>1. /\ gone = "" /\ stack # <<>>
      /\ UNCHANGED <<run, pc, handlers, fdWatch, writable, signals, started>>
      /\ UNCHANGED regist
  BY DEF HandlerStep, HandlerWrites, HandlerTruncates, HandlerExits, Handler
<1>2. /\ stack \in Seq(Frame) /\ Len(stack) \in Nat \ {0} /\ Len(stack) <= signals
      /\ file \in Seq(0..MaxRun) /\ Len(file) <= 2 /\ Handling
  BY <1>1, EmptySeq DEF Inv, BootOK, Stacked, StackOK, FileOK
<1>r. RegistInv'
  BY <1>1, RegistStays DEF Inv
<1>t. ASSUME NEW to \in Frame, HandlerGoes(to)
      PROVE  stack' \in Seq(Frame) /\ Len(stack') = Len(stack) /\ stack' # <<>> /\ Top' = to
  <2>1. stack' = [stack EXCEPT ![Len(stack)] = to] /\ Len(stack) \in 1..Len(stack)
    BY <1>t, <1>2 DEF HandlerGoes
  <2>2. /\ stack' \in Seq(Frame) /\ Len(stack') = Len(stack)
        /\ stack'[Len(stack)] = to
    BY <1>2, <2>1, ExceptSeq
  <2>3. QED
    BY <1>2, <2>2, EmptySeq DEF Top
<1>3. CASE HandlerWrites
  <2>1. /\ Top = "write" /\ HandlerGoes("truncate") /\ gone' = gone
        /\ file' = IF file = <<>> THEN Zero ELSE [file EXCEPT ![1] = 0]
    BY <1>3 DEF HandlerWrites, Handler, Top
  <2>2. /\ stack' \in Seq(Frame) /\ Len(stack') = Len(stack) /\ stack' # <<>>
        /\ Top' = "truncate"
    BY <1>t, <2>1
  <2>3. /\ file' \in Seq(0..MaxRun) /\ Len(file') <= 2 /\ file' # <<>> /\ file'[1] = 0
    <3>1. CASE file = <<>>
      BY <2>1, <3>1, Contents, ZeroIs DEF FileOK
    <3>2. CASE file # <<>>
      <4>1. Len(file) \in Nat \ {0} /\ 1 \in 1..Len(file) /\ 0 \in 0..MaxRun
        BY <1>2, <3>2, EmptySeq, Bounds
      <4>2. file' = [file EXCEPT ![1] = 0]
        BY <2>1, <3>2
      <4>3. /\ file' \in Seq(0..MaxRun) /\ Len(file') = Len(file) /\ file'[1] = 0
        BY <1>2, <4>1, <4>2, ExceptSeq
      <4>4. file' # <<>>
        BY <4>1, <4>3, EmptySeq
      <4>5. QED
        BY <1>2, <4>3, <4>4
    <3>3. QED
      BY <3>1, <3>2
  <2>4. fdWatch
    BY <1>1, <1>2, <2>1 DEF Handling
  <2>5. BootOK'
    <3>1. StackOK(stack') /\ FileOK(file')
      BY <2>2, <2>3 DEF StackOK, FileOK
    <3>2. QED
      BY <1>1, <2>1, <3>1 DEF Inv, BootOK
  <2>6. Stacked' /\ Handling'
    BY <1>1, <1>2, <2>2, <2>3, <2>4 DEF Stacked, Handling
  <2>7. Stored' /\ Named' /\ GivenUp' /\ ZeroWhenStopped'
    BY <1>1, <2>1, <2>2 DEF Inv, Stored, Named, GivenUp, ZeroWhenStopped
  <2>8. QED
    BY <1>r, <2>5, <2>6, <2>7 DEF Inv
<1>4. CASE HandlerTruncates
  <2>1. /\ Top = "truncate" /\ HandlerGoes("exit") /\ gone' = gone
        /\ file' = SubSeq(file, 1, 1)
    BY <1>4 DEF HandlerTruncates, Handler, Top
  <2>2. /\ stack' \in Seq(Frame) /\ Len(stack') = Len(stack) /\ stack' # <<>>
        /\ Top' = "exit"
    BY <1>t, <2>1
  <2>3. fdWatch /\ file # <<>> /\ file[1] = 0
    BY <1>1, <1>2, <2>1 DEF Handling
  <2>4. file' = Zero
    <3>1. /\ \A i \in 1..1 : file[i] \in 0..MaxRun
      BY <2>3, Bounds
    <3>2. /\ file' \in Seq(0..MaxRun) /\ Len(file') = 1 /\ file'[1] = 0
      BY <2>1, <2>3, <3>1, SubSeqProperties
    <3>3. \A i \in 1..Len(file') : file'[i] = Zero[i]
      BY <3>2, ZeroIs
    <3>4. QED
      BY <3>2, <3>3, Contents, ZeroIs, SeqEqual DEF FileOK
  <2>5. BootOK'
    <3>1. StackOK(stack') /\ FileOK(file')
      BY <2>2, <2>4, Contents DEF StackOK
    <3>2. QED
      BY <1>1, <2>1, <3>1 DEF Inv, BootOK
  <2>6. Stacked' /\ Handling'
    BY <1>1, <1>2, <2>2, <2>4 DEF Stacked, Handling
  <2>7. Stored' /\ Named' /\ GivenUp' /\ ZeroWhenStopped'
    BY <1>1, <2>1, <2>2 DEF Inv, Stored, Named, GivenUp, ZeroWhenStopped
  <2>8. QED
    BY <1>r, <2>5, <2>6, <2>7 DEF Inv
<1>5. CASE HandlerExits
  <2>1. /\ Top = "exit" /\ UNCHANGED <<file, stack>>
        /\ gone' = IF fdWatch THEN "handled" ELSE "unrecorded"
    BY <1>5 DEF HandlerExits, Handler, Top
  <2>2. fdWatch => file = Zero
    BY <1>1, <1>2, <2>1 DEF Handling
  <2>3. BootOK'
    BY <1>1, <2>1 DEF Inv, BootOK
  <2>4. Stacked' /\ Handling' /\ Stored' /\ Named' /\ GivenUp'
    BY <1>1, <1>2, <2>1 DEF Inv, Stacked, Handling, Top, Stored, Named, GivenUp
  <2>5. ZeroWhenStopped'
    BY <2>1, <2>2 DEF ZeroWhenStopped
  <2>6. QED
    BY <1>r, <2>3, <2>4, <2>5 DEF Inv
<1>6. QED
  BY <1>3, <1>4, <1>5 DEF HandlerStep

(* The script's restart forgets everything but the file.                    *)
LEMMA RestartInv == Inv /\ Restart => Inv'
<1> SUFFICES ASSUME Inv, Restart PROVE Inv'
  OBVIOUS
<1>1. RegistInv'
  BY RegistStartsInv DEF Restart
<1>2. run' \in 1..MaxRun
  <2>1. run \in 1..MaxRun /\ run < MaxRun /\ run' = run + 1
    BY DEF Inv, BootOK, Restart
  <2>2. QED
    BY <2>1, Bounds
<1>3. /\ pc' = "sigaction" /\ handlers' = FALSE /\ fdWatch' = FALSE
      /\ stack' = <<>> /\ signals' = 0 /\ started' = {} /\ gone' = ""
      /\ UNCHANGED <<file, writable>>
  BY DEF Restart
<1>4. BootOK'
  <2>1. StackOK(stack')
    BY <1>3, NoHandlers, Zenon
  <2>2. signals' \in 0..MaxSignals
    <3>1. signals' = 0
      BY <1>3
    <3>2. QED
      BY <3>1, Bounds
  <2>3. QED
    BY <1>2, <1>3, <2>1, <2>2 DEF Inv, BootOK, Place, FileOK
<1>5. Stacked' /\ Handling' /\ Stored' /\ Named' /\ GivenUp' /\ ZeroWhenStopped'
  <2>1. Stacked'
    <3>1. Len(stack') = 0
      BY <1>3, NoHandlers, Zenon
    <3>2. signals' = 0
      BY <1>3
    <3>3. QED
      BY <3>1, <3>2 DEF Stacked
  <2>2. QED
    BY <1>3, <2>1 DEF Handling, Stored, Named, GivenUp, ZeroWhenStopped
<1>6. QED
  BY <1>1, <1>4, <1>5 DEF Inv

LEMMA BootStays ==
  Inv /\ UNCHANGED boot =>
    BootOK' /\ Stacked' /\ Handling' /\ Stored' /\ Named' /\ GivenUp' /\ ZeroWhenStopped'
<1> SUFFICES ASSUME Inv, UNCHANGED boot
             PROVE  BootOK' /\ Stacked' /\ Handling' /\ Stored' /\ Named' /\ GivenUp'
                    /\ ZeroWhenStopped'
  OBVIOUS
<1>1. UNCHANGED <<run, pc, handlers, fdWatch, file, writable, stack, signals, started, gone>>
  BY DEF boot
<1>2. BootOK'
  BY <1>1 DEF Inv, BootOK, StackOK, FileOK
<1>3. Stacked' /\ Handling'
  BY <1>1 DEF Inv, Stacked, Handling, Top
<1>4. Stored' /\ Named' /\ GivenUp' /\ ZeroWhenStopped'
  BY <1>1 DEF Inv, Stored, Named, GivenUp, ZeroWhenStopped
<1>5. QED
  BY <1>2, <1>3, <1>4

LEMMA NextInv == Inv /\ [Next]_vars => Inv'
<1> SUFFICES ASSUME Inv, [Next]_vars PROVE Inv'
  OBVIOUS
<1>1. CASE MainStep
  BY <1>1, MainStepInv
<1>2. CASE Register
  <2>1. RegistInv'
    BY <1>2, RegistNextInv DEF Register, Inv
  <2>2. QED
    BY <1>2, <2>1, BootStays DEF Register, Inv
<1>3. CASE HandlerStep
  BY <1>3, HandlerStepInv
<1>4. CASE Signal
  BY <1>4, SignalInv
<1>5. CASE Restart
  BY <1>5, RestartInv
<1>6. CASE UNCHANGED vars
  BY <1>6, RegistStays, BootStays DEF vars, Inv
<1>7. QED
  BY <1>1, <1>2, <1>3, <1>4, <1>5, <1>6 DEF Next

LEMMA Inductive == Spec => []Inv
BY InitInv, NextInv, PTL DEF Spec

-----------------------------------------------------------------------------
(* Every variable of main, its handlers and the registration thread keeps   *)
(* its type; the stack of handlers is no deeper than the signals received.  *)
THEOREM TypeCorrect == Spec => []TypeOK
BY InvIsTyped, Inductive, PTL

(* A process that could not come up, or that a handled signal ended, leaves *)
(* exactly "0" in the watch file, through any nesting of handlers.          *)
THEOREM ZeroIsLeft == Spec => []ZeroWhenStopped
<1>1. Inv => ZeroWhenStopped
  BY DEF Inv
<1>2. QED
  BY <1>1, Inductive, PTL

(* While main waits undisturbed the file holds the pid of this incarnation. *)
THEOREM PidIsKept == Spec => []PidWhileRunning
<1>1. Inv => PidWhileRunning
  BY DEF Inv, Named, PidWhileRunning
<1>2. QED
  BY <1>1, Inductive, PTL

(* regist_num bounds the requests of every device, and the requests and     *)
(* confirms of the current one, for any RegistLimit and any answers.        *)
THEOREM BudgetIsShared == Spec => []SharedBudget
<1>1. RegistInv => SharedBudget
  <2> SUFFICES ASSUME RegistInv, NEW d \in Device
               PROVE  /\ requests[d] < RegistLimit
                      /\ d = size => requests[d] + confirms <= RegistLimit
                      /\ d > size => requests[d] = RegistLimit - 1
                      /\ d < size => requests[d] = 0
    BY DEF SharedBudget
  <2>1. /\ regist_num \in 1..RegistLimit /\ RegistLimit \in Nat /\ RegistLimit >= 2
        /\ requests \in [Device -> Nat] /\ confirms \in Nat /\ requests[d] \in Nat
        /\ size \in Device \union {-1} /\ (size = -1 => state = "Failed")
        /\ state \in {"SelectChannel", "WaitForIdle", "SendRegister", "WaitFor17",
                      "SendConfirm", "WaitForTimestamp", "Success", "Failed"}
    BY Limits DEF RegistInv, RegistTypeOK
  <2>2. d \in Int /\ size \in Int
    BY <2>1, Devices
  <2>3. CASE d > size
    BY <2>1, <2>2, <2>3 DEF RegistInv, FromTheTop
  <2>4. CASE d < size
    BY <2>1, <2>2, <2>4 DEF RegistInv, FromTheTop
  <2>5. CASE d = size
    <3>1. size # -1
      BY <2>5, Devices
    <3>2. requests[size] < RegistLimit /\ requests[size] + confirms <= RegistLimit
      <4>1. CASE state \in {"SelectChannel", "WaitForIdle", "SendRegister"}
        BY <2>1, <2>5, <4>1 DEF RegistInv, Paid
      <4>2. CASE state = "WaitFor17"
        BY <2>1, <2>5, <4>2 DEF RegistInv, Paid
      <4>3. CASE state = "SendConfirm"
        BY <2>1, <2>5, <4>3 DEF RegistInv, Paid
      <4>4. CASE state \in {"WaitForTimestamp", "Success"}
        <5>1. confirms > 0 /\ requests[size] + confirms = regist_num + 1
              /\ regist_num < RegistLimit
          BY <4>4 DEF RegistInv, Paid, Confirming
        <5>2. QED
          BY <2>1, <2>5, <5>1
      <4>5. CASE state = "Failed"
        BY <2>1, <2>5, <3>1, <4>5 DEF RegistInv, Paid
      <4>6. QED
        BY <2>1, <4>1, <4>2, <4>3, <4>4, <4>5
    <3>3. QED
      BY <2>5, <2>1, <2>2, <3>2
  <2>6. QED
    BY <2>2, <2>3, <2>4, <2>5
<1>2. Inv => SharedBudget
  BY <1>1 DEF Inv
<1>3. QED
  BY <1>2, Inductive, PTL

(* Only the device that registered is enabled, at the end, under an         *)
(* identity the gateway assigned and after a confirm.                       *)
THEOREM OnlyRegisteredEnabled == Spec => []EnabledIsRegistered
<1>1. Inv => EnabledIsRegistered
  BY DEF Inv, RegistInv, Confirming, EnabledIsRegistered
<1>2. QED
  BY <1>1, Inductive, PTL

-----------------------------------------------------------------------------
(* The thread comes to its end. *)

(* Descent of four numbers, by the first that changes. *)
LEMMA FourGoDown ==
  ASSUME NEW a \in Nat, NEW b \in Nat, NEW c \in Nat, NEW d \in Nat,
         NEW a1 \in Nat, NEW b1 \in Nat, NEW c1 \in Nat, NEW d1 \in Nat,
         \/ a1 < a
         \/ a1 = a /\ b1 < b
         \/ a1 = a /\ b1 = b /\ c1 < c
         \/ a1 = a /\ b1 = b /\ c1 = c /\ d1 < d
  PROVE  GoesDown(<<a1, b1, c1, d1>>, <<a, b, c, d>>)
<1> DEFINE p == <<a1, b1, c1, d1>>
           q == <<a, b, c, d>>
<1>1. /\ DOMAIN q = 1..4 /\ q[1] = a /\ q[2] = b /\ q[3] = c /\ q[4] = d
      /\ p[1] = a1 /\ p[2] = b1 /\ p[3] = c1 /\ p[4] = d1
  OBVIOUS
<1> HIDE DEF p, q
<1>2. \A i \in 1..4 : i = 1 \/ i = 2 \/ i = 3 \/ i = 4
  OBVIOUS
<1>3. \A i \in 1..4 : p[i] \in Nat /\ q[i] \in Nat
  BY <1>1, <1>2
<1>4. ASSUME NEW i \in 1..4, p[i] < q[i], \A j \in 1..4 : j < i => p[j] = q[j]
      PROVE  GoesDown(p, q)
  <2>1. \A j \in 1..(i - 1) : j \in 1..4 /\ j < i
    OBVIOUS
  <2>2. LexLess(p, q)
    BY <1>1, <1>4, <2>1 DEF LexLess
  <2> QED  BY <1>1, <1>3, <2>2 DEF GoesDown
<1>5. \A j \in 1..4 : /\ ~(j < 1) /\ (j < 2 => j = 1) /\ (j < 3 => j \in {1, 2})
                     /\ (j < 4 => j \in {1, 2, 3})
  OBVIOUS
<1>6. \E i \in 1..4 : p[i] < q[i] /\ \A j \in 1..4 : j < i => p[j] = q[j]
  <2>1. CASE a1 < a
    BY <1>1, <1>5, <2>1
  <2>2. CASE a1 = a /\ b1 < b
    BY <1>1, <1>5, <2>2
  <2>3. CASE a1 = a /\ b1 = b /\ c1 < c
    BY <1>1, <1>5, <2>3
  <2>4. CASE a1 = a /\ b1 = b /\ c1 = c /\ d1 < d
    BY <1>1, <1>5, <2>4
  <2> QED  BY <2>1, <2>2, <2>3, <2>4
<1>7. GoesDown(p, q)
  BY <1>4, <1>6
<1> QED  BY <1>7 DEF p, q

LEMMA LeftDown ==
  ASSUME RegistInv, RegistInv', RegistNext
  PROVE  GoesDown(Left', Left)
<1>l. /\ RegistLimit \in Nat /\ RegistLimit >= 2
      /\ IdleLimit \in Nat \ {0} /\ Retry17 \in Nat \ {0} /\ ListenNum \in Nat \ {0}
  BY Limits
<1>d. \A d \in Device \union {-1} : d + 1 \in Nat /\ d \in Int
  BY Devices DEF Device
<1>t. /\ size \in Device \union {-1} /\ regist_num \in 1..RegistLimit
      /\ myCount \in 0..IdleLimit /\ retry \in 0..Retry17 /\ listen_num \in 0..ListenNum
  BY DEF RegistInv, RegistTypeOK
<1>u. /\ size' \in Device \union {-1} /\ regist_num' \in 1..RegistLimit
      /\ myCount' \in 0..IdleLimit /\ retry' \in 0..Retry17 /\ listen_num' \in 0..ListenNum
  BY DEF RegistInv, RegistTypeOK
<1>n. /\ size + 1 \in Nat /\ RegistLimit - regist_num \in Nat
      /\ size' + 1 \in Nat /\ RegistLimit - regist_num' \in Nat
  <2>1. size + 1 \in Nat /\ size' + 1 \in Nat
    BY <1>d, <1>t, <1>u
  <2>2. \A n \in 1..RegistLimit : RegistLimit - n \in Nat
    BY <1>l
  <2>3. QED
    BY <1>t, <1>u, <2>1, <2>2
<1>s. Stage \in Nat /\ Stage' \in Nat
  BY DEF Stage
<1>c. Listens \in Nat /\ Listens' \in Nat
  <2>1. \A n \in 0..IdleLimit : IdleLimit - n \in Nat
    BY <1>l
  <2>2. IdleLimit - myCount \in Nat /\ IdleLimit - myCount' \in Nat
    BY <1>t, <1>u, <2>1
  <2>3. retry \in Nat /\ retry' \in Nat /\ listen_num \in Nat /\ listen_num' \in Nat
    BY <1>t, <1>u
  <2>4. QED
    BY <2>2, <2>3 DEF Listens
<1> DEFINE Falls == \/ size' + 1 < size + 1
                    \/ size' = size /\ RegistLimit - regist_num' < RegistLimit - regist_num
                    \/ size' = size /\ regist_num' = regist_num /\ Stage' < Stage
                    \/ /\ size' = size /\ regist_num' = regist_num /\ Stage' = Stage
                       /\ Listens' < Listens
<1>f. SUFFICES Falls
  <2>1. ASSUME Falls PROVE GoesDown(Left', Left)
    BY <1>n, <1>s, <1>c, <2>1, FourGoDown DEF Left
  <2>2. QED
    BY <2>1
<1>1. CASE SelectChannel
  <2>1. CASE regist_num = RegistLimit
    <3>1. size' = size - 1
      BY <1>1, <2>1 DEF SelectChannel, NextDevice
    <3>2. QED
      BY <1>d, <1>t, <3>1
  <2>2. CASE regist_num # RegistLimit
    <3>1. size' = size /\ regist_num' = regist_num /\ state = "SelectChannel"
          /\ state' \in {"Failed", "WaitForIdle"}
      BY <1>1, <2>2 DEF SelectChannel, NextDevice
    <3>2. QED
      BY <3>1 DEF Stage
  <2>3. QED
    BY <2>1, <2>2
<1>2. ASSUME NEW o \in Heard, ListenIdle(o) PROVE Falls
  <2>1. /\ size' = size /\ regist_num' = regist_num /\ state = "WaitForIdle"
        /\ myCount' = myCount + 1 /\ state' \in {"Failed", "SendRegister", "WaitForIdle"}
    BY <1>2 DEF ListenIdle
  <2>2. CASE state' = "WaitForIdle"
    <3>1. Stage' = Stage
      BY <2>1, <2>2 DEF Stage
    <3>2. Listens = IdleLimit - myCount /\ Listens' = IdleLimit - myCount'
      BY <2>1, <2>2 DEF Listens
    <3>3. Listens' < Listens
      BY <1>l, <1>t, <2>1, <3>2
    <3>4. QED
      BY <2>1, <3>1, <3>3
  <2>3. CASE state' # "WaitForIdle"
    <3>1. Stage' < Stage
      BY <2>1, <2>3 DEF Stage
    <3>2. QED
      BY <2>1, <3>1
  <2>4. QED
    BY <2>2, <2>3
<1>3. ASSUME NEW ok \in BOOLEAN, SendRegister(ok) PROVE Falls
  <2>1. /\ size' = size /\ state = "SendRegister"
        /\ \/ state' = "WaitFor17" /\ regist_num' = regist_num
           \/ regist_num' = regist_num + 1
    BY <1>3 DEF SendRegister, TryAgain
  <2>2. QED
    BY <1>l, <1>t, <2>1 DEF Stage
<1>4. ASSUME NEW answer \in {"nothing", "FF", "01"}, Listen17(answer) PROVE Falls
  <2>1. /\ size' = size /\ regist_num' = regist_num
        /\ state = "WaitFor17" /\ state' = "WaitFor17" /\ retry' < retry
    BY <1>4, <1>t DEF Listen17
  <2>2. Stage' = Stage /\ Listens' = retry' /\ Listens = retry
    BY <2>1 DEF Stage, Listens
  <2>3. QED
    BY <2>1, <2>2
<1>5. CASE Judge17
  <2>1. /\ size' = size /\ state = "WaitFor17"
        /\ \/ state' = "SendConfirm" /\ regist_num' = regist_num
           \/ regist_num' = regist_num + 1
    BY <1>5 DEF Judge17, TryAgain
  <2>2. QED
    BY <1>l, <1>t, <2>1 DEF Stage
<1>6. CASE SendConfirm
  <2>1. /\ size' = size /\ regist_num' = regist_num
        /\ state = "SendConfirm" /\ state' = "WaitForTimestamp"
    BY <1>6 DEF SendConfirm
  <2>2. QED
    BY <2>1 DEF Stage
<1>7. ASSUME NEW valid \in BOOLEAN, ListenTimestamp(valid) PROVE Falls
  <2>1. /\ size' = size /\ regist_num' = regist_num /\ state = "WaitForTimestamp"
        /\ listen_num' = listen_num - 1 /\ state' \in {"WaitForTimestamp", "Success"}
    BY <1>7 DEF ListenTimestamp
  <2>2. CASE state' = "WaitForTimestamp"
    <3>1. Stage' = Stage /\ Listens' = listen_num' /\ Listens = listen_num
      BY <2>1, <2>2 DEF Stage, Listens
    <3>2. listen_num' < listen_num
      BY <1>t, <2>1
    <3>3. QED
      BY <2>1, <3>1, <3>2
  <2>3. CASE state' = "Success"
    <3>1. Stage' < Stage
      BY <2>1, <2>3 DEF Stage
    <3>2. QED
      BY <2>1, <3>1
  <2>4. QED
    BY <2>1, <2>2, <2>3
<1>8. CASE JudgeTimestamp
  <2>1. size' = size /\ regist_num' = regist_num + 1
    BY <1>8 DEF JudgeTimestamp
  <2>2. QED
    BY <1>l, <1>t, <2>1
<1>9. QED
  BY <1>1, <1>2, <1>3, <1>4, <1>5, <1>6, <1>7, <1>8 DEF RegistNext

(* The join of main comes back, as far as the thread decides it: whatever   *)
(* the gateway and the links answer, every step of device_regist brings it  *)
(* closer to one of its two ends, for any number of devices and any limits. *)
THEOREM AttemptsEnd == Spec => AttemptsRunOut
<1>1. Inv /\ Inv' => [RegistNext => GoesDown(Left', Left)]_regist
  BY LeftDown DEF Inv
<1>2. QED
  BY <1>1, Inductive, PTL DEF AttemptsRunOut

-----------------------------------------------------------------------------
(* A set of numbers that is not empty has a smallest one.                   *)
LEMMA Smallest ==
  ASSUME NEW S, S \subseteq Nat, S # {}
  PROVE  \E n \in S : \A k \in S : n <= k
<1> DEFINE Less == {p \in Nat \X Nat : p[1] < p[2]}
<1>1. IsWellFoundedOn(Less, Nat)
  BY NatLessThanWellFounded DEF OpToRel
<1>2. PICK n \in S : \A k \in S : <<k, n>> \notin Less
  BY <1>1, WFMin, Zenon
<1>3. ASSUME NEW k \in S PROVE n <= k
  <2>1. n \in Nat /\ k \in Nat
    OBVIOUS
  <2>2. <<k, n>>[1] = k /\ <<k, n>>[2] = n /\ <<k, n>> \in Nat \X Nat
    BY <2>1
  <2>3. ~ (k < n)
    BY <1>2, <2>2
  <2>4. QED
    BY <2>1, <2>3
<1>4. QED
  BY <1>3

(* Among some of the tuples, one whose i-th number is smallest.             *)
LEMMA SmallestAt ==
  ASSUME NEW f, NEW i, NEW S, S # {}, \A n \in S : f[n][i] \in Nat
  PROVE  \E n \in S : \A k \in S : f[n][i] <= f[k][i]
<1> DEFINE V == {f[n][i] : n \in S}
<1>1. V \subseteq Nat /\ V # {}
  OBVIOUS
<1>2. PICK v \in V : \A w \in V : v <= w
  <2> HIDE DEF V
  <2>1. QED
    BY <1>1, Smallest, Zenon
<1>3. QED
  BY <1>2

(* What AttemptsRunOut, and StrategiesRunOut for the bring-up, amount to:   *)
(* no endless sequence of steps of the thread has each of them go down, for *)
(* four numbers cannot go down lexicographically for ever, however much the *)
(* later ones grow again while an earlier one falls.                       *)
THEOREM DescentEnds ==
  ASSUME NEW left, \A n \in Nat : DOMAIN left[n] = 1..4
  PROVE  \E n \in Nat : ~ GoesDown(left[n + 1], left[n])
<1> SUFFICES ASSUME \A n \in Nat : GoesDown(left[n + 1], left[n]) PROVE FALSE
  OBVIOUS
<1>1. \A n \in Nat : \A i \in 1..4 : left[n][i] \in Nat
  BY DEF GoesDown
<1> DEFINE Least(i, S) == {n \in S : \A k \in S : left[n][i] <= left[k][i]}
           A == Least(1, Nat)
           B == Least(2, A)
           C == Least(3, B)
           D == Least(4, C)
<1>2. ASSUME NEW i \in 1..4, NEW S, S \subseteq Nat, S # {}
      PROVE  /\ Least(i, S) \subseteq S /\ Least(i, S) # {}
             /\ \A n \in Least(i, S) : \A k \in S :
                  /\ ~ (left[k][i] < left[n][i])
                  /\ left[k][i] = left[n][i] => k \in Least(i, S)
  <2>1. \A n \in S : left[n][i] \in Nat
    BY <1>1, <1>2
  <2>2. \E n \in S : \A k \in S : left[n][i] <= left[k][i]
    BY <1>2, <2>1, SmallestAt
  <2>3. QED
    BY <2>1, <2>2
<1> HIDE DEF Least
<1>3. 1 \in 1..4 /\ 2 \in 1..4 /\ 3 \in 1..4 /\ 4 \in 1..4
  OBVIOUS
<1>4. A \subseteq Nat /\ A # {}
  BY <1>2, <1>3
<1>5. B \subseteq A /\ B # {}
  BY <1>2, <1>3, <1>4
<1>6. C \subseteq B /\ C # {}
  BY <1>2, <1>3, <1>4, <1>5
<1>7. D \subseteq C /\ D # {}
  BY <1>2, <1>3, <1>4, <1>5, <1>6
<1>8. PICK n : n \in D
  BY <1>7
<1>9. n \in C /\ n \in B /\ n \in A /\ n \in Nat /\ n + 1 \in Nat
  BY <1>4, <1>5, <1>6, <1>7, <1>8
<1>10. PICK i \in 1..4 : /\ left[n + 1][i] < left[n][i]
                         /\ \A j \in 1..(i - 1) : left[n + 1][j] = left[n][j]
  BY <1>9 DEF GoesDown, LexLess
<1>11. CASE i = 1
  BY <1>2, <1>3, <1>9, <1>10, <1>11
<1>12. CASE i = 2
  <2>1. left[n + 1][1] = left[n][1]
    BY <1>10, <1>12
  <2>2. n + 1 \in A
    BY <1>2, <1>3, <1>9, <2>1
  <2>3. QED
    BY <1>2, <1>3, <1>4, <1>9, <1>10, <1>12, <2>2
<1>13. CASE i = 3
  <2>1. left[n + 1][1] = left[n][1] /\ left[n + 1][2] = left[n][2]
    BY <1>10, <1>13
  <2>2. n + 1 \in A
    BY <1>2, <1>3, <1>9, <2>1
  <2>3. n + 1 \in B
    BY <1>2, <1>3, <1>4, <1>9, <2>1, <2>2
  <2>4. QED
    BY <1>2, <1>3, <1>4, <1>5, <1>9, <1>10, <1>13, <2>3
<1>14. CASE i = 4
  <2>1. /\ left[n + 1][1] = left[n][1] /\ left[n + 1][2] = left[n][2]
        /\ left[n + 1][3] = left[n][3]
    BY <1>10, <1>14
  <2>2. n + 1 \in A
    BY <1>2, <1>3, <1>9, <2>1
  <2>3. n + 1 \in B
    BY <1>2, <1>3, <1>4, <1>9, <2>1, <2>2
  <2>4. n + 1 \in C
    BY <1>2, <1>3, <1>4, <1>5, <1>9, <2>1, <2>3
  <2>5. QED
    BY <1>2, <1>3, <1>4, <1>5, <1>6, <1>8, <1>10, <1>14, <2>4
<1>15. QED
  BY <1>11, <1>12, <1>13, <1>14
=============================================================================
