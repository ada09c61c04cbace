------------------------------- MODULE Startup -------------------------------
(***************************************************************************)
(* main and its signal handlers (modbus_9001.cpp), beside the script that  *)
(* restarts the process: what the script finds in the watch file.  main    *)
(* installs the handlers, opens the file and stores the descriptor in      *)
(* g_fdWatch, writes its pid, brings the devices up, registers, loads the  *)
(* store file, starts the threads and pauses.  A signal is handled on the  *)
(* main thread, between any two of its steps or inside a handler that is   *)
(* already running: the masks of sigaction are empty.  The handlers write  *)
(* "0" through g_fdWatch; the two failure paths rewrite the file by name.  *)
(* The registration thread main joins is module Registration.              *)
(***************************************************************************)
EXTENDS Registration

CONSTANTS
  MaxRun,     \* bound: incarnations of the process
  MaxSignals, \* bound: signals an incarnation receives
  MayNotOpen  \* whether the watch file may fail to open

ASSUME StartupAssumption ==
  /\ MaxRun \in Nat \ {0} /\ MaxSignals \in Nat /\ MayNotOpen \in BOOLEAN

VARIABLES
  run,      \* incarnation of the process
  pc,       \* program counter of main
  handlers, \* the handlers are installed
  fdWatch,  \* g_fdWatch refers to the open watch file
  file,     \* characters of the watch file
  writable, \* the watch file can be opened
  stack,    \* program counters of the running handlers, innermost last
  signals,  \* signals received
  started,  \* threads main has started
  gone      \* how the process ended, "" while it runs

boot == <<run, pc, handlers, fdWatch, file, writable, stack, signals, started,
          gone>>
vars == <<boot, regist>>

Place == {"sigaction", "open", "assign", "pid", "gps", "devices", "register",
          "join", "load", "ship", "trans", "pause",
          "rewrite", "zero", "return"}

(* "0" is one character; a pid is several, here two. *)
Zero == <<0>>
Pid(r) == <<r, r>>

Init ==
  /\ RegistInit
  /\ run = 1 /\ pc = "sigaction" /\ handlers = FALSE /\ fdWatch = FALSE
  /\ file \in {<<>>, Zero}
  /\ writable \in {TRUE, ~MayNotOpen}
  /\ stack = <<>> /\ signals = 0 /\ started = {} /\ gone = ""

(* A step of main: no handler interrupts it. *)
Main(from, to) ==
  /\ gone = "" /\ stack = <<>>
  /\ pc = from /\ pc' = to
  /\ UNCHANGED <<run, writable, stack, signals, regist>>

InstallHandlers ==
  /\ Main("sigaction", "open")
  /\ handlers' = TRUE
  /\ UNCHANGED <<fdWatch, file, started, gone>>

(* open truncates the file; main can be interrupted before it stores the   *)
(* descriptor.                                                             *)
OpenWatch ==
  /\ writable
  /\ Main("open", "assign")
  /\ file' = <<>>
  /\ UNCHANGED <<handlers, fdWatch, started, gone>>

OpenFails ==
  /\ ~writable
  /\ Main("open", "gps")
  /\ UNCHANGED <<handlers, fdWatch, file, started, gone>>

AssignWatch ==
  /\ Main("assign", "pid")
  /\ fdWatch' = TRUE
  /\ UNCHANGED <<handlers, file, started, gone>>

WritePidForgotten ==
  /\ Main("pid", "gps")
  /\ UNCHANGED <<handlers, fdWatch, file, started, gone>>

WritePid ==
  /\ Main("pid", "gps")
  /\ file' = Pid(run)
  /\ UNCHANGED <<handlers, fdWatch, started, gone>>

StartGps ==
  /\ Main("gps", "devices")
  /\ started' = started \cup {"gps"}
  /\ UNCHANGED <<handlers, fdWatch, file, gone>>

InitDevices(ok) ==
  /\ Main("devices", IF ok THEN "register" ELSE "rewrite")
  /\ UNCHANGED <<handlers, fdWatch, file, started, gone>>

StartRegistration ==
  /\ Main("register", "join")
  /\ started' = started \cup {"device_regist", "softwarewd"}
  /\ UNCHANGED <<handlers, fdWatch, file, gone>>

(* pthread_create fails: main goes on, unregistered. *)
RegistrationNotCreated ==
  /\ Main("register", "load")
  /\ started' = started \cup {"softwarewd"}
  /\ UNCHANGED <<handlers, fdWatch, file, gone>>

(* The registration thread runs beside main and its handlers. *)
Register ==
  /\ gone = "" /\ "device_regist" \in started
  /\ RegistNext
  /\ UNCHANGED boot

(* pthread_join has no timeout. *)
JoinRegistration ==
  /\ Ended
  /\ Main("join", IF state = "Success" THEN "load" ELSE "rewrite")
  /\ started' = started \ {"device_regist"}
  /\ UNCHANGED <<handlers, fdWatch, file, gone>>

LoadStore ==
  /\ Main("load", "ship")
  /\ UNCHANGED <<handlers, fdWatch, file, started, gone>>

StartShip ==
  /\ Main("ship", "trans")
  /\ started' = started \cup {"ship_data"}
  /\ UNCHANGED <<handlers, fdWatch, file, gone>>

StartTrans ==
  /\ Main("trans", "pause")
  /\ started' = started \cup {"trans_message"}
  /\ UNCHANGED <<handlers, fdWatch, file, gone>>

(* write_pid_file: it truncates the file, then writes "0". *)
Rewrite ==
  /\ writable
  /\ Main("rewrite", "zero")
  /\ file' = <<>>
  /\ UNCHANGED <<handlers, fdWatch, started, gone>>

RewriteFails ==
  /\ ~writable
  /\ Main("rewrite", "return")
  /\ UNCHANGED <<handlers, fdWatch, file, started, gone>>

RewriteZero ==
  /\ Main("zero", "return")
  /\ file' = Zero
  /\ UNCHANGED <<handlers, fdWatch, started, gone>>

Return ==
  /\ Main("return", "return")
  /\ gone' = "returned"
  /\ UNCHANGED <<handlers, fdWatch, file, started>>

(***************************************************************************)
(* Signals.                                                                *)
(***************************************************************************)
(* The monitor sends SIGUSR1 once it watches trans_message; SIGTERM and    *)
(* SIGINT come at any time.  Without a handler they end the process.       *)
Signal ==
  /\ gone = "" /\ signals < MaxSignals
  /\ signals' = signals + 1
  /\ IF handlers
     THEN /\ stack' = Append(stack, IF fdWatch THEN "write" ELSE "exit")
          /\ gone' = gone
     ELSE stack' = stack /\ gone' = "killed"
  /\ UNCHANGED <<run, pc, handlers, fdWatch, file, started, writable, regist>>

Handler(from) ==
  /\ gone = "" /\ stack # <<>>
  /\ stack[Len(stack)] = from
  /\ UNCHANGED <<run, pc, handlers, fdWatch, writable, signals, started,
                 regist>>

HandlerGoes(to) == stack' = [stack EXCEPT ![Len(stack)] = to]

(* lseek and write: "0" replaces the first character. *)
HandlerWrites ==
  /\ Handler("write") /\ HandlerGoes("truncate")
  /\ file' = IF file = <<>> THEN Zero ELSE [file EXCEPT ![1] = 0]
  /\ UNCHANGED gone

HandlerTruncatesNot ==
  /\ Handler("truncate") /\ HandlerGoes("exit")
  /\ UNCHANGED <<file, gone>>

HandlerTruncates ==
  /\ Handler("truncate") /\ HandlerGoes("exit")
  /\ file' = SubSeq(file, 1, 1)
  /\ UNCHANGED gone

HandlerExits ==
  /\ Handler("exit")
  /\ gone' = IF fdWatch THEN "handled" ELSE "unrecorded"
  /\ UNCHANGED <<file, stack>>

(* The script starts the process again; nothing else writes the file. *)
Restart ==
  /\ gone # "" /\ run < MaxRun
  /\ run' = run + 1
  /\ pc' = "sigaction" /\ handlers' = FALSE /\ fdWatch' = FALSE
  /\ stack' = <<>> /\ signals' = 0 /\ started' = {} /\ gone' = ""
  /\ RegistStarts(NumDevices)
  /\ UNCHANGED <<file, writable>>

MainStep ==
  \/ InstallHandlers \/ OpenWatch \/ OpenFails \/ AssignWatch \/ WritePid
  \/ StartGps
  \/ \E ok \in BOOLEAN : InitDevices(ok)
  \/ StartRegistration \/ RegistrationNotCreated \/ JoinRegistration
  \/ LoadStore \/ StartShip \/ StartTrans
  \/ Rewrite \/ RewriteFails \/ RewriteZero \/ Return

HandlerStep == HandlerWrites \/ HandlerTruncates \/ HandlerExits

Next == MainStep \/ Register \/ HandlerStep \/ Signal \/ Restart

Spec == Init /\ [][Next]_vars

(* The kernel schedules every thread; signals and restarts may never come.  *)
FairSpec ==
  Spec /\ WF_vars(MainStep) /\ WF_vars(Register) /\ WF_vars(HandlerStep)

-----------------------------------------------------------------------------
(* Every variable has its type. *)
TypeOK ==
  /\ RegistTypeOK
  /\ run \in 1..MaxRun
  /\ pc \in Place
  /\ handlers \in BOOLEAN /\ fdWatch \in BOOLEAN
  /\ file \in UNION {[1..n -> 0..MaxRun] : n \in 0..2}
  /\ writable \in BOOLEAN
  /\ stack \in UNION {[1..n -> {"write", "truncate", "exit"}] :
                     n \in 0..MaxSignals}
  /\ signals \in 0..MaxSignals
  /\ started \subseteq
       {"gps", "device_regist", "softwarewd", "ship_data", "trans_message"}
  /\ gone \in {"", "killed", "returned", "handled", "unrecorded"}

(* A process that failed to come up, or that a signal ended after it had   *)
(* stored g_fdWatch, leaves exactly "0" in the watch file, wherever main   *)
(* was and however many signals came, also in the middle of rewriting the  *)
(* file (modbus_9001.cpp:80-86, :113-120).                                 *)
ZeroWhenStopped ==
  (gone \in {"returned", "handled"} /\ writable) => file = Zero

(* A process that waits for signals undisturbed is named in the file: the  *)
(* script never finds the pid of an earlier incarnation, nor a "0", beside *)
(* a running gateway (:157-167).                                           *)
PidWhileRunning ==
  (pc = "pause" /\ stack = <<>> /\ gone = "" /\ fdWatch) => file = Pid(run)

(* main joins the registration thread without a timeout: whatever the      *)
(* gateway answers or withholds, and on whichever device, the join ends    *)
(* (modbus_9001.cpp:214-226), unless a signal ends the process first.      *)
RegistrationEnds == (pc = "join") ~> (pc # "join" \/ gone # "")
=============================================================================
