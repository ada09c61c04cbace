-------------------------------- MODULE Links --------------------------------
(***************************************************************************)
(* The communication links over the life of a process: main brings them up *)
(* (DeviceInit), the registration thread walks them until the gateway has  *)
(* registered the process on one (Registration), and trans_message uses    *)
(* that one and reopens it when it ends (CommManager).  The three share    *)
(* the list of nodes and the descriptor table; the GPS thread opens and    *)
(* closes its device in the same table at any time.                        *)
(***************************************************************************)
EXTENDS DeviceInit

CONSTANTS
  RegistLimit, IdleLimit, IdlePackets, Retry17, ListenNum \* see Registration

VARIABLES
  phase, \* "bringUp", "regist", "run", or "stopped" when main has returned
  clash, \* history: a close has hit the descriptor of the GPS thread
  state, size, regist_num, select_num, myCount, retry, listen_num, id, enabled,
  requests, confirms, \* see Registration
  pc, down, delay     \* see CommManager

Clients == {d \in Enabled : IsClient(d)}

R == INSTANCE Registration WITH NumDevices <- Cardinality(Clients)
C == INSTANCE CommManager WITH list <- nodes

ASSUME LinksAssumption == C!CommAssumption /\ R!RegistrationAssumption

initVars == <<cur, step, tries, lines, status, device_id, serverFd>>
registVars == <<state, size, regist_num, select_num, myCount, retry, listen_num,
                id, enabled, requests, confirms>>
commVars == <<pc, down, delay>>
linkVars == <<vars, phase, clash, registVars, commVars>>

LinksInit ==
  /\ Init
  /\ phase = "bringUp" /\ clash = FALSE
  /\ R!RegistInit
  /\ pc = "select" /\ down = FALSE /\ delay = 1

-----------------------------------------------------------------------------
(* A close that was meant for another descriptor took that of the GPS       *)
(* thread, which will close the number once more, whoever has it then.      *)
NoteClash ==
  clash' = (clash \/ (gpsFd >= 0 /\ owner[gpsFd] = "gps" /\ owner'[gpsFd] # "gps"
                        /\ gpsFd' = gpsFd))

BringUp ==
  /\ phase = "bringUp"
  /\ MainStep /\ NoteClash
  /\ UNCHANGED <<phase, registVars, commVars>>

(* dev_init found no client: main returns.                                  *)
NoDevice ==
  /\ phase = "bringUp" /\ Done /\ nodes = <<>>
  /\ phase' = "stopped"
  /\ UNCHANGED <<vars, clash, registVars, commVars>>

(* The variables of dev_init are gone.                                      *)
StartRegistration ==
  /\ phase = "bringUp" /\ Done /\ nodes # <<>>
  /\ phase' = "regist"
  /\ tries' = 0 /\ lines' = 0
  /\ R!RegistStarts(Len(getALLIfd(nodes)))
  /\ UNCHANGED <<cur, step, status, device_id, serverFd, newFd, owner, nodes,
                 gpsFd, clash, commVars>>

(* The device that the registration thread is at: it counts down the list   *)
(* that main gave it, and enables by id.                                    *)
Current == getALLIfd(nodes)[size + 1].dev

DeviceRegist ==
  /\ phase = "regist"
  /\ R!RegistNext
  /\ nodes' = IF state' = "Success" THEN setEnable(nodes, Current) ELSE nodes
  /\ UNCHANGED <<initVars, newFd, owner, gpsFd, phase, clash, commVars>>

(* main joins the thread, whose counters are gone, and starts trans_message *)
(* or returns.                                                             *)
JoinRegistration ==
  /\ phase = "regist" /\ R!Ended
  /\ phase' = IF state = "Success" THEN "run" ELSE "stopped"
  /\ regist_num' = 1 /\ select_num' = 1 /\ myCount' = 0
  /\ retry' = 0 /\ listen_num' = 0
  /\ UNCHANGED <<vars, clash, state, size, id, enabled, requests, confirms,
                 commVars>>

Transmitter(step_) ==
  /\ phase = "run"
  /\ step_
  /\ UNCHANGED <<initVars, gpsFd, phase, registVars>>
  /\ NoteClash

Gps ==
  /\ phase # "stopped"
  /\ GpsOpens \/ GpsCloses
  /\ UNCHANGED <<phase, clash, registVars, commVars>>

LinksNext ==
  \/ BringUp \/ NoDevice \/ StartRegistration \/ DeviceRegist \/ JoinRegistration
  \/ Transmitter(C!NoLink) \/ Transmitter(C!LinkEnds) \/ Transmitter(C!Reinit)
  \/ Gps

LinksSpec == LinksInit /\ [][LinksNext]_linkVars

(* Every thread is scheduled, calls of the bring-up return, and a device     *)
(* that trans_message reopens can be opened and connected again at last.     *)
LinksFairSpec ==
  /\ LinksSpec
  /\ WF_linkVars(BringUp) /\ WF_linkVars(StartRegistration)
  /\ WF_linkVars(Transmitter(C!Reinit)) /\ WF_linkVars(Transmitter(C!NoLink))
  /\ WF_linkVars(Transmitter(C!LinkEnds) /\ down)
  /\ SF_linkVars(Transmitter(C!Open)) /\ SF_linkVars(Transmitter(C!Connect))

-----------------------------------------------------------------------------
LinksTypeOK ==
  /\ TypeOK /\ R!RegistTypeOK
  /\ phase \in {"bringUp", "regist", "run", "stopped"} /\ clash \in BOOLEAN
  /\ pc \in {"select", "reinit", "open", "connect", "closeNew", "closeAgain",
             "closeOld", "fail", "succeed", "pause"}
  /\ down \in BOOLEAN /\ delay \in 1..30
  /\ pc # "select" => down

Active == getSuccess(nodes)

(* Bring-up, registration and any number of reinitialisations keep the list *)
(* sound: every client that came up is in it once, with the callback of its *)
(* device (4G has none) and its state flag set, and nothing else is.       *)
ListIntact ==
  /\ {nodes[i].dev : i \in DOMAIN nodes} = status
  /\ status \subseteq Clients
  /\ Len(nodes) = Cardinality(status) /\ Len(device_id) = Len(nodes)
  /\ \A i \in DOMAIN nodes : nodes[i].cb <=> nodes[i].dev # "cell4g"

(* A link is used only after the gateway registered the process on it: the  *)
(* request, the confirmation and the timestamp went over this very device,  *)
(* and no other is enabled (regist_manage.cpp:318).                        *)
RegisteredIsUsed ==
  \A i \in DOMAIN nodes : nodes[i].enabled =>
    /\ state = "Success" /\ id # "FF" /\ nodes[i].dev = Current
    /\ requests[size] > 0 /\ confirms > 0
    /\ \A j \in DOMAIN nodes : nodes[j].enabled => j = i

(* Whatever fails in the bring-up or in a reinitialisation, at whichever    *)
(* point, leaves no descriptor behind: what a device holds is its node's,   *)
(* the server's, or in use right now.  (After a reinitialisation that       *)
(* worked the old descriptor stays open.)                                  *)
NothingLeaks ==
  phase # "run" \/ Active # 0 =>
    \A f \in Fd : owner[f] \in Device =>
      \/ f = newFd
      \/ owner[f] = "lan_server" /\ f = serverFd
      \/ \E i \in DOMAIN nodes : nodes[i].fd = f /\ nodes[i].dev = owner[f]

(* From dev_init on, and while reinitialisations fail, every node names a   *)
(* descriptor of its own link: neither the attempts nor the GPS thread      *)
(* close it, unless a close hit the port of the GPS thread before.          *)
EnabledFdHeld ==
  ~clash /\ (phase # "run" \/ Active # 0) =>
    \A i \in DOMAIN nodes : owner[nodes[i].fd] = nodes[i].dev

(* The pause of trans_message outlasts the cool-down of the breaker: an      *)
(* attempt to reopen the link is never refused, whatever happened to the    *)
(* link in the bring-up (message_transmitter.cpp:128).                      *)
NeverRefused == phase = "run" => C!NeverRefused

(* A LoRa or LAN link that ended is open again at last, through any number  *)
(* of failures, unless a close hit the port of the GPS thread.  (A failure  *)
(* of wifi or bluetooth frees descriptor 0, the next attempt gets it, and   *)
(* its success closes it: device_init.cpp:170, :180, :200, :208.)          *)
ReopenedAtLast ==
  phase = "run" /\ down /\ Active # 0 /\ nodes[Active].dev \in {"lora", "lan"}
    ~> ~down \/ clash

(* Every step of the bring-up uses something up, also the ones that start a *)
(* loop of their own inside a strategy (dialling, scanning): dev_init comes *)
(* back after a number of steps that the retry counts bound.  Only the      *)
(* lines of a Bluetooth module use up nothing (bluetooth.cpp:170-198, the   *)
(* loops of device_init.cpp and de_cell4g.cpp).                            *)
StrategiesRunOut == [][BringUp => GoesDown(Left', Left) \/ ScanLine]_linkVars
=============================================================================
