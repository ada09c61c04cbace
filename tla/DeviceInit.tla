----------------------------- MODULE DeviceInit -----------------------------
(***************************************************************************)
(* How the communication devices come up: dev_init (app/device_init.cpp)   *)
(* runs the strategies of the enabled devices one after the other in the   *)
(* main thread, and registers the ones that work with the communicaManage. *)
(* The GPS thread, started before, opens and closes its own device in the  *)
(* same descriptor table meanwhile.  No watchdog watches this phase.       *)
(***************************************************************************)
EXTENDS NodeList, Descent

CONSTANTS
  Enabled,   \* the devices the configuration enables
  PortTries, \* attempts of bluetooth_open to open its port
  ScanTries, \* retry_count of the bluetooth scan
  DialTries, \* retry_count of hard4g_init
  WithGps,   \* whether the GPS thread reaches its device during this phase
  FdMax      \* bound: descriptors are 0..FdMax

Device == DeviceName

(* createAll: the strategies of the enabled devices, in this order.        *)
Created(d) == IF d \in Enabled THEN <<d>> ELSE <<>>
Strategies == Created("lora") \o Created("wifi") \o Created("bt")
                \o Created("lan") \o Created("lan_server") \o Created("cell4g")

ASSUME InitAssumption ==
  /\ Enabled \subseteq Device /\ WithGps \in BOOLEAN
  /\ {PortTries, ScanTries, DialTries} \subseteq Nat \ {0}
  /\ FdMax \in Nat /\ FdMax > Len(Order) + 5

Fd == 0..FdMax
IsClient(d) == d # "lan_server"
IsSocket(d) == d \notin {"lora", "bt"}
Callbacks == {"lora", "wifi", "bt", "lan"}

VARIABLES
  cur,       \* index of the running strategy
  step,      \* program counter inside it
  newFd,     \* fd_ of the running strategy, -1 when it holds none
  tries,     \* attempts left: opening the port, scanning, dialling
  lines,     \* lines without meaning the running scan has read, modulo 2
  owner,     \* descriptor -> "free", "std", "gps" or a device
  nodes,     \* the list of the communicaManage
  status,    \* communicate_status: the devices that count as up
  device_id, \* ctx.fds().device_id
  serverFd,  \* ctx.fds().lan_server
  gpsFd      \* descriptor the GPS thread believes it holds, -1 before, -2 after

vars == <<cur, step, newFd, tries, lines, owner, nodes, status, device_id,
          serverFd, gpsFd>>
registry == <<nodes, status, device_id, serverFd>>

Init ==
  /\ cur = 1 /\ step = "begin" /\ newFd = -1 /\ tries = 0 /\ lines = 0
  /\ owner = [f \in Fd |-> IF f <= 3 THEN "std" ELSE "free"]
  /\ nodes = <<>> /\ status = {} /\ device_id = <<>> /\ serverFd = -1
  /\ gpsFd = -1

-----------------------------------------------------------------------------
Dev == Strategies[cur]
Running(s) == cur <= Len(Strategies) /\ step = s

LowestFree(f) == owner[f] = "free" /\ \A g \in Fd : g < f => owner[g] # "free"
Take(f, d) == LowestFree(f) /\ owner' = [owner EXCEPT ![f] = d]
Close(f) == owner' = [owner EXCEPT ![f] = "free"]

(* What the device needs before it can have a descriptor: a port that is    *)
(* tried again, an interface that is dialled up, or nothing.               *)
Begin ==
  /\ Running("begin")
  /\ tries' = CASE Dev = "bt" -> PortTries
                [] Dev = "cell4g" -> DialTries
                [] OTHER -> 1
  /\ step' = IF Dev = "cell4g" THEN "dial" ELSE "open"
  /\ UNCHANGED <<cur, newFd, lines, owner, registry, gpsFd>>

DialStartsOver(hasAddress) ==
  /\ Running("dial")
  /\ tries' = IF tries = 1 THEN DialTries ELSE tries - 1
  /\ step' = IF hasAddress THEN "open" ELSE "dial"
  /\ UNCHANGED <<cur, newFd, lines, owner, registry, gpsFd>>

(* hard4g_init: dial, wait, look whether ppp0 has an address (cell4g_detect *)
(* closes the socket it asks with); after the last attempt the dialler is   *)
(* killed.                                                                 *)
Dial(hasAddress) ==
  /\ Running("dial")
  /\ tries' = tries - 1
  /\ step' = IF hasAddress THEN "open"
             ELSE IF tries = 1 THEN "failed" ELSE "dial"
  /\ UNCHANGED <<cur, newFd, lines, owner, registry, gpsFd>>

(* open_port or socket takes a descriptor.                                 *)
Open ==
  /\ Running("open")
  /\ \E f \in Fd : Take(f, Dev) /\ newFd' = f
  /\ step' = IF IsSocket(Dev) THEN "link" ELSE "setOpt"
  /\ UNCHANGED <<cur, tries, lines, registry, gpsFd>>

(* Only the bluetooth port is tried again; the 4G socket is not.           *)
OpenFails ==
  /\ Running("open")
  /\ tries' = IF Dev = "bt" THEN tries - 1 ELSE 0
  /\ step' = IF tries' = 0 THEN "failed" ELSE "open"
  /\ UNCHANGED <<cur, newFd, lines, owner, registry, gpsFd>>

(* set_opt1 on a serial port.  LoRa is ready then, bluetooth is reset.     *)
SetOpt ==
  /\ Running("setOpt")
  /\ step' = IF Dev = "bt" THEN "reset" ELSE "works"
  /\ UNCHANGED <<cur, newFd, tries, lines, owner, registry, gpsFd>>

(* connect of a client, bind and listen of the server, connect and login   *)
(* message over 4G.                                                        *)
Link ==
  /\ Running("link")
  /\ step' = "works"
  /\ UNCHANGED <<cur, newFd, tries, lines, owner, registry, gpsFd>>

LinkFailsOpen ==
  /\ Running("setOpt") \/ Running("link")
  /\ newFd' = -1
  /\ step' = "failed"
  /\ UNCHANGED <<cur, tries, lines, owner, registry, gpsFd>>

(* Whoever sees the failure closes the descriptor: connect_nonb for wifi    *)
(* and LAN, the strategy itself for the others.                            *)
LinkFails ==
  /\ Running("setOpt") \/ Running("link")
  /\ Close(newFd)
  /\ IF Dev \in {"wifi", "lan"}
     THEN step' = "closeAgain" /\ UNCHANGED newFd
     ELSE step' = "failed" /\ newFd' = -1
  /\ UNCHANGED <<cur, tries, lines, registry, gpsFd>>

(* The wifi and LAN strategies close the number once more.                 *)
CloseAgain ==
  /\ Running("closeAgain")
  /\ Close(newFd)
  /\ newFd' = -1
  /\ step' = "failed"
  /\ UNCHANGED <<cur, tries, lines, registry, gpsFd>>

(* The bluetooth module answers the reset with OK, and takes the commands  *)
(* that make it scan.                                                      *)
StartScan ==
  /\ Running("reset")
  /\ tries' = ScanTries /\ lines' = 0
  /\ step' = "scan"
  /\ UNCHANGED <<cur, newFd, owner, registry, gpsFd>>

(* Ten seconds without a byte.                                             *)
ScanTimeout ==
  /\ Running("scan")
  /\ tries' = tries - 1
  /\ step' = IF tries' = 0 THEN "giveUp" ELSE "scan"
  /\ UNCHANGED <<cur, newFd, lines, owner, registry, gpsFd>>

(* A line of another device, or one without meaning, is skipped, and does   *)
(* not count as an attempt: the module may send them without end.          *)
ScanLine ==
  /\ Running("scan")
  /\ lines' = 1 - lines
  /\ UNCHANGED <<cur, step, newFd, tries, owner, registry, gpsFd>>

ScanFinds ==
  /\ Running("scan")
  /\ step' = "works"
  /\ UNCHANGED <<cur, newFd, tries, lines, owner, registry, gpsFd>>

BtFailsStartsOver ==
  /\ Running("reset") \/ Running("scan")
  /\ step' = IF step = "scan" THEN "reset" ELSE "giveUp"
  /\ UNCHANGED <<cur, newFd, tries, lines, owner, registry, gpsFd>>

(* The reset was not answered with OK, a command could not be written, the  *)
(* module sent END, or read failed.                                        *)
BtFails ==
  /\ Running("reset") \/ Running("scan")
  /\ step' = "giveUp"
  /\ UNCHANGED <<cur, newFd, tries, lines, owner, registry, gpsFd>>

GiveUp ==
  /\ Running("giveUp")
  /\ Close(newFd)
  /\ newFd' = -1
  /\ step' = "failed"
  /\ UNCHANGED <<cur, tries, lines, registry, gpsFd>>

-----------------------------------------------------------------------------
NextStrategy == cur' = cur + 1 /\ step' = "begin" /\ newFd' = -1

(* A client becomes a node with the callback of its device; 4G has none,    *)
(* and the listening socket of the server is not a node.                   *)
Register ==
  /\ Running("works")
  /\ IF IsClient(Dev)
     THEN /\ nodes' = callbackRgist(insertNode(nodes, createComnode(Dev, newFd)),
                                    Dev, Dev \in Callbacks)
          /\ device_id' = Append(device_id, newFd)
          /\ status' = status \union {Dev}
          /\ UNCHANGED serverFd
     ELSE serverFd' = newFd /\ UNCHANGED <<nodes, status, device_id>>
  /\ NextStrategy
  /\ UNCHANGED <<tries, lines, owner, gpsFd>>

Failed ==
  /\ Running("failed")
  /\ NextStrategy
  /\ UNCHANGED <<tries, lines, owner, registry, gpsFd>>

(* The GPS thread: its port is opened after a delay, and closed once.      *)
GpsOpens ==
  /\ WithGps /\ gpsFd = -1
  /\ \E f \in Fd : Take(f, "gps") /\ gpsFd' = f
  /\ UNCHANGED <<cur, step, newFd, tries, lines, registry>>

GpsCloses ==
  /\ gpsFd >= 0
  /\ Close(gpsFd)
  /\ gpsFd' = -2
  /\ UNCHANGED <<cur, step, newFd, tries, lines, registry>>

-----------------------------------------------------------------------------
BtStep ==
  StartScan \/ ScanTimeout \/ ScanLine \/ ScanFinds \/ BtFails \/ GiveUp

MainStep ==
  \/ Begin \/ (\E a \in BOOLEAN : Dial(a)) \/ Open \/ OpenFails
  \/ SetOpt \/ Link \/ LinkFails \/ CloseAgain
  \/ BtStep \/ Register \/ Failed

Next == MainStep \/ GpsOpens \/ GpsCloses

Spec == Init /\ [][Next]_vars

Done == cur > Len(Strategies)

-----------------------------------------------------------------------------
TypeOK ==
  /\ cur \in 1..(Len(Strategies) + 1)
  /\ step \in {"begin", "dial", "open", "setOpt", "link", "closeAgain", "reset",
               "scan", "giveUp", "works", "failed"}
  /\ {newFd, serverFd} \subseteq Fd \union {-1} /\ gpsFd \in Fd \union {-1, -2}
  /\ tries \in Nat /\ lines \in 0..1
  /\ owner \in [Fd -> {"free", "std", "gps"} \union Device]
  /\ status \subseteq Device

(* Nothing but a bluetooth module that never stops sending lines blocks     *)
(* main in the bring-up: not an interface that gets no address, a port that *)
(* does not open, a module that is silent or fails, in any combination.     *)
(* The module that never stops does: its lines cost the scan no attempt     *)
(* (bluetooth.cpp:170-198).                                                *)
EndsUnlessChatty == <>Done \/ []<><<ScanLine>>_vars

(* What is left to main: strategies, steps to the end of the current one,   *)
(* attempts in this step.                                                  *)
Stage ==
  CASE step = "begin" -> 7
    [] step = "dial" -> 6
    [] step = "open" -> 5
    [] step \in {"setOpt", "link"} -> 4
    [] step = "reset" -> 3
    [] step = "scan" -> 2
    [] step \in {"closeAgain", "giveUp"} -> 1
    [] OTHER -> 0

Left == <<Len(Strategies) + 1 - cur, Stage, tries>>
=============================================================================
