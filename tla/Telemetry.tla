------------------------------- MODULE Telemetry -------------------------------
(***************************************************************************)
(* How the packets come to be: main samples the CPU usage once for the     *)
(* registration (modbus_9001.cpp), the sensor thread packs a round         *)
(* (packet06, HJ212PacketBuilder::build with a buffer of the MemoryPool)   *)
(* and pushes it on transmit, trans_message builds heartbeats, sends what  *)
(* was pushed, and sets the clock on time packets.  All three take the     *)
(* usage from CpuCache; the shape of what they build is in Frames.         *)
(***************************************************************************)
EXTENDS CpuCache, Frames

CONSTANTS
  PoolSize, \* buffers of packetPool (8)
  BufSize,  \* 2048: size of a buffer
  MaxQueue, \* bound: packets in transmit
  MnWidths, \* lengths of the MN in hj_mn.txt, 99 at most
  Messages  \* sample data segments, as sequences of bytes, which are sets of bits

ASSUME TelemetryAssumption ==
  /\ PoolSize \in Nat \ {0} /\ {BufSize, MaxQueue} \subseteq Nat
  /\ MnWidths \subseteq 0..99 /\ Messages \subseteq Seq(Byte)
  /\ Thread = {"main", "ship_data", "trans_message"}

VARIABLES
  phase,     \* phase of the process: "boot", "regist", "run"
  transmit,  \* queues().transmit, as texts
  free_list, \* the free list of the pool: a stack of buffers
  frame,     \* the packet that the last step built, or NoFrame
  msg        \* its data segment

packVars == <<phase, transmit, free_list>>
vars == <<clockVars, cacheVars, packVars, frame, msg>>

NoFrame == [cmd |-> "", length |-> <<>>, rest |-> 0]

Builds(f) == frame' = f /\ msg' = <<>>
BuildsNothing == Builds(NoFrame)

(* Length of gps_get_location(): "NFFFFEFFFFF" before the first fix, nine    *)
(* and eleven characters after it; the GPS thread stores it at any time.     *)
Location == {11, 20}

Init ==
  /\ CacheInit
  /\ phase = "boot" /\ transmit = <<>>
  /\ free_list = [i \in 1..PoolSize |-> i]
  /\ frame = NoFrame /\ msg = <<>>

-----------------------------------------------------------------------------
HasSampled(t) ==
  /\ Leave(t)
  /\ UNCHANGED packVars /\ BuildsNothing

(* main calls get_cpuOccupy before any thread does, and keeps the result    *)
(* (setIdentityCpuOccupy) for the registration.                            *)
MainSamples ==
  /\ phase = "boot"
  /\ Enter("main")
  /\ UNCHANGED packVars /\ BuildsNothing

StartRegistration ==
  /\ phase = "boot" /\ call["main"] = "done"
  /\ phase' = "regist"
  /\ EndCall("main")
  /\ UNCHANGED <<transmit, free_list>> /\ BuildsNothing

(* device_regist sends requests and confirmations until a time packet came. *)
Register ==
  /\ phase = "regist"
  /\ Builds(Confirm02) \/ \E location \in Location : Builds(Regist01(location))
  /\ UNCHANGED <<clockVars, cacheVars, packVars>>

Registered ==
  /\ phase = "regist"
  /\ phase' = "run"
  /\ SetClock
  /\ UNCHANGED <<transmit, free_list>> /\ BuildsNothing

-----------------------------------------------------------------------------
(* The sensor thread. *)

(* fromContext, which ends by asking for the usage.                        *)
PackRound ==
  /\ phase = "run" /\ Len(transmit) < MaxQueue
  /\ Enter("ship_data")
  /\ UNCHANGED packVars /\ BuildsNothing

(* snprintf keeps what fits, without the end of a packet that is too long.  *)
Printed(f) ==
  IF Size(f) < BufSize THEN f ELSE [f EXCEPT !.rest = @ - (Size(f) - (BufSize - 1))]

(* The packet as transmit holds it; of the data only the position is kept.  *)
Text(f, location) ==
  <<"$", "0", "6", IF location = 11 THEN "nofix" ELSE "fix">>
    \o IF Size(f) < BufSize THEN <<"@">> ELSE <<>>

DeallocateNot == free_list' = Front(free_list)

(* MemoryPool::allocate pops the top of the free list, deallocate pushes it  *)
(* back when the packet has been copied.                                    *)
Deallocate == free_list' = Append(Front(free_list), Last(free_list))

(* build and the push that follows; a pool without a buffer gives "", which  *)
(* is pushed all the same.                                                  *)
Build ==
  /\ call["ship_data"] = "done"
  /\ \E m \in Messages, w \in ValueWidths, mn \in MnWidths, location \in Location :
       LET f == Packet06(Hj212Width(DataWidth(mn, location, w), CRC16_Checkout(m)))
       IN  /\ msg' = m
           /\ frame' = IF free_list = <<>> THEN NoFrame ELSE Printed(f)
           /\ transmit' = Append(transmit,
                IF free_list = <<>> THEN <<>> ELSE Text(f, location))
  /\ IF free_list = <<>> THEN UNCHANGED free_list ELSE Deallocate
  /\ EndCall("ship_data")
  /\ UNCHANGED phase

-----------------------------------------------------------------------------
(* trans_message *)

HeartbeatDue ==
  /\ phase = "run"
  /\ Enter("trans_message")
  /\ UNCHANGED packVars /\ BuildsNothing

BuildHeartbeat ==
  /\ call["trans_message"] = "done"
  /\ Builds(Heartbeat(Len(transmit)))
  /\ EndCall("trans_message")
  /\ UNCHANGED packVars

Idle == phase = "run" /\ call["trans_message"] = "none"

Send ==
  /\ Idle /\ transmit # <<>>
  /\ transmit' = Tail(transmit)
  /\ UNCHANGED <<clockVars, cacheVars, phase, free_list>> /\ BuildsNothing

TimePacket ==
  /\ Idle
  /\ SetClock
  /\ UNCHANGED packVars /\ BuildsNothing

TimePasses == Tick /\ UNCHANGED packVars /\ BuildsNothing

Next ==
  \/ MainSamples \/ StartRegistration \/ Register \/ Registered
  \/ PackRound \/ Build
  \/ HeartbeatDue \/ BuildHeartbeat \/ Send \/ TimePacket
  \/ (\E t \in Thread : HasSampled(t))
  \/ TimePasses

Spec == Init /\ [][Next]_vars

-----------------------------------------------------------------------------
TypeOK ==
  /\ CacheTypeOK
  /\ phase \in {"boot", "regist", "run"}
  /\ Len(transmit) <= MaxQueue
  /\ Range(free_list) \subseteq 1..PoolSize

(* By how much a packet is longer behind its length field than the field    *)
(* says.  The four kinds count four different things; per kind it must be   *)
(* the same for every packet, or no receiver could find the end of one.     *)
Excess ==
  [cmd \in {"06", "EF", "01", "02"} |->
     CASE cmd = "06" -> 3 [] cmd = "EF" -> -6 [] cmd = "01" -> -14
       [] cmd = "02" -> 1]

Value(digits) ==
  LET upTo[n \in 0..Len(digits)] ==
        IF n = 0 THEN 0 ELSE 16 * upTo[n - 1] + digits[n]
  IN  upTo[Len(digits)]

(* The length field has four digits, whatever the length, and tells where    *)
(* the packet ends: with any MN, position, queue depth and register          *)
(* contents; so no packet outgrows the buffer it is printed into             *)
(* (hj212_builder.h:141-149, :162).                                        *)
EndsWhereLengthSays ==
  frame # NoFrame =>
    /\ Len(frame.length) = 4
    /\ frame.rest = Value(frame.length) + Excess[frame.cmd]

(* Every round that was packed is pushed whole: the pool has a buffer        *)
(* for it, and with any register contents, MN and position it fits into that *)
(* buffer, its final @ included (hj212_builder.h:152-173).                  *)
EveryRoundIsWhole ==
  \A i \in DOMAIN transmit : transmit[i] # <<>> /\ Last(transmit[i]) = "@"

(* One flipped bit in the data segment changes the checksum, although the    *)
(* register passes on only eight of its bits to the next byte (hj212.cpp:65).*)
ChecksumCatchesOneBit ==
  \A i \in DOMAIN msg : \A k \in 0..7 :
    CRC16_Checkout([msg EXCEPT ![i] = Xor(@, {k})]) # CRC16_Checkout(msg)

(* Whatever is left in transmit when the process ends is read back packet by *)
(* packet, in order, with nothing but the command and the @ changed           *)
(* (protocol_process.cpp:134-201).                                         *)
StoredIsReplayed ==
  LET packets == NotEmpty(transmit)
      sent == readFromFile(Written(transmit))
  IN  /\ Len(sent) = Len(packets)
      /\ \A i \in DOMAIN packets : \E body \in {"nofix", "fix"} :
           /\ packets[i] \in {<<"$", "0", "6", body>>, <<"$", "0", "6", body, "@">>}
           /\ sent[i] = <<"$", "2", "1", body>>
=============================================================================
