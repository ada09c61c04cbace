-------------------------------- MODULE Gps --------------------------------
(***************************************************************************)
(* The GPS thread (GET_GPS in hal/gps.cpp): it opens the serial port of    *)
(* the receiver, sets it up with set_opt (hal/usbctl.cpp), puts sentences  *)
(* together from what it reads and keeps the last position.  The receiver  *)
(* sends without being asked and without flow control; what it sent waits  *)
(* in the buffer of the driver, and what finds that buffer full is lost.   *)
(* The watchdog may cancel the thread whenever it blocks.                  *)
(*                                                                         *)
(* Bytes are abstracted to symbols: "$" and "*" delimit a sentence, and     *)
(* the other symbols are its non-empty fields, as strtok returns them.     *)
(* Whole symbols are lost, where the line may lose a part of a field.      *)
(***************************************************************************)
EXTENDS Naturals, Sequences

CONSTANTS
  MaxFixes, \* bound: positions the receiver finds
  MaxQueue, \* symbols the driver holds
  MaxGaps   \* bound: how often the driver loses some in a row

ASSUME GpsAssumption ==
  {MaxFixes, MaxQueue} \subseteq Nat \ {0} /\ MaxGaps \in Nat

VARIABLES
  gps,       \* phase of the thread
  fd,        \* "none", "open", or "closed"
  gps_failed,\* ctx.fds().gps_failed
  cancelled, \* pthread_cancel was called
  unplugged, \* the device is gone: reads fail from now on
  wire,      \* symbols of the current sentence still to be sent
  queue,     \* symbols in the driver, each with whether some were lost
             \* just before it
  missing,   \* symbols were lost since the last one of queue
  gaps,      \* how often that happened
  flag_read, \* inside a sentence
  buf,       \* fields of that sentence so far
  torn,      \* symbols were lost inside that sentence
  location,  \* s_gps_lat and s_gps_lon: <<lat, N, lon, E>>, or <<>>
  spoiled,   \* symbols were lost inside the sentence it is from
  fixes      \* positions the receiver has found so far

driver == <<queue, missing, gaps>>
receiver == <<wire, driver, fixes>>
parse == <<flag_read, buf, torn>>
position == <<location, spoiled>>
vars == <<gps, fd, gps_failed, cancelled, unplugged, receiver, parse, position>>

Init ==
  /\ gps = "delay" /\ fd = "none"
  /\ gps_failed = FALSE /\ cancelled = FALSE /\ unplugged = FALSE
  /\ wire = <<>> /\ queue = <<>> /\ missing = FALSE /\ gaps = 0 /\ fixes = 0
  /\ flag_read = FALSE /\ buf = <<>> /\ torn = FALSE
  /\ location = <<>> /\ spoiled = FALSE

-----------------------------------------------------------------------------
(* The receiver. *)

(* A symbol is a name and the number of the position it belongs to.         *)
Fields(names, k) == [i \in DOMAIN names |-> <<names[i], k>>]
Dollar == <<"$", 0>>
End == <<"*", 0>>
Position(k) == Fields(<<"lat", "N", "lon", "E">>, k)

(* Recommended minimum data with and without a fix (an old position may be  *)
(* repeated then), and fix data, whose fields are other ones.               *)
Sentences(k) ==
  {Fields(<<"GNRMC", "time", "V", "date">>, 0), Fields(<<"GNRMC", "V", "N">>, 0)}
    \union IF k = 0 THEN {} ELSE
      {Fields(<<"GNRMC", "time", "A">>, 0) \o Position(k)
        \o Fields(<<"date">>, 0),
       Fields(<<"GNRMC", "time", "V", "old", "N", "old", "E">>, 0),
       Fields(<<"GNGGA", "time">>, 0) \o Position(k) \o Fields(<<"1">>, 0)}

(* What it sends once the thread has ended is of no interest.              *)
StartSentence ==
  /\ wire = <<>> /\ ~unplugged /\ gps # "ended"
  /\ \E k \in {fixes, fixes + 1} :
       /\ k <= MaxFixes
       /\ fixes' = k
       /\ \E s \in Sentences(k) : wire' = <<Dollar>> \o s \o <<End>>
  /\ UNCHANGED <<gps, fd, gps_failed, cancelled, unplugged, driver, parse,
                 position>>

Reading == gps \in {"read", "nap"}

(* Nothing is kept before the port is open and flushed (tcflush).          *)
Unheard ==
  /\ wire # <<>> /\ ~Reading
  /\ wire' = Tail(wire)
  /\ queue' = <<>> /\ missing' = FALSE
  /\ UNCHANGED <<gps, fd, gps_failed, cancelled, unplugged, gaps, fixes, parse,
                 position>>

Arrive ==
  /\ wire # <<>> /\ Reading /\ Len(queue) < MaxQueue
  /\ wire' = Tail(wire)
  /\ queue' = Append(queue, [symbol |-> Head(wire), gap |-> missing])
  /\ missing' = FALSE
  /\ UNCHANGED <<gps, fd, gps_failed, cancelled, unplugged, gaps, fixes, parse,
                 position>>

(* The buffer of the driver is full.                                       *)
Overrun ==
  /\ wire # <<>> /\ Reading /\ Len(queue) = MaxQueue
  /\ missing \/ gaps < MaxGaps
  /\ wire' = Tail(wire)
  /\ missing' = TRUE
  /\ gaps' = IF missing THEN gaps ELSE gaps + 1
  /\ UNCHANGED <<gps, fd, gps_failed, cancelled, unplugged, queue, fixes,
                 parse, position>>

Unplug ==
  /\ ~unplugged /\ unplugged' = TRUE
  /\ UNCHANGED <<gps, fd, gps_failed, cancelled, receiver, parse, position>>

-----------------------------------------------------------------------------
(* The thread. *)

OpenPort ==
  /\ gps = "delay" /\ ~cancelled /\ ~unplugged
  /\ fd' = "open"
  /\ gps' = "setOpt"
  /\ UNCHANGED <<gps_failed, cancelled, unplugged, receiver, parse, position>>

OpenFails ==
  /\ gps = "delay" /\ ~cancelled
  /\ gps_failed' = TRUE
  /\ gps' = "ended"
  /\ UNCHANGED <<fd, cancelled, unplugged, receiver, parse, position>>

(* gps_exit: the cleanup handler closes the descriptor, and the locals are  *)
(* gone.                                                                   *)
EndReading ==
  /\ gps' = "ended"
  /\ fd' = "closed"
  /\ flag_read' = FALSE /\ buf' = <<>> /\ torn' = FALSE

(* set_opt leaves VMIN and VTIME at 0: a read never waits for data.         *)
VMin == 0
VTime == 0

SetOpt ==
  /\ gps = "setOpt"
  /\ gps' = "read" /\ queue' = <<>> /\ missing' = FALSE
  /\ UNCHANGED <<fd, gps_failed, cancelled, unplugged, wire, gaps, fixes,
                 parse, position>>

SetOptFails ==
  /\ gps = "setOpt"
  /\ EndReading
  /\ UNCHANGED <<gps_failed, cancelled, unplugged, receiver, position>>

ParsedUnchecked(line) ==
  IF Len(line) >= 7 /\ line[1][1] = "GNRMC" THEN SubSeq(line, 4, 7) ELSE <<>>

(* process_gps on the fields of one sentence: a position, or <<>>.          *)
Parsed(line) ==
  IF Len(line) >= 7 /\ line[3][1] # "V" /\ line[1][1] = "GNRMC"
  THEN SubSeq(line, 4, 7) ELSE <<>>

(* read takes a symbol.  Whether some were lost before it shows in nothing. *)
Take ==
  /\ gps = "read" /\ ~cancelled /\ queue # <<>>
  /\ queue' = Tail(queue)
  /\ UNCHANGED <<fd, gps_failed, cancelled, unplugged, wire, missing, gaps,
                 fixes>>

in == Head(queue).symbol
Torn == flag_read /\ (torn \/ Head(queue).gap)

(* A "$" inside a sentence is dropped, and the sentence goes on.            *)
ReadDollar ==
  /\ Take /\ in = Dollar
  /\ flag_read' = TRUE /\ torn' = Torn
  /\ buf' = IF flag_read THEN buf ELSE <<>>
  /\ UNCHANGED <<gps, position>>

(* Outside of a sentence everything is skipped.                            *)
ReadField ==
  /\ Take /\ in \notin {Dollar, End}
  /\ torn' = Torn
  /\ buf' = IF flag_read THEN Append(buf, in) ELSE buf
  /\ UNCHANGED <<gps, flag_read, position>>

(* The sentence is complete: its position, if it has one, is stored under   *)
(* the mutex of the readers, and the thread sleeps.                        *)
ReadEnd ==
  /\ Take /\ in = End
  /\ flag_read' = FALSE /\ torn' = FALSE /\ buf' = <<>>
  /\ IF flag_read /\ Parsed(buf) # <<>>
     THEN location' = Parsed(buf) /\ spoiled' = Torn /\ gps' = "nap"
     ELSE UNCHANGED <<position, gps>>

Nap ==
  /\ gps = "nap" /\ ~cancelled
  /\ gps' = "read"
  /\ UNCHANGED <<fd, gps_failed, cancelled, unplugged, receiver, parse,
                 position>>

(* read returns 0 or an error: the thread closes the port and ends.         *)
ReadNothing ==
  /\ gps = "read" /\ ~cancelled /\ queue = <<>>
  /\ unplugged \/ (VMin = 0 /\ VTime = 0)
  /\ EndReading
  /\ UNCHANGED <<gps_failed, cancelled, unplugged, receiver, position>>

(* The watchdog thread cancels; the next sleep, open or read notices it,    *)
(* and the cleanup handler runs where it is installed.                     *)
Cancel ==
  /\ ~cancelled /\ cancelled' = TRUE
  /\ UNCHANGED <<gps, fd, gps_failed, unplugged, receiver, parse, position>>

(* Cancelled in its first sleep, or in open. *)
DieEarly ==
  /\ gps = "delay"
  /\ gps' = "ended" /\ UNCHANGED <<fd, parse>>

DieOnlyAsleep ==
  /\ cancelled
  /\ DieEarly \/ (gps = "nap" /\ EndReading)
  /\ UNCHANGED <<gps_failed, cancelled, unplugged, receiver, position>>

Die ==
  /\ cancelled
  /\ DieEarly \/ (Reading /\ EndReading)
  /\ UNCHANGED <<gps_failed, cancelled, unplugged, receiver, position>>

-----------------------------------------------------------------------------
GpsStep ==
  \/ OpenPort \/ OpenFails \/ SetOpt \/ SetOptFails
  \/ ReadDollar \/ ReadField \/ ReadEnd \/ Nap \/ ReadNothing \/ Die

Next ==
  \/ GpsStep
  \/ StartSentence \/ Unheard \/ Arrive \/ Overrun
  \/ Unplug \/ Cancel

Spec == Init /\ [][Next]_vars

FairSpec == Spec /\ WF_vars(GpsStep)

-----------------------------------------------------------------------------
TypeOK ==
  /\ gps \in {"delay", "setOpt", "read", "nap", "ended"}
  /\ fd \in {"none", "open", "closed"}
  /\ gps \in {"setOpt", "read", "nap"} <=> fd = "open"
  /\ {gps_failed, cancelled, unplugged, missing, flag_read, torn, spoiled}
       \subseteq BOOLEAN
  /\ fixes \in 0..MaxFixes /\ Len(queue) <= MaxQueue /\ gaps \in 0..MaxGaps
  /\ Len(location) \in {0, 4}

(* The stored position is one the receiver reported as valid, all of it from *)
(* one sentence, when the driver lost nothing inside that sentence: opening *)
(* the port in the middle of a sentence, sentences of other kinds,          *)
(* positions of a lost fix and losses between or in earlier sentences never *)
(* show through.  Of a sentence that lost symbols anything can be stored,   *)
(* fields of two positions included: no checksum is compared (gps.cpp:146) *)
(* and a "$" inside a sentence is dropped (gps.cpp:155).                    *)
LocationIsAFix ==
  location # <<>> /\ ~spoiled => \E k \in 1..fixes : location = Position(k)

(* A cancelled thread ends, so that the watchdog can join it.               *)
CancelEnds == cancelled ~> gps = "ended"
=============================================================================
