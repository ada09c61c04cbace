------------------------------ MODULE PacketLife ------------------------------
(***************************************************************************)
(* What the program promises about one collection round, independently of  *)
(* its queues, threads and files: a round is collected, held in memory,    *)
(* and then delivered; only a process that is ending stores or drops what  *)
(* it holds; a new start holds again all that was stored.  Delivered and   *)
(* lost are final.                                                         *)
(***************************************************************************)
CONSTANT AllRounds

VARIABLES
  life,  \* round -> where it stands
  ending \* a handler is persisting what the process holds

States == {"new", "held", "stored", "sent", "lost"}

LifeInit ==
  /\ life \in [AllRounds -> {"new", "stored"}]
  /\ ending = FALSE

Move(r, from, to) ==
  /\ life[r] = from
  /\ life' = [life EXCEPT ![r] = to]
  /\ UNCHANGED ending

Collect(r) == Move(r, "new", "held")
Store(r) == ending /\ Move(r, "held", "stored")

(* What is written at once may hold more than one round. *)
Deliver ==
  /\ \E R \in SUBSET {r \in AllRounds : life[r] = "held"} :
       life' = [r \in AllRounds |-> IF r \in R THEN "sent" ELSE life[r]]
  /\ UNCHANGED ending

(* A handler that is interrupted by another one drops all it had drained.  *)
Drop ==
  /\ ending
  /\ \E R \in SUBSET {r \in AllRounds : life[r] = "held"} :
       life' = [r \in AllRounds |-> IF r \in R THEN "lost" ELSE life[r]]
  /\ UNCHANGED ending

(* Only as a whole: a start of the program leaves nothing in the store. *)
Reload ==
  /\ ~ending
  /\ life' = [r \in AllRounds |-> IF life[r] = "stored" THEN "held" ELSE life[r]]
  /\ UNCHANGED ending

BeginEnd == ~ending /\ ending' = TRUE /\ UNCHANGED life

(* The memory of the process goes, all of it at once. *)
Crash ==
  /\ life' \in [AllRounds -> States]
  /\ \A r \in AllRounds :
       IF life[r] = "held" THEN life'[r] \in {"stored", "lost"}
                           ELSE life'[r] = life[r]
  /\ ending' = FALSE

LifeNext ==
  \/ \E r \in AllRounds : Collect(r) \/ Store(r)
  \/ Deliver \/ Drop \/ Reload \/ BeginEnd \/ Crash

LifeSpec == LifeInit /\ [][LifeNext]_<<life, ending>>
=============================================================================
