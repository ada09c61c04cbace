------------------------------- MODULE CpuCache -------------------------------
(***************************************************************************)
(* get_cpuOccupy (infra/get.cpp): the CPU and memory usage that every      *)
(* packet carries.  The result is kept for 30 seconds of the system clock. *)
(* The mutex is held to look at the cache and to fill it, not while the    *)
(* usage is sampled: several callers may sample at once, and whoever ends  *)
(* last fills the cache.  Time packets of the gateway set the clock.       *)
(*                                                                         *)
(* A usage is abstracted to the true time at which it was sampled.         *)
(***************************************************************************)
EXTENDS Integers

CONSTANTS
  Thread,   \* callers of get_cpuOccupy
  Fresh,    \* 30 s: age below which the cached result is returned
  Slow,     \* bound: time a caller takes from its first sample to its result
  MaxError, \* bound: how far the system clock is off the true time
  MaxTime   \* bound: true time the model runs for

ASSUME CacheAssumption ==
  /\ {Fresh, Slow} \subseteq Nat \ {0} /\ {MaxError, MaxTime} \subseteq Nat

Empty == -1   \* no result yet
Default == -2 \* "0101", the result without a sample

VARIABLES
  now,              \* true time
  error,            \* the system clock minus the true time
  cached_result,    \* when the cached usage was sampled, or Empty
  last_sample_time, \* system clock when it was stored
  call,             \* what a caller is doing: "none", "store", "done"
  cpu_stat,         \* when a caller that is about to store took its sample
  cpu_mem           \* what the last call of a thread returned

clockVars == <<now, error>>
cacheVars == <<cached_result, last_sample_time, call, cpu_stat, cpu_mem>>

Clock == now + error

CacheInit ==
  /\ now = 0 /\ error \in -MaxError..MaxError
  /\ cached_result = Empty /\ last_sample_time = 0
  /\ call = [t \in Thread |-> "none"]
  /\ cpu_stat = [t \in Thread |-> Empty]
  /\ cpu_mem = [t \in Thread |-> Empty]

-----------------------------------------------------------------------------
Return(t, usage) ==
  /\ call' = [call EXCEPT ![t] = "done"]
  /\ cpu_mem' = [cpu_mem EXCEPT ![t] = usage]

HitAnyAge == cached_result # Empty

(* A clock that was set back makes the difference negative: still a hit.    *)
Hit == cached_result # Empty /\ Clock - last_sample_time < Fresh

(* First phase, under the lock: the cached result is good enough.          *)
TakeCached(t) ==
  /\ call[t] = "none" /\ Hit
  /\ Return(t, cached_result)
  /\ UNCHANGED <<clockVars, cached_result, last_sample_time, cpu_stat>>

(* Second phase, without the lock: /proc is read twice.                    *)
Sample(t) ==
  /\ call[t] = "none" /\ ~Hit
  /\ call' = [call EXCEPT ![t] = "store"]
  /\ cpu_stat' = [cpu_stat EXCEPT ![t] = now]
  /\ UNCHANGED <<clockVars, cached_result, last_sample_time, cpu_mem>>

(* /proc/stat cannot be read, the first or the second time: "0101", which   *)
(* is not cached.                                                          *)
SampleFails(t) ==
  /\ call[t] = "store" \/ (call[t] = "none" /\ ~Hit)
  /\ Return(t, Default)
  /\ cpu_stat' = [cpu_stat EXCEPT ![t] = Empty]
  /\ UNCHANGED <<clockVars, cached_result, last_sample_time>>

(* Third phase, under the lock again: also over the result of a caller that *)
(* sampled later and was faster.                                           *)
Store(t) ==
  /\ call[t] = "store"
  /\ cached_result' = cpu_stat[t]
  /\ last_sample_time' = Clock
  /\ Return(t, cpu_stat[t])
  /\ cpu_stat' = [cpu_stat EXCEPT ![t] = Empty]
  /\ UNCHANGED clockVars

(* The caller has used the result.                                         *)
EndCall(t) ==
  /\ call[t] = "done"
  /\ call' = [call EXCEPT ![t] = "none"]
  /\ cpu_mem' = [cpu_mem EXCEPT ![t] = Empty]
  /\ UNCHANGED <<clockVars, cached_result, last_sample_time, cpu_stat>>

(* Time passes, but not past a caller that has been sampling for long.      *)
Tick ==
  /\ now < MaxTime
  /\ \A t \in Thread : call[t] = "store" => now - cpu_stat[t] < Slow
  /\ now' = now + 1
  /\ UNCHANGED <<error, cacheVars>>

(* settimeofday, on a time packet.                                         *)
SetClock ==
  /\ error' \in -MaxError..MaxError
  /\ UNCHANGED <<now, cacheVars>>

(* get_cpuOccupy up to its first usleep, and what follows.                 *)
Enter(t) == call[t] = "none" /\ (TakeCached(t) \/ Sample(t) \/ SampleFails(t))
Leave(t) == call[t] = "store" /\ (Store(t) \/ SampleFails(t))

CacheNext ==
  \/ \E t \in Thread : Enter(t) \/ Leave(t) \/ EndCall(t)
  \/ Tick \/ SetClock

CacheSpec == CacheInit /\ [][CacheNext]_<<clockVars, cacheVars>>

-----------------------------------------------------------------------------
CacheTypeOK ==
  /\ now \in Nat /\ error \in -MaxError..MaxError
  /\ cached_result \in Nat \union {Empty} /\ last_sample_time \in Int
  /\ call \in [Thread -> {"none", "store", "done"}]
  /\ cpu_stat \in [Thread -> Nat \union {Empty}]
  /\ cpu_mem \in [Thread -> Nat \union {Empty, Default}]

(* Whatever the callers overtake and whenever the clock is set, the usage   *)
(* that get_cpuOccupy returns is younger than the 30 s of the cache, the    *)
(* time a sampling caller may be behind, and the error of the clock now and *)
(* when the result was stored: no clock step freezes the cache (get.cpp:144).*)
CpuIsRecent ==
  [][\A t \in Thread : cpu_mem'[t] >= 0 /\ cpu_mem'[t] # cpu_mem[t] =>
       now - cpu_mem'[t] < Fresh + Slow + (MaxError - error)]_<<clockVars, cacheVars>>
=============================================================================
