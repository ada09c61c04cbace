-------------------------- MODULE Transmitter_proofs --------------------------
(***************************************************************************)
(* Proofs about Transmitter, for any number of packets, lives and stored   *)
(* packets and any set of failures.                                        *)
(***************************************************************************)
EXTENDS Transmitter, SequenceTheorems, TLAPS

(* No round is twice in a queue. *)
Distinct(s) == \A i, j \in DOMAIN s : s[i].n = s[j].n => i = j

-----------------------------------------------------------------------------
(* The inductive invariant, in named parts. *)

(* A line that was begun can be continued.                                  *)
StoreOpen ==
  /\ ended \/ storefile # <<>>
  /\ main = "newline" => ~ended

(* No thread before the store file was read, and none after the process.    *)
NoThreads ==
  /\ (sensor = "off") <=> (trans = "off")
  /\ main \in {"boot", "loaded", "down"} => sensor = "off"
  /\ main = "run" => sensor # "off"
  /\ sensor = "off" => transmit = <<>>
  /\ ~Ending => items = <<>>
  /\ main \in {"boot", "down"} => offline_cache = <<>>

(* What was read is still in the file until the file is emptied.            *)
Loaded ==
  main = "loaded" /\ "read" \notin Faults => Stored \subseteq LineRounds(offline_cache)

(* A pop comes only after everything that could be replayed was replayed.   *)
NothingToReplay == trans \in {"pop", "write"} => offline_cache = <<>>

(* What is a live packet of this life, and what a replay of an earlier one. *)
Live(p) == p.proto = "06" /\ p.n > base

Replay(line) ==
  line # <<>> /\ line[1].proto = "21" /\ \A k \in DOMAIN line : line[k].n <= base

Marked ==
  /\ \A p \in ToSet(transmit) \union ToSet(inflight) : Live(p)
  /\ \A l \in ToSet(offline_cache) \union ToSet(pending) \union ToSet(failed) : Replay(l)
  /\ \A l \in ToSet(storefile) : l # <<>>
  /\ main \in {"boot", "loaded"} => base = produced

(* In transmit a round stands behind older ones, unless its write failed.   *)
Ordered ==
  /\ \A i, j \in DOMAIN transmit :
       i < j => transmit[i].n < transmit[j].n \/ transmit[j].n \in retried
  /\ \A r \in Rounds(inflight), m \in Rounds(transmit) : m > r \/ m \in retried

(* A round stands once in one queue or at the gateway, and not in the store *)
(* file, except while the threads that would use what was read do not run.  *)
Apart ==
  /\ Distinct(transmit) /\ Distinct(items) /\ Distinct(sent)
  /\ Once(offline_cache) /\ Once(pending) /\ Once(failed) /\ Once(storefile)
  /\ Rounds(transmit) \cap (Rounds(inflight) \union Rounds(items) \union Sent) = {}
  /\ Rounds(inflight) \cap (Rounds(items) \union Sent) = {}
  /\ Rounds(items) \cap Sent = {}
  /\ (LineRounds(offline_cache) \union LineRounds(pending) \union LineRounds(failed)
       \union Stored)
     \cap (Rounds(transmit) \union Rounds(inflight) \union Rounds(items) \union Sent) = {}
  /\ LineRounds(offline_cache) \cap (LineRounds(pending) \union LineRounds(failed)) = {}
  /\ LineRounds(pending) \cap LineRounds(failed) = {}
  /\ Stored \cap (LineRounds(pending) \union LineRounds(failed)) = {}
  /\ sensor # "off" => Stored \cap LineRounds(offline_cache) = {}

-----------------------------------------------------------------------------
(* Queues and the rounds in them.                                           *)

LEMMA RoundsOfEmpty == Rounds(<<>>) = {} /\ LineRounds(<<>>) = {}
BY DEF Rounds, LineRounds

LEMMA AppendIsNotEmpty ==
  ASSUME NEW S, NEW s \in Seq(S), NEW e \in S
  PROVE  Append(s, e) # <<>>
BY EmptySeq, LenProperties

LEMMA AppendByIndex ==
  ASSUME NEW s \in Seq(Packet), NEW p \in Packet
  PROVE  /\ \A i \in DOMAIN Append(s, p) :
              \/ (i \in DOMAIN s /\ Append(s, p)[i] = s[i])
              \/ (i = Len(s) + 1 /\ Append(s, p)[i] = p)
         /\ \A i \in DOMAIN s : i # Len(s) + 1
OBVIOUS

LEMMA RoundsOfAppend ==
  ASSUME NEW s \in Seq(Packet), NEW p \in Packet
  PROVE  /\ Append(s, p) \in Seq(Packet)
         /\ Rounds(Append(s, p)) = Rounds(s) \union {p.n}
         /\ Distinct(s) /\ p.n \notin Rounds(s) => Distinct(Append(s, p))
<1> DEFINE u == Append(s, p)
<1>1. u \in Seq(Packet) /\ Rounds(u) = Rounds(s) \union {p.n}
  BY DEF Rounds
<1>2. /\ \A i \in DOMAIN u : (i \in DOMAIN s /\ u[i] = s[i]) \/ (i = Len(s) + 1 /\ u[i] = p)
      /\ \A i \in DOMAIN s : i # Len(s) + 1
  BY AppendByIndex
<1> HIDE DEF u
<1>3. ASSUME Distinct(s), p.n \notin Rounds(s) PROVE Distinct(u)
  <2> SUFFICES ASSUME NEW i \in DOMAIN u, NEW j \in DOMAIN u, u[i].n = u[j].n PROVE i = j
    BY DEF Distinct
  <2>1. \A a \in DOMAIN s : s[a].n # p.n
    BY <1>3 DEF Rounds
  <2>2. QED
    BY <1>2, <1>3, <2>1 DEF Distinct
<1>4. QED
  BY <1>1, <1>3 DEF u

LEMMA RoundsOfConcat ==
  ASSUME NEW s \in Seq(Packet), NEW t \in Seq(Packet)
  PROVE  /\ s \o t \in Seq(Packet)
         /\ Rounds(s \o t) = Rounds(s) \union Rounds(t)
         /\ Distinct(s) /\ Distinct(t) /\ Rounds(s) \cap Rounds(t) = {}
              => Distinct(s \o t)
<1> DEFINE u == s \o t
<1>1. /\ u \in Seq(Packet) /\ DOMAIN u = 1..(Len(s) + Len(t))
      /\ DOMAIN s = 1..Len(s) /\ DOMAIN t = 1..Len(t)
      /\ Len(s) \in Nat /\ Len(t) \in Nat
      /\ \A i \in DOMAIN u : u[i] = IF i <= Len(s) THEN s[i] ELSE t[i - Len(s)]
  BY ConcatProperties, LenProperties
<1>2. \A i \in DOMAIN t : i + Len(s) \in DOMAIN u /\ u[i + Len(s)] = t[i]
  BY <1>1
<1>3. \A i \in DOMAIN s : i \in DOMAIN u /\ u[i] = s[i]
  BY <1>1
<1>4. \A i \in DOMAIN u : \/ i \in DOMAIN s
                          \/ \E j \in DOMAIN t : i = j + Len(s)
  <2> SUFFICES ASSUME NEW i \in DOMAIN u, i \notin DOMAIN s
               PROVE  i - Len(s) \in DOMAIN t /\ i = (i - Len(s)) + Len(s)
    OBVIOUS
  <2> QED BY <1>1
<1> HIDE DEF u
<1>5. Rounds(u) = Rounds(s) \union Rounds(t)
  BY <1>2, <1>3, <1>4 DEF Rounds
<1>6. ASSUME Distinct(s), Distinct(t), Rounds(s) \cap Rounds(t) = {}
      PROVE  Distinct(u)
  <2> SUFFICES ASSUME NEW i \in DOMAIN u, NEW j \in DOMAIN u, u[i].n = u[j].n
               PROVE  i = j
    BY DEF Distinct
  <2>1. \A a \in DOMAIN s, b \in DOMAIN t : s[a].n # t[b].n
    BY <1>6 DEF Rounds
  <2>2. CASE i \in DOMAIN s /\ j \in DOMAIN s
    BY <2>2, <1>3, <1>6 DEF Distinct
  <2>3. CASE \E a, b \in DOMAIN t : i = a + Len(s) /\ j = b + Len(s)
    BY <2>3, <1>2, <1>6 DEF Distinct
  <2>4. QED
    BY <2>1, <2>2, <2>3, <1>2, <1>3, <1>4
<1>7. QED
  BY <1>1, <1>5, <1>6 DEF u

LEMMA HeadAndTail ==
  ASSUME NEW S, NEW s \in Seq(S), s # <<>>
  PROVE  /\ Head(s) \in S /\ Tail(s) \in Seq(S)
         /\ Head(s) = s[1] /\ 1 \in DOMAIN s
         /\ \A i \in DOMAIN Tail(s) : i + 1 \in DOMAIN s /\ s[i + 1] = Tail(s)[i] /\ i # 0 /\ i \in Nat
         /\ \A i \in DOMAIN s : i = 1 \/ (i - 1 \in DOMAIN Tail(s) /\ s[i] = Tail(s)[i - 1])
<1>1. /\ Head(s) \in S /\ Tail(s) \in Seq(S) /\ Len(Tail(s)) = Len(s) - 1
      /\ \A i \in 1..Len(Tail(s)) : Tail(s)[i] = s[i + 1]
  BY HeadTailProperties
<1>2. DOMAIN s = 1..Len(s) /\ Len(s) \in Nat \ {0} /\ DOMAIN Tail(s) = 1..(Len(s) - 1)
  BY <1>1, LenProperties, EmptySeq
<1>3. Head(s) = s[1]
  BY <1>2
<1>4. QED
  BY <1>1, <1>2, <1>3

LEMMA ElementsOfEmpty == ToSet(<<>>) = {}
BY DEF ToSet

LEMMA ElementsOfOne ==
  ASSUME NEW e
  PROVE  ToSet(<<e>>) = {e}
BY DEF ToSet

LEMMA ElementsOfHeadTail ==
  ASSUME NEW S, NEW s \in Seq(S), s # <<>>
  PROVE  ToSet(s) = {Head(s)} \union ToSet(Tail(s))
<1> DEFINE t == Tail(s)
<1>1. /\ Head(s) = s[1] /\ 1 \in DOMAIN s
      /\ \A i \in DOMAIN t : i + 1 \in DOMAIN s /\ s[i + 1] = t[i]
      /\ \A i \in DOMAIN s : i = 1 \/ (i - 1 \in DOMAIN t /\ s[i] = t[i - 1])
  BY HeadAndTail
<1> HIDE DEF t
<1>2. ToSet(t) \subseteq ToSet(s) /\ Head(s) \in ToSet(s)
  BY <1>1 DEF ToSet
<1>3. ASSUME NEW i \in DOMAIN s, i # 1 PROVE s[i] \in ToSet(t)
  BY <1>1, <1>3, Zenon DEF ToSet
<1>4. QED
  BY <1>1, <1>2, <1>3 DEF ToSet, t

LEMMA ElementsOfConcat ==
  ASSUME NEW S, NEW s \in Seq(S), NEW t \in Seq(S)
  PROVE  ToSet(s \o t) = ToSet(s) \union ToSet(t)
<1> DEFINE u == s \o t
<1>1. /\ DOMAIN u = 1..(Len(s) + Len(t))
      /\ DOMAIN s = 1..Len(s) /\ DOMAIN t = 1..Len(t)
      /\ Len(s) \in Nat /\ Len(t) \in Nat
      /\ \A i \in DOMAIN u : u[i] = IF i <= Len(s) THEN s[i] ELSE t[i - Len(s)]
  BY ConcatProperties, LenProperties
<1>2. \A i \in DOMAIN t : i + Len(s) \in DOMAIN u /\ u[i + Len(s)] = t[i]
  BY <1>1
<1>3. \A i \in DOMAIN s : i \in DOMAIN u /\ u[i] = s[i]
  BY <1>1
<1>4. \A i \in DOMAIN u : \/ i \in DOMAIN s
                          \/ \E j \in DOMAIN t : i = j + Len(s)
  <2> SUFFICES ASSUME NEW i \in DOMAIN u, i \notin DOMAIN s
               PROVE  i - Len(s) \in DOMAIN t /\ i = (i - Len(s)) + Len(s)
    OBVIOUS
  <2> QED BY <1>1
<1> HIDE DEF u
<1>5. ToSet(u) = ToSet(s) \union ToSet(t)
  BY <1>2, <1>3, <1>4 DEF ToSet
<1>6. QED
  BY <1>5 DEF u

LEMMA ElementsOfAppend ==
  ASSUME NEW S, NEW s \in Seq(S), NEW e \in S
  PROVE  ToSet(Append(s, e)) = ToSet(s) \union {e}
<1>1. Append(s, e) = s \o <<e>> /\ <<e>> \in Seq(S)
  OBVIOUS
<1>2. ToSet(s \o <<e>>) = ToSet(s) \union ToSet(<<e>>)
  BY <1>1, ElementsOfConcat, ZenonT(60)
<1>3. QED
  BY <1>1, <1>2, ElementsOfOne

LEMMA RoundsOfHeadTail ==
  ASSUME NEW s \in Seq(Packet), s # <<>>
  PROVE  /\ Head(s) \in Packet /\ Tail(s) \in Seq(Packet)
         /\ Rounds(s) = {Head(s).n} \union Rounds(Tail(s))
         /\ Distinct(s) => Distinct(Tail(s)) /\ Head(s).n \notin Rounds(Tail(s))
<1> DEFINE t == Tail(s)
<1>1. /\ Head(s) \in Packet /\ t \in Seq(Packet) /\ Head(s) = s[1] /\ 1 \in DOMAIN s
      /\ \A i \in DOMAIN t : i + 1 \in DOMAIN s /\ s[i + 1] = t[i] /\ i # 0 /\ i \in Nat
      /\ \A i \in DOMAIN s : i = 1 \/ (i - 1 \in DOMAIN t /\ s[i] = t[i - 1])
  BY HeadAndTail
<1> HIDE DEF t
<1>2. Rounds(s) = {Head(s).n} \union Rounds(t)
  <2>1. Rounds(t) \subseteq Rounds(s) /\ Head(s).n \in Rounds(s)
    BY <1>1 DEF Rounds
  <2>2. ASSUME NEW i \in DOMAIN s, i # 1 PROVE s[i].n \in Rounds(t)
    BY <1>1, <2>2, Zenon DEF Rounds
  <2>3. QED
    BY <2>1, <2>2, <1>1 DEF Rounds
<1>3. ASSUME Distinct(s) PROVE Distinct(t) /\ Head(s).n \notin Rounds(t)
  <2>1. ASSUME NEW i \in DOMAIN t, Head(s).n = t[i].n PROVE FALSE
    <3>1. 1 = i + 1
      BY <1>1, <1>3, <2>1 DEF Distinct
    <3>2. QED
      BY <3>1, <1>1
  <2>2. ASSUME NEW i \in DOMAIN t, NEW j \in DOMAIN t, t[i].n = t[j].n PROVE i = j
    <3>1. i + 1 = j + 1
      BY <1>1, <1>3, <2>2 DEF Distinct
    <3>2. QED BY <3>1, <1>1
  <2>3. QED BY <2>1, <2>2 DEF Distinct, Rounds
<1>4. QED
  BY <1>1, <1>2, <1>3 DEF t

LEMMA LineRoundsOfHeadTail ==
  ASSUME NEW s \in Seq(Seq(Packet)), s # <<>>
  PROVE  /\ Head(s) \in Seq(Packet) /\ Tail(s) \in Seq(Seq(Packet))
         /\ LineRounds(s) = Rounds(Head(s)) \union LineRounds(Tail(s))
         /\ Once(s) => /\ Once(Tail(s)) /\ Distinct(Head(s))
                       /\ Rounds(Head(s)) \cap LineRounds(Tail(s)) = {}
<1> DEFINE t == Tail(s)
<1> DEFINE h == Head(s)
<1>1. /\ h \in Seq(Packet) /\ t \in Seq(Seq(Packet)) /\ h = s[1] /\ 1 \in DOMAIN s
      /\ \A i \in DOMAIN t : i + 1 \in DOMAIN s /\ s[i + 1] = t[i] /\ i # 0 /\ i \in Nat
      /\ \A i \in DOMAIN s : i = 1 \/ (i - 1 \in DOMAIN t /\ s[i] = t[i - 1])
  BY HeadAndTail
<1> HIDE DEF t, h
<1>2. LineRounds(s) = Rounds(h) \union LineRounds(t)
  BY <1>1, ZenonT(60) DEF LineRounds
<1>3. ASSUME Once(s) PROVE Once(t) /\ Distinct(h) /\ Rounds(h) \cap LineRounds(t) = {}
  <2>1. Distinct(h)
    BY <1>1, <1>3, ZenonT(60) DEF Distinct, Once
  <2>2. ASSUME NEW i \in DOMAIN t, NEW k \in DOMAIN h, NEW l \in DOMAIN t[i], h[k].n = t[i][l].n
        PROVE FALSE
    <3>1. 1 = i + 1
      BY <1>1, <1>3, <2>2, SMTT(30) DEF Once
    <3>2. QED BY <3>1, <1>1, SMTT(30)
  <2>3. Rounds(h) \cap LineRounds(t) = {}
    BY <2>2 DEF Rounds, LineRounds
  <2>4. ASSUME NEW i \in DOMAIN t, NEW j \in DOMAIN t, NEW k \in DOMAIN t[i], NEW l \in DOMAIN t[j], t[i][k].n = t[j][l].n
        PROVE i = j /\ k = l
    <3> DEFINE a == i + 1
    <3> DEFINE b == j + 1
    <3>1. a \in DOMAIN s /\ b \in DOMAIN s /\ s[a] = t[i] /\ s[b] = t[j]
      BY <1>1
    <3>2. a = b => i = j
      BY <1>1
    <3> HIDE DEF a, b
    <3>3. a = b /\ k = l
      BY <3>1, <1>3, <2>4 DEF Once
    <3>4. QED BY <3>2, <3>3
  <2>5. QED BY <2>1, <2>3, <2>4 DEF Once
<1>4. QED
  BY <1>1, <1>2, <1>3 DEF t, h

LEMMA LineRoundsOfConcat ==
  ASSUME NEW s \in Seq(Seq(Packet)), NEW t \in Seq(Seq(Packet))
  PROVE  /\ s \o t \in Seq(Seq(Packet))
         /\ LineRounds(s \o t) = LineRounds(s) \union LineRounds(t)
         /\ Once(s \o t) <=> /\ Once(s) /\ Once(t)
                             /\ LineRounds(s) \cap LineRounds(t) = {}
<1> DEFINE u == s \o t
<1>1. /\ u \in Seq(Seq(Packet)) /\ DOMAIN u = 1..(Len(s) + Len(t))
      /\ DOMAIN s = 1..Len(s) /\ DOMAIN t = 1..Len(t)
      /\ Len(s) \in Nat /\ Len(t) \in Nat
      /\ \A i \in DOMAIN u : u[i] = IF i <= Len(s) THEN s[i] ELSE t[i - Len(s)]
  BY ConcatProperties, LenProperties
<1>2. \A i \in DOMAIN t : i + Len(s) \in DOMAIN u /\ u[i + Len(s)] = t[i]
  BY <1>1
<1>3. \A i \in DOMAIN s : i \in DOMAIN u /\ u[i] = s[i]
  BY <1>1
<1>4. \A i \in DOMAIN u : \/ i \in DOMAIN s
                          \/ \E j \in DOMAIN t : i = j + Len(s)
  <2> SUFFICES ASSUME NEW i \in DOMAIN u, i \notin DOMAIN s PROVE i - Len(s) \in DOMAIN t /\ i = (i - Len(s)) + Len(s)
    OBVIOUS
  <2> QED BY <1>1
<1> HIDE DEF u
<1>5. LineRounds(u) = LineRounds(s) \union LineRounds(t)
  BY <1>2, <1>3, <1>4 DEF LineRounds
<1>6. Once(u) => Once(s)
  BY <1>3 DEF Once
<1>7. Once(u) => Once(t)
  <2> SUFFICES ASSUME Once(u), NEW i \in DOMAIN t, NEW j \in DOMAIN t, 
         NEW k \in DOMAIN t[i], NEW l \in DOMAIN t[j], t[i][k].n = t[j][l].n
         PROVE i = j /\ k = l
    BY DEF Once
  <2>1. i + Len(s) = j + Len(s) /\ k = l
    BY <1>2 DEF Once
  <2> QED BY <2>1, <1>1
<1>8. Once(u) => LineRounds(s) \cap LineRounds(t) = {}
  <2> SUFFICES ASSUME Once(u), NEW i \in DOMAIN s, NEW j \in DOMAIN t, 
         NEW k \in DOMAIN s[i], NEW l \in DOMAIN t[j], s[i][k].n = t[j][l].n
         PROVE FALSE
    BY DEF LineRounds, Rounds
  <2>1. i = j + Len(s)
    BY <1>2, <1>3 DEF Once
  <2> QED BY <2>1, <1>1
<1>9. Once(s) /\ Once(t) /\ LineRounds(s) \cap LineRounds(t) = {} => Once(u)
  <2> SUFFICES ASSUME Once(s), Once(t), LineRounds(s) \cap LineRounds(t) = {},
         NEW i \in DOMAIN u, NEW j \in DOMAIN u, 
         NEW k \in DOMAIN u[i], NEW l \in DOMAIN u[j], u[i][k].n = u[j][l].n
         PROVE i = j /\ k = l
    BY DEF Once
  <2>1. CASE i \in DOMAIN s /\ j \in DOMAIN s
    BY <2>1, <1>3 DEF Once
  <2>2. CASE \E a, b \in DOMAIN t : i = a + Len(s) /\ j = b + Len(s)
    BY <2>2, <1>2 DEF Once
  <2>3. ASSUME NEW a \in DOMAIN s, NEW b \in DOMAIN t, NEW x \in DOMAIN s[a], NEW y \in DOMAIN t[b], s[a][x].n = t[b][y].n
        PROVE  FALSE
    <3>1. s[a][x].n \in LineRounds(s)
      BY DEF LineRounds, Rounds
    <3>2. t[b][y].n \in LineRounds(t)
      BY DEF LineRounds, Rounds
    <3>3. QED BY <3>1, <3>2, <2>3
  <2> QED BY <2>1, <2>2, <2>3, <1>2, <1>3, <1>4
<1>10. QED
  BY <1>1, <1>5, <1>6, <1>7, <1>8, <1>9 DEF u

(* A sequence of one packet, and of one line. *)
LEMMA RoundsOfOne ==
  ASSUME NEW p \in Packet
  PROVE  <<p>> \in Seq(Packet) /\ Rounds(<<p>>) = {p.n} /\ Distinct(<<p>>)
BY DEF Rounds, Distinct

LEMMA LineRoundsOfOne ==
  ASSUME NEW s \in Seq(Packet)
  PROVE  /\ <<s>> \in Seq(Seq(Packet))
         /\ LineRounds(<<s>>) = Rounds(s)
         /\ Distinct(s) => Once(<<s>>)
<1>1. <<s>> \in Seq(Seq(Packet)) /\ DOMAIN <<s>> = {1} /\ <<s>>[1] = s
  OBVIOUS
<1> DEFINE u == <<s>>
<1> HIDE DEF u
<1>2. LineRounds(u) = Rounds(s)
  BY <1>1 DEF LineRounds, u
<1>3. Distinct(s) => Once(u)
  BY <1>1 DEF Distinct, Once, u
<1>4. QED
  BY <1>1, <1>2, <1>3 DEF u

LEMMA LineRoundsOfAppend ==
  ASSUME NEW s \in Seq(Seq(Packet)), NEW l \in Seq(Packet)
  PROVE  /\ Append(s, l) \in Seq(Seq(Packet))
         /\ LineRounds(Append(s, l)) = LineRounds(s) \union Rounds(l)
         /\ Once(s) /\ Distinct(l) /\ LineRounds(s) \cap Rounds(l) = {}
              => Once(Append(s, l))
<1>1. Append(s, l) = s \o <<l>>
  OBVIOUS
<1>2. /\ <<l>> \in Seq(Seq(Packet)) /\ LineRounds(<<l>>) = Rounds(l)
      /\ Distinct(l) => Once(<<l>>)
  BY LineRoundsOfOne
<1>3. /\ s \o <<l>> \in Seq(Seq(Packet))
      /\ LineRounds(s \o <<l>>) = LineRounds(s) \union LineRounds(<<l>>)
      /\ Once(s \o <<l>>) <=> /\ Once(s) /\ Once(<<l>>)
                              /\ LineRounds(s) \cap LineRounds(<<l>>) = {}
  BY <1>2, LineRoundsOfConcat
<1>4. QED
  BY <1>1, <1>2, <1>3

(* The marking of the lines read from the store file changes no round.      *)
LEMMA LineRoundsOfMarked ==
  ASSUME NEW s \in Seq(Seq(Packet)),
         NEW t, t = [i \in DOMAIN s |-> [s[i] EXCEPT ![1].proto = "21"]]
  PROVE  /\ t \in Seq(Seq(Packet))
         /\ LineRounds(t) = LineRounds(s)
         /\ Once(s) => Once(t)
<1>1. ASSUME NEW i \in DOMAIN s
      PROVE  /\ t[i] \in Seq(Packet) /\ DOMAIN t[i] = DOMAIN s[i]
             /\ \A k \in DOMAIN s[i] : t[i][k].n = s[i][k].n
  <2> DEFINE l == s[i]
  <2>1. l \in Seq(Packet) /\ DOMAIN l = 1..Len(l) /\ Len(l) \in Nat
    BY LenProperties
  <2>2. t[i] = [l EXCEPT ![1].proto = "21"]
    OBVIOUS
  <2> HIDE DEF l
  <2>3. ASSUME NEW k \in DOMAIN l
        PROVE  t[i][k] \in Packet /\ t[i][k].n = l[k].n
    <3>1. l[k] \in Packet
      BY <2>1
    <3>2. CASE k = 1
      <4>1. t[i][k] = [l[1] EXCEPT !.proto = "21"]
        BY <2>2, <3>2
      <4>2. [l[1] EXCEPT !.proto = "21"] = [n |-> l[1].n, proto |-> "21"]
        BY <3>1, <3>2 DEF Packet
      <4>3. QED
        BY <3>1, <3>2, <4>1, <4>2 DEF Packet
    <3>3. CASE k # 1
      BY <2>2, <3>1, <3>3
    <3>4. QED
      BY <3>2, <3>3
  <2>4. t[i] \in [1..Len(l) -> Packet]
    BY <2>1, <2>2, <2>3
  <2>5. t[i] \in Seq(Packet)
    BY <2>1, <2>4, SeqDef
  <2>6. QED
    BY <2>2, <2>3, <2>5 DEF l
<1>2. t \in Seq(Seq(Packet)) /\ DOMAIN t = DOMAIN s
  <2>1. DOMAIN s = 1..Len(s) /\ Len(s) \in Nat
    BY LenProperties
  <2>2. t \in [1..Len(s) -> Seq(Packet)]
    BY <1>1, <2>1
  <2>3. t \in Seq(Seq(Packet))
    BY <2>1, <2>2, SeqDef
  <2>4. QED
    BY <2>1, <2>3
<1>3. LineRounds(t) = LineRounds(s)
  <2>1. ASSUME NEW i \in DOMAIN s PROVE Rounds(t[i]) = Rounds(s[i])
    BY <1>1 DEF Rounds
  <2>2. QED
    BY <2>1, <1>2, Zenon DEF LineRounds
<1>4. Once(s) => Once(t)
  BY <1>1, <1>2 DEF Once
<1>5. QED
  BY <1>2, <1>3, <1>4

(* A packet glued to the end of the last line.                              *)
LEMMA LineRoundsOfGlue ==
  ASSUME NEW s \in Seq(Seq(Packet)), s # <<>>, NEW p \in Packet,
         NEW t, t = [s EXCEPT ![Len(s)] = Append(@, p)]
  PROVE  /\ t \in Seq(Seq(Packet))
         /\ LineRounds(t) = LineRounds(s) \union {p.n}
         /\ Once(s) /\ p.n \notin LineRounds(s) => Once(t)
<1> DEFINE m == Len(s)
<1>1. m \in DOMAIN s /\ s[m] \in Seq(Packet)
  BY LenProperties, EmptySeq
<1>2. DOMAIN t = DOMAIN s /\ t[m] = Append(s[m], p) /\ \A i \in DOMAIN s : i # m => t[i] = s[i]
  BY <1>1
<1>3. t \in Seq(Seq(Packet))
  BY <1>1, <1>2
<1> HIDE DEF m
<1>4. Rounds(t[m]) = Rounds(s[m]) \union {p.n}
  BY <1>1, <1>2, RoundsOfAppend
<1>5. LineRounds(t) = LineRounds(s) \union {p.n}
  BY <1>1, <1>2, <1>4 DEF LineRounds
<1>6. ASSUME Once(s), p.n \notin LineRounds(s) PROVE Once(t)
  <2>1. \A k \in DOMAIN t[m] : \/ (k \in DOMAIN s[m] /\ t[m][k] = s[m][k])
                               \/ (k = Len(s[m]) + 1 /\ t[m][k] = p)
    <3>1. \A k \in DOMAIN Append(s[m], p) :
             \/ (k \in DOMAIN s[m] /\ Append(s[m], p)[k] = s[m][k])
             \/ (k = Len(s[m]) + 1 /\ Append(s[m], p)[k] = p)
      BY <1>1, AppendByIndex
    <3>2. QED
      BY <3>1, <1>2
  <2>2. \A i \in DOMAIN s : \A k \in DOMAIN s[i] : s[i][k].n # p.n
    BY <1>6 DEF LineRounds, Rounds
  <2> SUFFICES ASSUME NEW i \in DOMAIN t, NEW j \in DOMAIN t,
                      NEW k \in DOMAIN t[i], NEW l \in DOMAIN t[j], t[i][k].n = t[j][l].n
               PROVE  i = j /\ k = l
    BY DEF Once
  <2>3. CASE i = m /\ j = m
    <3>1. \A a, b \in DOMAIN s[m] : s[m][a].n = s[m][b].n => a = b
      BY <1>1, <1>6 DEF Once
    <3>2. QED
      BY <2>1, <2>2, <2>3, <1>1, <3>1
  <2>4. CASE i = m /\ j # m
    <3>1. t[j] = s[j] /\ j \in DOMAIN s /\ l \in DOMAIN s[j] /\ s[j][l].n # p.n
      BY <2>2, <2>4, <1>2
    <3>2. CASE k \in DOMAIN s[m] /\ t[m][k] = s[m][k]
      BY <3>1, <3>2, <2>4, <1>1, <1>6 DEF Once
    <3>3. QED
      BY <2>1, <2>4, <3>1, <3>2
  <2>5. CASE i # m /\ j = m
    <3>1. t[i] = s[i] /\ i \in DOMAIN s /\ k \in DOMAIN s[i] /\ s[i][k].n # p.n
      BY <2>2, <2>5, <1>2
    <3>2. CASE l \in DOMAIN s[m] /\ t[m][l] = s[m][l]
      <4>1. s[i][k].n = s[m][l].n
        BY <3>1, <3>2, <2>5
      <4>2. i = m
        BY <3>1, <3>2, <4>1, <1>1, <1>6, Zenon DEF Once
      <4>3. QED
        BY <2>5, <4>2
    <3>3. CASE t[m][l] = p
      <4>1. t[i][k].n = p.n
        BY <2>5, <3>3
      <4>2. QED
        BY <3>1, <4>1
    <3>4. l \in DOMAIN t[m]
      BY <2>5
    <3>5. QED
      BY <2>1, <3>2, <3>3, <3>4
  <2>6. CASE i # m /\ j # m
    <3>1. /\ i \in DOMAIN s /\ t[i] = s[i] /\ j \in DOMAIN s /\ t[j] = s[j]
          /\ s[i][k].n = s[j][l].n
      BY <2>6, <1>2
    <3>2. QED
      BY <3>1, <1>6 DEF Once
  <2>7. QED
    BY <2>3, <2>4, <2>5, <2>6
<1>7. QED
  BY <1>3, <1>5, <1>6

-----------------------------------------------------------------------------
(* What the actions that move packets do to the rounds in the queues.       *)

LEMMA QueueTypes ==
  TypeOK => /\ transmit \in Seq(Packet) /\ inflight \in Seq(Packet)
            /\ items \in Seq(Packet) /\ sent \in Seq(Packet)
            /\ offline_cache \in Seq(Seq(Packet)) /\ pending \in Seq(Seq(Packet))
            /\ failed \in Seq(Seq(Packet)) /\ storefile \in Seq(Seq(Packet))
BY DEF TypeOK

(* The first lines of a sequence of lines.                                 *)
LEMMA LineRoundsOfPrefix ==
  ASSUME NEW s \in Seq(Seq(Packet)), NEW k \in 0..Len(s), NEW t, t = SubSeq(s, 1, k)
  PROVE  /\ t \in Seq(Seq(Packet)) /\ DOMAIN t \subseteq DOMAIN s
         /\ \A i \in DOMAIN t : t[i] = s[i]
         /\ LineRounds(t) \subseteq LineRounds(s)
         /\ Once(s) => Once(t)
         /\ k = Len(s) => LineRounds(t) = LineRounds(s)
<1>1. /\ Len(s) \in Nat /\ DOMAIN s = 1..Len(s)
      /\ \A i \in 1..Len(s) : s[i] \in Seq(Packet)
  BY LenProperties, ElementOfSeq
<1>2. t = [i \in 1..k |-> s[i]]
  BY <1>1 DEF SubSeq
<1>3. k \in Nat /\ 1..k \subseteq 1..Len(s)
  BY <1>1
<1>4. t \in [1..k -> Seq(Packet)] /\ DOMAIN t = 1..k
  BY <1>1, <1>2, <1>3
<1>5. t \in Seq(Seq(Packet))
  BY <1>3, <1>4, SeqDef
<1>6. DOMAIN t \subseteq DOMAIN s /\ \A i \in DOMAIN t : t[i] = s[i]
  BY <1>1, <1>2, <1>3, <1>4
<1>7. LineRounds(t) \subseteq LineRounds(s)
  BY <1>6 DEF LineRounds
<1>8. ASSUME Once(s) PROVE Once(t)
  <2> SUFFICES ASSUME NEW i \in DOMAIN t, NEW j \in DOMAIN t,
                      NEW a \in DOMAIN t[i], NEW b \in DOMAIN t[j], t[i][a].n = t[j][b].n
               PROVE  i = j /\ a = b
    BY DEF Once
  <2>1. /\ i \in DOMAIN s /\ j \in DOMAIN s /\ t[i] = s[i] /\ t[j] = s[j]
    BY <1>6
  <2>2. a \in DOMAIN s[i] /\ b \in DOMAIN s[j] /\ s[i][a].n = s[j][b].n
    BY <2>1
  <2> QED  BY <1>8, <2>1, <2>2 DEF Once
<1>9. k = Len(s) => LineRounds(t) = LineRounds(s)
  BY <1>1, <1>4, <1>6 DEF LineRounds
<1>10. QED
  BY <1>5, <1>6, <1>7, <1>8, <1>9

LEMMA EffectLoadStore ==
  ASSUME TypeOK, LoadStore
  PROVE  \E read, t \in Seq(Seq(Packet)) :
           /\ DOMAIN read \subseteq DOMAIN storefile
           /\ \A i \in DOMAIN read : read[i] = storefile[i]
           /\ t = [i \in DOMAIN read |-> [read[i] EXCEPT ![1].proto = "21"]]
           /\ offline_cache' = offline_cache \o t
           /\ LineRounds(t) \subseteq Stored
           /\ "read" \notin Faults => LineRounds(t) = Stored
           /\ Once(storefile) => Once(t)
           /\ offline_cache' \in Seq(Seq(Packet))
           /\ LineRounds(offline_cache') = LineRounds(offline_cache) \union LineRounds(t)
           /\ offline_cache = <<>> /\ Once(storefile) => Once(offline_cache')
<1>1. PICK read \in LinesRead :
        offline_cache' = offline_cache \o
          [i \in DOMAIN read |-> [read[i] EXCEPT ![1].proto = "21"]]
  BY DEF LoadStore
<1>2. PICK k \in 0..Len(storefile) :
        read = SubSeq(storefile, 1, k) /\ (k = Len(storefile) \/ "read" \in Faults)
  BY <1>1 DEF LinesRead
<1>3. /\ read \in Seq(Seq(Packet)) /\ DOMAIN read \subseteq DOMAIN storefile
      /\ \A i \in DOMAIN read : read[i] = storefile[i]
      /\ LineRounds(read) \subseteq Stored
      /\ Once(storefile) => Once(read)
      /\ k = Len(storefile) => LineRounds(read) = Stored
  BY <1>2, QueueTypes, LineRoundsOfPrefix DEF Stored
<1> DEFINE t == [i \in DOMAIN read |-> [read[i] EXCEPT ![1].proto = "21"]]
<1>4. t \in Seq(Seq(Packet)) /\ LineRounds(t) = LineRounds(read) /\ (Once(read) => Once(t))
  BY <1>3, LineRoundsOfMarked
<1>5. offline_cache' = offline_cache \o t
  BY <1>1
<1>6. t = [i \in DOMAIN read |-> [read[i] EXCEPT ![1].proto = "21"]]
  OBVIOUS
<1> HIDE DEF t
<1>7. /\ offline_cache' \in Seq(Seq(Packet))
      /\ LineRounds(offline_cache') = LineRounds(offline_cache) \union LineRounds(t)
  BY <1>4, <1>5, QueueTypes, LineRoundsOfConcat
<1>8. offline_cache = <<>> /\ Once(storefile) => Once(offline_cache')
  <2> SUFFICES ASSUME offline_cache = <<>>, Once(storefile) PROVE Once(offline_cache')
    OBVIOUS
  <2>1. Once(offline_cache) /\ LineRounds(offline_cache) = {} /\ Once(t)
    BY <1>3, <1>4, RoundsOfEmpty DEF Once
  <2>2. LineRounds(offline_cache) \cap LineRounds(t) = {}
    BY <2>1
  <2> QED  BY <1>4, <1>5, <2>1, <2>2, QueueTypes, LineRoundsOfConcat
<1>9. /\ LineRounds(t) \subseteq Stored /\ ("read" \notin Faults => LineRounds(t) = Stored)
      /\ (Once(storefile) => Once(t))
  BY <1>2, <1>3, <1>4
<1>10. QED
  BY <1>3, <1>4, <1>5, <1>6, <1>7, <1>8, <1>9, Zenon

LEMMA EffectPushRound ==
  ASSUME TypeOK, PushRound
  PROVE  /\ transmit' \in Seq(Packet)
         /\ Rounds(transmit') = Rounds(transmit) \union {produced + 1}
         /\ Distinct(transmit) /\ produced + 1 \notin Rounds(transmit) => Distinct(transmit')
<1> DEFINE p == [n |-> produced + 1, proto |-> "06"]
<1>1. p \in Packet /\ p.n = produced + 1
  BY DEF TypeOK, Packet
<1>2. transmit' = Append(transmit, p)
  BY DEF PushRound
<1> HIDE DEF p
<1>3. QED
  BY <1>1, <1>2, QueueTypes, RoundsOfAppend

LEMMA EffectResend ==
  ASSUME TypeOK, NEW ok \in BOOLEAN, Resend(ok)
  PROVE  LET h == Rounds(Head(pending))
         IN  /\ sent' \in Seq(Packet)
             /\ failed' \in Seq(Seq(Packet)) /\ pending' \in Seq(Seq(Packet))
             /\ LineRounds(pending) = h \union LineRounds(pending')
             /\ Once(pending) => Once(pending') /\ h \cap LineRounds(pending') = {}
             /\ Rounds(sent') = Rounds(sent) \union (IF ok THEN h ELSE {})
             /\ LineRounds(failed') = LineRounds(failed) \union (IF ok THEN {} ELSE h)
             /\ Distinct(sent) /\ Once(pending) /\ Rounds(sent) \cap h = {}
                  => Distinct(sent')
             /\ Once(failed) /\ Once(pending) /\ LineRounds(failed) \cap h = {}
                  => Once(failed')
<1> DEFINE h == Head(pending)
<1>1. /\ h \in Seq(Packet) /\ pending' \in Seq(Seq(Packet))
      /\ LineRounds(pending) = Rounds(h) \union LineRounds(pending')
      /\ Once(pending) => /\ Once(pending') /\ Distinct(h)
                          /\ Rounds(h) \cap LineRounds(pending') = {}
  BY QueueTypes, LineRoundsOfHeadTail DEF Resend
<1>2. CASE ok
  <2>1. sent' = sent \o h /\ failed' = failed
    BY <1>2 DEF Resend
  <2> HIDE DEF h
  <2>2. /\ sent' \in Seq(Packet) /\ Rounds(sent') = Rounds(sent) \union Rounds(h)
        /\ Distinct(sent) /\ Distinct(h) /\ Rounds(sent) \cap Rounds(h) = {}
             => Distinct(sent')
    BY <1>1, <2>1, QueueTypes, RoundsOfConcat
  <2>3. QED
    BY <1>1, <1>2, <2>1, <2>2, QueueTypes DEF h
<1>3. CASE ~ok
  <2>1. sent' = sent /\ failed' = Append(failed, h)
    BY <1>3 DEF Resend
  <2> HIDE DEF h
  <2>2. /\ failed' \in Seq(Seq(Packet))
        /\ LineRounds(failed') = LineRounds(failed) \union Rounds(h)
        /\ Once(failed) /\ Distinct(h) /\ LineRounds(failed) \cap Rounds(h) = {}
             => Once(failed')
    BY <1>1, <2>1, QueueTypes, LineRoundsOfAppend
  <2>3. QED
    BY <1>1, <1>3, <2>1, <2>2, QueueTypes DEF h
<1>4. QED
  BY <1>2, <1>3

LEMMA EffectPutBack ==
  ASSUME TypeOK, PutBack
  PROVE  /\ offline_cache' \in Seq(Seq(Packet))
         /\ LineRounds(offline_cache') = LineRounds(offline_cache) \union LineRounds(failed)
         /\ Once(offline_cache) /\ Once(failed)
              /\ LineRounds(offline_cache) \cap LineRounds(failed) = {}
              => Once(offline_cache')
<1>1. offline_cache' = offline_cache \o failed
  BY DEF PutBack
<1>2. QED
  BY <1>1, QueueTypes, LineRoundsOfConcat

(* The pop of trans_message and that of the handler.                        *)
LEMMA EffectPop ==
  ASSUME TypeOK, transmit # <<>>, transmit' = Tail(transmit)
  PROVE  LET h == Head(transmit)
         IN  /\ h \in Packet /\ transmit' \in Seq(Packet)
             /\ Rounds(transmit) = {h.n} \union Rounds(transmit')
             /\ Distinct(transmit) => Distinct(transmit') /\ h.n \notin Rounds(transmit')
             /\ <<h>> \in Seq(Packet) /\ Rounds(<<h>>) = {h.n}
             /\ Append(items, h) \in Seq(Packet)
             /\ Rounds(Append(items, h)) = Rounds(items) \union {h.n}
             /\ Distinct(items) /\ h.n \notin Rounds(items) => Distinct(Append(items, h))
<1> DEFINE h == Head(transmit)
<1>1. /\ h \in Packet /\ transmit' \in Seq(Packet)
      /\ Rounds(transmit) = {h.n} \union Rounds(transmit')
      /\ Distinct(transmit) => Distinct(transmit') /\ h.n \notin Rounds(transmit')
  BY QueueTypes, RoundsOfHeadTail
<1> HIDE DEF h
<1>2. <<h>> \in Seq(Packet) /\ Rounds(<<h>>) = {h.n}
  BY <1>1, RoundsOfOne
<1>3. /\ Append(items, h) \in Seq(Packet)
      /\ Rounds(Append(items, h)) = Rounds(items) \union {h.n}
      /\ Distinct(items) /\ h.n \notin Rounds(items) => Distinct(Append(items, h))
  BY <1>1, QueueTypes, RoundsOfAppend
<1>4. QED
  BY <1>1, <1>2, <1>3 DEF h

LEMMA EffectWriteLive ==
  ASSUME TypeOK, NEW ok \in BOOLEAN, WriteLive(ok)
  PROVE  /\ sent' \in Seq(Packet) /\ transmit' \in Seq(Packet)
         /\ Rounds(sent') = Rounds(sent) \union (IF ok THEN Rounds(inflight) ELSE {})
         /\ Rounds(transmit') = Rounds(transmit) \union (IF ok THEN {} ELSE Rounds(inflight))
         /\ Distinct(sent) /\ Rounds(sent) \cap Rounds(inflight) = {} => Distinct(sent')
         /\ Distinct(transmit) /\ Rounds(transmit) \cap Rounds(inflight) = {}
              => Distinct(transmit')
<1>1. Distinct(inflight)
  <2>1. DOMAIN inflight = 1..Len(inflight) /\ Len(inflight) \in {0, 1}
    BY QueueTypes, LenProperties DEF TypeOK
  <2>2. QED
    BY <2>1 DEF Distinct
<1>2. CASE ok
  <2>1. sent' = sent \o inflight /\ transmit' = transmit
    BY <1>2 DEF WriteLive
  <2>2. QED
    BY <1>1, <1>2, <2>1, QueueTypes, RoundsOfConcat
<1>3. CASE ~ok
  <2>1. transmit' = transmit \o inflight /\ sent' = sent
    BY <1>3 DEF WriteLive
  <2>2. QED
    BY <1>1, <1>3, <2>1, QueueTypes, RoundsOfConcat
<1>4. QED
  BY <1>2, <1>3

LEMMA EffectPersistItem ==
  ASSUME TypeOK, StoreOpen, NEW ok \in BOOLEAN, PersistItem(ok)
  PROVE  LET h == Head(items)
         IN  /\ h \in Packet /\ items' \in Seq(Packet) /\ storefile' \in Seq(Seq(Packet))
             /\ Rounds(items) = {h.n} \union Rounds(items')
             /\ Distinct(items) => Distinct(items') /\ h.n \notin Rounds(items')
             /\ LineRounds(storefile') = LineRounds(storefile) \union (IF ok THEN {h.n} ELSE {})
             /\ Once(storefile) /\ h.n \notin LineRounds(storefile) => Once(storefile')
<1> DEFINE h == Head(items)
<1>1. /\ h \in Packet /\ items' \in Seq(Packet)
      /\ Rounds(items) = {h.n} \union Rounds(items')
      /\ Distinct(items) => Distinct(items') /\ h.n \notin Rounds(items')
  BY QueueTypes, RoundsOfHeadTail DEF PersistItem
<1>2. CASE ok /\ ended
  <2>1. storefile' = Append(storefile, <<h>>)
    BY <1>2 DEF PersistItem
  <2> HIDE DEF h
  <2>2. <<h>> \in Seq(Packet) /\ Rounds(<<h>>) = {h.n} /\ Distinct(<<h>>)
    BY <1>1, RoundsOfOne
  <2>3. /\ storefile' \in Seq(Seq(Packet))
        /\ LineRounds(storefile') = LineRounds(storefile) \union {h.n}
        /\ Once(storefile) /\ h.n \notin LineRounds(storefile) => Once(storefile')
    BY <2>1, <2>2, QueueTypes, LineRoundsOfAppend, ZenonT(60)
  <2>4. QED
    BY <1>1, <1>2, <2>3 DEF h
<1>3. CASE ok /\ ~ended
  <2>1. storefile' = [storefile EXCEPT ![Len(storefile)] = Append(@, h)] /\ storefile # <<>>
    BY <1>3 DEF PersistItem, StoreOpen
  <2> HIDE DEF h
  <2>2. /\ storefile' \in Seq(Seq(Packet))
        /\ LineRounds(storefile') = LineRounds(storefile) \union {h.n}
        /\ Once(storefile) /\ h.n \notin LineRounds(storefile) => Once(storefile')
    <3>1. storefile \in Seq(Seq(Packet)) /\ storefile # <<>> /\ h \in Packet
      BY <1>1, <2>1, QueueTypes
    <3>2. QED
      BY <2>1, <3>1, LineRoundsOfGlue, ZenonT(40)
  <2>3. QED
    BY <1>1, <1>3, <2>2 DEF h
<1>4. CASE ~ok
  <2>1. storefile' = storefile
    BY <1>4 DEF PersistItem
  <2>2. QED
    BY <1>1, <1>4, <2>1, QueueTypes
<1>5. QED
  BY <1>2, <1>3, <1>4

(* Every action of Next, with the ends of the process as one.               *)
LEMMA NextSteps ==
  ASSUME [Next]_vars
  PROVE  \/ LoadStore \/ TruncateAndStart \/ PushRound \/ StartRound \/ TakePoll
         \/ PutBack \/ PopLive \/ Signal \/ HandlerHangs \/ DrainUnsafe \/ EndDrain
         \/ Restart \/ Die \/ LoadFails
         \/ \E ok \in BOOLEAN : Resend(ok) \/ WriteLive(ok)
         \/ \E ok \in BOOLEAN : PersistItem(ok)
         \/ \E ok \in BOOLEAN : PersistNewline(ok)
         \/ UNCHANGED vars
BY DEF Next, MainStep, SensorStep, TransStep, WriteFails, PowerLoss, BrokenPipe,
       DrainRace, Exit

-----------------------------------------------------------------------------
(* Where the program stands, and what is empty there.                       *)

Places == StoreOpen /\ NoThreads /\ Loaded /\ NothingToReplay

LEMMA InitStore ==
  ASSUME Init
  PROVE  /\ storefile \in Seq(Seq(Packet)) /\ Stored = 1..produced /\ Once(storefile)
         /\ produced \in 0..MaxPackets /\ base = produced
         /\ \A i \in DOMAIN storefile : storefile[i] # <<>>
<1>1. PICK k \in 0..MaxStored :
        /\ storefile = [i \in 1..k |-> <<[n |-> i, proto |-> "06"]>>]
        /\ produced = k /\ base = k
  BY DEF Init
<1>2. k \in Nat /\ k \in 0..MaxPackets
  BY TransmitterAssumption DEF TransmitterAssumption
<1>3. ASSUME NEW i \in 1..k
      PROVE  storefile[i] \in Seq(Packet) /\ Rounds(storefile[i]) = {i} /\ storefile[i] # <<>>
  <2> DEFINE p == [n |-> i, proto |-> "06"]
  <2>1. p \in Packet /\ p.n = i
    BY <1>2 DEF Packet
  <2>2. storefile[i] = <<p>>
    BY <1>1
  <2> HIDE DEF p
  <2>3. QED
    BY <2>1, <2>2, RoundsOfOne
<1>4. DOMAIN storefile = 1..k
  BY <1>1
<1>5. storefile \in Seq(Seq(Packet))
  <2>1. storefile \in [1..k -> Seq(Packet)]
    BY <1>1, <1>3
  <2>2. QED
    BY <1>2, <2>1, SeqDef
<1>6. Stored = 1..k
  BY <1>3, <1>4 DEF Stored, LineRounds
<1>7. Once(storefile)
  BY <1>1 DEF Once
<1>8. QED
  BY <1>1, <1>2, <1>3, <1>4, <1>5, <1>6, <1>7

LEMMA InitPlaces == Init => Places
BY DEF Init, Places, StoreOpen, NoThreads, Loaded, NothingToReplay, Ending

LEMMA StoreOpenNext == TypeOK /\ StoreOpen /\ [Next]_vars => StoreOpen'
<1> SUFFICES ASSUME TypeOK, StoreOpen, [Next]_vars PROVE StoreOpen'
  OBVIOUS
<1>1. CASE \/ LoadStore \/ PushRound \/ StartRound \/ TakePoll \/ PutBack \/ PopLive
           \/ Die \/ Signal \/ HandlerHangs \/ DrainUnsafe \/ EndDrain \/ Restart
           \/ LoadFails \/ \E ok \in BOOLEAN : Resend(ok) \/ WriteLive(ok)
           \/ UNCHANGED vars
  <2>1. UNCHANGED <<storefile, ended>> /\ (main' = main \/ main' # "newline")
    BY <1>1 DEF LoadStore, PushRound, StartRound, TakePoll, PutBack, PopLive, Die,
                Signal, HandlerHangs, DrainUnsafe, EndDrain, Restart, Resend, WriteLive,
                LoadFails, vars
  <2>2. QED
    BY <2>1 DEF StoreOpen
<1>2. CASE TruncateAndStart
  BY <1>2 DEF TruncateAndStart, StoreOpen
<1>3. ASSUME NEW ok \in BOOLEAN, PersistItem(ok) PROVE StoreOpen'
  <2>1. CASE ok /\ ended
    <3> DEFINE l == <<Head(items)>>
    <3>1. l \in Seq(Packet) /\ storefile' = Append(storefile, l) /\ ended' = FALSE
      BY <1>3, <2>1, QueueTypes DEF PersistItem
    <3> HIDE DEF l
    <3>2. QED
      BY <3>1, QueueTypes, AppendIsNotEmpty DEF StoreOpen
  <2>2. CASE ok /\ ~ended
    <3>1. /\ storefile' = [storefile EXCEPT ![Len(storefile)] = Append(@, Head(items))]
          /\ storefile # <<>> /\ ended' = FALSE
      BY <1>3, <2>2 DEF PersistItem, StoreOpen
    <3>2. DOMAIN storefile' = DOMAIN storefile /\ DOMAIN storefile # {}
      BY <3>1, QueueTypes, LenProperties, EmptySeq
    <3>3. QED
      BY <3>1, <3>2 DEF StoreOpen
  <2>3. CASE ~ok
    BY <1>3, <2>3 DEF PersistItem, StoreOpen
  <2>4. QED
    BY <2>1, <2>2, <2>3
<1>4. ASSUME NEW ok \in BOOLEAN, PersistNewline(ok) PROVE StoreOpen'
  BY <1>4 DEF PersistNewline, StoreOpen
<1>5. QED
  BY <1>1, <1>2, <1>3, <1>4, NextSteps

LEMMA PlacesNext == TypeOK /\ Places /\ [Next]_vars => Places'
<1> SUFFICES ASSUME TypeOK, Places, [Next]_vars
             PROVE  NoThreads' /\ Loaded' /\ NothingToReplay'
  BY StoreOpenNext DEF Places
<1> USE DEF Places, NoThreads, Loaded, NothingToReplay, Running, Ending
<1>1. CASE LoadStore
  <2>1. "read" \notin Faults => Stored' \subseteq LineRounds(offline_cache')
    BY <1>1, EffectLoadStore DEF LoadStore, Stored
  <2>2. QED
    BY <1>1, <2>1 DEF LoadStore, TypeOK
<1>2. CASE TruncateAndStart
  BY <1>2 DEF TruncateAndStart, queueVars, TypeOK
<1>3. CASE PushRound \/ StartRound
  BY <1>3 DEF PushRound, StartRound, queueVars, ghostVars, TypeOK
<1>4. CASE TakePoll \/ PutBack
  BY <1>4 DEF TakePoll, PutBack, ghostVars, TypeOK
<1>5. CASE PopLive
  BY <1>5 DEF PopLive, ghostVars, TypeOK
<1>6. CASE \E ok \in BOOLEAN : Resend(ok) \/ WriteLive(ok)
  BY <1>6 DEF Resend, WriteLive
<1>7. CASE Die
  BY <1>7 DEF Die
<1>8. CASE Signal \/ HandlerHangs \/ EndDrain \/ Restart
  BY <1>8 DEF Signal, HandlerHangs, EndDrain, Restart, queueVars, ghostVars, TypeOK
<1>9. CASE DrainUnsafe
  BY <1>9 DEF DrainUnsafe, ghostVars
<1>10. CASE \E ok \in BOOLEAN : PersistItem(ok) \/ PersistNewline(ok)
  BY <1>10 DEF PersistItem, PersistNewline, queueVars, ghostVars
<1>11. CASE UNCHANGED vars
  BY <1>11 DEF vars, queueVars, ghostVars, Stored
<1>12. CASE LoadFails
  BY <1>12 DEF LoadFails, queueVars, ghostVars, TypeOK
<1>13. QED
  BY <1>1, <1>2, <1>3, <1>4, <1>5, <1>6, <1>7, <1>8, <1>9, <1>10, <1>11, <1>12, NextSteps

-----------------------------------------------------------------------------
(* Types, and the account of every round: one invariant, since the rounds   *)
(* that are lost are among those reported only if those in memory are.      *)

QueuesOK ==
  /\ transmit \in Seq(Packet) /\ inflight \in Seq(Packet)
  /\ items \in Seq(Packet) /\ sent \in Seq(Packet)
  /\ offline_cache \in Seq(Seq(Packet)) /\ pending \in Seq(Seq(Packet))
  /\ failed \in Seq(Seq(Packet)) /\ storefile \in Seq(Seq(Packet))

ThreadsOK ==
  /\ main \in {"boot", "loaded", "run", "drain", "persist", "newline", "hung", "down"}
  /\ sensor \in {"off", "collect", "wait"}
  /\ trans \in {"off", "poll", "resend", "putback", "pop", "write"}
  /\ (trans = "write") <=> (inflight # <<>>)
  /\ (trans = "resend") <=> (pending # <<>>)
  /\ failed # <<>> => trans \in {"resend", "putback"}
  /\ Len(inflight) \in {0, 1}
  /\ ready \in BOOLEAN /\ disturbed \in BOOLEAN
  /\ handlers \in 0..3
  /\ (handlers > 0) <=> (main \in {"drain", "persist", "newline", "hung"})

CountsOK ==
  /\ produced \in 0..MaxPackets /\ base \in 0..produced
  /\ lost \subseteq 1..produced /\ retried \subseteq 1..produced
  /\ lives \in 1..MaxLives

LEMMA TypeParts ==
  /\ TypeOK <=> QueuesOK /\ ThreadsOK /\ CountsOK
  /\ TypeOK' <=> QueuesOK' /\ ThreadsOK' /\ CountsOK'
<1>1. TypeOK <=> QueuesOK /\ ThreadsOK /\ CountsOK
  BY DEF TypeOK, QueuesOK, ThreadsOK, CountsOK
<1>2. TypeOK' <=> QueuesOK' /\ ThreadsOK' /\ CountsOK'
  BY DEF TypeOK, QueuesOK, ThreadsOK, CountsOK
<1>3. QED
  BY <1>1, <1>2

(* No queue holds anything once it is empty. *)
LEMMA EmptyQueue ==
  /\ <<>> \in Seq(Packet) /\ <<>> \in Seq(Seq(Packet)) /\ Len(<<>>) = 0
BY EmptySeq

LEMMA OneMore ==
  ASSUME NEW n \in Nat
  PROVE  1..(n + 1) = 1..n \union {n + 1} /\ 0..n \subseteq 0..(n + 1)
OBVIOUS

LEMMA InitAccounted == Init => TypeOK /\ Accounted
<1> SUFFICES ASSUME Init PROVE TypeOK /\ Accounted
  OBVIOUS
<1>1. /\ storefile \in Seq(Seq(Packet)) /\ Stored = 1..produced
      /\ produced \in 0..MaxPackets /\ base = produced
  BY InitStore
<1>2. /\ transmit = <<>> /\ offline_cache = <<>> /\ pending = <<>>
      /\ failed = <<>> /\ inflight = <<>> /\ items = <<>> /\ sent = <<>>
      /\ lost = {} /\ retried = {}
  BY DEF Init
<1>3. Accounted
  BY <1>1, <1>2, RoundsOfEmpty DEF Accounted, Volatile, Sent
<1>5. base \in 0..produced /\ lives \in 1..MaxLives
  BY <1>1, TransmitterAssumption DEF Init, TransmitterAssumption
<1>6. TypeOK
  <2>1. QueuesOK
    BY <1>1, <1>2, EmptyQueue DEF QueuesOK
  <2>2. ThreadsOK
    <3>1. Len(inflight) = 0 /\ ready \in BOOLEAN /\ disturbed \in BOOLEAN
      BY <1>2, EmptyQueue DEF Init
    <3>2. /\ main = "boot" /\ sensor = "off" /\ trans = "off" /\ handlers = 0
      BY DEF Init
    <3>3. handlers \in 0..3 /\ ~(handlers > 0)
      BY <3>2
    <3>4. QED
      BY <1>2, <3>1, <3>2, <3>3 DEF ThreadsOK
  <2>3. CountsOK
    BY <1>1, <1>2, <1>5 DEF CountsOK
  <2>4. QED
    BY <2>1, <2>2, <2>3, TypeParts
<1>7. QED
  BY <1>3, <1>6

LEMMA Known ==
  ASSUME Accounted
  PROVE  /\ Rounds(transmit) \subseteq 1..produced /\ Rounds(inflight) \subseteq 1..produced
         /\ Rounds(items) \subseteq 1..produced /\ Sent \subseteq 1..produced
         /\ LineRounds(offline_cache) \subseteq 1..produced
         /\ LineRounds(pending) \subseteq 1..produced
         /\ LineRounds(failed) \subseteq 1..produced /\ Stored \subseteq 1..produced
         /\ lost \subseteq 1..produced
BY DEF Accounted, Volatile

LEMMA TypeNext == TypeOK /\ Accounted /\ Places /\ [Next]_vars => TypeOK'
<1> SUFFICES ASSUME QueuesOK, ThreadsOK, CountsOK, TypeOK, Accounted, Places, [Next]_vars
             PROVE  QueuesOK' /\ ThreadsOK' /\ CountsOK'
  BY TypeParts
<1> USE EmptyQueue
<1>1. CASE LoadStore
  <2>1. offline_cache' \in Seq(Seq(Packet))
    BY <1>1, EffectLoadStore
  <2>2. QED
    BY <1>1, <2>1 DEF LoadStore, ghostVars, QueuesOK, ThreadsOK, CountsOK
<1>2. CASE TruncateAndStart
  <2>0. lost' \subseteq 1..produced
    BY <1>2, Known DEF TruncateAndStart
  <2>1. QueuesOK' /\ CountsOK'
    BY <1>2, <2>0 DEF TruncateAndStart, queueVars, QueuesOK, CountsOK
  <2>2. trans = "off"
    BY <1>2 DEF TruncateAndStart, Places, NoThreads, ThreadsOK
  <2>3. ThreadsOK'
    BY <1>2, <2>2 DEF TruncateAndStart, queueVars, ThreadsOK
  <2>4. QED
    BY <2>1, <2>3
<1>f. CASE LoadFails
  <2>1. QueuesOK' /\ CountsOK'
    BY <1>f DEF LoadFails, queueVars, ghostVars, QueuesOK, CountsOK
  <2>2. trans = "off"
    BY <1>f DEF LoadFails, Places, NoThreads, ThreadsOK
  <2>3. ThreadsOK'
    BY <1>f, <2>2 DEF LoadFails, queueVars, ghostVars, ThreadsOK
  <2>4. QED
    BY <2>1, <2>3
<1>3. CASE PushRound
  <2>1. transmit' \in Seq(Packet)
    BY <1>3, EffectPushRound
  <2>2. QueuesOK' /\ ThreadsOK'
    BY <1>3, <2>1 DEF PushRound, ghostVars, QueuesOK, ThreadsOK
  <2>3. /\ produced \in Nat /\ produced' = produced + 1 /\ produced' \in 0..MaxPackets
        /\ UNCHANGED <<base, lost, retried, lives>>
    BY <1>3, TransmitterAssumption DEF PushRound, ghostVars, TransmitterAssumption, CountsOK
  <2>4. CountsOK'
    BY <2>3, OneMore DEF CountsOK
  <2>5. QED
    BY <2>2, <2>4
<1>4. CASE StartRound
  BY <1>4 DEF StartRound, queueVars, ghostVars, QueuesOK, ThreadsOK, CountsOK
<1>5. CASE TakePoll
  BY <1>5 DEF TakePoll, QueuesOK, ThreadsOK, CountsOK
<1>6. ASSUME NEW ok \in BOOLEAN, Resend(ok) PROVE QueuesOK' /\ ThreadsOK' /\ CountsOK'
  <2>1. sent' \in Seq(Packet) /\ failed' \in Seq(Seq(Packet)) /\ pending' \in Seq(Seq(Packet))
    BY <1>6, EffectResend
  <2>2. pending' = <<>> <=> Len(pending) = 1
    <3>1. Len(pending') = Len(pending) - 1 /\ Len(pending) \in Nat \ {0}
      BY <1>6, QueueTypes, HeadTailProperties, EmptySeq DEF Resend
    <3>2. pending' # <<>> => Len(pending') # 0
      BY <2>1, EmptySeq
    <3>3. QED
      BY <3>1, <3>2
  <2>3. QED
    BY <1>6, <2>1, <2>2 DEF Resend, QueuesOK, ThreadsOK, CountsOK
<1>7. CASE PutBack
  BY <1>7, EffectPutBack DEF PutBack, ghostVars, QueuesOK, ThreadsOK, CountsOK
<1>8. CASE PopLive
  <2>1. CASE transmit = <<>>
    BY <1>8, <2>1 DEF PopLive, ghostVars, QueuesOK, ThreadsOK, CountsOK
  <2>2. CASE transmit # <<>>
    <3> DEFINE h == Head(transmit)
    <3>1. transmit' \in Seq(Packet) /\ <<h>> \in Seq(Packet) /\ <<h>> # <<>> /\ Len(<<h>>) = 1
      BY <1>8, <2>2, EffectPop DEF PopLive
    <3>2. inflight' = <<h>>
      BY <1>8, <2>2 DEF PopLive
    <3> HIDE DEF h
    <3>3. QED
      BY <1>8, <2>2, <3>1, <3>2 DEF PopLive, ghostVars, QueuesOK, ThreadsOK, CountsOK
  <2>3. QED
    BY <2>1, <2>2
<1>9. ASSUME NEW ok \in BOOLEAN, WriteLive(ok) PROVE QueuesOK' /\ ThreadsOK' /\ CountsOK'
  <2>1. sent' \in Seq(Packet) /\ transmit' \in Seq(Packet)
    BY <1>9, EffectWriteLive
  <2>2. retried' \subseteq 1..produced
    BY <1>9, Known DEF WriteLive, CountsOK
  <2>3. QED
    BY <1>9, <2>1, <2>2 DEF WriteLive, QueuesOK, ThreadsOK, CountsOK
<1>10. CASE Die
  <2>1. lost' \subseteq 1..produced
    BY <1>10 DEF Die, Accounted
  <2>2. QueuesOK'
    BY <1>10 DEF Die, QueuesOK
  <2>3. ThreadsOK'
    <3>1. Len(inflight') = 0 /\ ready' \in BOOLEAN /\ disturbed' \in BOOLEAN
      BY <1>10 DEF Die, ThreadsOK
    <3>2. /\ main' = "down" /\ sensor' = "off" /\ trans' = "off" /\ handlers' = 0
          /\ pending' = <<>> /\ failed' = <<>> /\ inflight' = <<>>
      BY <1>10 DEF Die
    <3>3. handlers' \in 0..3 /\ ~(handlers' > 0)
      BY <3>2
    <3>4. QED
      BY <3>1, <3>2, <3>3 DEF ThreadsOK
  <2>4. CountsOK'
    BY <1>10, <2>1 DEF Die, CountsOK
  <2>5. QED
    BY <2>2, <2>3, <2>4
<1>11. CASE Signal
  <2>1. lost' \subseteq 1..produced
    BY <1>11, Known DEF Signal
  <2>2. QueuesOK'
    BY <1>11 DEF Signal, queueVars, QueuesOK
  <2>3. ThreadsOK'
    BY <1>11 DEF Signal, queueVars, ThreadsOK
  <2>4. CountsOK'
    BY <1>11, <2>1 DEF Signal, CountsOK
  <2>5. QED
    BY <2>2, <2>3, <2>4
<1>12. CASE DrainUnsafe
  <2>1. transmit' \in Seq(Packet) /\ items' \in Seq(Packet)
    BY <1>12, EffectPop DEF DrainUnsafe
  <2>2. QED
    BY <1>12, <2>1 DEF DrainUnsafe, ghostVars, QueuesOK, ThreadsOK, CountsOK
<1>13. CASE HandlerHangs \/ EndDrain
  <2>1. QueuesOK' /\ CountsOK'
    BY <1>13 DEF HandlerHangs, EndDrain, queueVars, ghostVars, QueuesOK, CountsOK
  <2>2. ThreadsOK'
    BY <1>13 DEF HandlerHangs, EndDrain, queueVars, ghostVars, ThreadsOK
  <2>3. QED
    BY <2>1, <2>2
<1>14. ASSUME NEW ok \in BOOLEAN, PersistItem(ok) PROVE QueuesOK' /\ ThreadsOK' /\ CountsOK'
  <2>1. /\ items' \in Seq(Packet) /\ storefile' \in Seq(Seq(Packet))
        /\ Head(items).n \in Rounds(items)
    BY <1>14, EffectPersistItem DEF Places
  <2>2. lost' \subseteq 1..produced
    BY <1>14, <2>1, Known DEF PersistItem
  <2>3. QED
    BY <1>14, <2>1, <2>2 DEF PersistItem, queueVars, QueuesOK, ThreadsOK, CountsOK
<1>15. ASSUME NEW ok \in BOOLEAN, PersistNewline(ok)
       PROVE  QueuesOK' /\ ThreadsOK' /\ CountsOK'
  BY <1>15 DEF PersistNewline, queueVars, ghostVars, QueuesOK, ThreadsOK, CountsOK
<1>16. CASE Restart
  <2>1. QueuesOK' /\ ThreadsOK'
    BY <1>16 DEF Restart, queueVars, QueuesOK, ThreadsOK
  <2>2. CountsOK'
    BY <1>16, TransmitterAssumption DEF Restart, CountsOK, TransmitterAssumption
  <2>3. QED
    BY <2>1, <2>2
<1>17. CASE UNCHANGED vars
  BY <1>17, SMTT(30) DEF vars, queueVars, ghostVars, QueuesOK, ThreadsOK, CountsOK
<1>18. QED
  BY <1>f, <1>1, <1>2, <1>3, <1>4, <1>5, <1>6, <1>7, <1>8, <1>9, <1>10, <1>11, <1>12,
     <1>13, <1>14, <1>15, <1>16, <1>17, NextSteps

LEMMA AccountedNext == TypeOK /\ Accounted /\ Places /\ [Next]_vars => Accounted'
<1> SUFFICES ASSUME TypeOK, Accounted, Places, [Next]_vars PROVE Accounted'
  OBVIOUS
<1> USE DEF Accounted, Volatile, Stored, Sent
<1>1. CASE LoadStore
  BY <1>1, EffectLoadStore DEF LoadStore, ghostVars
<1>2. CASE TruncateAndStart
  BY <1>2, RoundsOfEmpty DEF TruncateAndStart, queueVars
<1>f. CASE LoadFails
  BY <1>f DEF LoadFails, queueVars, ghostVars
<1>3. CASE PushRound
  <2>1. produced \in Nat /\ produced' = produced + 1
    BY <1>3 DEF PushRound, TypeOK
  <2>2. QED
    BY <1>3, <2>1, OneMore, EffectPushRound DEF PushRound, ghostVars
<1>4. CASE StartRound
  BY <1>4 DEF StartRound, queueVars, ghostVars
<1>5. CASE TakePoll
  <2>1. pending = <<>>
    BY <1>5 DEF TakePoll, TypeOK
  <2>2. QED
    BY <1>5, <2>1, RoundsOfEmpty DEF TakePoll
<1>6. ASSUME NEW ok \in BOOLEAN, Resend(ok) PROVE Accounted'
  BY <1>6, EffectResend DEF Resend
<1>7. CASE PutBack
  BY <1>7, EffectPutBack, RoundsOfEmpty DEF PutBack, ghostVars
<1>8. CASE PopLive
  <2>1. CASE transmit = <<>>
    BY <1>8, <2>1 DEF PopLive, ghostVars
  <2>2. CASE transmit # <<>>
    <3>1. inflight = <<>>
      BY <1>8 DEF PopLive, TypeOK
    <3>2. QED
      BY <1>8, <2>2, <3>1, EffectPop, RoundsOfEmpty DEF PopLive, ghostVars
  <2>3. QED
    BY <2>1, <2>2
<1>9. ASSUME NEW ok \in BOOLEAN, WriteLive(ok) PROVE Accounted'
  BY <1>9, EffectWriteLive, RoundsOfEmpty DEF WriteLive
<1>10. CASE Die
  BY <1>10, RoundsOfEmpty DEF Die
<1>11. CASE Signal
  BY <1>11, RoundsOfEmpty DEF Signal, queueVars
<1>12. CASE DrainUnsafe
  BY <1>12, EffectPop DEF DrainUnsafe, ghostVars
<1>13. CASE HandlerHangs \/ EndDrain \/ Restart
  BY <1>13 DEF HandlerHangs, EndDrain, Restart, queueVars, ghostVars
<1>14. ASSUME NEW ok \in BOOLEAN, PersistItem(ok) PROVE Accounted'
  BY <1>14, EffectPersistItem DEF PersistItem, queueVars, Places
<1>15. ASSUME NEW ok \in BOOLEAN, PersistNewline(ok) PROVE Accounted'
  BY <1>15 DEF PersistNewline, queueVars, ghostVars
<1>16. CASE UNCHANGED vars
  BY <1>16 DEF vars, queueVars, ghostVars
<1>17. QED
  BY <1>f, <1>1, <1>2, <1>3, <1>4, <1>5, <1>6, <1>7, <1>8, <1>9, <1>10, <1>11, <1>12,
     <1>13, <1>14, <1>15, <1>16, NextSteps

-----------------------------------------------------------------------------
(* Marks: what a packet says of the life of the process it comes from.      *)

LEMMA InitMarked == Init => Marked
<1> SUFFICES ASSUME Init PROVE Marked
  OBVIOUS
<1>1. \A l \in ToSet(storefile) : l # <<>>
  BY InitStore DEF ToSet
<1>2. base = produced
  BY InitStore
<1>3. /\ transmit = <<>> /\ inflight = <<>> /\ offline_cache = <<>>
      /\ pending = <<>> /\ failed = <<>>
  BY DEF Init
<1>4. QED
  BY <1>1, <1>2, <1>3, ElementsOfEmpty DEF Marked

(* The lines read from the store file are replays of earlier lives.         *)
LEMMA MarkedIsReplay ==
  ASSUME TypeOK, Accounted, Marked, main = "boot",
         NEW read, DOMAIN read \subseteq DOMAIN storefile,
         \A i \in DOMAIN read : read[i] = storefile[i],
         NEW t, t = [i \in DOMAIN read |-> [read[i] EXCEPT ![1].proto = "21"]]
  PROVE  \A l \in ToSet(t) : Replay(l)
<1> SUFFICES ASSUME NEW i \in DOMAIN read PROVE Replay(t[i])
  BY DEF ToSet
<1>0. i \in DOMAIN storefile
  OBVIOUS
<1> DEFINE l == storefile[i]
<1>1. l \in Seq(Packet) /\ l # <<>>
  BY <1>0, QueueTypes DEF Marked, ToSet
<1>2. t[i] = [l EXCEPT ![1].proto = "21"]
  OBVIOUS
<1>3. \A k \in DOMAIN l : l[k].n <= base
  <2> SUFFICES ASSUME NEW k \in DOMAIN l PROVE l[k].n <= base
    OBVIOUS
  <2>1. l[k].n \in Stored
    BY <1>0 DEF Stored, LineRounds, Rounds
  <2>2. base = produced /\ Stored \subseteq 1..produced /\ produced \in Nat
    BY Known DEF Marked, TypeOK
  <2>3. QED
    BY <2>1, <2>2
<1> HIDE DEF l
<1>4. 1 \in DOMAIN l /\ l[1] \in Packet /\ DOMAIN l = 1..Len(l)
  BY <1>1, LenProperties, EmptySeq
<1>5. t[i][1].proto = "21" /\ DOMAIN t[i] = DOMAIN l
  BY <1>2, <1>4 DEF Packet
<1>6. \A k \in DOMAIN l : t[i][k].n = l[k].n
  BY <1>2, <1>4 DEF Packet
<1>7. t[i] # <<>>
  BY <1>4, <1>5
<1>8. QED
  BY <1>3, <1>5, <1>6, <1>7 DEF Replay

LEMMA MarkedNext ==
  TypeOK /\ Accounted /\ Places /\ Marked /\ [Next]_vars => Marked'
<1> SUFFICES ASSUME TypeOK, Accounted, Places, Marked, [Next]_vars PROVE Marked'
  OBVIOUS
<1> USE ElementsOfEmpty, QueueTypes DEF Marked
<1>1. CASE LoadStore
  <2>2. PICK read, t \in Seq(Seq(Packet)) :
          /\ DOMAIN read \subseteq DOMAIN storefile
          /\ \A i \in DOMAIN read : read[i] = storefile[i]
          /\ t = [i \in DOMAIN read |-> [read[i] EXCEPT ![1].proto = "21"]]
          /\ offline_cache' = offline_cache \o t
    BY <1>1, EffectLoadStore
  <2>0. main = "boot"
    BY <1>1 DEF LoadStore
  <2>1. \A l \in ToSet(t) : Replay(l)
    BY <2>0, <2>2, MarkedIsReplay
  <2>t. t \in Seq(Seq(Packet)) /\ offline_cache' = offline_cache \o t
    BY <2>2
  <2>3. ToSet(offline_cache') = ToSet(offline_cache) \union ToSet(t)
    BY <2>t, ElementsOfConcat
  <2>4. QED
    BY <1>1, <2>1, <2>3 DEF LoadStore, ghostVars, Live, Replay
<1>2. CASE TruncateAndStart
  BY <1>2 DEF TruncateAndStart, queueVars, Live, Replay
<1>f. CASE LoadFails
  BY <1>f DEF LoadFails, queueVars, ghostVars, Live, Replay
<1>3. CASE PushRound
  <2> DEFINE p == [n |-> produced + 1, proto |-> "06"]
  <2>1. p \in Packet /\ Live(p) /\ transmit' = Append(transmit, p)
    <3>1. produced \in Nat /\ base \in Nat /\ base <= produced
      BY DEF TypeOK
    <3>2. p.n = produced + 1 /\ p.proto = "06"
      OBVIOUS
    <3>3. p \in Packet
      BY <3>1 DEF Packet
    <3>4. transmit' = Append(transmit, p)
      BY <1>3 DEF PushRound
    <3>5. QED
      BY <3>1, <3>2, <3>3, <3>4 DEF Live
  <2> HIDE DEF p
  <2>2. ToSet(transmit') = ToSet(transmit) \union {p}
    BY <2>1, ElementsOfAppend
  <2>3. main \notin {"boot", "loaded"}
    BY <1>3 DEF PushRound, Running
  <2>4. QED
    BY <1>3, <2>1, <2>2, <2>3 DEF PushRound, ghostVars, Live, Replay
<1>4. CASE StartRound
  BY <1>4 DEF StartRound, queueVars, ghostVars, Live, Replay
<1>5. CASE TakePoll
  BY <1>5 DEF TakePoll, Live, Replay
<1>6. ASSUME NEW ok \in BOOLEAN, Resend(ok) PROVE Marked'
  <2>1. pending \in Seq(Seq(Packet)) /\ pending # <<>> /\ Head(pending) \in Seq(Packet)
    BY <1>6, HeadTailProperties DEF Resend
  <2>2. ToSet(pending) = {Head(pending)} \union ToSet(pending')
    BY <1>6, <2>1, ElementsOfHeadTail DEF Resend
  <2>3. ToSet(failed') \subseteq ToSet(failed) \union {Head(pending)}
    <3>1. ToSet(Append(failed, Head(pending))) = ToSet(failed) \union {Head(pending)}
      BY <2>1, QueueTypes, ElementsOfAppend
    <3>2. failed' = failed \/ failed' = Append(failed, Head(pending))
      BY <1>6 DEF Resend
    <3> QED
      BY <3>1, <3>2
  <2>4. QED
    BY <1>6, <2>2, <2>3 DEF Resend, Live, Replay
<1>7. CASE PutBack
  <2>1. ToSet(offline_cache') = ToSet(offline_cache) \union ToSet(failed)
    BY <1>7, ElementsOfConcat DEF PutBack
  <2>2. QED
    BY <1>7, <2>1 DEF PutBack, ghostVars, Live, Replay
<1>8. CASE PopLive
  <2>1. CASE transmit = <<>>
    BY <1>8, <2>1 DEF PopLive, ghostVars, Live, Replay
  <2>2. CASE transmit # <<>>
    <3>1. ToSet(transmit) = {Head(transmit)} \union ToSet(transmit')
      BY <1>8, <2>2, ElementsOfHeadTail DEF PopLive
    <3>2. ToSet(inflight') = {Head(transmit)}
      BY <1>8, <2>2, ElementsOfOne DEF PopLive
    <3>3. QED
      BY <1>8, <3>1, <3>2 DEF PopLive, ghostVars, Live, Replay
  <2>3. QED
    BY <2>1, <2>2
<1>9. ASSUME NEW ok \in BOOLEAN, WriteLive(ok) PROVE Marked'
  <2>1. ToSet(transmit') \subseteq ToSet(transmit) \union ToSet(inflight)
    <3>1. ToSet(transmit \o inflight) = ToSet(transmit) \union ToSet(inflight)
      BY ElementsOfConcat
    <3>2. transmit' = transmit \/ transmit' = transmit \o inflight
      BY <1>9 DEF WriteLive
    <3>3. QED
      BY <3>1, <3>2
  <2>2. QED
    BY <1>9, <2>1 DEF WriteLive, Live, Replay
<1>10. CASE Die
  BY <1>10 DEF Die
<1>11. CASE Signal \/ HandlerHangs \/ EndDrain
  BY <1>11 DEF Signal, HandlerHangs, EndDrain, queueVars, ghostVars, Live, Replay
<1>12. CASE DrainUnsafe
  <2>1. ToSet(transmit) = {Head(transmit)} \union ToSet(transmit')
    BY <1>12, ElementsOfHeadTail DEF DrainUnsafe
  <2>2. QED
    BY <1>12, <2>1 DEF DrainUnsafe, ghostVars, Live, Replay
<1>13. ASSUME NEW ok \in BOOLEAN, PersistItem(ok) PROVE Marked'
  <2>1. \A l \in ToSet(storefile') : l # <<>>
    <3>1. Head(items) \in Packet
      BY <1>13, HeadTailProperties DEF PersistItem
    <3>2. CASE ok /\ ended
      <4> DEFINE l == <<Head(items)>>
      <4>1. l \in Seq(Packet) /\ l # <<>> /\ storefile' = Append(storefile, l)
        BY <1>13, <3>1, <3>2 DEF PersistItem
      <4> HIDE DEF l
      <4>2. QED
        BY <4>1, ElementsOfAppend
    <3>3. CASE ok /\ ~ended
      <4> DEFINE m == Len(storefile)
      <4>1. /\ storefile' = [storefile EXCEPT ![m] = Append(storefile[m], Head(items))]
            /\ storefile # <<>>
        BY <1>13, <3>3 DEF PersistItem, Places, StoreOpen
      <4>2. m \in DOMAIN storefile /\ storefile[m] \in Seq(Packet)
        BY <4>1, LenProperties, EmptySeq
      <4>3. Append(storefile[m], Head(items)) # <<>>
        BY <3>1, <4>2, AppendIsNotEmpty
      <4> HIDE DEF m
      <4>4. QED
        BY <4>1, <4>2, <4>3 DEF ToSet
    <3>4. CASE ~ok
      BY <1>13, <3>4 DEF PersistItem
    <3>5. QED
      BY <3>2, <3>3, <3>4
  <2>2. QED
    BY <1>13, <2>1 DEF PersistItem, queueVars, Live, Replay
<1>14. ASSUME NEW ok \in BOOLEAN, PersistNewline(ok) PROVE Marked'
  BY <1>14 DEF PersistNewline, queueVars, ghostVars, Live, Replay
<1>15. CASE Restart
  <2>1. /\ transmit = <<>> /\ inflight = <<>> /\ pending = <<>> /\ failed = <<>>
        /\ sensor = "off" /\ offline_cache = <<>>
    BY <1>15 DEF Restart, Places, NoThreads, TypeOK
  <2>2. QED
    BY <1>15, <2>1 DEF Restart, queueVars, Live, Replay
<1>16. CASE UNCHANGED vars
  BY <1>16 DEF vars, queueVars, ghostVars, Live, Replay
<1>17. QED
  BY <1>f, <1>1, <1>2, <1>3, <1>4, <1>5, <1>6, <1>7, <1>8, <1>9, <1>10, <1>11, <1>12,
     <1>13, <1>14, <1>15, <1>16, NextSteps

-----------------------------------------------------------------------------
(* The order of the live queue.                                             *)

LEMMA InitOrdered == Init => Ordered
BY RoundsOfEmpty DEF Init, Ordered

(* A queue that loses its head keeps its order, and its head was the oldest. *)
LEMMA OrderedPop ==
  ASSUME TypeOK, Ordered, transmit # <<>>, transmit' = Tail(transmit), retried' = retried
  PROVE  /\ \A i, j \in DOMAIN transmit' :
              i < j => transmit'[i].n < transmit'[j].n \/ transmit'[j].n \in retried'
         /\ \A m \in Rounds(transmit') : m > Head(transmit).n \/ m \in retried'
<1> DEFINE t == transmit'
<1>1. /\ Head(transmit) = transmit[1] /\ 1 \in DOMAIN transmit /\ transmit[1] \in Packet
      /\ \A i \in DOMAIN t : /\ i + 1 \in DOMAIN transmit /\ transmit[i + 1] = t[i]
                             /\ i # 0 /\ i \in Nat /\ 1 < i + 1
  <2>1. /\ Head(transmit) = transmit[1] /\ 1 \in DOMAIN transmit /\ Head(transmit) \in Packet
        /\ \A i \in DOMAIN t : i + 1 \in DOMAIN transmit /\ transmit[i + 1] = t[i]
                               /\ i # 0 /\ i \in Nat
    BY QueueTypes, HeadAndTail
  <2>2. QED
    BY <2>1
<1> HIDE DEF t
<1>2. ASSUME NEW i \in DOMAIN t, NEW j \in DOMAIN t, i < j
      PROVE  t[i].n < t[j].n \/ t[j].n \in retried
  <2>1. i + 1 < j + 1
    BY <1>1, <1>2
  <2>2. QED
    BY <1>1, <2>1 DEF Ordered
<1>3. ASSUME NEW j \in DOMAIN t
      PROVE  t[j].n > transmit[1].n \/ t[j].n \in retried
  <2>1. transmit[1].n < transmit[j + 1].n \/ transmit[j + 1].n \in retried
    BY <1>1 DEF Ordered
  <2>2. transmit[j + 1] = t[j] /\ t[j] \in Packet
    BY <1>1, QueueTypes
  <2>3. QED
    BY <1>1, <2>1, <2>2 DEF Packet
<1>4. QED
  BY <1>1, <1>2, <1>3 DEF Rounds, t

LEMMA OrderedNext == TypeOK /\ Accounted /\ Ordered /\ [Next]_vars => Ordered'
<1> SUFFICES ASSUME TypeOK, Accounted, Ordered, [Next]_vars PROVE Ordered'
  OBVIOUS
<1>1. CASE PushRound
  <2> DEFINE p == [n |-> produced + 1, proto |-> "06"]
  <2>1. /\ p \in Packet /\ p.n = produced + 1 /\ produced \in Nat
        /\ transmit' = Append(transmit, p) /\ inflight' = inflight /\ retried' = retried
    BY <1>1 DEF PushRound, ghostVars, TypeOK, Packet
  <2> HIDE DEF p
  <2>2. /\ \A r \in Rounds(transmit) \union Rounds(inflight) : r < p.n
        /\ \A i \in DOMAIN transmit : transmit[i].n < p.n
    <3>1. \A r \in Rounds(transmit) \union Rounds(inflight) : r < p.n
      BY <2>1, Known
    <3>2. \A i \in DOMAIN transmit : transmit[i].n \in Rounds(transmit)
      BY DEF Rounds
    <3>3. QED
      BY <3>1, <3>2
  <2>3. /\ \A i \in DOMAIN transmit' : \/ (i \in DOMAIN transmit /\ transmit'[i] = transmit[i])
                                       \/ (i = Len(transmit) + 1 /\ transmit'[i] = p)
        /\ \A i \in DOMAIN transmit : i < Len(transmit) + 1
    <3>1. \A i \in DOMAIN transmit : i < Len(transmit) + 1
      BY QueueTypes, LenProperties
    <3>2. QED
      BY <2>1, <3>1, QueueTypes, AppendByIndex
  <2>4. ASSUME NEW i \in DOMAIN transmit', NEW j \in DOMAIN transmit', i < j
        PROVE  transmit'[i].n < transmit'[j].n \/ transmit'[j].n \in retried'
    <3>1. CASE j \in DOMAIN transmit /\ transmit'[j] = transmit[j]
      <4>1. CASE i \in DOMAIN transmit /\ transmit'[i] = transmit[i]
        BY <2>1, <2>4, <3>1, <4>1 DEF Ordered
      <4>2. CASE i = Len(transmit) + 1
        <5>1. j < Len(transmit) + 1 /\ Len(transmit) \in Nat /\ j \in Nat
          BY <2>3, <3>1, QueueTypes, LenProperties
        <5>2. QED
          BY <2>4, <4>2, <5>1
      <4>3. QED
        BY <2>3, <4>1, <4>2
    <3>2. CASE j = Len(transmit) + 1 /\ transmit'[j] = p
      <4>1. i \in DOMAIN transmit /\ transmit'[i] = transmit[i]
        <5>1. i # Len(transmit) + 1
          <6>1. Len(transmit) \in Nat
            BY QueueTypes, LenProperties
          <6>2. QED
            BY <2>4, <3>2, <6>1
        <5>2. QED
          BY <2>3, <5>1
      <4>2. QED
        BY <2>2, <3>2, <4>1
    <3>3. QED
      BY <2>3, <3>1, <3>2
  <2>5. \A r \in Rounds(inflight'), m \in Rounds(transmit') : m > r \/ m \in retried'
    <3>1. Rounds(transmit') = Rounds(transmit) \union {p.n}
      BY <2>1, QueueTypes, RoundsOfAppend
    <3>2. \A r \in Rounds(inflight) : p.n > r
      BY <2>2, <2>1, Known
    <3>3. QED
      BY <2>1, <3>1, <3>2 DEF Ordered
  <2>6. QED
    BY <2>4, <2>5 DEF Ordered
<1>2. CASE PopLive
  <2>1. CASE transmit = <<>>
    BY <1>2, <2>1 DEF PopLive, ghostVars, Ordered
  <2>2. CASE transmit # <<>>
    <3>1. transmit' = Tail(transmit) /\ retried' = retried /\ inflight' = <<Head(transmit)>>
      BY <1>2, <2>2 DEF PopLive, ghostVars
    <3>2. Rounds(inflight') = {Head(transmit).n}
      BY <2>2, <3>1, EffectPop
    <3>3. QED
      BY <2>2, <3>1, <3>2, OrderedPop DEF Ordered
  <2>3. QED
    BY <2>1, <2>2
<1>3. CASE DrainUnsafe
  <2>1. /\ transmit # <<>> /\ transmit' = Tail(transmit) /\ retried' = retried
        /\ inflight' = inflight
    BY <1>3 DEF DrainUnsafe, ghostVars
  <2>2. Rounds(transmit') \subseteq Rounds(transmit)
    BY <2>1, EffectPop
  <2>3. QED
    BY <2>1, <2>2, OrderedPop DEF Ordered
<1>4. CASE WriteLive(FALSE)
  <2>1. /\ transmit' = transmit \o inflight /\ retried' = retried \union Rounds(inflight)
        /\ inflight' = <<>>
    BY <1>4 DEF WriteLive
  <2>2. /\ DOMAIN transmit = 1..Len(transmit) /\ Len(transmit) \in Nat
        /\ DOMAIN inflight = 1..Len(inflight) /\ Len(inflight) \in Nat
        /\ DOMAIN transmit' = 1..(Len(transmit) + Len(inflight))
        /\ \A i \in DOMAIN transmit' :
             transmit'[i] = IF i <= Len(transmit) THEN transmit[i] ELSE inflight[i - Len(transmit)]
    BY <2>1, QueueTypes, ConcatProperties, LenProperties
  <2>3. ASSUME NEW i \in DOMAIN transmit', NEW j \in DOMAIN transmit', i < j
        PROVE  transmit'[i].n < transmit'[j].n \/ transmit'[j].n \in retried'
    <3>1. CASE j <= Len(transmit)
      <4>1. /\ i \in DOMAIN transmit /\ j \in DOMAIN transmit
            /\ transmit'[i] = transmit[i] /\ transmit'[j] = transmit[j]
        BY <2>2, <2>3, <3>1
      <4>2. QED
        BY <2>1, <2>3, <4>1 DEF Ordered
    <3>2. CASE ~(j <= Len(transmit))
      <4>1. j - Len(transmit) \in DOMAIN inflight /\ transmit'[j] = inflight[j - Len(transmit)]
        BY <2>2, <3>2
      <4>2. transmit'[j].n \in Rounds(inflight)
        BY <4>1 DEF Rounds
      <4>3. QED
        BY <2>1, <4>2
    <3>3. QED
      BY <3>1, <3>2
  <2>4. QED
    BY <2>1, <2>3, RoundsOfEmpty DEF Ordered
<1>5. CASE Die \/ WriteLive(TRUE)
  BY <1>5, RoundsOfEmpty DEF Die, WriteLive, Ordered
<1>6. CASE \/ LoadStore \/ TruncateAndStart \/ StartRound \/ TakePoll \/ PutBack \/ Signal
           \/ HandlerHangs \/ EndDrain \/ Restart \/ LoadFails \/ UNCHANGED vars
           \/ \E ok \in BOOLEAN : Resend(ok) \/ PersistItem(ok) \/ PersistNewline(ok)
  <2>1. UNCHANGED <<transmit, inflight, retried>>
    BY <1>6 DEF LoadStore, TruncateAndStart, StartRound, TakePoll, PutBack, Signal,
                HandlerHangs, EndDrain, Restart, Resend, PersistItem, PersistNewline,
                LoadFails, vars, queueVars, ghostVars
  <2>2. QED
    BY <2>1 DEF Ordered
<1>7. QED
  BY <1>1, <1>2, <1>3, <1>4, <1>5, <1>6, NextSteps

-----------------------------------------------------------------------------
(* The properties of what is sent.                                          *)

LEMMA InvariantHolds == Spec => [](TypeOK /\ Accounted /\ Places /\ Marked /\ Ordered)
<1>1. Init => TypeOK /\ Accounted /\ Places /\ Marked /\ Ordered
  BY InitAccounted, InitPlaces, InitMarked, InitOrdered
<1>2. /\ TypeOK /\ Accounted /\ Places /\ Marked /\ Ordered /\ [Next]_vars
      => (TypeOK /\ Accounted /\ Places /\ Marked /\ Ordered)'
  BY TypeNext, AccountedNext, PlacesNext, MarkedNext, OrderedNext
<1>3. QED
  BY <1>1, <1>2, PTL DEF Spec

(* Which thread holds which local, whatever fails: send_mess has packets in *)
(* pending_packets only while it resends, and one popped packet only while  *)
(* it writes; a handler is entered at most three times.                    *)
THEOREM TypeCorrect == Spec => []TypeOK
BY InvariantHolds, PTL

(* No step of sensor_driver.cpp, message_transmitter.cpp or of the handler  *)
(* in modbus_9001.cpp drops a round unnoticed: each round reported is in a  *)
(* queue, in the store file, at the gateway, or lost with a process or with *)
(* what a start could not read.                                            *)
THEOREM EveryRoundAccounted == Spec => []Accounted
BY InvariantHolds, PTL

(* send_mess empties the offline cache, and resends all of it, before it pops *)
(* a live packet: also when a resend fails, for then it waits for a poll.   *)
THEOREM ReplaysGoFirst == Spec => OfflineFirst
<1>1. /\ TypeOK /\ Places /\ [Next]_vars
      => [sent' # sent /\ trans = "write"
            => offline_cache = <<>> /\ pending = <<>> /\ failed = <<>>]_vars
  BY DEF TypeOK, Places, NothingToReplay
<1>2. QED
  BY <1>1, InvariantHolds, PTL DEF OfflineFirst, Spec

(* tryPop takes the oldest packet of transmit; only a packet whose write     *)
(* failed is pushed behind newer ones.                                      *)
THEOREM LivePacketsInOrder == Spec => LiveInOrder
<1>1. /\ Ordered /\ [Next]_vars
      => [\A r \in Rounds(inflight) : r \in Sent' \ Sent
            => \A m \in Rounds(transmit) : m > r \/ m \in retried]_vars
  BY DEF Ordered
<1>2. QED
  BY <1>1, InvariantHolds, PTL DEF LiveInOrder, Spec

LEMMA NewlySent ==
  ASSUME NEW s \in Seq(Packet), NEW t \in Seq(Packet), t # <<>>
  PROVE  SubSeq(s \o t, Len(s) + 1, Len(s \o t)) = t
<1>1. /\ Len(s) \in Nat /\ Len(t) \in Nat \ {0} /\ Len(s \o t) = Len(s) + Len(t)
  BY ConcatProperties, LenProperties, EmptySeq
<1>2. /\ Len(s) + 1 \in Len(s) + 1..Len(s) + Len(t)
      /\ Len(s) + Len(t) \in Len(s) + 1..Len(s) + Len(t)
      /\ Len(s) + 1 - Len(s) = 1 /\ Len(s) + Len(t) - Len(s) = Len(t)
  BY <1>1
<1>3. SubSeq(s \o t, Len(s) + 1, Len(s) + Len(t))
        = SubSeq(t, Len(s) + 1 - Len(s), Len(s) + Len(t) - Len(s))
  BY <1>2, SubSeqOfConcat2
<1>4. QED
  BY <1>1, <1>2, <1>3, SubSeqFull

LEMMA SentMarked ==
  TypeOK /\ Places /\ Marked /\ [Next]_vars =>
    [sent' # sent =>
       LET new == SubSeq(sent', Len(sent) + 1, Len(sent'))
       IN  /\ new[1].proto = "21" <=> new[1].n <= base
           /\ Len(new) > 1 => \A i \in DOMAIN new : new[i].n <= base]_vars
<1> SUFFICES ASSUME TypeOK, Places, Marked, [Next]_vars, sent' # sent
             PROVE  LET new == SubSeq(sent', Len(sent) + 1, Len(sent'))
                    IN  /\ new[1].proto = "21" <=> new[1].n <= base
                        /\ Len(new) > 1 => \A i \in DOMAIN new : new[i].n <= base
  OBVIOUS
<1>1. Resend(TRUE) \/ WriteLive(TRUE)
  <2>1. CASE \/ LoadStore \/ TruncateAndStart \/ StartRound \/ TakePoll \/ PutBack \/ Signal
             \/ HandlerHangs \/ EndDrain \/ Restart \/ UNCHANGED vars \/ PushRound
             \/ LoadFails \/ PopLive \/ Die \/ DrainUnsafe \/ Resend(FALSE) \/ WriteLive(FALSE)
             \/ \E ok \in BOOLEAN : PersistItem(ok) \/ PersistNewline(ok)
    BY <2>1 DEF LoadStore, TruncateAndStart, StartRound, TakePoll, PutBack, Signal, Die,
                HandlerHangs, EndDrain, Restart, Resend, PersistItem, PersistNewline,
                PushRound, PopLive, DrainUnsafe, WriteLive, LoadFails, vars, queueVars,
                ghostVars
  <2>2. QED
    BY <2>1, NextSteps
<1>2. ASSUME NEW t \in Seq(Packet), t # <<>>, sent' = sent \o t
      PROVE  SubSeq(sent', Len(sent) + 1, Len(sent')) = t
  BY <1>2, QueueTypes, NewlySent
<1>3. CASE Resend(TRUE)
  <2> DEFINE t == Head(pending)
  <2>1. t \in Seq(Packet) /\ t \in ToSet(pending) /\ sent' = sent \o t
    BY <1>3, QueueTypes, HeadTailProperties, ElementsOfHeadTail DEF Resend
  <2> HIDE DEF t
  <2>2. t # <<>> /\ t[1].proto = "21" /\ \A k \in DOMAIN t : t[k].n <= base
    BY <2>1 DEF Marked, Replay
  <2>3. 1 \in DOMAIN t
    BY <2>1, <2>2, LenProperties, EmptySeq
  <2>4. SubSeq(sent', Len(sent) + 1, Len(sent')) = t
    BY <1>2, <2>1, <2>2
  <2>5. QED
    BY <2>2, <2>3, <2>4
<1>4. CASE WriteLive(TRUE)
  <2>1. sent' = sent \o inflight /\ inflight # <<>> /\ Len(inflight) = 1
    BY <1>4, QueueTypes, EmptySeq DEF WriteLive, TypeOK
  <2>2. 1 \in DOMAIN inflight /\ inflight[1] \in Packet
    BY <2>1, QueueTypes, LenProperties
  <2>3. inflight[1].proto = "06" /\ inflight[1].n > base
    BY <2>2 DEF Marked, Live, ToSet
  <2>4. ~(inflight[1].n <= base)
    BY <2>2, <2>3 DEF TypeOK, Packet
  <2>5. SubSeq(sent', Len(sent) + 1, Len(sent')) = inflight
    BY <1>2, <2>1, QueueTypes
  <2>6. inflight[1].proto # "21" /\ ~(Len(inflight) > 1)
    BY <2>1, <2>3
  <2>7. QED
    BY <2>4, <2>5, <2>6, Zenon
<1>5. QED
  BY <1>1, <1>3, <1>4

(* What readFromFile marked 21 is of an earlier life of the process, what   *)
(* ship_data built is of this one, and nothing else is ever written.        *)
THEOREM ReplaysAreMarked == Spec => ReplayMarked
BY SentMarked, InvariantHolds, PTL DEF ReplayMarked, Spec

-----------------------------------------------------------------------------
(* One copy of each round.                                                  *)

LEMMA InitApart == Init => Apart
<1> SUFFICES ASSUME Init PROVE Apart
  OBVIOUS
<1>1. /\ transmit = <<>> /\ offline_cache = <<>> /\ pending = <<>>
      /\ failed = <<>> /\ inflight = <<>> /\ items = <<>> /\ sent = <<>>
  BY DEF Init
<1>2. Distinct(<<>>) /\ Once(<<>>)
  BY DEF Distinct, Once
<1>3. Once(storefile)
  BY InitStore
<1>4. QED
  BY <1>1, <1>2, <1>3, RoundsOfEmpty DEF Apart, Sent

LEMMA ApartNext ==
  ASSUME "truncate" \notin Faults
  PROVE  TypeOK /\ Accounted /\ Places /\ Apart /\ [Next]_vars => Apart'
<1> SUFFICES ASSUME TypeOK, Accounted, Places, Apart, [Next]_vars PROVE Apart'
  OBVIOUS
<1>e. Distinct(<<>>) /\ Once(<<>>) /\ Rounds(<<>>) = {} /\ LineRounds(<<>>) = {}
  BY RoundsOfEmpty DEF Distinct, Once
<1> USE DEF Apart, Stored, Sent
<1>1. CASE LoadStore
  <2>1. offline_cache = <<>>
    BY <1>1 DEF LoadStore, Places, NoThreads
  <2>2. sensor = "off"
    BY <1>1 DEF LoadStore, Places, NoThreads
  <2>3. /\ LineRounds(offline_cache') \subseteq Stored
        /\ Once(offline_cache')
    BY <1>1, <1>e, <2>1, EffectLoadStore
  <2>4. QED
    BY <1>1, <2>2, <2>3 DEF LoadStore, ghostVars
<1>2. CASE TruncateAndStart
  <2>1. storefile' = <<>>
    BY <1>2 DEF TruncateAndStart
  <2>2. QED
    BY <1>2, <1>e, <2>1 DEF TruncateAndStart, queueVars
<1>f. CASE LoadFails
  <2>1. offline_cache = <<>>
    BY <1>f DEF LoadFails, Places, NoThreads
  <2>2. QED
    BY <1>f, <1>e, <2>1 DEF LoadFails, queueVars, ghostVars
<1>3. CASE PushRound
  <2> DEFINE m == produced + 1
  <2>1. /\ m \notin Rounds(transmit) /\ m \notin Rounds(inflight) /\ m \notin Rounds(items)
        /\ m \notin Rounds(sent) /\ m \notin LineRounds(offline_cache)
        /\ m \notin LineRounds(pending) /\ m \notin LineRounds(failed)
        /\ m \notin LineRounds(storefile)
    <3>1. m \notin 1..produced
      BY DEF TypeOK
    <3>2. QED
      BY <3>1, Known
  <2>2. Rounds(transmit') = Rounds(transmit) \union {m} /\ Distinct(transmit')
    BY <1>3, <2>1, EffectPushRound
  <2> HIDE DEF m
  <2>3. sensor # "off"
    BY <1>3 DEF PushRound
  <2>4. QED
    BY <1>3, <2>1, <2>2, <2>3 DEF PushRound, ghostVars
<1>4. CASE StartRound
  BY <1>4 DEF StartRound, queueVars, ghostVars
<1>5. CASE TakePoll
  <2>1. pending = <<>> /\ sensor # "off"
    BY <1>5 DEF TakePoll, Places, NoThreads, TypeOK
  <2>2. QED
    BY <1>5, <1>e, <2>1 DEF TakePoll
<1>6. ASSUME NEW ok \in BOOLEAN, Resend(ok) PROVE Apart'
  <2> DEFINE h == Rounds(Head(pending))
  <2>1. /\ LineRounds(pending) = h \union LineRounds(pending')
        /\ Once(pending') /\ h \cap LineRounds(pending') = {}
        /\ Rounds(sent') = Rounds(sent) \union (IF ok THEN h ELSE {})
        /\ LineRounds(failed') = LineRounds(failed) \union (IF ok THEN {} ELSE h)
        /\ Distinct(sent) /\ Once(pending) /\ Rounds(sent) \cap h = {} => Distinct(sent')
        /\ Once(failed) /\ Once(pending) /\ LineRounds(failed) \cap h = {} => Once(failed')
    BY <1>6, EffectResend
  <2> HIDE DEF h
  <2>2. Distinct(sent') /\ Once(failed')
    BY <2>1
  <2>3. QED
    BY <1>6, <2>1, <2>2 DEF Resend
<1>7. CASE PutBack
  <2>1. sensor # "off"
    BY <1>7 DEF PutBack, Places, NoThreads
  <2>2. /\ LineRounds(offline_cache') = LineRounds(offline_cache) \union LineRounds(failed)
        /\ Once(offline_cache')
    BY <1>7, EffectPutBack
  <2>3. QED
    BY <1>7, <1>e, <2>1, <2>2 DEF PutBack, ghostVars
<1>8. CASE PopLive
  <2>1. CASE transmit = <<>>
    BY <1>8, <2>1 DEF PopLive, ghostVars
  <2>2. CASE transmit # <<>>
    <3> DEFINE m == Head(transmit).n
    <3>1. /\ Rounds(transmit) = {m} \union Rounds(transmit')
          /\ Distinct(transmit') /\ m \notin Rounds(transmit')
      BY <1>8, <2>2, EffectPop DEF PopLive
    <3>2. Rounds(inflight') = {m}
      BY <1>8, <2>2, EffectPop DEF PopLive
    <3> HIDE DEF m
    <3>3. QED
      BY <1>8, <3>1, <3>2 DEF PopLive, ghostVars
  <2>3. QED
    BY <2>1, <2>2
<1>9. ASSUME NEW ok \in BOOLEAN, WriteLive(ok) PROVE Apart'
  <2>1. /\ Rounds(sent') = Rounds(sent) \union (IF ok THEN Rounds(inflight) ELSE {})
        /\ Rounds(transmit') = Rounds(transmit) \union (IF ok THEN {} ELSE Rounds(inflight))
        /\ Distinct(sent') /\ Distinct(transmit')
    BY <1>9, EffectWriteLive
  <2>2. QED
    BY <1>9, <1>e, <2>1 DEF WriteLive
<1>10. CASE Die
  BY <1>10, <1>e DEF Die
<1>11. CASE Signal
  BY <1>11, <1>e DEF Signal, queueVars
<1>12. CASE DrainUnsafe
  <2> DEFINE m == Head(transmit).n
  <2>1. /\ Rounds(transmit) = {m} \union Rounds(transmit')
        /\ Distinct(transmit') /\ m \notin Rounds(transmit')
        /\ Rounds(items') = Rounds(items) \union {m}
        /\ Distinct(items) /\ m \notin Rounds(items) => Distinct(items')
    BY <1>12, EffectPop DEF DrainUnsafe
  <2> HIDE DEF m
  <2>2. Distinct(items')
    BY <2>1
  <2>3. QED
    BY <1>12, <2>1, <2>2 DEF DrainUnsafe, ghostVars
<1>13. CASE HandlerHangs \/ EndDrain \/ Restart
  BY <1>13 DEF HandlerHangs, EndDrain, Restart, queueVars, ghostVars
<1>14. ASSUME NEW ok \in BOOLEAN, PersistItem(ok) PROVE Apart'
  <2> DEFINE m == Head(items).n
  <2>1. /\ Rounds(items) = {m} \union Rounds(items')
        /\ Distinct(items') /\ m \notin Rounds(items')
        /\ LineRounds(storefile') = LineRounds(storefile) \union (IF ok THEN {m} ELSE {})
        /\ Once(storefile) /\ m \notin LineRounds(storefile) => Once(storefile')
    BY <1>14, EffectPersistItem DEF Places
  <2> HIDE DEF m
  <2>2. Once(storefile')
    BY <2>1
  <2>3. QED
    BY <1>14, <2>1, <2>2 DEF PersistItem, queueVars
<1>15. ASSUME NEW ok \in BOOLEAN, PersistNewline(ok) PROVE Apart'
  BY <1>15 DEF PersistNewline, queueVars, ghostVars
<1>16. CASE UNCHANGED vars
  BY <1>16 DEF vars, queueVars, ghostVars
<1>17. QED
  BY <1>f, <1>1, <1>2, <1>3, <1>4, <1>5, <1>6, <1>7, <1>8, <1>9, <1>10, <1>11, <1>12,
     <1>13, <1>14, <1>15, <1>16, NextSteps

(* What Apart says of the queues one by one is AtMostOneCopy.               *)
LEMMA ApartIsOnce == TypeOK /\ Apart => AtMostOneCopy
<1> SUFFICES ASSUME TypeOK, Apart PROVE AtMostOneCopy
  OBVIOUS
<1> DEFINE q == <<transmit, inflight, items, sent>>
<1>1. q \in Seq(Seq(Packet))
  BY QueueTypes
<1>2. LineRounds(q) = Rounds(transmit) \union Rounds(inflight) \union Rounds(items) \union Rounds(sent)
  BY DEF LineRounds
<1>3. Once(q)
  <2>1. Distinct(inflight)
    <3>1. DOMAIN inflight = 1..Len(inflight) /\ Len(inflight) \in {0, 1}
      BY QueueTypes, LenProperties DEF TypeOK
    <3>2. QED
      BY <3>1 DEF Distinct
  <2> SUFFICES ASSUME NEW i \in DOMAIN q, NEW j \in DOMAIN q, NEW k \in DOMAIN q[i],
                      NEW l \in DOMAIN q[j], q[i][k].n = q[j][l].n
               PROVE  i = j /\ k = l
    BY DEF Once
  <2>2. \A a \in {1, 2, 3, 4} : Distinct(q[a])
    BY <2>1 DEF Apart
  <2>3. i \in {1, 2, 3, 4} /\ j \in {1, 2, 3, 4}
    OBVIOUS
  <2>4. \A a, b \in {1, 2, 3, 4} : a # b => Rounds(q[a]) \cap Rounds(q[b]) = {}
    BY DEF Apart, Sent
  <2> HIDE DEF q
  <2>5. q[i][k].n \in Rounds(q[i]) /\ q[j][l].n \in Rounds(q[j])
    BY DEF Rounds
  <2>6. i = j
    BY <2>3, <2>4, <2>5
  <2>7. QED
    BY <2>2, <2>3, <2>6 DEF Distinct
<1> HIDE DEF q
<1>4. /\ q \o offline_cache \in Seq(Seq(Packet)) /\ Once(q \o offline_cache)
      /\ LineRounds(q \o offline_cache) = LineRounds(q) \union LineRounds(offline_cache)
  <2>1. LineRounds(q) \cap LineRounds(offline_cache) = {}
    BY <1>2 DEF Apart, Sent
  <2>2. QED
    BY <1>1, <1>3, <2>1, QueueTypes, LineRoundsOfConcat DEF Apart
<1>5. /\ q \o offline_cache \o pending \in Seq(Seq(Packet)) /\ Once(q \o offline_cache \o pending)
      /\ LineRounds(q \o offline_cache \o pending)
           = LineRounds(q) \union LineRounds(offline_cache) \union LineRounds(pending)
  <2>1. LineRounds(q \o offline_cache) \cap LineRounds(pending) = {}
    BY <1>2, <1>4 DEF Apart, Sent
  <2>2. QED
    BY <1>4, <2>1, QueueTypes, LineRoundsOfConcat DEF Apart
<1>6. Once(q \o offline_cache \o pending \o failed)
  <2>1. LineRounds(q \o offline_cache \o pending) \cap LineRounds(failed) = {}
    BY <1>2, <1>5 DEF Apart, Sent
  <2>2. QED
    BY <1>5, <2>1, QueueTypes, LineRoundsOfConcat DEF Apart
<1>7. QED
  BY <1>6 DEF AtMostOneCopy, q

(* Where the truncation of the store file works, no interleaving of pops,   *)
(* resends, failed writes, handlers and restarts makes a second copy of a   *)
(* round: none is queued twice, or again after it was sent, or sent twice.  *)
THEOREM OneCopy ==
  ASSUME "truncate" \notin Faults
  PROVE  Spec => []AtMostOneCopy
<1>1. Init => Apart
  BY InitApart
<1>2. TypeOK /\ Accounted /\ Places /\ Apart /\ [Next]_vars => Apart'
  BY ApartNext
<1>3. TypeOK /\ Apart => AtMostOneCopy
  BY ApartIsOnce
<1>4. QED
  BY <1>1, <1>2, <1>3, InvariantHolds, PTL DEF Spec

-----------------------------------------------------------------------------
(* The refinement: every step of the program is a step of PacketLife.       *)

LEMMA LifeIsFunction ==
  /\ Life = [r \in 1..MaxPackets |-> Life[r]]
  /\ Life' = [r \in 1..MaxPackets |-> Life'[r]]
BY DEF Life

(* Where a round stands, from the sets of rounds alone.                     *)
Standing ==
  \A r \in 1..MaxPackets :
    Life[r] = IF r \in Sent THEN "sent"
              ELSE IF r \in Volatile THEN "held"
              ELSE IF r \in Stored THEN "stored"
              ELSE IF r \in lost THEN "lost" ELSE "new"

LEMMA LifeValue == TypeOK /\ Accounted /\ Apart => Standing
<1> SUFFICES ASSUME TypeOK, Accounted, Apart, NEW r \in 1..MaxPackets
             PROVE  Life[r] = IF r \in Sent THEN "sent"
                              ELSE IF r \in Volatile THEN "held"
                              ELSE IF r \in Stored THEN "stored"
                              ELSE IF r \in lost THEN "lost" ELSE "new"
  BY DEF Standing
<1>1. Life[r] = LifeOf(r)
  BY DEF Life
<1>2. r > produced <=> r \notin Sent \union Volatile \union Stored \union lost
  <2>1. r > produced <=> r \notin 1..produced
    BY TransmitterAssumption DEF TypeOK, TransmitterAssumption
  <2>2. QED
    BY <2>1 DEF Accounted
<1>3. QED
  BY <1>1, <1>2 DEF LifeOf

(* What a step may do to the places of rounds.                              *)
Reloads ==
  /\ ~Ending /\ ~Ending'
  /\ Sent' = Sent /\ Volatile' = Volatile \union Stored /\ Stored' = Stored /\ lost' = lost

Collects(m) ==
  /\ Ending' = Ending /\ m \in 1..MaxPackets
  /\ m \notin Sent \union Volatile \union Stored \union lost
  /\ Sent' = Sent /\ Volatile' = Volatile \union {m} /\ Stored' = Stored /\ lost' = lost

Delivers(R) ==
  /\ Ending' = Ending /\ R \subseteq Volatile /\ Sent \cap Volatile = {}
  /\ Sent' = Sent \union R /\ Volatile' \union R = Volatile
  /\ Stored' = Stored /\ lost' = lost

Stores(m) ==
  /\ Ending /\ Ending' /\ m \in Volatile \ Sent
  /\ Sent' = Sent /\ Volatile' = Volatile \ {m} /\ Stored' = Stored \union {m} /\ lost' = lost

Drops(R) ==
  /\ Ending' /\ R \subseteq Volatile \ (Sent \union Stored)
  /\ Ending \/ R = {}
  /\ Sent' = Sent /\ Volatile' = Volatile \ R /\ Stored' = Stored /\ lost' = lost \union R

Crashes ==
  /\ ~Ending'
  /\ Sent' = Sent /\ Volatile' = {} /\ Stored' = Stored
  /\ lost' = lost \union (Volatile \ (Stored \union Sent))

Stays ==
  /\ Ending' = Ending
  /\ Sent' = Sent /\ Volatile' = Volatile /\ lost' = lost
  /\ Stored' = Stored \/ (Stored' = {} /\ Stored \subseteq Volatile)

Moves ==
  \/ Reloads \/ Crashes \/ Stays
  \/ \E m \in 1..MaxPackets : Collects(m) \/ Stores(m)
  \/ \E R \in SUBSET (1..MaxPackets) : Delivers(R) \/ Drops(R)

LEMMA StepMoves ==
  ASSUME "read" \notin Faults, TypeOK, Accounted, Places, Apart, [Next]_vars
  PROVE  Moves
<1>e. Rounds(<<>>) = {} /\ LineRounds(<<>>) = {}
  BY RoundsOfEmpty
<1>k. \A R : R \subseteq 1..produced => R \in SUBSET (1..MaxPackets)
  BY TransmitterAssumption DEF TypeOK, TransmitterAssumption
<1> USE DEF Volatile, Stored, Sent, Ending
<1>1. CASE LoadStore
  <2>0. LineRounds(offline_cache') = LineRounds(offline_cache) \union Stored
    BY <1>1, EffectLoadStore
  <2>u. /\ main = "boot" /\ main' = "loaded"
        /\ UNCHANGED <<transmit, pending, failed, inflight, items, storefile, sent, lost>>
    BY <1>1 DEF LoadStore, ghostVars
  <2>1. Reloads
    BY <2>0, <2>u DEF Reloads
  <2>2. QED
    BY <2>1 DEF Moves
<1>2. CASE TruncateAndStart
  <2>0. Stored \subseteq Volatile
    BY <1>2 DEF TruncateAndStart, Places, Loaded
  <2>u. /\ main = "loaded" /\ main' = "run"
        /\ UNCHANGED <<transmit, offline_cache, pending, failed, inflight, items, sent>>
    BY <1>2 DEF TruncateAndStart, queueVars
  <2>v. Ending' = Ending /\ Sent' = Sent /\ Volatile' = Volatile
    BY <2>u
  <2>w. \/ storefile' = <<>> /\ lost' = lost \union (Stored \ Volatile)
        \/ UNCHANGED <<storefile, lost>>
    BY <1>2 DEF TruncateAndStart
  <2>x. lost' = lost /\ (Stored' = {} \/ Stored' = Stored)
    BY <1>e, <2>0, <2>w
  <2>1. Stays
    BY <2>0, <2>v, <2>x, Zenon DEF Stays
  <2>2. QED
    BY <2>1 DEF Moves
<1>3. CASE PushRound
  <2> DEFINE m == produced + 1
  <2>0. produced \in Nat /\ produced < MaxPackets /\ MaxPackets \in Nat
    BY <1>3, TransmitterAssumption DEF PushRound, TypeOK, TransmitterAssumption
  <2>1. m \in 1..MaxPackets /\ m \notin 1..produced
    BY <2>0
  <2>2. Collects(m)
    BY <1>3, <2>1, EffectPushRound DEF PushRound, ghostVars, Collects, Accounted
  <2>3. QED
    BY <2>1, <2>2 DEF Moves
<1>4. CASE StartRound \/ HandlerHangs \/ EndDrain \/ Restart \/ UNCHANGED vars
           \/ LoadFails \/ \E ok \in BOOLEAN : PersistNewline(ok)
  <2>1. Stays
    BY <1>4 DEF StartRound, HandlerHangs, EndDrain, Restart, PersistNewline, LoadFails,
                vars, queueVars, ghostVars, Stays
  <2>2. QED
    BY <2>1 DEF Moves
<1>5. CASE TakePoll
  <2>1. pending = <<>>
    BY <1>5 DEF TakePoll, TypeOK
  <2>2. Stays
    BY <1>5, <1>e, <2>1 DEF TakePoll, Stays
  <2>3. QED
    BY <2>2 DEF Moves
<1>6. ASSUME NEW ok \in BOOLEAN, Resend(ok) PROVE Moves
  <2> DEFINE h == Rounds(Head(pending))
  <2>1. /\ LineRounds(pending) = h \union LineRounds(pending')
        /\ Rounds(sent') = Rounds(sent) \union (IF ok THEN h ELSE {})
        /\ LineRounds(failed') = LineRounds(failed) \union (IF ok THEN {} ELSE h)
    BY <1>6, EffectResend
  <2>2. h \in SUBSET (1..MaxPackets)
    BY <1>k, <2>1, Known
  <2> HIDE DEF h
  <2>3. CASE ok
    <3>1. Delivers(h)
      BY <1>6, <2>1, <2>3 DEF Resend, Delivers, Apart
    <3>2. QED
      BY <2>2, <3>1 DEF Moves
  <2>4. CASE ~ok
    <3>1. Stays
      BY <1>6, <2>1, <2>4 DEF Resend, Stays
    <3>2. QED
      BY <3>1 DEF Moves
  <2>5. QED
    BY <2>3, <2>4
<1>7. CASE PutBack
  <2>1. Stays
    BY <1>7, <1>e, EffectPutBack DEF PutBack, ghostVars, Stays
  <2>2. QED
    BY <2>1 DEF Moves
<1>8. CASE PopLive
  <2>1. CASE transmit = <<>>
    <3>1. Stays
      BY <1>8, <2>1 DEF PopLive, ghostVars, Stays
    <3>2. QED
      BY <3>1 DEF Moves
  <2>2. CASE transmit # <<>>
    <3>1. inflight = <<>>
      BY <1>8 DEF PopLive, TypeOK
    <3>2. Stays
      BY <1>8, <1>e, <2>2, <3>1, EffectPop DEF PopLive, ghostVars, Stays
    <3>3. QED
      BY <3>2 DEF Moves
  <2>3. QED
    BY <2>1, <2>2
<1>9. ASSUME NEW ok \in BOOLEAN, WriteLive(ok) PROVE Moves
  <2>1. /\ Rounds(sent') = Rounds(sent) \union (IF ok THEN Rounds(inflight) ELSE {})
        /\ Rounds(transmit') = Rounds(transmit) \union (IF ok THEN {} ELSE Rounds(inflight))
    BY <1>9, EffectWriteLive
  <2>2. Rounds(inflight) \in SUBSET (1..MaxPackets)
    BY <1>k, Known
  <2>3. CASE ok
    <3>1. Delivers(Rounds(inflight))
      BY <1>9, <1>e, <2>1, <2>3 DEF WriteLive, Delivers, Apart
    <3>2. QED
      BY <2>2, <3>1 DEF Moves
  <2>4. CASE ~ok
    <3>1. Stays
      BY <1>9, <1>e, <2>1, <2>4 DEF WriteLive, Stays
    <3>2. QED
      BY <3>1 DEF Moves
  <2>5. QED
    BY <2>3, <2>4
<1>10. CASE Die
  <2>1. Crashes
    BY <1>10, <1>e DEF Die, Crashes
  <2>2. QED
    BY <2>1 DEF Moves
<1>11. CASE Signal
  <2>1. Rounds(items) \in SUBSET (1..MaxPackets)
    BY <1>k, Known
  <2>2. Ending \/ Rounds(items) = {}
    BY <1>e DEF Places, NoThreads
  <2>3. Drops(Rounds(items))
    BY <1>11, <1>e, <2>2 DEF Signal, queueVars, Drops, Apart
  <2>4. QED
    BY <2>1, <2>3 DEF Moves
<1>12. CASE DrainUnsafe
  <2>1. Stays
    BY <1>12, EffectPop DEF DrainUnsafe, ghostVars, Stays
  <2>2. QED
    BY <2>1 DEF Moves
<1>13. ASSUME NEW ok \in BOOLEAN, PersistItem(ok) PROVE Moves
  <2> DEFINE m == Head(items).n
  <2>1. /\ Rounds(items) = {m} \union Rounds(items')
        /\ m \notin Rounds(items')
        /\ LineRounds(storefile') = LineRounds(storefile) \union (IF ok THEN {m} ELSE {})
    BY <1>13, EffectPersistItem DEF Places, Apart
  <2>2. m \in 1..MaxPackets /\ {m} \in SUBSET (1..MaxPackets)
    BY <1>k, <2>1, Known
  <2>3. lost' = lost \union (IF ok THEN {} ELSE {m})
    BY <1>13 DEF PersistItem
  <2> HIDE DEF m
  <2>4. CASE ok
    <3>1. Stores(m)
      BY <1>13, <2>1, <2>3, <2>4 DEF PersistItem, queueVars, Stores, Apart
    <3>2. QED
      BY <2>2, <3>1 DEF Moves
  <2>5. CASE ~ok
    <3>1. Drops({m})
      BY <1>13, <2>1, <2>3, <2>5 DEF PersistItem, queueVars, Drops, Apart
    <3>2. QED
      BY <2>2, <3>1 DEF Moves
  <2>6. QED
    BY <2>4, <2>5
<1>14. QED
  BY <1>1, <1>2, <1>3, <1>4, <1>5, <1>6, <1>7, <1>8, <1>9, <1>10, <1>11, <1>12, <1>13,
     NextSteps

(* Init, and each kind of move, in the terms of PacketLife.                 *)
LEMMA InitRefines == Init => Promise!LifeInit
<1> SUFFICES ASSUME Init PROVE Promise!LifeInit
  OBVIOUS
<1>1. TypeOK /\ Accounted /\ Apart
  BY InitAccounted, InitApart
<1>2. Sent = {} /\ Volatile = {} /\ lost = {} /\ ~Ending /\ Ending = FALSE
  BY RoundsOfEmpty DEF Init, Sent, Volatile, Ending
<1>3. \A r \in 1..MaxPackets : Life[r] \in {"new", "stored"}
  BY <1>1, <1>2, LifeValue DEF Standing
<1>4. Life \in [1..MaxPackets -> {"new", "stored"}]
  BY <1>3, LifeIsFunction
<1>5. QED
  BY <1>2, <1>4 DEF Promise!LifeInit

LEMMA MovesRefine ==
  ASSUME Moves, Standing, Standing'
  PROVE  [Promise!LifeNext]_<<Life, Ending>>
<1> DEFINE D == 1..MaxPackets
<1>f. Life = [r \in D |-> Life[r]] /\ Life' = [r \in D |-> Life'[r]]
  BY LifeIsFunction
<1>b. Ending \in BOOLEAN /\ Ending' \in BOOLEAN
  BY DEF Ending
<1> HIDE DEF D
<1>1. CASE Reloads
  <2>1. \A r \in D : Life'[r] = IF Life[r] = "stored" THEN "held" ELSE Life[r]
    BY <1>1 DEF Reloads, Standing, D
  <2>2. Life' = [r \in D |-> IF Life[r] = "stored" THEN "held" ELSE Life[r]]
    BY <1>f, <2>1
  <2>3. ~Ending /\ Ending' = Ending
    BY <1>1, <1>b DEF Reloads
  <2>4. Promise!Reload
    BY <2>2, <2>3 DEF Promise!Reload, D
  <2>5. QED
    BY <2>4 DEF Promise!LifeNext
<1>2. CASE Crashes
  <2>1. /\ Life' \in [D -> {"new", "held", "stored", "sent", "lost"}]
        /\ \A r \in D : IF Life[r] = "held" THEN Life'[r] \in {"stored", "lost"}
                                            ELSE Life'[r] = Life[r]
    BY <1>2, <1>f DEF Crashes, Standing, D
  <2>2. Ending' = FALSE
    BY <1>2 DEF Crashes
  <2>3. Promise!Crash
    BY <2>1, <2>2 DEF Promise!Crash, Promise!States, D
  <2>4. QED
    BY <2>3 DEF Promise!LifeNext
<1>3. CASE Stays
  <2>1. \A r \in D : Life'[r] = Life[r]
    BY <1>3 DEF Stays, Standing, D
  <2>2. Life' = Life
    BY <1>f, <2>1
  <2>3. QED
    BY <1>3, <2>2 DEF Stays
<1>4. ASSUME NEW m \in D, Collects(m) PROVE Promise!LifeNext
  <2>1. Life[m] = "new" /\ \A r \in D : Life'[r] = IF r = m THEN "held" ELSE Life[r]
    BY <1>4 DEF Collects, Standing, D
  <2>2. Life' = [Life EXCEPT ![m] = "held"]
    BY <1>f, <2>1
  <2>3. Promise!Collect(m)
    BY <1>4, <2>1, <2>2 DEF Collects, Promise!Collect, Promise!Move
  <2>4. QED
    BY <2>3 DEF Promise!LifeNext, D
<1>5. ASSUME NEW m \in D, Stores(m) PROVE Promise!LifeNext
  <2>1. Life[m] = "held" /\ \A r \in D : Life'[r] = IF r = m THEN "stored" ELSE Life[r]
    BY <1>5 DEF Stores, Standing, D
  <2>2. Life' = [Life EXCEPT ![m] = "stored"]
    BY <1>f, <2>1
  <2>3. Ending /\ Ending' = Ending
    BY <1>5, <1>b DEF Stores
  <2>4. Promise!Store(m)
    BY <2>1, <2>2, <2>3 DEF Promise!Store, Promise!Move
  <2>5. QED
    BY <2>4 DEF Promise!LifeNext, D
<1>6. ASSUME NEW R \in SUBSET D, Delivers(R) PROVE Promise!LifeNext
  <2>1. /\ R \in SUBSET {r \in D : Life[r] = "held"}
        /\ \A r \in D : Life'[r] = IF r \in R THEN "sent" ELSE Life[r]
    BY <1>6 DEF Delivers, Standing, D
  <2>2. Life' = [r \in D |-> IF r \in R THEN "sent" ELSE Life[r]]
    BY <1>f, <2>1
  <2>3. Promise!Deliver
    BY <1>6, <2>1, <2>2 DEF Delivers, Promise!Deliver, D
  <2>4. QED
    BY <2>3 DEF Promise!LifeNext
<1>7. ASSUME NEW R \in SUBSET D, Drops(R) PROVE Promise!LifeNext
  <2>1. /\ R \in SUBSET {r \in D : Life[r] = "held"}
        /\ \A r \in D : Life'[r] = IF r \in R THEN "lost" ELSE Life[r]
    BY <1>7 DEF Drops, Standing, D
  <2>2. Life' = [r \in D |-> IF r \in R THEN "lost" ELSE Life[r]]
    BY <1>f, <2>1
  <2>3. CASE Ending
    <3>1. Ending' = Ending
      BY <1>7, <1>b, <2>3 DEF Drops
    <3>2. Promise!Drop
      BY <2>1, <2>2, <2>3, <3>1 DEF Promise!Drop, D
    <3>3. QED
      BY <3>2 DEF Promise!LifeNext
  <2>4. CASE ~Ending
    <3>1. R = {} /\ Ending' = TRUE
      BY <1>7, <1>b, <2>4 DEF Drops
    <3>2. Life' = Life
      BY <1>f, <2>2, <3>1
    <3>3. Promise!BeginEnd
      BY <2>4, <3>1, <3>2 DEF Promise!BeginEnd
    <3>4. QED
      BY <3>3 DEF Promise!LifeNext
  <2>5. QED
    BY <2>3, <2>4
<1>8. QED
  BY <1>1, <1>2, <1>3, <1>4, <1>5, <1>6, <1>7 DEF Moves, D

(* The queues, the store file and the histories implement PacketLife, where *)
(* the store file can be read to its end and truncated, or not be opened at *)
(* all: what was delivered or lost stays so, a start loads all that is      *)
(* stored or nothing, and only a process that is ending takes a round out of *)
(* memory undelivered.                                                     *)
THEOREM ImplementsPacketLife ==
  ASSUME "truncate" \notin Faults, "read" \notin Faults
  PROVE  Spec => KeepsPromise
<1> DEFINE Inv == TypeOK /\ Accounted /\ Places /\ Apart
<1>1. Init => Inv
  BY InitAccounted, InitPlaces, InitApart
<1>2. Inv /\ [Next]_vars => Inv'
  BY TypeNext, AccountedNext, PlacesNext, ApartNext
<1>3. Inv => Standing
  BY LifeValue
<1>4. Inv' => Standing'
  BY <1>3, PTL
<1>5. Inv /\ [Next]_vars => [Promise!LifeNext]_<<Life, Ending>>
  BY <1>2, <1>3, <1>4, StepMoves, MovesRefine
<1>6. QED
  BY <1>1, <1>2, <1>5, InitRefines, PTL DEF Spec, KeepsPromise, Promise!LifeSpec

-----------------------------------------------------------------------------
(* The pace of collection: a round waiting, a round being collected, and the *)
(* flag that lets one begin, are at most two while trans_message waits for a *)
(* poll, and three until it has sent what the poll asked for.               *)

Count(b) == IF b THEN 1 ELSE 0

Paced ==
  /\ sensor = "off" => ~ready
  /\ ~disturbed =>
       /\ trans \notin {"resend", "putback"}
       /\ Len(transmit) + Len(inflight) + Count(ready) + Count(sensor = "collect")
            <= 2 + Count(trans \in {"pop", "write"})

LEMMA Lengths ==
  TypeOK => /\ Len(transmit) \in Nat /\ Len(inflight) \in Nat
            /\ inflight = <<>> => Len(inflight) = 0
            /\ inflight # <<>> => Len(inflight) = 1
            /\ transmit = <<>> => Len(transmit) = 0
            /\ transmit # <<>> => Len(transmit) > 0 /\ Len(Tail(transmit)) = Len(transmit) - 1
<1> SUFFICES ASSUME TypeOK
             PROVE  /\ Len(transmit) \in Nat /\ Len(inflight) \in Nat
                    /\ inflight = <<>> => Len(inflight) = 0
                    /\ inflight # <<>> => Len(inflight) = 1
                    /\ transmit = <<>> => Len(transmit) = 0
                    /\ transmit # <<>> => /\ Len(transmit) > 0
                                          /\ Len(Tail(transmit)) = Len(transmit) - 1
  OBVIOUS
<1>1. Len(transmit) \in Nat /\ Len(inflight) \in {0, 1}
  BY QueueTypes, LenProperties DEF TypeOK
<1>2. inflight # <<>> => Len(inflight) # 0
  BY QueueTypes, EmptySeq
<1>3. transmit # <<>> => Len(transmit) > 0 /\ Len(Tail(transmit)) = Len(transmit) - 1
  BY QueueTypes, EmptySeq, HeadTailProperties
<1>4. QED
  BY <1>1, <1>2, <1>3, EmptyQueue

LEMMA InitPaced == Init => Paced
BY EmptyQueue DEF Init, Paced, Count

LEMMA PacedNext == TypeOK /\ Places /\ Paced /\ [Next]_vars => Paced'
<1> SUFFICES ASSUME TypeOK, Places, Paced, [Next]_vars PROVE Paced'
  OBVIOUS
<1> DEFINE T == Len(transmit)
<1> DEFINE F == Len(inflight)
<1>t. /\ T \in Nat /\ F \in Nat
      /\ inflight = <<>> => F = 0
      /\ inflight # <<>> => F = 1
      /\ transmit = <<>> => T = 0
      /\ transmit # <<>> => T > 0 /\ Len(Tail(transmit)) = T - 1
  BY Lengths
<1>i. (trans = "write") <=> (inflight # <<>>)
  BY DEF TypeOK
<1>o. /\ sensor = "off" => transmit = <<>> /\ inflight = <<>> /\ trans = "off"
      /\ sensor = "off" <=> trans = "off"
  BY DEF Places, NoThreads, TypeOK
<1> HIDE DEF T, F
<1> USE DEF Count
<1>1. CASE LoadStore \/ EndDrain \/ HandlerHangs \/ Signal \/ UNCHANGED vars
           \/ \E ok \in BOOLEAN : PersistItem(ok) \/ PersistNewline(ok)
  <2>1. UNCHANGED <<sensor, trans, transmit, inflight, ready, disturbed>>
    BY <1>1 DEF LoadStore, EndDrain, HandlerHangs, Signal, PersistItem, PersistNewline,
                vars, queueVars, ghostVars
  <2>2. QED
    BY <2>1 DEF Paced
<1>2. CASE TruncateAndStart \/ LoadFails
  <2>1. /\ sensor = "off" /\ sensor' = "collect" /\ trans' = "poll"
        /\ UNCHANGED <<transmit, inflight, ready, disturbed>>
    BY <1>2 DEF TruncateAndStart, LoadFails, queueVars, ghostVars, Places, NoThreads
  <2>2. Len(transmit') = 0 /\ Len(inflight') = 0 /\ ~ready'
    BY <1>o, <2>1, EmptyQueue DEF Paced
  <2>3. QED
    BY <2>1, <2>2 DEF Paced
<1>3. CASE PushRound
  <2>1. /\ sensor = "collect" /\ sensor' = "wait"
        /\ UNCHANGED <<trans, inflight, ready, disturbed>>
    BY <1>3 DEF PushRound, ghostVars
  <2>2. Len(transmit') = T + 1
    BY <1>3, QueueTypes DEF PushRound, T, Packet, TypeOK
  <2>3. QED
    BY <1>t, <2>1, <2>2 DEF Paced, F, T
<1>4. CASE StartRound
  <2>1. /\ ready /\ ready' = FALSE /\ sensor = "wait" /\ sensor' = "collect"
        /\ UNCHANGED <<trans, transmit, inflight, disturbed>>
    BY <1>4 DEF StartRound, queueVars, ghostVars
  <2>2. QED
    BY <1>t, <2>1 DEF Paced, F, T
<1>5. CASE TakePoll
  <2>1. /\ trans = "poll" /\ ready' = TRUE /\ UNCHANGED <<sensor, transmit, inflight>>
        /\ ~disturbed' => ~disturbed /\ trans' = "pop"
    BY <1>5 DEF TakePoll
  <2>2. QED
    BY <1>t, <1>o, <2>1 DEF Paced, F, T
<1>6. CASE PutBack \/ \E ok \in BOOLEAN : Resend(ok)
  <2>1. /\ trans \in {"resend", "putback"} /\ UNCHANGED <<sensor, ready, disturbed>>
    BY <1>6 DEF PutBack, Resend, ghostVars
  <2>2. disturbed
    BY <2>1 DEF Paced
  <2>3. QED
    BY <2>1, <2>2 DEF Paced
<1>7. CASE PopLive
  <2>1. trans = "pop" /\ inflight = <<>> /\ UNCHANGED <<sensor, ready, disturbed>>
    BY <1>7, <1>i DEF PopLive, ghostVars
  <2>2. CASE transmit = <<>>
    <3>1. trans' = "poll" /\ UNCHANGED <<transmit, inflight>>
      BY <1>7, <2>2 DEF PopLive
    <3>2. T = 0 /\ F = 0
      BY <1>t, <2>1, <2>2
    <3>3. QED
      BY <2>1, <3>1, <3>2 DEF Paced, F, T
  <2>3. CASE transmit # <<>>
    <3>1. trans' = "write" /\ Len(transmit') = T - 1 /\ Len(inflight') = 1
      BY <1>7, <1>t, <2>3 DEF PopLive
    <3>2. F = 0
      BY <1>t, <2>1
    <3> DEFINE c == Count(ready) + Count(sensor = "collect")
    <3>3. c \in Nat /\ c = Count(ready') + Count(sensor' = "collect")
      BY <2>1
    <3>4. ~disturbed => T + F + c <= 3
      <4>1. /\ Count(ready) \in Nat /\ Count(sensor = "collect") \in Nat
            /\ Count(trans \in {"pop", "write"}) = 1
        BY <2>1
      <4> HIDE DEF Count
      <4>2. QED
        BY <1>t, <4>1 DEF Paced, F, T
    <3> HIDE DEF c
    <3>5. ~disturbed' => Len(transmit') + Len(inflight') + c <= 3
      BY <1>t, <2>1, <3>1, <3>2, <3>3, <3>4
    <3>6. sensor' = "off" => ~ready'
      BY <2>1 DEF Paced
    <3>7. QED
      <4>1. /\ Count(ready') \in Nat /\ Count(sensor' = "collect") \in Nat
            /\ Count(trans' \in {"pop", "write"}) = 1 /\ trans' \notin {"resend", "putback"}
        BY <3>1
      <4> HIDE DEF Count
      <4>2. QED
        BY <1>t, <3>1, <3>3, <3>5, <3>6, <4>1 DEF Paced
  <2>4. QED
    BY <2>2, <2>3
<1>8. ASSUME NEW ok \in BOOLEAN, WriteLive(ok) PROVE Paced'
  <2>1. /\ trans = "write" /\ trans' = "poll" /\ inflight' = <<>>
        /\ UNCHANGED <<sensor, ready>>
        /\ ~disturbed' => ~disturbed /\ transmit' = transmit
    BY <1>8 DEF WriteLive
  <2>2. F = 1 /\ Len(inflight') = 0
    BY <1>t, <1>i, <2>1, EmptyQueue
  <2> DEFINE c == Count(ready) + Count(sensor = "collect")
  <2>3. c \in Nat /\ c = Count(ready') + Count(sensor' = "collect")
    BY <2>1
  <2>4. ~disturbed => T + F + c <= 3
    <3>1. /\ Count(ready) \in Nat /\ Count(sensor = "collect") \in Nat
          /\ Count(trans \in {"pop", "write"}) = 1
      BY <2>1
    <3> HIDE DEF Count
    <3>2. QED
      BY <1>t, <3>1 DEF Paced, F, T
  <2> HIDE DEF c
  <2>5. ~disturbed' => Len(transmit') + Len(inflight') + c <= 2
    BY <1>t, <2>1, <2>2, <2>3, <2>4 DEF T
  <2>6. sensor' = "off" => ~ready'
    BY <2>1 DEF Paced
  <2>7. QED
    <3>1. /\ Count(ready') \in Nat /\ Count(sensor' = "collect") \in Nat
          /\ Count(trans' \in {"pop", "write"}) = 0 /\ trans' \notin {"resend", "putback"}
      BY <2>1
    <3>2. ~disturbed' => Len(transmit') \in Nat
      BY <1>t, <2>1 DEF T
    <3> HIDE DEF Count
    <3>3. QED
      BY <2>2, <2>3, <2>5, <2>6, <3>1, <3>2 DEF Paced
<1>9. CASE Die
  <2>1. /\ sensor' = "off" /\ trans' = "off" /\ ready' = FALSE
        /\ Len(transmit') = 0 /\ Len(inflight') = 0
    BY <1>9, EmptyQueue DEF Die
  <2>2. QED
    BY <2>1 DEF Paced
<1>10. CASE DrainUnsafe
  <2>1. /\ UNCHANGED <<sensor, trans, ready, inflight, disturbed>>
        /\ Len(transmit') = T - 1
    BY <1>10, <1>t DEF DrainUnsafe, ghostVars
  <2>2. QED
    BY <1>t, <2>1 DEF Paced, F, T
<1>11. CASE Restart
  <2>1. /\ sensor = "off" /\ UNCHANGED <<sensor, trans, transmit, inflight, ready>>
    BY <1>11 DEF Restart, queueVars, Places, NoThreads
  <2>2. Len(transmit') = 0 /\ Len(inflight') = 0 /\ ~ready' /\ trans' = "off"
    BY <1>o, <2>1, EmptyQueue DEF Paced
  <2>3. QED
    BY <2>1, <2>2 DEF Paced
<1>12. QED
  BY <1>1, <1>2, <1>3, <1>4, <1>5, <1>6, <1>7, <1>8, <1>9, <1>10, <1>11, NextSteps

(* Queue and flag are locked one after the other, and a poll may come before *)
(* the round it asked for is pushed: still, in a life without failed write   *)
(* or replay, at most three rounds wait to be sent.                        *)
THEOREM BacklogAtMostThree == Spec => []BacklogBounded
<1>1. Init => Paced
  BY InitPaced
<1>2. TypeOK /\ Places /\ Paced /\ [Next]_vars => Paced'
  BY PacedNext
<1>3. TypeOK /\ Paced => BacklogBounded
  BY Lengths DEF Paced, BacklogBounded, Count
<1>4. QED
  BY <1>1, <1>2, <1>3, InvariantHolds, PTL DEF Spec
=============================================================================
