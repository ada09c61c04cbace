----------------------------- MODULE Links_proofs -----------------------------
(***************************************************************************)
(* Proofs about Links, for any devices, any limits of the registration and *)
(* any number of attempts to bring a link up or to reopen it.              *)
(***************************************************************************)
EXTENDS Links, FiniteSetTheorems, SequenceTheorems, TLAPS

(* The defaults of the breaker and the sleeps of send_mess: 30 s and 32 s   *)
(* (circuit_breaker.h, message_transmitter.cpp:128).                       *)
PauseOutlasts == Cooldown < C!PauseSeconds

-----------------------------------------------------------------------------
(* The inductive invariant, in named parts.  First the list.               *)

Node == [dev : DeviceName, fd : Fd, enabled : BOOLEAN, cb : BOOLEAN,
         breaker : Breaker]

(* No device is twice in the list.                                          *)
Apart == \A i, j \in DOMAIN nodes : nodes[i].dev = nodes[j].dev => i = j

ListInv ==
  /\ nodes \in Seq(Node) /\ device_id \in Seq(Fd) /\ IsFiniteSet(status)
  /\ Apart /\ ListIntact

-----------------------------------------------------------------------------
(* Where main and trans_message are.                                       *)

Steps == {"begin", "dial", "open", "setOpt", "link", "closeAgain", "reset",
          "scan", "giveUp", "works", "failed"}

(* Where a running strategy, or a running reinitialisation, holds a         *)
(* descriptor.                                                             *)
HoldsStep == {"setOpt", "link", "closeAgain", "reset", "scan", "giveUp", "works"}
HoldsPc == {"connect", "closeNew", "closeAgain", "succeed"}

MainAt ==
  /\ cur \in Nat \ {0} /\ step \in Steps
  /\ phase \in {"bringUp", "regist", "run", "stopped"}
  /\ cur <= Len(Strategies) => phase = "bringUp"
  /\ Done => step = "begin"
  /\ phase \in {"regist", "stopped"} => newFd = -1
  /\ phase = "bringUp" => (newFd # -1 <=> step \in HoldsStep)

TransmitterAt ==
  /\ phase # "run" => pc = "select"
  /\ pc # "select" => Active # 0
  /\ phase = "run" =>
       /\ state = "Success"
       /\ pc \in HoldsPc => newFd # -1
       /\ newFd # -1 => pc \in HoldsPc \/ (pc = "closeOld" /\ nodes[Active].dev # "lan")

(* What came up is among the strategies that ran.                          *)
RanBefore(n) == {Strategies[k] : k \in {m \in DOMAIN Strategies : m < n}}

Ran ==
  phase = "bringUp" =>
    status \subseteq RanBefore(cur) /\ (serverFd # -1 => "lan_server" \in RanBefore(cur))

-----------------------------------------------------------------------------
(* What the state of the registration says of the device it is at.          *)
Registering ==
  /\ size \in Int /\ requests \in [R!Device -> Nat] /\ confirms \in Nat
  /\ phase \in {"regist", "run"} => size < Len(nodes)
  /\ phase \in {"regist", "run"} /\ state # "Failed" => size >= 0
  /\ phase \in {"bringUp", "stopped"} => state # "Success"
  /\ phase = "bringUp" => state = "SelectChannel"
  /\ state \in {"WaitFor17", "SendConfirm", "WaitForTimestamp", "Success"}
       => requests[size] > 0
  /\ state \in {"SendConfirm", "WaitForTimestamp", "Success"} => id # "FF"
  /\ state \in {"WaitForTimestamp", "Success"} => confirms > 0

(* Only the device that registered is enabled.                              *)
OnlyCurrent ==
  \A i \in DOMAIN nodes :
    nodes[i].enabled => state = "Success" /\ nodes[i].dev = Current

-----------------------------------------------------------------------------
(* The descriptors.                                                        *)

(* The list is as dev_init left it: no link was reopened yet.              *)
Held == phase # "run" \/ Active # 0

FdTyped ==
  /\ newFd \in Fd \union {-1} /\ gpsFd \in Fd \union {-1, -2}
  /\ owner \in [Fd -> {"free", "std", "gps"} \union Device]
  /\ clash \in BOOLEAN

(* The standard descriptors stay open until a reinitialisation closes 0,    *)
(* so no link and no GPS port has a number below 4.                        *)
Standard ==
  /\ phase # "run" => gpsFd \notin 0..3 /\ \A f \in 0..3 : owner[f] = "std"
  /\ Held => \A i \in DOMAIN nodes : nodes[i].fd > 3

(* What NothingLeaks and EnabledFdHeld say of such a list.                  *)
LeakFree ==
  \A f \in Fd : owner[f] \in Device =>
    \/ f = newFd
    \/ owner[f] = "lan_server" /\ f = serverFd
    \/ \E i \in DOMAIN nodes : nodes[i].fd = f /\ nodes[i].dev = owner[f]

OwnLinks == \A i \in DOMAIN nodes : owner[nodes[i].fd] = nodes[i].dev

(* Until a close hit the port of the GPS thread, whoever holds a number     *)
(* also owns it, and the running attempt took one that no node has.        *)
OwnGps == gpsFd >= 0 => owner[gpsFd] = "gps"

OwnNew ==
  newFd # -1 =>
    /\ \A i \in DOMAIN nodes : nodes[i].fd # newFd
    /\ phase = "bringUp" /\ step # "closeAgain" => owner[newFd] = Dev

(* The descriptor of a running strategy is not another device's.           *)
NotOthers ==
  phase = "bringUp" /\ newFd # -1 => owner[newFd] \in {Dev, "free", "gps"}

FdInv ==
  /\ FdTyped /\ Standard /\ NotOthers
  /\ Held => LeakFree
  /\ Held /\ ~clash => OwnLinks /\ OwnGps /\ OwnNew

-----------------------------------------------------------------------------
(* The breakers are closed while no link is in use, and let the next        *)
(* attempt pass when trans_message selects again.                          *)
Cooled ==
  /\ phase # "run" => \A i \in DOMAIN nodes : Allows(nodes[i].breaker)
  /\ pc \in {"select", "reinit"} /\ Active # 0 => Allows(nodes[Active].breaker)

LinksInv ==
  ListInv /\ MainAt /\ TransmitterAt /\ Ran /\ Registering /\ OnlyCurrent /\ FdInv

-----------------------------------------------------------------------------
(* The operations on the list.                                             *)

(* The smallest element of a set of numbers.                               *)
LEMMA MinOf ==
  ASSUME NEW S, S \subseteq Nat, S # {}
  PROVE  Min(S) \in S /\ \A x \in S : Min(S) <= x
<1> DEFINE Less == {p \in Nat \X Nat : p[1] < p[2]}
<1>0. IsWellFoundedOn(Less, Nat)
  BY NatLessThanWellFounded DEF OpToRel
<1>1. PICK n \in S : \A x \in S : <<x, n>> \notin Less
  BY <1>0, WFMin, Zenon
<1>2. ASSUME NEW x \in S PROVE n <= x
  <2>1. n \in Nat /\ x \in Nat
    OBVIOUS
  <2>2. <<x, n>>[1] = x /\ <<x, n>>[2] = n /\ <<x, n>> \in Nat \X Nat
    BY <2>1
  <2>3. ~ (x < n)
    BY <1>1, <2>2
  <2> QED  BY <2>1, <2>3
<1> QED  BY <1>2 DEF Min

(* getSuccess and findcommunicate return the position of such a node, or 0. *)
LEMMA SuccessIs ==
  ASSUME NEW l, Len(l) \in Nat
  PROVE  /\ getSuccess(l) # 0 => getSuccess(l) \in 1..Len(l) /\ l[getSuccess(l)].enabled
         /\ getSuccess(l) = 0 => \A i \in 1..Len(l) : ~l[i].enabled
<1> DEFINE I == {i \in 1..Len(l) : l[i].enabled}
<1>1. getSuccess(l) = IF I # {} THEN Min(I) ELSE 0
  BY DEF getSuccess, SelectInSeq
<1>2. I # {} => Min(I) \in I
  <2>1. I \subseteq Nat
    OBVIOUS
  <2> HIDE DEF I
  <2> QED  BY <2>1, MinOf
<1> QED  BY <1>1, <1>2

LEMMA FoundIs ==
  ASSUME NEW l, NEW d, Len(l) \in Nat
  PROVE  /\ findcommunicate(l, d) # 0 =>
              findcommunicate(l, d) \in 1..Len(l) /\ l[findcommunicate(l, d)].dev = d
         /\ findcommunicate(l, d) = 0 => \A i \in 1..Len(l) : l[i].dev # d
<1> DEFINE I == {i \in 1..Len(l) : l[i].dev = d}
<1>1. findcommunicate(l, d) = IF I # {} THEN Min(I) ELSE 0
  BY DEF findcommunicate, SelectInSeq
<1>2. I # {} => Min(I) \in I
  <2>1. I \subseteq Nat
    OBVIOUS
  <2> HIDE DEF I
  <2> QED  BY <2>1, MinOf
<1> QED  BY <1>1, <1>2

(* The first enabled node depends on nothing but the enabled flags.         *)
LEMMA SameSuccess ==
  ASSUME NEW l, NEW m, Len(l) = Len(m),
         \A i \in 1..Len(l) : l[i].enabled = m[i].enabled
  PROVE  getSuccess(l) = getSuccess(m)
<1>1. {i \in 1..Len(l) : l[i].enabled} = {i \in 1..Len(m) : m[i].enabled}
  OBVIOUS
<1> QED  BY <1>1 DEF getSuccess, SelectInSeq

(* The operations of the list are the same in CommManager.                 *)
LEMMA SameList ==
  ASSUME NEW l, NEW d, NEW fd, NEW n, NEW cb
  PROVE  /\ C!getSuccess(l) = getSuccess(l)
         /\ C!createComnode(d, fd) = createComnode(d, fd)
         /\ C!insertNode(l, n) = insertNode(l, n)
         /\ C!deletecommunicateNode(l, d) = deletecommunicateNode(l, d)
         /\ C!callbackRgist(l, d, cb) = callbackRgist(l, d, cb)
<1>2. C!getSuccess(l) = getSuccess(l)
  BY DEF C!getSuccess, getSuccess, C!SelectInSeq, SelectInSeq, C!Min, Min
<1>3. \A s : C!findcommunicate(s, d) = findcommunicate(s, d)
  BY DEF C!findcommunicate, findcommunicate, C!SelectInSeq, SelectInSeq, C!Min, Min
<1>4. C!findcommunicate(l, n.dev) = findcommunicate(l, n.dev)
  BY DEF C!findcommunicate, findcommunicate, C!SelectInSeq, SelectInSeq, C!Min, Min
<1>5. C!RemoveAt(l, findcommunicate(l, d)) = RemoveAt(l, findcommunicate(l, d))
  BY DEF C!RemoveAt, RemoveAt
<1> QED
  BY <1>2, <1>3, <1>4, <1>5
  DEF C!createComnode, createComnode, C!insertNode, insertNode,
      C!deletecommunicateNode, deletecommunicateNode, C!callbackRgist, callbackRgist,
      C!NewBreaker, NewBreaker

-----------------------------------------------------------------------------
(* Sorting by id.                                                          *)

LEMMA IdOf ==
  ASSUME NEW d \in DeviceName
  PROVE  Id(d) \in Nat /\ Order[Id(d)] = d
<1> DEFINE I == {i \in 1..Len(Order) : Order[i] = d}
<1>1. Id(d) = IF I # {} THEN Min(I) ELSE 0
  BY DEF Id, SelectInSeq
<1>2. I # {}
  BY DEF DeviceName, Order
<1>3. Min(I) \in I
  <2>1. I \subseteq Nat
    OBVIOUS
  <2> HIDE DEF I
  <2> QED  BY <1>2, <2>1, MinOf
<1> QED  BY <1>1, <1>2, <1>3

(* A list of devices, each in it once.                                     *)
ListOfDevices(l) ==
  /\ Len(l) \in Nat /\ DOMAIN l = 1..Len(l)
  /\ \A i \in DOMAIN l : l[i].dev \in DeviceName
  /\ \A i, j \in DOMAIN l : l[i].dev = l[j].dev => i = j

(* The nodes before a node in the sorted list.                              *)
Below(l, i) == {j \in DOMAIN l : Id(l[j].dev) < Id(l[i].dev)}

LEMMA FirstNumbers ==
  ASSUME NEW n \in Nat
  PROVE  /\ IsFiniteSet(1..n) /\ Cardinality(1..n) = n
         /\ IsFiniteSet(0..(n - 1)) /\ Cardinality(0..(n - 1)) = n
<1>1. n \in Int /\ n - 1 \in Int /\ 0 \in Int /\ 1 \in Int
  OBVIOUS
<1>2. /\ IsFiniteSet(1..n)
      /\ Cardinality(1..n) = IF 1 > n THEN 0 ELSE n - 1 + 1
  BY <1>1, FS_Interval
<1>3. /\ IsFiniteSet(0..(n - 1))
      /\ Cardinality(0..(n - 1)) = IF 0 > n - 1 THEN 0 ELSE n - 1 - 0 + 1
  BY <1>1, FS_Interval
<1> QED  BY <1>2, <1>3

LEMMA RankRange ==
  ASSUME NEW l, ListOfDevices(l), NEW i \in DOMAIN l
  PROVE  IsFiniteSet(Below(l, i)) /\ Rank(l, i) \in 0..(Len(l) - 1)
<1>1. i \in 1..Len(l) /\ Len(l) \in Nat /\ Id(l[i].dev) \in Nat
  BY IdOf DEF ListOfDevices
<1>2. IsFiniteSet(1..Len(l)) /\ Cardinality(1..Len(l)) = Len(l)
  BY <1>1, FirstNumbers
<1>3. /\ IsFiniteSet((1..Len(l)) \ {i})
      /\ Cardinality((1..Len(l)) \ {i}) = Len(l) - 1
  BY <1>1, <1>2, FS_RemoveElement
<1>4. Below(l, i) \subseteq (1..Len(l)) \ {i}
  BY <1>1 DEF Below, ListOfDevices
<1>5. IsFiniteSet(Below(l, i)) /\ Cardinality(Below(l, i)) <= Len(l) - 1
  BY <1>3, <1>4, FS_Subset
<1>6. Cardinality(Below(l, i)) \in Nat
  BY <1>5, FS_CardinalityType
<1>7. Rank(l, i) = Cardinality(Below(l, i))
  BY DEF Rank, Below
<1> QED  BY <1>1, <1>5, <1>6, <1>7

LEMMA RankGrows ==
  ASSUME NEW l, ListOfDevices(l), NEW i \in DOMAIN l, NEW j \in DOMAIN l,
         Id(l[i].dev) < Id(l[j].dev)
  PROVE  Rank(l, i) < Rank(l, j)
<1>1. /\ IsFiniteSet(Below(l, i)) /\ IsFiniteSet(Below(l, j))
      /\ Rank(l, i) \in Nat /\ Rank(l, j) \in Nat
  BY RankRange
<1>2. /\ Id(l[i].dev) \in Nat /\ Id(l[j].dev) \in Nat
      /\ \A k \in DOMAIN l : Id(l[k].dev) \in Nat
  BY IdOf DEF ListOfDevices
<1>3. i \in Below(l, j) /\ i \notin Below(l, i) /\ Below(l, i) \subseteq Below(l, j)
  BY <1>2 DEF Below
<1>4. Below(l, i) \union {i} \subseteq Below(l, j)
  BY <1>3
<1>5. /\ IsFiniteSet(Below(l, i) \union {i})
      /\ Cardinality(Below(l, i) \union {i}) = Cardinality(Below(l, i)) + 1
  BY <1>1, <1>3, FS_AddElement
<1>6. Cardinality(Below(l, i) \union {i}) <= Cardinality(Below(l, j))
  BY <1>1, <1>4, FS_Subset
<1>7. Rank(l, i) = Cardinality(Below(l, i)) /\ Rank(l, j) = Cardinality(Below(l, j))
  BY DEF Rank, Below
<1> QED  BY <1>1, <1>5, <1>6, <1>7

(* Every place of the sorted list is taken.                                 *)
LEMMA PlaceTaken ==
  ASSUME NEW l, ListOfDevices(l), NEW k \in DOMAIN l
  PROVE  \E i \in DOMAIN l : Rank(l, i) = k - 1
<1> DEFINE f == [i \in DOMAIN l |-> Rank(l, i)]
           T == 0..(Len(l) - 1)
<1>1. Len(l) \in Nat /\ DOMAIN l = 1..Len(l) /\ k \in 1..Len(l)
  BY DEF ListOfDevices
<1>2. f \in [DOMAIN l -> T]
  BY RankRange
<1>3. ASSUME NEW i \in DOMAIN l, NEW j \in DOMAIN l, f[i] = f[j] PROVE i = j
  <2>1. /\ l[i].dev \in DeviceName /\ l[j].dev \in DeviceName
        /\ l[i].dev = l[j].dev => i = j
    BY DEF ListOfDevices
  <2>2. Id(l[i].dev) \in Nat /\ Id(l[j].dev) \in Nat
    BY <2>1, IdOf
  <2>3. Rank(l, i) = Rank(l, j) /\ Rank(l, i) \in Int /\ Rank(l, j) \in Int
    BY <1>3, RankRange
  <2>4. ~ (Id(l[i].dev) < Id(l[j].dev)) /\ ~ (Id(l[j].dev) < Id(l[i].dev))
    BY <2>3, RankGrows
  <2>5. Id(l[i].dev) = Id(l[j].dev)
    BY <2>2, <2>4
  <2> QED  BY <2>1, <2>5, IdOf
<1>4. f \in Injection(DOMAIN l, T)
  BY <1>2, <1>3 DEF Injection, IsInjective
<1>5. /\ IsFiniteSet(T) /\ Cardinality(T) = Len(l)
      /\ Cardinality(DOMAIN l) = Len(l)
  BY <1>1, FirstNumbers
<1>6. f \in Surjection(DOMAIN l, T)
  BY <1>4, <1>5, FS_Injection
<1>7. k - 1 \in T
  BY <1>1
<1>8. PICK i \in DOMAIN l : f[i] = k - 1
  BY <1>6, <1>7 DEF Surjection
<1> QED  BY <1>8

(* The device at a place depends on nothing but the devices in the list.    *)
LEMMA PlaceStays ==
  ASSUME NEW l, NEW m, ListOfDevices(l), NEW k \in DOMAIN l,
         DOMAIN m = DOMAIN l, \A i \in DOMAIN l : m[i].dev = l[i].dev
  PROVE  getALLIfd(m)[k].dev = getALLIfd(l)[k].dev
<1>1. \A i \in DOMAIN l : Rank(m, i) = Rank(l, i)
  BY DEF Rank
<1> DEFINE c == CHOOSE i \in DOMAIN l : Rank(l, i) = k - 1
<1>2. c \in DOMAIN l
  BY PlaceTaken
<1>3. (CHOOSE i \in DOMAIN m : Rank(m, i) = k - 1) = c
  BY <1>1
<1>4. getALLIfd(l)[k] = l[c] /\ getALLIfd(m)[k] = m[c]
  BY <1>3 DEF getALLIfd
<1> QED  BY <1>2, <1>4

-----------------------------------------------------------------------------
(* What the operations make of a list.                                     *)

LEMMA ListIs ==
  ASSUME NEW l \in Seq(Node)
  PROVE  /\ Len(l) \in Nat /\ DOMAIN l = 1..Len(l)
         /\ \A i \in 1..Len(l) : l[i] \in Node
BY LenProperties, ElementOfSeq

LEMMA IsList ==
  ASSUME NEW n \in Nat, NEW l \in [1..n -> Node]
  PROVE  l \in Seq(Node) /\ Len(l) = n
BY SeqDef, LenProperties

LEMMA Devices ==
  ASSUME NEW l \in Seq(Node),
         \A i, j \in DOMAIN l : l[i].dev = l[j].dev => i = j
  PROVE  ListOfDevices(l)
BY ListIs DEF ListOfDevices, Node

(* A breaker that is replaced changes nothing else.                        *)
LEMMA Patched ==
  ASSUME NEW l \in Seq(Node), NEW k \in 1..Len(l), NEW b \in Breaker, NEW m,
         m = [l EXCEPT ![k].breaker = b]
  PROVE  /\ m \in Seq(Node) /\ Len(m) = Len(l)
         /\ \A i \in 1..Len(l) :
              /\ m[i].dev = l[i].dev /\ m[i].fd = l[i].fd
              /\ m[i].enabled = l[i].enabled /\ m[i].cb = l[i].cb
              /\ m[i].breaker = IF i = k THEN b ELSE l[i].breaker
<1>1. /\ Len(l) \in Nat /\ DOMAIN l = 1..Len(l)
      /\ \A i \in 1..Len(l) : l[i] \in Node
  BY ListIs
<1>2. m = [i \in 1..Len(l) |-> IF i = k THEN [l[k] EXCEPT !.breaker = b] ELSE l[i]]
  BY <1>1
<1>3. [l[k] EXCEPT !.breaker = b] \in Node
  BY <1>1 DEF Node
<1>4. m \in [1..Len(l) -> Node]
  BY <1>1, <1>2, <1>3
<1>5. m \in Seq(Node) /\ Len(m) = Len(l)
  BY <1>1, <1>4, IsList
<1>6. ASSUME NEW i \in 1..Len(l)
      PROVE  /\ m[i].dev = l[i].dev /\ m[i].fd = l[i].fd
             /\ m[i].enabled = l[i].enabled /\ m[i].cb = l[i].cb
             /\ m[i].breaker = IF i = k THEN b ELSE l[i].breaker
  <2>1. l[i] \in Node
    BY <1>1
  <2>2. CASE i = k
    BY <1>2, <2>1, <2>2 DEF Node
  <2>3. CASE i # k
    BY <1>2, <2>3
  <2> QED  BY <2>2, <2>3
<1> QED  BY <1>5, <1>6

LEMMA EnabledList ==
  ASSUME NEW l \in Seq(Node), NEW d
  PROVE  /\ setEnable(l, d) \in Seq(Node) /\ Len(setEnable(l, d)) = Len(l)
         /\ \A i \in 1..Len(l) :
              LET n == setEnable(l, d)[i] IN
              /\ n.dev = l[i].dev /\ n.fd = l[i].fd /\ n.cb = l[i].cb
              /\ n.breaker = l[i].breaker
              /\ n.enabled => l[i].enabled \/ l[i].dev = d
<1>1. /\ Len(l) \in Nat /\ DOMAIN l = 1..Len(l)
      /\ \A i \in 1..Len(l) : l[i] \in Node
  BY ListIs
<1>2. \A i \in 1..Len(l) : [l[i] EXCEPT !.enabled = TRUE] \in Node
  BY <1>1 DEF Node
<1>3. setEnable(l, d) \in [1..Len(l) -> Node]
  BY <1>1, <1>2 DEF setEnable
<1>4. setEnable(l, d) \in Seq(Node) /\ Len(setEnable(l, d)) = Len(l)
  BY <1>1, <1>3, IsList
<1>5. ASSUME NEW i \in 1..Len(l)
      PROVE  LET n == setEnable(l, d)[i] IN
              /\ n.dev = l[i].dev /\ n.fd = l[i].fd /\ n.cb = l[i].cb
              /\ n.breaker = l[i].breaker
              /\ n.enabled => l[i].enabled \/ l[i].dev = d
  <2>1. l[i] \in Node
    BY <1>1
  <2>2. setEnable(l, d)[i] = IF l[i].dev = d THEN [l[i] EXCEPT !.enabled = TRUE]
                                             ELSE l[i]
    BY <1>1 DEF setEnable
  <2>3. CASE l[i].dev = d
    BY <2>1, <2>2, <2>3 DEF Node
  <2>4. CASE l[i].dev # d
    BY <2>2, <2>4
  <2> QED  BY <2>3, <2>4
<1> QED  BY <1>4, <1>5

(* A node that was just made, and given its callback.                       *)
IsFresh(n, d, fd, cb) ==
  /\ n \in Node
  /\ n.dev = d /\ n.fd = fd /\ ~n.enabled /\ n.cb = cb /\ n.breaker = NewBreaker

LEMMA FreshNode ==
  ASSUME NEW d \in DeviceName, NEW fd \in Fd, NEW cb \in BOOLEAN
  PROVE  IsFresh([createComnode(d, fd) EXCEPT !.cb = cb], d, fd, cb)
<1>1. NewBreaker \in Breaker
  BY BreakerAssumption DEF NewBreaker, Breaker, CircuitState
<1> QED  BY <1>1 DEF IsFresh, Node, createComnode

LEMMA MadeNode ==
  ASSUME NEW d \in DeviceName, NEW fd \in Fd
  PROVE  createComnode(d, fd) \in Node /\ createComnode(d, fd).dev = d
<1>1. NewBreaker \in Breaker
  BY BreakerAssumption DEF NewBreaker, Breaker, CircuitState
<1> QED  BY <1>1 DEF Node, createComnode

LEMMA AppendedList ==
  ASSUME NEW l \in Seq(Node), NEW d \in DeviceName, NEW fd \in Fd, NEW cb \in BOOLEAN,
         \A i \in 1..Len(l) : l[i].dev # d, NEW m,
         m = callbackRgist(insertNode(l, createComnode(d, fd)), d, cb)
  PROVE  /\ m \in Seq(Node) /\ Len(m) = Len(l) + 1
         /\ \A i \in 1..Len(l) : m[i] = l[i]
         /\ IsFresh(m[Len(l) + 1], d, fd, cb)
<1>1. /\ Len(l) \in Nat /\ DOMAIN l = 1..Len(l)
      /\ \A i \in 1..Len(l) : l[i] \in Node
  BY ListIs
<1> DEFINE new == createComnode(d, fd)
           a == Append(l, new)
<1>2. new \in Node /\ new.dev = d
  BY MadeNode
<1>3. findcommunicate(l, d) = 0
  BY <1>1, FoundIs
<1>4. insertNode(l, new) = a
  BY <1>2, <1>3 DEF insertNode
<1>5. /\ Len(a) = Len(l) + 1 /\ DOMAIN a = 1..(Len(l) + 1)
      /\ \A i \in 1..Len(l) : a[i] = l[i]
      /\ a[Len(l) + 1] = new
  BY <1>1, <1>2, AppendProperties, LenProperties
<1>6. IsFresh([new EXCEPT !.cb = cb], d, fd, cb)
  BY FreshNode
<1> HIDE DEF new
<1>7. m = [i \in 1..(Len(l) + 1) |->
             IF a[i].dev = d THEN [a[i] EXCEPT !.cb = cb] ELSE a[i]]
  BY <1>4, <1>5 DEF callbackRgist, new
<1>8. \A i \in 1..Len(l) : m[i] = l[i]
  BY <1>1, <1>5, <1>7
<1>9. IsFresh(m[Len(l) + 1], d, fd, cb)
  <2>1. Len(l) + 1 \in 1..(Len(l) + 1) /\ a[Len(l) + 1].dev = d
    BY <1>1, <1>2, <1>5
  <2>2. m[Len(l) + 1] = [new EXCEPT !.cb = cb]
    BY <1>5, <1>7, <2>1
  <2> QED  BY <1>6, <2>2
<1>10. m \in [1..(Len(l) + 1) -> Node]
  <2>1. \A i \in 1..(Len(l) + 1) : m[i] \in Node
    BY <1>1, <1>8, <1>9 DEF IsFresh
  <2> QED  BY <1>7, <2>1
<1> QED  BY <1>1, <1>8, <1>9, <1>10, IsList

(* The node of a device is deleted and a fresh one appended.               *)
LEMMA RemovedList ==
  ASSUME NEW l \in Seq(Node), NEW k \in 1..Len(l)
  PROVE  /\ RemoveAt(l, k) \in Seq(Node) /\ Len(RemoveAt(l, k)) = Len(l) - 1
         /\ \A i \in 1..(Len(l) - 1) :
              RemoveAt(l, k)[i] = IF i < k THEN l[i] ELSE l[i + 1]
<1>1. /\ Len(l) \in Nat /\ DOMAIN l = 1..Len(l)
      /\ \A i \in 1..Len(l) : l[i] \in Node
  BY ListIs
<1> DEFINE a == SubSeq(l, 1, k - 1)
           b == SubSeq(l, k + 1, Len(l))
<1>2. /\ a \in Seq(Node) /\ Len(a) = k - 1
      /\ \A i \in 1..(k - 1) : a[i] = l[i]
  <2>1. /\ 1 \in Int /\ k - 1 \in Int /\ \A i \in 1..(k - 1) : l[i] \in Node
    BY <1>1
  <2>2. /\ a \in Seq(Node) /\ Len(a) = (IF 1 <= k - 1 THEN (k - 1) - 1 + 1 ELSE 0)
        /\ \A i \in 1..((k - 1) - 1 + 1) : a[i] = l[1 + i - 1]
    BY <2>1, SubSeqProperties
  <2> HIDE DEF a
  <2> QED  BY <2>2
<1>3. /\ b \in Seq(Node) /\ Len(b) = Len(l) - k
      /\ \A i \in 1..(Len(l) - k) : b[i] = l[k + i]
  <2>1. k + 1 \in Int /\ Len(l) \in Int /\ \A i \in (k + 1)..Len(l) : l[i] \in Node
    BY <1>1
  <2>2. /\ b \in Seq(Node)
        /\ Len(b) = (IF k + 1 <= Len(l) THEN Len(l) - (k + 1) + 1 ELSE 0)
        /\ \A i \in 1..(Len(l) - (k + 1) + 1) : b[i] = l[(k + 1) + i - 1]
    BY <2>1, SubSeqProperties
  <2> HIDE DEF b
  <2>a. Len(b) = (IF k + 1 <= Len(l) THEN Len(l) - (k + 1) + 1 ELSE 0)
    BY <2>2
  <2>b. Len(l) \in Int /\ k \in Int /\ k <= Len(l)
    BY <1>1
  <2>3. Len(b) = Len(l) - k
    <3>1. CASE k = Len(l)
      BY <2>a, <2>b, <3>1
    <3>2. CASE k # Len(l)
      <4>1. k + 1 <= Len(l) /\ Len(l) - (k + 1) + 1 = Len(l) - k
        BY <2>b, <3>2
      <4> QED  BY <2>a, <4>1
    <3> QED  BY <3>1, <3>2
  <2>4. \A i \in 1..(Len(l) - k) : (k + 1) + i - 1 = k + i
    BY <1>1
  <2>5. Len(l) - (k + 1) + 1 = Len(l) - k
    BY <1>1
  <2>6. ASSUME NEW i \in 1..(Len(l) - k) PROVE b[i] = l[k + i]
    <3>1. b[i] = l[(k + 1) + i - 1]
      BY <2>2, <2>5
    <3> QED  BY <2>4, <3>1
  <2> QED  BY <2>2, <2>3, <2>6
<1> HIDE DEF a, b
<1>4. RemoveAt(l, k) = a \o b
  BY DEF RemoveAt, a, b
<1>5. /\ a \o b \in Seq(Node) /\ Len(a \o b) = Len(a) + Len(b)
      /\ \A i \in 1..(Len(a) + Len(b)) :
           (a \o b)[i] = IF i <= Len(a) THEN a[i] ELSE b[i - Len(a)]
  BY <1>2, <1>3, ConcatProperties
<1>6. Len(a) + Len(b) = Len(l) - 1
  BY <1>1, <1>2, <1>3
<1> DEFINE r == a \o b
<1> HIDE DEF r
<1>7. ASSUME NEW i \in 1..(Len(l) - 1)
      PROVE  r[i] = IF i < k THEN l[i] ELSE l[i + 1]
  <2>1. r[i] = IF i <= Len(a) THEN a[i] ELSE b[i - Len(a)]
    BY <1>5, <1>6 DEF r
  <2>2. CASE i < k
    <3>1. i <= Len(a) /\ i \in 1..(k - 1)
      BY <1>2, <2>2
    <3> QED  BY <1>2, <2>1, <2>2, <3>1
  <2>3. CASE ~ (i < k)
    <3>1. ~ (i <= Len(a)) /\ i - Len(a) \in 1..(Len(l) - k)
          /\ k + (i - Len(a)) = i + 1
      BY <1>1, <1>2, <2>3
    <3>2. r[i] = b[i - Len(a)]
      BY <2>1, <3>1
    <3>3. b[i - Len(a)] = l[k + (i - Len(a))]
      BY <1>3, <3>1
    <3> QED  BY <2>3, <3>1, <3>2, <3>3
  <2> QED  BY <2>2, <2>3
<1> QED  BY <1>4, <1>5, <1>6, <1>7 DEF r

LEMMA ReplacedList ==
  ASSUME NEW l \in Seq(Node), NEW k \in 1..Len(l), NEW fd \in Fd, NEW cb \in BOOLEAN,
         \A i, j \in DOMAIN l : l[i].dev = l[j].dev => i = j, NEW m,
         m = callbackRgist(insertNode(deletecommunicateNode(l, l[k].dev),
                                      createComnode(l[k].dev, fd)), l[k].dev, cb)
  PROVE  /\ m \in Seq(Node) /\ Len(m) = Len(l)
         /\ \A i \in 1..(Len(l) - 1) : m[i] = IF i < k THEN l[i] ELSE l[i + 1]
         /\ IsFresh(m[Len(l)], l[k].dev, fd, cb)
<1>1. /\ Len(l) \in Nat /\ DOMAIN l = 1..Len(l)
      /\ \A i \in 1..Len(l) : l[i] \in Node
  BY ListIs
<1> DEFINE d == l[k].dev
           r == RemoveAt(l, k)
<1>2. d \in DeviceName
  BY <1>1 DEF Node
<1>3. findcommunicate(l, d) = k
  <2>1. k \in 1..Len(l) /\ ~ \A i \in 1..Len(l) : l[i].dev # d
    OBVIOUS
  <2>2. findcommunicate(l, d) # 0
    BY <1>1, <2>1, FoundIs
  <2>3. findcommunicate(l, d) \in 1..Len(l) /\ l[findcommunicate(l, d)].dev = d
    BY <1>1, <2>2, FoundIs
  <2> QED  BY <1>1, <2>3
<1>4. deletecommunicateNode(l, d) = r
  BY <1>1, <1>3 DEF deletecommunicateNode
<1>5. /\ r \in Seq(Node) /\ Len(r) = Len(l) - 1
      /\ \A i \in 1..(Len(l) - 1) : r[i] = IF i < k THEN l[i] ELSE l[i + 1]
  BY RemovedList
<1> HIDE DEF r
<1>6. \A i \in 1..Len(r) : r[i].dev # d
  <2> TAKE i \in 1..Len(r)
  <2>1. i \in 1..Len(l) /\ i + 1 \in 1..Len(l) /\ i \in 1..(Len(l) - 1)
    BY <1>1, <1>5
  <2>2. r[i] = IF i < k THEN l[i] ELSE l[i + 1]
    BY <1>5, <2>1
  <2>3. CASE i < k
    <3>1. i # k /\ r[i] = l[i]
      BY <2>2, <2>3
    <3> QED  BY <1>1, <2>1, <3>1
  <2>4. CASE ~ (i < k)
    <3>1. i + 1 # k /\ r[i] = l[i + 1]
      BY <2>2, <2>4, <2>1
    <3> QED  BY <1>1, <2>1, <3>1
  <2> QED  BY <2>3, <2>4
<1>7. m = callbackRgist(insertNode(r, createComnode(d, fd)), d, cb)
  BY <1>4
<1>8. /\ m \in Seq(Node) /\ Len(m) = Len(r) + 1
      /\ \A i \in 1..Len(r) : m[i] = r[i]
      /\ IsFresh(m[Len(r) + 1], d, fd, cb)
  BY <1>2, <1>5, <1>6, <1>7, AppendedList
<1>9. Len(r) + 1 = Len(l)
  BY <1>1, <1>5
<1> QED  BY <1>5, <1>8, <1>9

-----------------------------------------------------------------------------
(* The strategies that createAll makes: enabled devices, each of them once. *)

Strand(s, D) ==
  /\ s \in Seq(Enabled)
  /\ \A i \in DOMAIN s : s[i] \in D
  /\ \A i, j \in DOMAIN s : s[i] = s[j] => i = j

LEMMA FirstStrand == ASSUME NEW d PROVE Strand(Created(d), {d})
<1>1. CASE d \in Enabled
  <2>1. /\ <<d>> \in Seq(Enabled) /\ DOMAIN <<d>> = 1..1 /\ <<d>>[1] = d
    BY <1>1
  <2> QED  BY <1>1, <2>1 DEF Strand, Created
<1>2. CASE d \notin Enabled
  <2>1. <<>> \in Seq(Enabled) /\ DOMAIN <<>> = {}
    OBVIOUS
  <2> QED  BY <1>2, <2>1 DEF Strand, Created
<1> QED  BY <1>1, <1>2

LEMMA LongerStrand ==
  ASSUME NEW s, NEW D, NEW d, Strand(s, D), d \notin D
  PROVE  Strand(s \o Created(d), D \union {d})
<1> DEFINE t == Created(d)
           r == s \o t
<1>1. /\ s \in Seq(Enabled) /\ \A i \in DOMAIN s : s[i] \in D
      /\ \A i, j \in DOMAIN s : s[i] = s[j] => i = j
  BY DEF Strand
<1>2. t \in Seq(Enabled) /\ \A i \in DOMAIN t : t[i] = d
  BY FirstStrand DEF Strand
<1>3. Len(t) \in {0, 1}
  <2>1. Len(<<d>>) = 1 /\ Len(<<>>) = 0
    OBVIOUS
  <2> QED  BY <2>1 DEF Created
<1> HIDE DEF t
<1>4. /\ Len(s) \in Nat /\ DOMAIN s = 1..Len(s) /\ DOMAIN t = 1..Len(t)
  BY <1>1, <1>2, LenProperties
<1>5. /\ r \in Seq(Enabled) /\ Len(r) = Len(s) + Len(t)
      /\ \A i \in 1..(Len(s) + Len(t)) :
           r[i] = IF i <= Len(s) THEN s[i] ELSE t[i - Len(s)]
  BY <1>1, <1>2, ConcatProperties
<1>6. DOMAIN r = 1..(Len(s) + Len(t))
  BY <1>5, LenProperties
<1> HIDE DEF r
<1>7. ASSUME NEW i \in DOMAIN r
      PROVE  \/ i \in DOMAIN s /\ r[i] = s[i] /\ s[i] \in D
             \/ i = Len(s) + 1 /\ r[i] = d
  <2>1. CASE i <= Len(s)
    <3>1. i \in DOMAIN s /\ r[i] = s[i]
      BY <1>4, <1>5, <1>6, <2>1
    <3> QED  BY <1>1, <3>1
  <2>2. CASE ~ (i <= Len(s))
    <3>1. i = Len(s) + 1 /\ i - Len(s) \in 1..Len(t) /\ r[i] = t[i - Len(s)]
      BY <1>3, <1>4, <1>5, <1>6, <2>2
    <3> QED  BY <1>2, <1>4, <3>1
  <2> QED  BY <2>1, <2>2
<1>8. \A i, j \in DOMAIN r : r[i] = r[j] => i = j
  <2> TAKE i, j \in DOMAIN r
  <2> QED  BY <1>1, <1>7
<1>9. \A i \in DOMAIN r : r[i] \in D \union {d}
  BY <1>7
<1> QED  BY <1>5, <1>8, <1>9 DEF Strand, r, t

LEMMA StrategiesAre == Strand(Strategies, DeviceName)
<1> DEFINE s1 == Created("lora")
           s2 == s1 \o Created("wifi")
           s3 == s2 \o Created("bt")
           s4 == s3 \o Created("lan")
           s5 == s4 \o Created("lan_server")
           s6 == s5 \o Created("cell4g")
<1>1. Strand(s1, {"lora"})
  BY FirstStrand
<1>2. Strand(s2, {"lora"} \union {"wifi"})
  <2> HIDE DEF s1
  <2> QED  BY <1>1, LongerStrand
<1>3. Strand(s3, {"lora"} \union {"wifi"} \union {"bt"})
  <2> HIDE DEF s2
  <2> QED  BY <1>2, LongerStrand
<1>4. Strand(s4, {"lora"} \union {"wifi"} \union {"bt"} \union {"lan"})
  <2> HIDE DEF s3
  <2> QED  BY <1>3, LongerStrand
<1>5. Strand(s5, {"lora"} \union {"wifi"} \union {"bt"} \union {"lan"}
                  \union {"lan_server"})
  <2> HIDE DEF s4
  <2> QED  BY <1>4, LongerStrand
<1>6. Strand(s6, {"lora"} \union {"wifi"} \union {"bt"} \union {"lan"}
                  \union {"lan_server"} \union {"cell4g"})
  <2> HIDE DEF s5
  <2> QED  BY <1>5, LongerStrand
<1>7. Strategies = s6
  BY DEF Strategies
<1>8. {"lora"} \union {"wifi"} \union {"bt"} \union {"lan"} \union {"lan_server"}
        \union {"cell4g"} \subseteq DeviceName
  BY DEF DeviceName, Order
<1> HIDE DEF s6
<1> QED  BY <1>6, <1>7, <1>8 DEF Strand

(* The device of a running strategy.                                       *)
LEMMA DevIs ==
  ASSUME cur \in Nat \ {0}, cur <= Len(Strategies)
  PROVE  /\ Len(Strategies) \in Nat /\ DOMAIN Strategies = 1..Len(Strategies)
         /\ cur \in DOMAIN Strategies
         /\ Dev \in Enabled /\ Dev \in DeviceName
         /\ Dev \notin {Strategies[k] : k \in {n \in DOMAIN Strategies : n < cur}}
<1>1. /\ Strategies \in Seq(Enabled)
      /\ \A i \in DOMAIN Strategies : Strategies[i] \in DeviceName
      /\ \A i, j \in DOMAIN Strategies : Strategies[i] = Strategies[j] => i = j
  BY StrategiesAre DEF Strand
<1>2. /\ Len(Strategies) \in Nat /\ DOMAIN Strategies = 1..Len(Strategies)
      /\ \A i \in DOMAIN Strategies : Strategies[i] \in Enabled
  BY <1>1, LenProperties, ElementOfSeq
<1>3. cur \in DOMAIN Strategies
  BY <1>2
<1>4. Dev \notin {Strategies[k] : k \in {n \in DOMAIN Strategies : n < cur}}
  BY <1>1, <1>2, <1>3 DEF Dev
<1> QED  BY <1>1, <1>2, <1>3, <1>4 DEF Dev

-----------------------------------------------------------------------------
(* The descriptors under the steps of the three threads.                    *)

LEMMA FdIs == FdMax \in Nat /\ 0..3 \subseteq Fd /\ \A f \in Fd : f \in Nat /\ f # -1
<1>1. FdMax \in Nat /\ FdMax > 11
  BY InitAssumption DEF Order
<1> QED  BY <1>1 DEF Fd

LEMMA NotADevice ==
  /\ "free" \notin Device /\ "std" \notin Device /\ "gps" \notin Device
  /\ "lan_server" \in Device
BY DEF Device, DeviceName, Order

(* Two lists of the same links.                                            *)
SameLinks(l, m) ==
  /\ l \in Seq(Node) /\ m \in Seq(Node) /\ Len(m) = Len(l)
  /\ \A i \in 1..Len(l) : m[i].dev = l[i].dev /\ m[i].fd = l[i].fd

LEMMA LinksAre ==
  ASSUME NEW l, NEW m, SameLinks(l, m)
  PROVE  /\ DOMAIN m = DOMAIN l
         /\ \A i \in DOMAIN l :
              /\ m[i].dev = l[i].dev /\ m[i].fd = l[i].fd
              /\ l[i].fd \in Fd /\ l[i].dev \in Device
<1>1. /\ DOMAIN l = 1..Len(l) /\ DOMAIN m = 1..Len(l)
      /\ \A i \in 1..Len(l) : l[i] \in Node
  BY ListIs DEF SameLinks
<1> QED  BY <1>1 DEF SameLinks, Node, Device

(* Steps that leave the descriptors alone.                                  *)
LEMMA FdKept ==
  ASSUME FdInv, SameLinks(nodes, nodes'),
         UNCHANGED <<owner, newFd, gpsFd, clash>>,
         Held' => Held, phase' # "run" => phase # "run",
         serverFd' = serverFd,
         phase' = "bringUp" /\ newFd # -1 =>
           phase = "bringUp" /\ Dev' = Dev /\ (step = "closeAgain" => step' = "closeAgain")
  PROVE  FdInv'
<1>1. /\ DOMAIN nodes' = DOMAIN nodes
      /\ \A i \in DOMAIN nodes :
           /\ nodes'[i].dev = nodes[i].dev /\ nodes'[i].fd = nodes[i].fd
           /\ nodes[i].fd \in Fd /\ nodes[i].dev \in Device
  BY LinksAre
<1>2. FdTyped' /\ Standard'
  BY <1>1 DEF FdInv, FdTyped, Standard
<1>3. NotOthers'
  BY DEF FdInv, NotOthers
<1>4. ASSUME Held' PROVE LeakFree'
  <2>1. LeakFree
    BY <1>4 DEF FdInv
  <2> QED  BY <1>1, <2>1 DEF LeakFree
<1>5. ASSUME Held', ~clash' PROVE OwnLinks' /\ OwnGps' /\ OwnNew'
  <2>1. OwnLinks /\ OwnGps /\ OwnNew
    BY <1>5 DEF FdInv
  <2>2. OwnLinks' /\ OwnGps'
    BY <1>1, <2>1 DEF OwnLinks, OwnGps
  <2>3. OwnNew'
    BY <1>1, <2>1 DEF OwnNew
  <2> QED  BY <2>2, <2>3
<1> QED  BY <1>2, <1>3, <1>4, <1>5 DEF FdInv

(* open or socket: a free number becomes the new one of device d.           *)
LEMMA FdTaken ==
  ASSUME FdInv, nodes \in Seq(Node), UNCHANGED <<nodes, gpsFd, clash, serverFd, phase>>,
         NEW f \in Fd, owner[f] = "free", NEW d \in Device,
         owner' = [owner EXCEPT ![f] = d],
         newFd = -1, newFd' = f, Held' = Held,
         phase = "bringUp" => d = Dev /\ Dev' = Dev
  PROVE  FdInv'
<1>1. SameLinks(nodes, nodes)
  BY DEF SameLinks
<1>2. \A i \in DOMAIN nodes : nodes[i].fd \in Fd /\ nodes[i].dev \in Device
  BY <1>1, LinksAre
<1>3. /\ owner \in [Fd -> {"free", "std", "gps"} \union Device]
      /\ \A g \in Fd : owner'[g] = IF g = f THEN d ELSE owner[g]
      /\ 0..3 \subseteq Fd /\ \A g \in Fd : g \in Nat /\ g # -1
  BY FdIs DEF FdInv, FdTyped
<1>4. FdTyped'
  BY <1>3 DEF FdInv, FdTyped
<1>5. Standard'
  <2>1. ASSUME phase' # "run" PROVE gpsFd' \notin 0..3 /\ \A g \in 0..3 : owner'[g] = "std"
    BY <1>3, <2>1 DEF FdInv, Standard
  <2>2. ASSUME Held' PROVE \A i \in DOMAIN nodes' : nodes'[i].fd > 3
    BY <2>2 DEF FdInv, Standard
  <2> QED  BY <2>1, <2>2 DEF Standard
<1>6. NotOthers'
  BY <1>3 DEF NotOthers
<1>7. ASSUME Held' PROVE LeakFree'
  <2>1. LeakFree
    BY <1>7 DEF FdInv
  <2> QED  BY <1>3, <2>1 DEF LeakFree
<1>8. ASSUME Held', ~clash' PROVE OwnLinks' /\ OwnGps' /\ OwnNew'
  <2>1. OwnLinks /\ OwnGps
    BY <1>8 DEF FdInv
  <2>2. \A i \in DOMAIN nodes : nodes[i].fd # f
    BY <1>2, <2>1, NotADevice DEF OwnLinks
  <2>3. OwnLinks'
    BY <1>2, <1>3, <2>1, <2>2 DEF OwnLinks
  <2>4. OwnGps'
    BY <1>3, <2>1 DEF OwnGps, FdInv, FdTyped
  <2>5. OwnNew'
    BY <1>3, <2>2 DEF OwnNew
  <2> QED  BY <2>3, <2>4, <2>5
<1> QED  BY <1>4, <1>5, <1>6, <1>7, <1>8 DEF FdInv

(* What a step notes of the port of the GPS thread.                         *)
LEMMA NoClash ==
  ASSUME NoteClash, FdInv, Held, ~clash', gpsFd' = gpsFd
  PROVE  ~clash /\ OwnGps'
BY DEF NoteClash, FdInv, OwnGps, FdTyped

(* close of the descriptor of the running attempt.                          *)
LEMMA FdClosed ==
  ASSUME FdInv, nodes \in Seq(Node), UNCHANGED <<nodes, gpsFd, serverFd, phase>>, NoteClash,
         newFd # -1, owner' = [owner EXCEPT ![newFd] = "free"],
         newFd' \in {newFd, -1}, Held' = Held,
         phase = "bringUp" => Dev' = Dev /\ (newFd' # -1 => step' = "closeAgain")
  PROVE  FdInv'
<1>1. SameLinks(nodes, nodes)
  BY DEF SameLinks
<1>2. \A i \in DOMAIN nodes : nodes[i].fd \in Fd /\ nodes[i].dev \in Device
  BY <1>1, LinksAre
<1>3. /\ owner \in [Fd -> {"free", "std", "gps"} \union Device]
      /\ newFd \in Fd
      /\ \A g \in Fd : owner'[g] = IF g = newFd THEN "free" ELSE owner[g]
      /\ 0..3 \subseteq Fd /\ \A g \in Fd : g \in Nat /\ g # -1
  BY FdIs DEF FdInv, FdTyped
<1>4. FdTyped'
  <2>1. clash' \in BOOLEAN
    BY DEF NoteClash, FdInv, FdTyped
  <2>2. /\ newFd' \in Fd \union {-1} /\ gpsFd' \in Fd \union {-1, -2}
        /\ owner' \in [Fd -> {"free", "std", "gps"} \union Device]
    BY <1>3 DEF FdInv, FdTyped
  <2> QED  BY <2>1, <2>2 DEF FdTyped
<1>5. Standard'
  <2>1. ASSUME phase' # "run" PROVE gpsFd' \notin 0..3 /\ \A g \in 0..3 : owner'[g] = "std"
    <3>1. gpsFd \notin 0..3 /\ \A g \in 0..3 : owner[g] = "std"
      BY <2>1 DEF FdInv, Standard
    <3> QED  BY <1>3, <3>1, SMTT(30)
  <2>2. ASSUME Held' PROVE \A i \in DOMAIN nodes' : nodes'[i].fd > 3
    BY <2>2 DEF FdInv, Standard
  <2> QED  BY <2>1, <2>2 DEF Standard
<1>6. NotOthers'
  BY <1>3 DEF NotOthers
<1>7. ASSUME Held' PROVE LeakFree'
  <2>1. LeakFree
    BY <1>7 DEF FdInv
  <2> QED  BY <1>3, <2>1, NotADevice DEF LeakFree
<1>8. ASSUME Held', ~clash' PROVE OwnLinks' /\ OwnGps' /\ OwnNew'
  <2>1. ~clash /\ OwnGps'
    BY <1>8, NoClash
  <2>2. OwnLinks /\ OwnNew
    BY <1>8, <2>1 DEF FdInv
  <2>3. \A i \in DOMAIN nodes : nodes[i].fd # newFd
    BY <2>2 DEF OwnNew
  <2>4. OwnLinks'
    BY <1>2, <1>3, <2>2, <2>3 DEF OwnLinks
  <2>5. OwnNew'
    BY <1>3, <2>3 DEF OwnNew
  <2> QED  BY <2>1, <2>4, <2>5
<1> QED  BY <1>4, <1>5, <1>6, <1>7, <1>8 DEF FdInv

(* A reinitialisation closes descriptor 0.                                  *)
LEMMA ZeroClosed ==
  ASSUME FdInv, nodes \in Seq(Node), UNCHANGED <<nodes, gpsFd, serverFd, newFd>>, NoteClash,
         owner' = [owner EXCEPT ![0] = "free"],
         phase = "run", phase' = "run", Held' = Held
  PROVE  FdInv'
<1>1. SameLinks(nodes, nodes)
  BY DEF SameLinks
<1>2. \A i \in DOMAIN nodes : nodes[i].fd \in Fd /\ nodes[i].dev \in Device
  BY <1>1, LinksAre
<1>3. /\ owner \in [Fd -> {"free", "std", "gps"} \union Device]
      /\ \A g \in Fd : owner'[g] = IF g = 0 THEN "free" ELSE owner[g]
      /\ 0..3 \subseteq Fd /\ \A g \in Fd : g \in Nat /\ g # -1
  BY FdIs DEF FdInv, FdTyped
<1>4. FdTyped'
  <2>1. clash' \in BOOLEAN
    BY DEF NoteClash, FdInv, FdTyped
  <2>2. /\ newFd' \in Fd \union {-1} /\ gpsFd' \in Fd \union {-1, -2}
        /\ owner' \in [Fd -> {"free", "std", "gps"} \union Device]
    BY <1>3 DEF FdInv, FdTyped
  <2> QED  BY <2>1, <2>2 DEF FdTyped
<1>5. Standard'
  BY DEF FdInv, Standard
<1>6. NotOthers'
  BY DEF NotOthers
<1>7. ASSUME Held' PROVE LeakFree'
  <2>1. LeakFree
    BY <1>7 DEF FdInv
  <2> QED  BY <1>3, <2>1, NotADevice DEF LeakFree
<1>8. ASSUME Held', ~clash' PROVE OwnLinks' /\ OwnGps' /\ OwnNew'
  <2>1. ~clash /\ OwnGps'
    BY <1>8, NoClash
  <2>2. OwnLinks /\ OwnNew /\ \A i \in DOMAIN nodes : nodes[i].fd # 0
    BY <1>8, <2>1 DEF FdInv, Standard
  <2>3. OwnLinks'
    BY <1>2, <1>3, <2>2 DEF OwnLinks
  <2>4. OwnNew'
    BY <2>2 DEF OwnNew
  <2> QED  BY <2>1, <2>3, <2>4
<1> QED  BY <1>4, <1>5, <1>6, <1>7, <1>8 DEF FdInv

LEMMA RunningDev ==
  ASSUME MainAt, phase = "bringUp", newFd # -1
  PROVE  cur <= Len(Strategies) /\ Dev \in Device
<1>1. step # "begin"
  BY DEF MainAt, HoldsStep
<1>2. cur \in Nat \ {0} /\ Len(Strategies) \in Nat
  BY StrategiesAre, LenProperties DEF MainAt, Strand
<1>3. cur <= Len(Strategies)
  BY <1>1, <1>2 DEF MainAt, Done
<1> QED  BY <1>2, <1>3, DevIs DEF Device

(* The GPS thread opens its port, or closes the number it believes it has.  *)
LEMMA FdGpsOpens ==
  ASSUME FdInv, nodes \in Seq(Node), GpsOpens,
         UNCHANGED <<phase, clash>>,
         phase = "bringUp" /\ newFd # -1 => Dev \in Device
  PROVE  FdInv'
<1>1. SameLinks(nodes, nodes)
  BY DEF SameLinks
<1>2. \A i \in DOMAIN nodes : nodes[i].fd \in Fd /\ nodes[i].dev \in Device
  BY <1>1, LinksAre
<1>3. PICK f \in Fd : Take(f, "gps") /\ gpsFd' = f
  BY DEF GpsOpens
<1>4. /\ owner[f] = "free"
      /\ owner \in [Fd -> {"free", "std", "gps"} \union Device]
      /\ \A g \in Fd : owner'[g] = IF g = f THEN "gps" ELSE owner[g]
      /\ owner' \in [Fd -> {"free", "std", "gps"} \union Device]
      /\ 0..3 \subseteq Fd /\ \A g \in Fd : g \in Nat /\ g # -1
      /\ UNCHANGED <<nodes, newFd, serverFd, step, cur>> /\ gpsFd = -1
  BY <1>3, FdIs DEF FdInv, FdTyped, Take, LowestFree, GpsOpens, registry
<1>5. Held' = Held /\ Dev' = Dev
  BY <1>4 DEF Held, Active, Dev
<1>6. FdTyped'
  BY <1>3, <1>4 DEF FdInv, FdTyped
<1>7. Standard'
  <2>1. ASSUME phase' # "run" PROVE gpsFd' \notin 0..3 /\ \A g \in 0..3 : owner'[g] = "std"
    <3>1. \A g \in 0..3 : owner[g] = "std"
      BY <2>1 DEF FdInv, Standard
    <3> QED  BY <1>3, <1>4, <3>1
  <2>2. ASSUME Held' PROVE \A i \in DOMAIN nodes' : nodes'[i].fd > 3
    BY <1>4, <1>5, <2>2 DEF FdInv, Standard
  <2> QED  BY <2>1, <2>2 DEF Standard
<1>8. NotOthers'
  <2>1. newFd \in Fd \union {-1}
    BY DEF FdInv, FdTyped
  <2> QED  BY <1>4, <1>5, <2>1 DEF NotOthers, FdInv
<1>9. ASSUME Held' PROVE LeakFree'
  <2>1. LeakFree
    BY <1>5, <1>9 DEF FdInv
  <2> QED  BY <1>4, <2>1, NotADevice DEF LeakFree
<1>10. ASSUME Held', ~clash' PROVE OwnLinks' /\ OwnGps' /\ OwnNew'
  <2>1. OwnLinks /\ OwnNew
    BY <1>5, <1>10 DEF FdInv
  <2>2. \A i \in DOMAIN nodes : nodes[i].fd # f
    BY <1>2, <1>4, <2>1, NotADevice DEF OwnLinks
  <2>3. OwnLinks'
    BY <1>2, <1>4, <2>1, <2>2 DEF OwnLinks
  <2>4. OwnGps'
    BY <1>3, <1>4 DEF OwnGps
  <2>5. OwnNew'
    <3>1. ASSUME newFd # -1 PROVE \A i \in DOMAIN nodes' : nodes'[i].fd # newFd'
      BY <1>4, <2>1, <3>1 DEF OwnNew
    <3>2. ASSUME newFd # -1, phase' = "bringUp", step' # "closeAgain"
          PROVE  owner'[newFd] = Dev'
      <4>1. owner[newFd] = Dev /\ newFd \in Fd
        BY <1>4, <2>1, <3>2 DEF OwnNew, FdInv, FdTyped
      <4>2. newFd # f \/ Dev = "free"
        BY <1>4, <4>1
      <4>3. Dev # "free"
        BY <1>4, <3>2, NotADevice
      <4> QED  BY <1>4, <1>5, <4>1, <4>2, <4>3
    <3> QED  BY <1>4, <3>1, <3>2 DEF OwnNew
  <2> QED  BY <2>3, <2>4, <2>5
<1> QED  BY <1>5, <1>6, <1>7, <1>8, <1>9, <1>10 DEF FdInv

LEMMA FdGpsCloses ==
  ASSUME FdInv, nodes \in Seq(Node), GpsCloses,
         UNCHANGED <<phase, clash>>,
         phase = "bringUp" /\ newFd # -1 => Dev \in Device
  PROVE  FdInv'
<1>1. SameLinks(nodes, nodes)
  BY DEF SameLinks
<1>2. \A i \in DOMAIN nodes : nodes[i].fd \in Fd /\ nodes[i].dev \in Device
  BY <1>1, LinksAre
<1>3. /\ UNCHANGED <<nodes, newFd, serverFd, step, cur>> /\ gpsFd' = -2
      /\ gpsFd >= 0 /\ owner' = [owner EXCEPT ![gpsFd] = "free"]
  BY DEF GpsCloses, Close, registry
<1>4. /\ owner \in [Fd -> {"free", "std", "gps"} \union Device]
      /\ gpsFd \in Fd
      /\ \A g \in Fd : owner'[g] = IF g = gpsFd THEN "free" ELSE owner[g]
      /\ owner' \in [Fd -> {"free", "std", "gps"} \union Device]
      /\ 0..3 \subseteq Fd /\ \A g \in Fd : g \in Nat /\ g # -1
  <2>1. gpsFd \in Fd \union {-1, -2} /\ owner \in [Fd -> {"free", "std", "gps"} \union Device]
    BY DEF FdInv, FdTyped
  <2>2. gpsFd \in Fd
    BY <1>3, <2>1
  <2> QED  BY <1>3, <2>1, <2>2, FdIs
<1>5. Held' = Held /\ Dev' = Dev
  BY <1>3 DEF Held, Active, Dev
<1>6. FdTyped'
  BY <1>3, <1>4 DEF FdInv, FdTyped
<1>7. Standard'
  <2>1. ASSUME phase' # "run" PROVE gpsFd' \notin 0..3 /\ \A g \in 0..3 : owner'[g] = "std"
    <3>1. gpsFd \notin 0..3 /\ \A g \in 0..3 : owner[g] = "std"
      BY <2>1 DEF FdInv, Standard
    <3> QED  BY <1>3, <1>4, <3>1
  <2>2. ASSUME Held' PROVE \A i \in DOMAIN nodes' : nodes'[i].fd > 3
    BY <1>3, <1>5, <2>2 DEF FdInv, Standard
  <2> QED  BY <2>1, <2>2 DEF Standard
<1>8. NotOthers'
  <2>1. newFd \in Fd \union {-1}
    BY DEF FdInv, FdTyped
  <2> QED  BY <1>3, <1>4, <1>5, <2>1 DEF NotOthers, FdInv
<1>9. ASSUME Held' PROVE LeakFree'
  <2>1. LeakFree
    BY <1>5, <1>9 DEF FdInv
  <2> QED  BY <1>3, <1>4, <2>1, NotADevice DEF LeakFree
<1>10. ASSUME Held', ~clash' PROVE OwnLinks' /\ OwnGps' /\ OwnNew'
  <2>1. OwnLinks /\ OwnNew /\ owner[gpsFd] = "gps"
    BY <1>3, <1>5, <1>10 DEF FdInv, OwnGps
  <2>2. \A i \in DOMAIN nodes : nodes[i].fd # gpsFd
    BY <1>2, <1>4, <2>1, NotADevice DEF OwnLinks
  <2>3. OwnLinks'
    BY <1>2, <1>3, <1>4, <2>1, <2>2 DEF OwnLinks
  <2>4. OwnGps'
    BY <1>3 DEF OwnGps
  <2>5. OwnNew'
    <3>1. ASSUME newFd # -1 PROVE \A i \in DOMAIN nodes' : nodes'[i].fd # newFd'
      BY <1>3, <2>1, <3>1 DEF OwnNew
    <3>2. ASSUME newFd # -1, phase' = "bringUp", step' # "closeAgain"
          PROVE  owner'[newFd] = Dev'
      <4>1. owner[newFd] = Dev /\ newFd \in Fd
        BY <1>3, <2>1, <3>2 DEF OwnNew, FdInv, FdTyped
      <4>2. Dev # "gps"
        BY <3>2, NotADevice
      <4> QED  BY <1>4, <1>5, <2>1, <4>1, <4>2
    <3> QED  BY <1>3, <3>1, <3>2 DEF OwnNew
  <2> QED  BY <2>3, <2>4, <2>5
<1> QED  BY <1>5, <1>6, <1>7, <1>8, <1>9, <1>10 DEF FdInv

(* The link that came up becomes a node ...                                 *)
LEMMA FdRegistered ==
  ASSUME FdInv, nodes \in Seq(Node), nodes' \in Seq(Node),
         Len(nodes') = Len(nodes) + 1, \A i \in 1..Len(nodes) : nodes'[i] = nodes[i],
         nodes'[Len(nodes) + 1].dev = Dev, nodes'[Len(nodes) + 1].fd = newFd,
         UNCHANGED <<owner, gpsFd, clash, serverFd, phase>>,
         phase = "bringUp", step = "works", newFd # -1, newFd' = -1,
         Dev \in Device
  PROVE  FdInv'
<1>1. SameLinks(nodes, nodes)
  BY DEF SameLinks
<1> DEFINE n == Len(nodes)
<1>2. /\ n \in Nat /\ DOMAIN nodes = 1..n /\ DOMAIN nodes' = 1..(n + 1)
      /\ \A i \in 1..n : nodes[i].fd \in Fd /\ nodes[i].dev \in Device
  <2>1. DOMAIN nodes' = 1..Len(nodes')
    BY ListIs
  <2> QED  BY <1>1, <2>1, LinksAre, ListIs
<1> HIDE DEF n
<1>3. \A i \in 1..(n + 1) : (i \in 1..n /\ nodes'[i] = nodes[i]) \/ i = n + 1
  BY <1>2 DEF n
<1>4. newFd \in Fd /\ owner[newFd] \in {Dev, "free", "gps"} /\ newFd \in Nat
  BY FdIs DEF FdInv, FdTyped, NotOthers
<1>5. newFd > 3
  <2>1. \A f \in 0..3 : owner[f] = "std"
    BY DEF FdInv, Standard
  <2>2. newFd \notin 0..3
    BY <1>4, <2>1, NotADevice
  <2> QED  BY <1>4, <2>2
<1>6. FdTyped' /\ Held
  BY DEF FdInv, FdTyped, Held
<1>7. Standard'
  <2>1. \A i \in 1..n : nodes[i].fd > 3
    BY <1>2, <1>6 DEF FdInv, Standard
  <2>2. \A i \in DOMAIN nodes' : nodes'[i].fd > 3
    BY <1>2, <1>3, <1>5, <2>1 DEF n
  <2> QED  BY <2>2 DEF FdInv, Standard
<1>8. NotOthers'
  BY DEF NotOthers
<1>9. LeakFree'
  <2>1. LeakFree
    BY <1>6 DEF FdInv
  <2> SUFFICES ASSUME NEW f \in Fd, owner[f] \in Device,
                      ~ (owner[f] = "lan_server" /\ f = serverFd)
               PROVE  \E i \in DOMAIN nodes' : nodes'[i].fd = f /\ nodes'[i].dev = owner[f]
    BY DEF LeakFree
  <2>2. CASE f = newFd
    <3>1. owner[f] = Dev
      BY <1>4, <2>2, NotADevice
    <3>2. n + 1 \in DOMAIN nodes'
      BY <1>2
    <3> QED  BY <2>2, <3>1, <3>2 DEF n
  <2>3. CASE f # newFd
    <3>1. PICK i \in DOMAIN nodes : nodes[i].fd = f /\ nodes[i].dev = owner[f]
      BY <2>1, <2>3 DEF LeakFree
    <3>2. i \in 1..n /\ i \in DOMAIN nodes'
      BY <1>2
    <3> QED  BY <3>1, <3>2 DEF n
  <2> QED  BY <2>2, <2>3
<1>10. ASSUME ~clash' PROVE OwnLinks' /\ OwnGps' /\ OwnNew'
  <2>1. OwnLinks /\ OwnGps /\ OwnNew
    BY <1>6, <1>10 DEF FdInv
  <2>2. owner[newFd] = Dev
    BY <2>1 DEF OwnNew
  <2>3. \A i \in 1..n : owner[nodes[i].fd] = nodes[i].dev
    BY <1>2, <2>1 DEF OwnLinks
  <2>4. OwnLinks'
    BY <1>2, <1>3, <2>2, <2>3 DEF OwnLinks, n
  <2>5. OwnGps' /\ OwnNew'
    BY <2>1 DEF OwnGps, OwnNew
  <2> QED  BY <2>4, <2>5
<1> QED  BY <1>6, <1>7, <1>8, <1>9, <1>10 DEF FdInv

(* ... or the socket of the server.                                         *)
LEMMA FdServes ==
  ASSUME FdInv, nodes \in Seq(Node), UNCHANGED <<nodes, owner, gpsFd, clash, phase>>,
         phase = "bringUp", step = "works", newFd # -1, newFd' = -1,
         serverFd = -1, serverFd' = newFd, Dev = "lan_server"
  PROVE  FdInv'
<1>1. newFd \in Fd /\ owner[newFd] \in {Dev, "free", "gps"}
  BY FdIs DEF FdInv, FdTyped, NotOthers
<1>2. Held /\ FdTyped' /\ NotOthers'
  BY DEF FdInv, FdTyped, NotOthers, Held
<1>3. Standard'
  BY <1>2 DEF FdInv, Standard
<1>4. LeakFree'
  <2>1. LeakFree
    BY <1>2 DEF FdInv
  <2>2. \A f \in Fd : f # -1
    BY FdIs
  <2> QED  BY <1>1, <2>1, <2>2, NotADevice DEF LeakFree
<1>5. ASSUME ~clash' PROVE OwnLinks' /\ OwnGps' /\ OwnNew'
  BY <1>2, <1>5 DEF FdInv, OwnLinks, OwnGps, OwnNew
<1> QED  BY <1>2, <1>3, <1>4, <1>5 DEF FdInv

(* After a link was reopened nothing is said of the descriptors.            *)
LEMMA FdReplaced ==
  ASSUME FdInv, UNCHANGED <<owner, gpsFd>>, clash' \in BOOLEAN, newFd' = -1,
         phase' = "run", ~Held'
  PROVE  FdInv'
BY DEF FdInv, FdTyped, Standard, NotOthers

-----------------------------------------------------------------------------
(* The list under the steps of the three threads.                           *)

ListOK(l, s) ==
  /\ l \in Seq(Node) /\ IsFiniteSet(s) /\ s \subseteq Clients
  /\ \A i, j \in DOMAIN l : l[i].dev = l[j].dev => i = j
  /\ {l[i].dev : i \in DOMAIN l} = s
  /\ Len(l) = Cardinality(s)
  /\ \A i \in DOMAIN l : l[i].cb <=> l[i].dev # "cell4g"

LEMMA ListInvIs ==
  ListInv <=> /\ ListOK(nodes, status) /\ device_id \in Seq(Fd)
              /\ Len(device_id) = Len(nodes)
BY DEF ListInv, ListOK, ListIntact, Apart

(* A breaker, or an enabled flag, has changed.                             *)
LEMMA ListPatched ==
  ASSUME NEW l, NEW s, ListOK(l, s), NEW m \in Seq(Node), Len(m) = Len(l),
         \A i \in 1..Len(l) : m[i].dev = l[i].dev /\ m[i].cb = l[i].cb
  PROVE  ListOK(m, s)
<1>1. DOMAIN l = 1..Len(l) /\ DOMAIN m = 1..Len(l)
  BY ListIs DEF ListOK
<1>2. {m[i].dev : i \in DOMAIN m} = s
  BY <1>1 DEF ListOK
<1>3. \A i, j \in DOMAIN m : m[i].dev = m[j].dev => i = j
  BY <1>1 DEF ListOK
<1>4. \A i \in DOMAIN m : m[i].cb <=> m[i].dev # "cell4g"
  BY <1>1 DEF ListOK
<1> QED  BY <1>2, <1>3, <1>4 DEF ListOK

LEMMA ListGrown ==
  ASSUME NEW l, NEW s, ListOK(l, s), NEW m \in Seq(Node), Len(m) = Len(l) + 1,
         \A i \in 1..Len(l) : m[i] = l[i],
         NEW d \in Clients, d \notin s, m[Len(l) + 1].dev = d,
         m[Len(l) + 1].cb <=> d # "cell4g"
  PROVE  ListOK(m, s \union {d})
<1> DEFINE n == Len(l)
<1>1. n \in Nat /\ DOMAIN l = 1..n /\ DOMAIN m = 1..(n + 1)
  BY ListIs DEF ListOK
<1>2. /\ l \in Seq(Node) /\ IsFiniteSet(s) /\ s \subseteq Clients
      /\ \A i, j \in 1..n : l[i].dev = l[j].dev => i = j
      /\ {l[i].dev : i \in 1..n} = s
      /\ n = Cardinality(s)
      /\ \A i \in 1..n : l[i].cb <=> l[i].dev # "cell4g"
  BY <1>1 DEF ListOK
<1>3. /\ IsFiniteSet(s \union {d}) /\ Cardinality(s \union {d}) = n + 1
      /\ s \union {d} \subseteq Clients
  BY <1>2, FS_AddElement
<1>4. /\ \A i \in 1..n : m[i] = l[i] /\ l[i].dev \in s
      /\ m[n + 1].dev = d /\ (m[n + 1].cb <=> d # "cell4g")
  BY <1>2
<1> HIDE DEF n
<1>5. \A i \in 1..(n + 1) : i \in 1..n \/ i = n + 1
  BY <1>1
<1>6. \A i, j \in DOMAIN m : m[i].dev = m[j].dev => i = j
  BY <1>1, <1>2, <1>4, <1>5
<1>7. {m[i].dev : i \in DOMAIN m} = s \union {d}
  <2>1. ASSUME NEW x \in s PROVE \E i \in DOMAIN m : m[i].dev = x
    <3>1. PICK i \in 1..n : l[i].dev = x
      BY <1>2
    <3> QED  BY <1>1, <1>4, <3>1
  <2>2. n + 1 \in DOMAIN m
    BY <1>1
  <2>3. \A i \in DOMAIN m : m[i].dev \in s \union {d}
    BY <1>1, <1>4, <1>5
  <2> QED  BY <1>4, <2>1, <2>2, <2>3
<1>8. \A i \in DOMAIN m : m[i].cb <=> m[i].dev # "cell4g"
  BY <1>1, <1>2, <1>4, <1>5
<1>9. Len(m) = n + 1
  BY DEF n
<1> QED  BY <1>3, <1>6, <1>7, <1>8, <1>9 DEF ListOK

(* Where the node at a position was, when node k of n went to the end.      *)
Was(i, k, n) == IF i = n THEN k ELSE IF i < k THEN i ELSE i + 1

LEMMA WasIs ==
  ASSUME NEW n \in Nat, NEW k \in 1..n
  PROVE  /\ \A i \in 1..n : Was(i, k, n) \in 1..n
         /\ \A i, j \in 1..n : Was(i, k, n) = Was(j, k, n) => i = j
         /\ \A x \in 1..n : \E i \in 1..n : Was(i, k, n) = x
<1>1. ASSUME NEW x \in 1..n PROVE \E i \in 1..n : Was(i, k, n) = x
  <2>1. CASE x = k
    <3>1. n \in 1..n /\ Was(n, k, n) = x
      BY <2>1 DEF Was
    <3> QED  BY <3>1
  <2>2. CASE x < k
    <3>1. x \in 1..n /\ Was(x, k, n) = x
      BY <2>2 DEF Was
    <3> QED  BY <3>1
  <2>3. CASE x > k
    <3>1. x - 1 \in 1..n /\ Was(x - 1, k, n) = x
      BY <2>3 DEF Was
    <3> QED  BY <3>1
  <2> QED  BY <2>1, <2>2, <2>3
<1>2. \A i \in 1..n : Was(i, k, n) \in 1..n
  BY DEF Was
<1>3. \A i, j \in 1..n : Was(i, k, n) = Was(j, k, n) => i = j
  BY DEF Was
<1> QED  BY <1>1, <1>2, <1>3

(* A node went to the end of the list.                                     *)
LEMMA ListReplaced ==
  ASSUME NEW l, NEW s, ListOK(l, s), NEW k \in 1..Len(l), NEW m \in Seq(Node),
         Len(m) = Len(l),
         \A i \in 1..(Len(l) - 1) : m[i] = IF i < k THEN l[i] ELSE l[i + 1],
         m[Len(l)].dev = l[k].dev, m[Len(l)].cb = l[k].cb
  PROVE  ListOK(m, s)
<1> DEFINE n == Len(l)
           At(i) == Was(i, k, n)
<1>1. n \in Nat /\ DOMAIN l = 1..n /\ DOMAIN m = 1..n /\ k \in 1..n
  BY ListIs DEF ListOK
<1>2. /\ l \in Seq(Node) /\ IsFiniteSet(s) /\ s \subseteq Clients
      /\ \A i, j \in 1..n : l[i].dev = l[j].dev => i = j
      /\ {l[i].dev : i \in 1..n} = s
      /\ n = Cardinality(s)
      /\ \A i \in 1..n : l[i].cb <=> l[i].dev # "cell4g"
  BY <1>1 DEF ListOK
<1>a. \A i \in 1..(n - 1) : m[i] = IF i < k THEN l[i] ELSE l[i + 1]
  OBVIOUS
<1>b. m[n].dev = l[k].dev /\ m[n].cb = l[k].cb
  OBVIOUS
<1>6. Len(m) = n
  OBVIOUS
<1> HIDE DEF n, At
<1>c. /\ \A i \in 1..n : At(i) \in 1..n
      /\ \A i, j \in 1..n : At(i) = At(j) => i = j
      /\ \A x \in 1..n : \E i \in 1..n : At(i) = x
  BY <1>1, WasIs DEF At
<1>3. ASSUME NEW i \in 1..n
      PROVE  m[i].dev = l[At(i)].dev /\ m[i].cb = l[At(i)].cb
  <2>1. CASE i = n
    BY <1>b, <2>1 DEF At, Was
  <2>2. CASE i # n
    <3>1. i \in 1..(n - 1)
      BY <1>1, <2>2
    <3>2. m[i] = l[At(i)]
      BY <1>a, <2>2, <3>1 DEF At, Was
    <3> QED  BY <3>2
  <2> QED  BY <2>1, <2>2
<1>7. \A i, j \in DOMAIN m : m[i].dev = m[j].dev => i = j
  <2> SUFFICES ASSUME NEW i \in 1..n, NEW j \in 1..n, m[i].dev = m[j].dev
               PROVE  i = j
    BY <1>1
  <2>1. At(i) \in 1..n /\ At(j) \in 1..n
    BY <1>c
  <2>2. l[At(i)].dev = l[At(j)].dev
    BY <1>3
  <2>3. At(i) = At(j)
    BY <1>2, <2>1, <2>2
  <2> QED  BY <1>c, <2>3
<1>8. {m[i].dev : i \in DOMAIN m} = s
  <2>1. ASSUME NEW x \in s PROVE \E i \in DOMAIN m : m[i].dev = x
    <3>1. PICK j \in 1..n : l[j].dev = x
      BY <1>2
    <3>2. PICK i \in 1..n : At(i) = j
      BY <1>c
    <3> QED  BY <1>1, <1>3, <3>1, <3>2
  <2>2. ASSUME NEW i \in DOMAIN m PROVE m[i].dev \in s
    <3>1. i \in 1..n /\ At(i) \in 1..n
      BY <1>1, <1>c
    <3>2. l[At(i)].dev \in s
      BY <1>2, <3>1
    <3> QED  BY <1>3, <3>1, <3>2
  <2> QED  BY <2>1, <2>2
<1>9. ASSUME NEW i \in DOMAIN m PROVE m[i].cb <=> m[i].dev # "cell4g"
  <2>1. i \in 1..n /\ At(i) \in 1..n
    BY <1>1, <1>c
  <2>2. l[At(i)].cb <=> l[At(i)].dev # "cell4g"
    BY <1>2, <2>1
  <2>3. m[i].dev = l[At(i)].dev /\ m[i].cb = l[At(i)].cb
    BY <1>3, <2>1
  <2> HIDE DEF At
  <2> QED  BY <2>2, <2>3, Zenon
<1> QED  BY <1>2, <1>6, <1>7, <1>8, <1>9 DEF ListOK

-----------------------------------------------------------------------------
(* The steps of dev_init, by what they do to the descriptors.               *)

KeepsFd ==
  /\ UNCHANGED <<cur, newFd, owner, registry, gpsFd>>
  /\ step # "closeAgain" /\ step' \in Steps /\ (step' \in HoldsStep <=> step \in HoldsStep)

TakesFd ==
  /\ \E f \in Fd : Take(f, Dev) /\ newFd' = f
  /\ step = "open" /\ step' \in HoldsStep
  /\ UNCHANGED <<cur, registry, gpsFd>>

ClosesFd ==
  /\ step \in HoldsStep /\ Close(newFd)
  /\ \/ newFd' = newFd /\ step' = "closeAgain"
     \/ newFd' = -1 /\ step' = "failed"
  /\ UNCHANGED <<cur, registry, gpsFd>>

LEMMA MainSteps ==
  ASSUME MainStep
  PROVE  /\ cur <= Len(Strategies)
         /\ KeepsFd \/ TakesFd \/ ClosesFd \/ Register \/ Failed
<1> USE DEF Running, KeepsFd, HoldsStep, Steps
<1>1. CASE Begin
  BY <1>1 DEF Begin
<1>2. ASSUME NEW a \in BOOLEAN, Dial(a) PROVE cur <= Len(Strategies) /\ KeepsFd
  BY <1>2 DEF Dial
<1>3. CASE Open
  BY <1>3 DEF Open, TakesFd
<1>4. CASE OpenFails
  BY <1>4 DEF OpenFails
<1>5. CASE SetOpt
  BY <1>5 DEF SetOpt
<1>6. CASE Link
  BY <1>6 DEF Link
<1>7. CASE LinkFails
  BY <1>7 DEF LinkFails, ClosesFd
<1>8. CASE CloseAgain
  BY <1>8 DEF CloseAgain, ClosesFd
<1>9. CASE StartScan
  BY <1>9 DEF StartScan
<1>10. CASE ScanTimeout
  BY <1>10 DEF ScanTimeout
<1>11. CASE ScanLine
  BY <1>11 DEF ScanLine
<1>12. CASE ScanFinds
  BY <1>12 DEF ScanFinds
<1>13. CASE BtFails
  BY <1>13 DEF BtFails
<1>14. CASE GiveUp
  BY <1>14 DEF GiveUp, ClosesFd
<1>15. CASE Register
  BY <1>15 DEF Register
<1>16. CASE Failed
  BY <1>16 DEF Failed
<1> QED
  BY <1>1, <1>2, <1>3, <1>4, <1>5, <1>6, <1>7, <1>8, <1>9, <1>10, <1>11, <1>12,
     <1>13, <1>14, <1>15, <1>16
  DEF MainStep, BtStep

-----------------------------------------------------------------------------
(* The bring-up.                                                           *)

LEMMA RanLonger ==
  ASSUME NEW n \in Nat, NEW m \in Nat, n <= m
  PROVE  RanBefore(n) \subseteq RanBefore(m)
<1>1. \A k \in DOMAIN Strategies : k < n => k < m
  <2>1. DOMAIN Strategies \subseteq Nat
    BY StrategiesAre, LenProperties DEF Strand
  <2> QED  BY <2>1
<1> QED  BY <1>1 DEF RanBefore

(* No link is enabled before the registration.                             *)
LEMMA NoneEnabled ==
  ASSUME ListInv, OnlyCurrent, state # "Success"
  PROVE  Active = 0 /\ \A i \in DOMAIN nodes : ~nodes[i].enabled
<1>1. nodes \in Seq(Node) /\ Len(nodes) \in Nat /\ DOMAIN nodes = 1..Len(nodes)
  BY ListIs DEF ListInv
<1>2. \A i \in DOMAIN nodes : ~nodes[i].enabled
  BY DEF OnlyCurrent
<1> QED  BY <1>1, <1>2, SuccessIs DEF Active

(* What all its steps leave alone.                                         *)
LEMMA BringUpRest ==
  ASSUME LinksInv, BringUp
  PROVE  /\ TransmitterAt' /\ Registering'
         /\ phase = "bringUp" /\ phase' = "bringUp" /\ state = "SelectChannel"
         /\ UNCHANGED <<state, size, pc>>
<1>1. /\ phase = "bringUp" /\ phase' = "bringUp"
      /\ UNCHANGED <<state, size, id, requests, confirms, pc>>
  BY DEF BringUp, registVars, commVars
<1>2. pc = "select" /\ state = "SelectChannel"
  BY <1>1 DEF LinksInv, TransmitterAt, Registering
<1>3. TransmitterAt'
  BY <1>1, <1>2 DEF TransmitterAt
<1>4. Registering'
  BY <1>1, <1>2 DEF Registering, LinksInv
<1> QED  BY <1>1, <1>2, <1>3, <1>4

(* Before a link comes up nothing happens to the list.                      *)
LEMMA BringUpList ==
  ASSUME LinksInv, BringUp, UNCHANGED registry, cur' \in {cur, cur + 1}
  PROVE  /\ ListInv' /\ Ran' /\ OnlyCurrent' /\ (Cooled => Cooled') /\ Held' = Held
<1>1. /\ phase = "bringUp" /\ phase' = "bringUp" /\ state = "SelectChannel"
      /\ UNCHANGED <<state, size, pc>>
  BY BringUpRest
<1>2. UNCHANGED <<nodes, status, device_id, serverFd>>
  BY DEF registry
<1>3. ListInv'
  BY <1>2 DEF LinksInv, ListInv, ListIntact, Apart
<1>4. Ran'
  <2>1. cur \in Nat /\ cur' \in Nat /\ cur <= cur'
    BY DEF LinksInv, MainAt
  <2>2. RanBefore(cur) \subseteq RanBefore(cur')
    BY <2>1, RanLonger
  <2>3. Ran
    BY DEF LinksInv
  <2> QED  BY <1>1, <1>2, <2>2, <2>3 DEF Ran
<1>5. OnlyCurrent'
  BY <1>1, <1>2 DEF LinksInv, OnlyCurrent, Current
<1>6. Cooled => Cooled'
  BY <1>1, <1>2 DEF Cooled, Active
<1>7. Held' = Held
  BY <1>1 DEF Held
<1> QED  BY <1>3, <1>4, <1>5, <1>6, <1>7

LEMMA KeepsFdInv ==
  ASSUME LinksInv, BringUp, KeepsFd, cur <= Len(Strategies)
  PROVE  LinksInv' /\ (Cooled => Cooled')
<1>1. /\ phase = "bringUp" /\ phase' = "bringUp" /\ TransmitterAt' /\ Registering'
  BY BringUpRest
<1>2. ListInv' /\ Ran' /\ OnlyCurrent' /\ (Cooled => Cooled') /\ Held' = Held
  BY BringUpList DEF KeepsFd
<1>3. MainAt'
  BY <1>1 DEF LinksInv, MainAt, KeepsFd, Done
<1>4. FdInv /\ nodes \in Seq(Node) /\ OwnGps \in BOOLEAN
  BY DEF LinksInv, ListInv, OwnGps
<1>5. UNCHANGED <<owner, newFd, gpsFd, nodes, serverFd, cur>> /\ step # "closeAgain"
  BY DEF KeepsFd, registry
<1>6. clash' = clash
  BY <1>4, <1>5 DEF BringUp, NoteClash, FdInv, FdTyped
<1>7. SameLinks(nodes, nodes') /\ Dev' = Dev
  BY <1>4, <1>5 DEF SameLinks, Dev
<1>8. FdInv'
  BY <1>1, <1>2, <1>4, <1>5, <1>6, <1>7, FdKept
<1> QED  BY <1>1, <1>2, <1>3, <1>8 DEF LinksInv

LEMMA TakesFdInv ==
  ASSUME LinksInv, BringUp, TakesFd, cur <= Len(Strategies)
  PROVE  LinksInv' /\ (Cooled => Cooled')
<1>1. /\ phase = "bringUp" /\ phase' = "bringUp" /\ TransmitterAt' /\ Registering'
  BY BringUpRest
<1>2. ListInv' /\ Ran' /\ OnlyCurrent' /\ (Cooled => Cooled') /\ Held' = Held
  BY BringUpList DEF TakesFd
<1>3. PICK f \in Fd : Take(f, Dev) /\ newFd' = f
  BY DEF TakesFd
<1>4. f # -1 /\ owner[f] = "free" /\ owner' = [owner EXCEPT ![f] = Dev]
  BY <1>3, FdIs DEF Take, LowestFree
<1>5. MainAt'
  BY <1>1, <1>3, <1>4 DEF LinksInv, MainAt, TakesFd, HoldsStep, Steps, Done
<1>6. FdInv /\ nodes \in Seq(Node) /\ newFd = -1
  BY <1>1 DEF LinksInv, ListInv, MainAt, TakesFd, HoldsStep
<1>7. UNCHANGED <<gpsFd, nodes, serverFd, cur>> /\ Dev' = Dev
  BY DEF TakesFd, registry, Dev
<1>8. Dev \in Device
  BY DevIs DEF LinksInv, MainAt, Device
<1>9. clash' = clash
  <2>1. gpsFd \in Fd /\ owner[gpsFd] = "gps" => owner'[gpsFd] = "gps"
    BY <1>4, <1>6 DEF FdInv, FdTyped
  <2>2. gpsFd >= 0 => gpsFd \in Fd
    BY <1>6 DEF FdInv, FdTyped
  <2>3. clash \in BOOLEAN
    BY <1>6 DEF FdInv, FdTyped
  <2> QED  BY <2>1, <2>2, <2>3 DEF BringUp, NoteClash
<1>10. FdInv'
  BY <1>1, <1>2, <1>3, <1>4, <1>6, <1>7, <1>8, <1>9, FdTaken
<1> QED  BY <1>1, <1>2, <1>5, <1>10 DEF LinksInv

LEMMA ClosesFdInv ==
  ASSUME LinksInv, BringUp, ClosesFd, cur <= Len(Strategies)
  PROVE  LinksInv' /\ (Cooled => Cooled')
<1>1. /\ phase = "bringUp" /\ phase' = "bringUp" /\ TransmitterAt' /\ Registering'
  BY BringUpRest
<1>2. ListInv' /\ Ran' /\ OnlyCurrent' /\ (Cooled => Cooled') /\ Held' = Held
  BY BringUpList DEF ClosesFd
<1>3. newFd # -1
  BY <1>1 DEF LinksInv, MainAt, ClosesFd
<1>4. MainAt'
  BY <1>1, <1>3 DEF LinksInv, MainAt, ClosesFd, HoldsStep, Steps, Done
<1>5. FdInv /\ nodes \in Seq(Node)
  BY DEF LinksInv, ListInv
<1>6. UNCHANGED <<gpsFd, nodes, serverFd, cur>> /\ Dev' = Dev
  BY DEF ClosesFd, registry, Dev
<1>7. /\ owner' = [owner EXCEPT ![newFd] = "free"] /\ newFd' \in {newFd, -1}
      /\ newFd' # -1 => step' = "closeAgain"
  BY DEF ClosesFd, Close
<1>8. NoteClash
  BY DEF BringUp
<1>9. FdInv'
  BY <1>1, <1>2, <1>3, <1>5, <1>6, <1>7, <1>8, FdClosed
<1> QED  BY <1>1, <1>2, <1>4, <1>9 DEF LinksInv

LEMMA FailedInv ==
  ASSUME LinksInv, BringUp, Failed, cur <= Len(Strategies)
  PROVE  LinksInv' /\ (Cooled => Cooled')
<1>1. /\ phase = "bringUp" /\ phase' = "bringUp" /\ TransmitterAt' /\ Registering'
  BY BringUpRest
<1>2. UNCHANGED <<owner, registry, gpsFd>> /\ cur' = cur + 1 /\ step' = "begin"
      /\ newFd' = -1 /\ step = "failed"
  BY DEF Failed, NextStrategy, Running
<1>3. ListInv' /\ Ran' /\ OnlyCurrent' /\ (Cooled => Cooled') /\ Held' = Held
  BY <1>2, BringUpList
<1>4. newFd = -1
  BY <1>1, <1>2 DEF LinksInv, MainAt, HoldsStep
<1>5. MainAt'
  BY <1>1, <1>2 DEF LinksInv, MainAt, HoldsStep, Steps
<1>6. FdInv /\ nodes \in Seq(Node)
  BY DEF LinksInv, ListInv
<1>7. clash' = clash
  BY <1>2, <1>6 DEF BringUp, NoteClash, FdInv, FdTyped
<1>8. SameLinks(nodes, nodes') /\ serverFd' = serverFd
  BY <1>2, <1>6 DEF SameLinks, registry
<1>9. FdInv'
  BY <1>1, <1>2, <1>3, <1>4, <1>6, <1>7, <1>8, FdKept
<1> QED  BY <1>1, <1>3, <1>5, <1>9 DEF LinksInv

(* The device of the running strategy is not in the list yet.               *)
LEMMA NotYetInList ==
  ASSUME LinksInv, phase = "bringUp", cur <= Len(Strategies)
  PROVE  /\ Dev \in Enabled /\ Dev \in DeviceName /\ Dev \notin RanBefore(cur)
         /\ \A i \in 1..Len(nodes) : nodes[i].dev # Dev
         /\ RanBefore(cur) \union {Dev} \subseteq RanBefore(cur + 1)
         /\ Dev \notin status
<1>1. cur \in Nat \ {0}
  BY DEF LinksInv, MainAt
<1>2. /\ DOMAIN Strategies = 1..Len(Strategies) /\ Len(Strategies) \in Nat
      /\ cur \in DOMAIN Strategies
      /\ Dev \in Enabled /\ Dev \in DeviceName /\ Dev \notin RanBefore(cur)
  BY <1>1, DevIs DEF RanBefore
<1>3. status \subseteq RanBefore(cur)
  BY DEF LinksInv, Ran
<1>4. \A i \in 1..Len(nodes) : nodes[i].dev \in status
  <2>1. ListOK(nodes, status)
    BY ListInvIs DEF LinksInv
  <2>2. DOMAIN nodes = 1..Len(nodes)
    BY <2>1, ListIs DEF ListOK
  <2> QED  BY <2>1, <2>2 DEF ListOK
<1>5. Dev \in RanBefore(cur + 1)
  <2>1. cur < cur + 1
    BY <1>1
  <2> QED  BY <1>2, <2>1 DEF RanBefore, Dev
<1>6. RanBefore(cur) \subseteq RanBefore(cur + 1)
  BY <1>1, RanLonger
<1> QED  BY <1>2, <1>3, <1>4, <1>5, <1>6

LEMMA FreshIsAllowed == ASSUME NEW n, n.breaker = NewBreaker PROVE Allows(n.breaker)
BY DEF NewBreaker, Allows

(* A client came up.                                                       *)
LEMMA ClientInv ==
  ASSUME LinksInv, BringUp, Register, IsClient(Dev)
  PROVE  LinksInv' /\ (Cooled => Cooled')
<1>1. /\ phase = "bringUp" /\ phase' = "bringUp" /\ TransmitterAt' /\ Registering'
      /\ state = "SelectChannel" /\ UNCHANGED <<state, size, pc>>
  BY BringUpRest
<1> DEFINE n == Len(nodes)
           cb == Dev \in Callbacks
<1>2. /\ nodes' = callbackRgist(insertNode(nodes, createComnode(Dev, newFd)), Dev, cb)
      /\ device_id' = Append(device_id, newFd)
      /\ status' = status \union {Dev}
      /\ UNCHANGED <<serverFd, owner, gpsFd>>
      /\ cur' = cur + 1 /\ step' = "begin" /\ newFd' = -1
      /\ cur <= Len(Strategies) /\ step = "works"
  BY DEF Register, NextStrategy, Running
<1>3. /\ Dev \in Enabled /\ Dev \in DeviceName
      /\ \A i \in 1..Len(nodes) : nodes[i].dev # Dev
      /\ RanBefore(cur) \union {Dev} \subseteq RanBefore(cur + 1)
      /\ Dev \notin status
  BY <1>1, <1>2, NotYetInList
<1>4. /\ newFd # -1 /\ newFd \in Fd /\ ListInv /\ FdInv /\ nodes \in Seq(Node)
      /\ device_id \in Seq(Fd)
  BY <1>1, <1>2 DEF LinksInv, MainAt, HoldsStep, FdInv, FdTyped, ListInv
<1>5. cb \in BOOLEAN
  OBVIOUS
<1>6. /\ nodes' \in Seq(Node) /\ Len(nodes') = n + 1
      /\ \A i \in 1..n : nodes'[i] = nodes[i]
      /\ IsFresh(nodes'[n + 1], Dev, newFd, cb)
  <2> HIDE DEF cb
  <2> QED  BY <1>2, <1>3, <1>4, <1>5, AppendedList
<1>7. /\ nodes'[n + 1].dev = Dev /\ nodes'[n + 1].fd = newFd
      /\ ~nodes'[n + 1].enabled /\ nodes'[n + 1].breaker = NewBreaker
  BY <1>6 DEF IsFresh
<1>8. nodes'[n + 1].cb <=> Dev # "cell4g"
  <2>1. cb <=> Dev # "cell4g"
    BY <1>3 DEF Callbacks, DeviceName, Order, IsClient
  <2>2. nodes'[n + 1].cb = cb
    BY <1>6 DEF IsFresh
  <2> HIDE DEF cb
  <2> QED  BY <2>1, <2>2, Zenon
<1>9. ListInv'
  <2>1. /\ ListOK(nodes, status) /\ Len(device_id) = n
    BY <1>4, ListInvIs
  <2>2. Dev \in Clients
    BY <1>3 DEF Clients
  <2>3. ListOK(nodes', status')
    BY <1>2, <1>3, <1>6, <1>7, <1>8, <2>1, <2>2, ListGrown
  <2>4. device_id' \in Seq(Fd) /\ Len(device_id') = Len(device_id) + 1
    BY <1>2, <1>4, AppendProperties
  <2> QED  BY <1>6, <2>1, <2>3, <2>4 DEF ListInv, ListOK, ListIntact, Apart
<1>10. n \in Nat /\ DOMAIN nodes = 1..n /\ DOMAIN nodes' = 1..(n + 1)
  <2>1. DOMAIN nodes' = 1..Len(nodes')
    BY <1>6, ListIs
  <2> QED  BY <1>4, <1>6, <2>1, ListIs
<1> HIDE DEF n, cb
<1>11. \A i \in 1..(n + 1) : (i \in 1..n /\ nodes'[i] = nodes[i]) \/ i = n + 1
  BY <1>6, <1>10
<1>12. MainAt'
  BY <1>1, <1>2 DEF LinksInv, MainAt, HoldsStep, Steps
<1>13. Ran'
  <2>1. Ran
    BY DEF LinksInv
  <2> QED  BY <1>1, <1>2, <1>3, <2>1 DEF Ran
<1>14. \A i \in DOMAIN nodes' : ~nodes'[i].enabled
  <2>1. \A i \in DOMAIN nodes : ~nodes[i].enabled
    BY <1>1, NoneEnabled DEF LinksInv
  <2> QED  BY <1>7, <1>10, <1>11, <2>1
<1>15. OnlyCurrent'
  BY <1>14 DEF OnlyCurrent
<1>16. Cooled => Cooled'
  <2>1. ASSUME Cooled PROVE \A i \in DOMAIN nodes' : Allows(nodes'[i].breaker)
    BY <1>1, <1>7, <1>10, <1>11, <2>1, FreshIsAllowed DEF Cooled
  <2>2. Active' = 0
    <3>1. Active' # 0 => Active' \in 1..Len(nodes') /\ nodes'[Active'].enabled
      BY <1>6, <1>10, SuccessIs DEF Active
    <3> QED  BY <1>6, <1>10, <1>14, <3>1
  <2> QED  BY <2>1, <2>2 DEF Cooled
<1>17. clash' = clash
  BY <1>2, <1>4 DEF BringUp, NoteClash, FdInv, FdTyped
<1>18. FdInv'
  <2>1. /\ Len(nodes') = Len(nodes) + 1 /\ \A i \in 1..Len(nodes) : nodes'[i] = nodes[i]
        /\ nodes'[Len(nodes) + 1].dev = Dev /\ nodes'[Len(nodes) + 1].fd = newFd
        /\ nodes' \in Seq(Node)
    BY <1>6, <1>7 DEF n
  <2> QED  BY <1>1, <1>2, <1>3, <1>4, <1>17, <2>1, FdRegistered DEF Device
<1> QED  BY <1>1, <1>9, <1>12, <1>13, <1>15, <1>16, <1>18 DEF LinksInv

(* The server listens.                                                     *)
LEMMA ServerInv ==
  ASSUME LinksInv, BringUp, Register, ~IsClient(Dev)
  PROVE  LinksInv' /\ (Cooled => Cooled')
<1>1. /\ phase = "bringUp" /\ phase' = "bringUp" /\ TransmitterAt' /\ Registering'
      /\ state = "SelectChannel" /\ UNCHANGED <<state, size, pc>>
  BY BringUpRest
<1>2. /\ UNCHANGED <<nodes, status, device_id, owner, gpsFd>> /\ serverFd' = newFd
      /\ cur' = cur + 1 /\ step' = "begin" /\ newFd' = -1
      /\ cur <= Len(Strategies) /\ step = "works" /\ Dev = "lan_server"
  BY DEF Register, NextStrategy, Running, IsClient
<1>3. /\ Dev \notin RanBefore(cur)
      /\ RanBefore(cur) \union {Dev} \subseteq RanBefore(cur + 1)
  BY <1>1, <1>2, NotYetInList
<1>4. newFd # -1 /\ FdInv /\ nodes \in Seq(Node) /\ Ran
  BY <1>1, <1>2 DEF LinksInv, MainAt, HoldsStep, ListInv
<1>5. serverFd = -1
  BY <1>1, <1>2, <1>3, <1>4 DEF Ran
<1>6. ListInv'
  BY <1>2 DEF LinksInv, ListInv, ListIntact, Apart
<1>7. MainAt'
  BY <1>1, <1>2 DEF LinksInv, MainAt, HoldsStep, Steps
<1>8. Ran'
  BY <1>1, <1>2, <1>3, <1>4 DEF Ran
<1>9. OnlyCurrent'
  BY <1>1, <1>2 DEF LinksInv, OnlyCurrent, Current
<1>10. Cooled => Cooled'
  BY <1>1, <1>2 DEF Cooled, Active
<1>11. clash' = clash
  BY <1>2, <1>4 DEF BringUp, NoteClash, FdInv, FdTyped
<1>12. FdInv'
  BY <1>1, <1>2, <1>4, <1>5, <1>11, FdServes
<1> QED  BY <1>1, <1>6, <1>7, <1>8, <1>9, <1>10, <1>12 DEF LinksInv

LEMMA BringUpInv ==
  ASSUME LinksInv, BringUp
  PROVE  LinksInv' /\ (Cooled => Cooled')
<1>1. MainStep
  BY DEF BringUp
<1> QED
  BY <1>1, MainSteps, KeepsFdInv, TakesFdInv, ClosesFdInv, FailedInv, ClientInv, ServerInv

-----------------------------------------------------------------------------
(* Between the phases.                                                     *)

LEMMA ClientsFinite ==
  /\ IsFiniteSet(Clients) /\ Cardinality(Clients) \in Nat
  /\ \A s : s \subseteq Clients => IsFiniteSet(s) /\ Cardinality(s) <= Cardinality(Clients)
<1>1. IsFiniteSet({})
  BY FS_EmptySet
<1>2. IsFiniteSet({} \union {"lora"})
  BY <1>1, FS_AddElement
<1>3. IsFiniteSet({} \union {"lora"} \union {"wifi"})
  BY <1>2, FS_AddElement
<1>4. IsFiniteSet({} \union {"lora"} \union {"wifi"} \union {"bt"})
  BY <1>3, FS_AddElement
<1>5. IsFiniteSet({} \union {"lora"} \union {"wifi"} \union {"bt"} \union {"lan"})
  BY <1>4, FS_AddElement
<1>6. IsFiniteSet({} \union {"lora"} \union {"wifi"} \union {"bt"} \union {"lan"}
                  \union {"cell4g"})
  BY <1>5, FS_AddElement
<1>7. Clients \subseteq {} \union {"lora"} \union {"wifi"} \union {"bt"} \union {"lan"}
                  \union {"cell4g"}
  BY InitAssumption DEF Clients, IsClient, Device, DeviceName, Order
<1>8. IsFiniteSet(Clients)
  BY <1>6, <1>7, FS_Subset
<1>9. Cardinality(Clients) \in Nat
  BY <1>8, FS_CardinalityType
<1>10. \A s : s \subseteq Clients => IsFiniteSet(s) /\ Cardinality(s) <= Cardinality(Clients)
  BY <1>8, FS_Subset
<1> QED  BY <1>8, <1>9, <1>10

LEMMA NodesAre ==
  ASSUME ListInv
  PROVE  /\ nodes \in Seq(Node) /\ Len(nodes) \in Nat /\ DOMAIN nodes = 1..Len(nodes)
         /\ \A i \in DOMAIN nodes : nodes[i] \in Node
         /\ ListOfDevices(nodes) /\ Len(nodes) <= Cardinality(Clients)
<1>1. nodes \in Seq(Node) /\ Apart /\ ListIntact
  BY DEF ListInv
<1>2. Len(nodes) \in Nat /\ DOMAIN nodes = 1..Len(nodes)
      /\ \A i \in DOMAIN nodes : nodes[i] \in Node
  BY <1>1, ListIs
<1>3. ListOfDevices(nodes)
  BY <1>1, Devices DEF Apart
<1>4. Len(nodes) <= Cardinality(Clients)
  BY <1>1, ClientsFinite DEF ListIntact
<1> QED  BY <1>1, <1>2, <1>3, <1>4

(* The sorted list is as long as the list.                                 *)
LEMMA SortedLen ==
  ASSUME ListInv
  PROVE  Len(getALLIfd(nodes)) = Len(nodes)
<1>1. /\ Len(nodes) \in Nat /\ DOMAIN nodes = 1..Len(nodes) /\ ListOfDevices(nodes)
      /\ \A i \in DOMAIN nodes : nodes[i] \in Node
  BY NodesAre
<1>2. ASSUME NEW k \in DOMAIN nodes
      PROVE  (CHOOSE i \in DOMAIN nodes : Rank(nodes, i) = k - 1) \in DOMAIN nodes
  BY <1>1, PlaceTaken
<1>3. getALLIfd(nodes) \in [1..Len(nodes) -> Node]
  BY <1>1, <1>2 DEF getALLIfd
<1> QED  BY <1>1, <1>3, IsList

LEMMA NoDeviceInv ==
  ASSUME LinksInv, NoDevice
  PROVE  LinksInv' /\ (Cooled => Cooled')
<1>1. /\ phase = "bringUp" /\ phase' = "stopped" /\ Done
      /\ UNCHANGED <<vars, clash, registVars, commVars>>
  BY DEF NoDevice
<1>2. /\ UNCHANGED <<cur, step, newFd, owner, nodes, status, device_id, serverFd, gpsFd,
                     clash, state, size, id, requests, confirms, pc>>
  BY <1>1 DEF vars, registVars, commVars
<1>3. ListInv'
  BY <1>2 DEF LinksInv, ListInv, ListIntact, Apart
<1>4. newFd = -1
  BY <1>1 DEF LinksInv, MainAt, HoldsStep
<1>5. MainAt'
  <2>1. ~ (cur <= Len(Strategies))
    <3>1. cur \in Nat /\ Len(Strategies) \in Nat
      BY StrategiesAre, LenProperties DEF LinksInv, MainAt, Strand
    <3> QED  BY <1>1, <3>1 DEF Done
  <2> QED  BY <1>1, <1>2, <1>4, <2>1 DEF LinksInv, MainAt, Done
<1>6. TransmitterAt' /\ Ran'
  BY <1>1, <1>2 DEF LinksInv, TransmitterAt, Ran
<1>7. Registering'
  BY <1>1, <1>2 DEF LinksInv, Registering
<1>8. OnlyCurrent' /\ (Cooled => Cooled')
  BY <1>1, <1>2 DEF LinksInv, OnlyCurrent, Current, Cooled, Active
<1>9. FdInv /\ SameLinks(nodes, nodes') /\ Held
  BY <1>1, <1>2 DEF LinksInv, ListInv, SameLinks, Held
<1>10. FdInv'
  BY <1>1, <1>2, <1>4, <1>9, FdKept
<1> QED  BY <1>3, <1>5, <1>6, <1>7, <1>8, <1>10 DEF LinksInv

LEMMA StartRegistrationInv ==
  ASSUME LinksInv, StartRegistration
  PROVE  LinksInv' /\ (Cooled => Cooled')
<1>1. /\ phase = "bringUp" /\ phase' = "regist" /\ Done /\ nodes # <<>>
      /\ UNCHANGED <<cur, step, newFd, owner, nodes, status, device_id, serverFd, gpsFd,
                     clash, pc>>
  BY DEF StartRegistration, commVars
<1>2. /\ state' = "SelectChannel" /\ size' = Len(getALLIfd(nodes)) - 1
      /\ requests' = [d \in R!Device |-> 0] /\ confirms' = 0
  BY DEF StartRegistration, R!RegistStarts
<1>3. ListInv /\ FdInv /\ state = "SelectChannel" /\ OnlyCurrent
  BY <1>1 DEF LinksInv, Registering
<1>4. ListInv'
  BY <1>1, <1>3 DEF ListInv, ListIntact, Apart
<1>5. newFd = -1
  BY <1>1 DEF LinksInv, MainAt, HoldsStep
<1>6. MainAt'
  <2>1. ~ (cur <= Len(Strategies))
    <3>1. cur \in Nat /\ Len(Strategies) \in Nat
      BY StrategiesAre, LenProperties DEF LinksInv, MainAt, Strand
    <3> QED  BY <1>1, <3>1 DEF Done
  <2> QED  BY <1>1, <1>5, <2>1 DEF LinksInv, MainAt, Done
<1>7. TransmitterAt' /\ Ran'
  BY <1>1 DEF LinksInv, TransmitterAt, Ran
<1>8. Len(nodes) \in Nat /\ Len(nodes) > 0 /\ size' = Len(nodes) - 1
  <2>1. nodes \in Seq(Node) /\ Len(nodes) \in Nat /\ Len(getALLIfd(nodes)) = Len(nodes)
    BY <1>3, NodesAre, SortedLen
  <2>2. Len(nodes) # 0
    BY <1>1, <2>1, EmptySeq, Zenon
  <2> QED  BY <1>2, <2>1, <2>2
<1>9. Registering'
  BY <1>1, <1>2, <1>8 DEF Registering
<1>10. \A i \in DOMAIN nodes : ~nodes[i].enabled
  BY <1>3, NoneEnabled
<1>11. OnlyCurrent' /\ (Cooled => Cooled')
  BY <1>1, <1>10 DEF OnlyCurrent, Cooled, Active
<1>12. SameLinks(nodes, nodes') /\ Held
  BY <1>1, <1>3 DEF ListInv, SameLinks, Held
<1>13. FdInv'
  BY <1>1, <1>3, <1>5, <1>12, FdKept
<1> QED  BY <1>4, <1>6, <1>7, <1>9, <1>11, <1>13 DEF LinksInv

LEMMA JoinInv ==
  ASSUME LinksInv, JoinRegistration
  PROVE  LinksInv' /\ (Cooled => Cooled')
<1>1. /\ phase = "regist" /\ state \in {"Success", "Failed"}
      /\ phase' = (IF state = "Success" THEN "run" ELSE "stopped")
      /\ UNCHANGED <<cur, step, newFd, owner, nodes, status, device_id, serverFd, gpsFd,
                     clash, state, size, id, requests, confirms, pc>>
  BY DEF JoinRegistration, R!Ended, vars, commVars
<1>2. ListInv'
  BY <1>1 DEF LinksInv, ListInv, ListIntact, Apart
<1>3. newFd = -1 /\ pc = "select" /\ Held /\ ~ (cur <= Len(Strategies))
  BY <1>1 DEF LinksInv, MainAt, TransmitterAt, Held
<1>4. MainAt'
  BY <1>1, <1>3 DEF LinksInv, MainAt, Done
<1>5. TransmitterAt'
  BY <1>1, <1>3 DEF TransmitterAt, HoldsPc
<1>6. Registering' /\ Ran'
  BY <1>1 DEF LinksInv, Registering, Ran
<1>7. OnlyCurrent'
  BY <1>1 DEF LinksInv, OnlyCurrent, Current
<1>8. ASSUME Cooled PROVE Cooled'
  BY <1>1, <1>8 DEF Cooled, Active
<1>9. FdInv /\ SameLinks(nodes, nodes')
  BY <1>1 DEF LinksInv, ListInv, SameLinks
<1>10. FdInv'
  BY <1>1, <1>3, <1>9, FdKept
<1> QED  BY <1>2, <1>4, <1>5, <1>6, <1>7, <1>8, <1>10 DEF LinksInv

-----------------------------------------------------------------------------
(* The registration.                                                       *)

LEMMA RegistStep ==
  ASSUME Registering, phase = "regist", phase' = "regist", R!RegistNext,
         Len(nodes) <= Cardinality(Clients), Len(nodes') = Len(nodes), Len(nodes) \in Nat
  PROVE  /\ Registering' /\ state # "Success"
         /\ state' = "Success" => size' = size /\ size \in 0..(Len(nodes) - 1)
<1>1. /\ size \in Int /\ requests \in [R!Device -> Nat] /\ confirms \in Nat
      /\ size < Len(nodes) /\ (state # "Failed" => size \in R!Device)
      /\ Cardinality(Clients) \in Nat
  BY ClientsFinite DEF Registering, R!Device
<1>2. CASE R!SelectChannel
  <2>1. /\ state = "SelectChannel" /\ size' \in {size, size - 1}
        /\ state' = (IF size' < 0 THEN "Failed" ELSE "WaitForIdle")
        /\ UNCHANGED <<id, requests, confirms>>
    BY <1>1, <1>2 DEF R!SelectChannel, R!NextDevice
  <2> QED  BY <1>1, <2>1 DEF Registering
<1>3. ASSUME NEW o, R!ListenIdle(o)
      PROVE  Registering' /\ state # "Success" /\ state' # "Success"
  <2>1. /\ state = "WaitForIdle" /\ state' \in {"Failed", "SendRegister", "WaitForIdle"}
        /\ UNCHANGED <<size, id, requests, confirms>>
    BY <1>3 DEF R!ListenIdle
  <2> QED  BY <1>1, <2>1 DEF Registering
<1>4. ASSUME NEW ok, R!SendRegister(ok)
      PROVE  Registering' /\ state # "Success" /\ state' # "Success"
  <2>1. /\ state = "SendRegister" /\ state' \in {"WaitFor17", "SelectChannel"}
        /\ requests' = [requests EXCEPT ![size] = @ + 1]
        /\ UNCHANGED <<size, id, confirms>>
    BY <1>4 DEF R!SendRegister, R!TryAgain
  <2>2. requests' \in [R!Device -> Nat] /\ requests'[size] > 0
    BY <1>1, <2>1
  <2> QED  BY <1>1, <2>1, <2>2 DEF Registering
<1>5. ASSUME NEW answer, R!Listen17(answer)
      PROVE  Registering' /\ state # "Success" /\ state' # "Success"
  <2>1. /\ state = "WaitFor17" /\ UNCHANGED <<state, size, requests, confirms>>
    BY <1>5 DEF R!Listen17, R!history
  <2> QED  BY <1>1, <2>1 DEF Registering
<1>6. CASE R!Judge17
  <2>1. /\ state = "WaitFor17" /\ UNCHANGED <<size, id, requests, confirms>>
        /\ state' = (IF id # "FF" THEN "SendConfirm" ELSE "SelectChannel")
    BY <1>6 DEF R!Judge17, R!TryAgain, R!history
  <2> QED  BY <1>1, <2>1 DEF Registering
<1>7. CASE R!SendConfirm
  <2>1. /\ state = "SendConfirm" /\ UNCHANGED <<size, id, requests>>
        /\ state' = "WaitForTimestamp" /\ confirms' = confirms + 1
    BY <1>7 DEF R!SendConfirm
  <2> QED  BY <1>1, <2>1 DEF Registering
<1>8. ASSUME NEW valid, R!ListenTimestamp(valid)
      PROVE  /\ Registering' /\ state # "Success"
             /\ state' = "Success" => size' = size /\ size \in 0..(Len(nodes) - 1)
  <2>1. /\ state = "WaitForTimestamp" /\ UNCHANGED <<size, id, requests, confirms>>
        /\ state' \in {"Success", state}
    BY <1>8 DEF R!ListenTimestamp, R!history
  <2> QED  BY <1>1, <2>1 DEF Registering
<1>9. CASE R!JudgeTimestamp
  <2>1. /\ state = "WaitForTimestamp" /\ UNCHANGED <<size, id, requests, confirms>>
        /\ state' \in {"Failed", "SendConfirm"}
    BY <1>9 DEF R!JudgeTimestamp, R!history
  <2> QED  BY <1>1, <2>1 DEF Registering
<1> QED
  BY <1>2, <1>3, <1>4, <1>5, <1>6, <1>7, <1>8, <1>9 DEF R!RegistNext

LEMMA DeviceRegistInv ==
  ASSUME LinksInv, DeviceRegist
  PROVE  LinksInv' /\ (Cooled => Cooled')
<1>1. /\ phase = "regist" /\ phase' = "regist" /\ R!RegistNext
      /\ nodes' = (IF state' = "Success" THEN setEnable(nodes, Current) ELSE nodes)
      /\ UNCHANGED <<cur, step, newFd, owner, status, device_id, serverFd, gpsFd,
                     clash, pc>>
  BY DEF DeviceRegist, initVars, commVars
<1>2. /\ ListInv /\ FdInv /\ OnlyCurrent /\ Registering
      /\ nodes \in Seq(Node) /\ Len(nodes) \in Nat /\ DOMAIN nodes = 1..Len(nodes)
      /\ ListOfDevices(nodes) /\ Len(nodes) <= Cardinality(Clients)
  BY NodesAre DEF LinksInv
<1>3. /\ nodes' \in Seq(Node) /\ Len(nodes') = Len(nodes)
      /\ \A i \in 1..Len(nodes) :
           /\ nodes'[i].dev = nodes[i].dev /\ nodes'[i].fd = nodes[i].fd
           /\ nodes'[i].cb = nodes[i].cb
           /\ nodes'[i].breaker = nodes[i].breaker
           /\ nodes'[i].enabled =>
                nodes[i].enabled \/ (state' = "Success" /\ nodes[i].dev = Current)
  <2>1. CASE state' = "Success"
    BY <1>1, <1>2, <2>1, EnabledList
  <2>2. CASE state' # "Success"
    BY <1>1, <1>2, <2>2
  <2> QED  BY <2>1, <2>2
<1>4. DOMAIN nodes' = DOMAIN nodes
  BY <1>2, <1>3, ListIs
<1>5. /\ Registering' /\ state # "Success"
      /\ state' = "Success" => size' = size /\ size \in 0..(Len(nodes) - 1)
  BY <1>1, <1>2, <1>3, RegistStep
<1>6. ListInv'
  <2>1. ListOK(nodes, status) /\ Len(device_id) = Len(nodes) /\ device_id \in Seq(Fd)
    BY <1>2, ListInvIs
  <2>2. ListOK(nodes', status)
    BY <1>3, <2>1, ListPatched
  <2> QED  BY <1>1, <1>3, <2>1, <2>2 DEF ListInv, ListOK, ListIntact, Apart
<1>7. newFd = -1 /\ pc = "select" /\ Held
  BY <1>1 DEF LinksInv, MainAt, TransmitterAt, Held
<1>8. MainAt'
  BY <1>1, <1>7 DEF LinksInv, MainAt, Done
<1>9. TransmitterAt' /\ Ran'
  BY <1>1, <1>7 DEF TransmitterAt, Ran
<1>10. \A i \in DOMAIN nodes : ~nodes[i].enabled
  BY <1>2, <1>5, NoneEnabled
<1>11. OnlyCurrent'
  <2>1. ASSUME NEW i \in DOMAIN nodes', nodes'[i].enabled
        PROVE  state' = "Success" /\ nodes'[i].dev = Current'
    <3>1. state' = "Success" /\ nodes[i].dev = Current /\ nodes'[i].dev = nodes[i].dev
      BY <1>2, <1>3, <1>4, <1>10, <2>1
    <3>2. size' = size /\ size + 1 \in DOMAIN nodes
      BY <1>2, <1>5, <3>1
    <3>3. getALLIfd(nodes')[size + 1].dev = getALLIfd(nodes)[size + 1].dev
      BY <1>2, <1>3, <1>4, <3>2, PlaceStays
    <3> QED  BY <3>1, <3>2, <3>3 DEF Current
  <2> QED  BY <2>1 DEF OnlyCurrent
<1>12. ASSUME Cooled PROVE Cooled'
  <2>1. \A i \in DOMAIN nodes' : Allows(nodes'[i].breaker)
    BY <1>1, <1>2, <1>3, <1>4, <1>12 DEF Cooled
  <2>2. Active' # 0 => Active' \in DOMAIN nodes'
    BY <1>2, <1>3, <1>4, SuccessIs DEF Active
  <2> QED  BY <2>1, <2>2 DEF Cooled
<1>13. SameLinks(nodes, nodes')
  BY <1>2, <1>3 DEF SameLinks
<1>14. FdInv'
  BY <1>1, <1>2, <1>7, <1>13, FdKept
<1> QED  BY <1>5, <1>6, <1>8, <1>9, <1>11, <1>12, <1>14 DEF LinksInv

-----------------------------------------------------------------------------
(* trans_message.                                                          *)

(* CommManager speaks of the same list and breakers.                       *)
LEMMA CommIs ==
  /\ C!Active = Active /\ C!Dev = nodes[Active].dev
  /\ \A d : C!Para(d) = 0
  /\ \A b : C!SetBreaker(b) <=> nodes' = [nodes EXCEPT ![Active].breaker = b]
<1>1. C!Active = Active
  BY SameList DEF C!Active, Active
<1> QED  BY <1>1 DEF C!Dev, C!Para, C!SetBreaker

LEMMA BreakerKept ==
  ASSUME NEW b \in Breaker
  PROVE  /\ C!AfterAllow(b) \in Breaker /\ C!AfterFailure(b) \in Breaker
         /\ C!Older(b, C!PauseSeconds) \in Breaker
<1>1. /\ Threshold \in Nat \ {0} /\ Cooldown \in Nat
      /\ b.state \in CircuitState /\ b.failures \in 0..Threshold
      /\ b.age \in 0..(Cooldown + 1)
  BY BreakerAssumption DEF Breaker
<1>2. C!AfterAllow(b) \in Breaker
  BY DEF C!AfterAllow, Breaker, CircuitState
<1>3. C!AfterFailure(b) \in Breaker
  <2> DEFINE count == IF b.failures < Threshold THEN b.failures + 1 ELSE Threshold
  <2>1. count \in 0..Threshold
    BY <1>1
  <2>2. (IF count >= Threshold THEN "Open" ELSE b.state) \in CircuitState
    BY <1>1 DEF CircuitState
  <2>3. 0 \in 0..(Cooldown + 1)
    BY <1>1
  <2> QED  BY <2>1, <2>2, <2>3 DEF C!AfterFailure, Breaker
<1>4. C!Older(b, C!PauseSeconds) \in Breaker
  <2>1. (IF b.age + 32 <= Cooldown THEN b.age + 32 ELSE Cooldown + 1) \in 0..(Cooldown + 1)
    BY <1>1
  <2> QED  BY <2>1 DEF C!Older, C!PauseSeconds, Breaker
<1> QED  BY <1>2, <1>3, <1>4

(* After the pause the breaker lets the next attempt pass.                 *)
LEMMA PauseIsEnough ==
  ASSUME NEW b \in Breaker, PauseOutlasts
  PROVE  Allows(C!Older(b, C!PauseSeconds))
<1>1. Cooldown \in Nat /\ b.age \in Nat /\ Cooldown < 32
  BY BreakerAssumption DEF Breaker, PauseOutlasts, C!PauseSeconds
<1>2. C!Older(b, C!PauseSeconds).age = Cooldown + 1
  <2>1. ~ (b.age + 32 <= Cooldown)
    BY <1>1
  <2> QED  BY <2>1 DEF C!Older, C!PauseSeconds, Breaker
<1> QED  BY <1>1, <1>2 DEF Allows

(* What a step of it leaves alone.                                         *)
TransmitterFrame ==
  /\ phase = "run" /\ phase' = "run"
  /\ UNCHANGED <<cur, step, status, device_id, serverFd, gpsFd, state, size, id,
                 requests, confirms>>

LEMMA TransmitterRest ==
  ASSUME LinksInv, TransmitterFrame
  PROVE  /\ MainAt' /\ Ran'
         /\ Len(nodes') = Len(nodes) => Registering'
         /\ ListInv /\ FdInv /\ nodes \in Seq(Node)
         /\ state = "Success" /\ size + 1 \in DOMAIN nodes
<1>1. MainAt' /\ Ran'
  BY DEF LinksInv, MainAt, Ran, TransmitterFrame, Done
<1>2. Len(nodes') = Len(nodes) => Registering'
  BY DEF LinksInv, Registering, TransmitterFrame
<1>3. ListInv /\ FdInv /\ nodes \in Seq(Node) /\ state = "Success"
  BY DEF LinksInv, ListInv, TransmitterAt, TransmitterFrame
<1>4. size \in Int /\ size < Len(nodes) /\ size >= 0
  BY <1>3 DEF LinksInv, Registering, TransmitterFrame
<1>5. Len(nodes) \in Nat /\ DOMAIN nodes = 1..Len(nodes)
  BY <1>3, NodesAre
<1> QED  BY <1>1, <1>2, <1>3, <1>4, <1>5

(* A step that at most replaces the breaker of the active node.             *)
KeepsLinks ==
  \/ nodes' = nodes
  \/ /\ Active # 0
     /\ \E b \in Breaker : nodes' = [nodes EXCEPT ![Active].breaker = b]

LEMMA KeptLinks ==
  ASSUME LinksInv, TransmitterFrame, KeepsLinks
  PROVE  /\ ListInv' /\ OnlyCurrent' /\ Registering' /\ MainAt' /\ Ran'
         /\ Active' = Active /\ Held' = Held
         /\ SameLinks(nodes, nodes')
         /\ nodes'[Active].dev = nodes[Active].dev
<1>1. /\ MainAt' /\ Ran' /\ (Len(nodes') = Len(nodes) => Registering')
      /\ ListInv /\ FdInv /\ nodes \in Seq(Node)
      /\ state = "Success" /\ size + 1 \in DOMAIN nodes
  BY TransmitterRest
<1>2. /\ Len(nodes) \in Nat /\ DOMAIN nodes = 1..Len(nodes) /\ ListOfDevices(nodes)
  BY <1>1, NodesAre
<1>3. /\ nodes' \in Seq(Node) /\ Len(nodes') = Len(nodes)
      /\ \A i \in 1..Len(nodes) :
           /\ nodes'[i].dev = nodes[i].dev /\ nodes'[i].fd = nodes[i].fd
           /\ nodes'[i].enabled = nodes[i].enabled /\ nodes'[i].cb = nodes[i].cb
  <2>1. CASE nodes' = nodes
    BY <1>1, <2>1
  <2>2. CASE nodes' # nodes
    <3>1. PICK b \in Breaker : nodes' = [nodes EXCEPT ![Active].breaker = b]
      BY <2>2 DEF KeepsLinks
    <3>2. Active \in 1..Len(nodes)
      BY <1>2, <2>2, SuccessIs DEF KeepsLinks, Active
    <3> QED  BY <1>1, <3>1, <3>2, Patched
  <2> QED  BY <2>1, <2>2
<1>4. DOMAIN nodes' = DOMAIN nodes
  BY <1>2, <1>3, ListIs
<1>5. Active' = Active
  BY <1>2, <1>3, SameSuccess DEF Active
<1>6. ListInv'
  <2>1. ListOK(nodes, status) /\ Len(device_id) = Len(nodes) /\ device_id \in Seq(Fd)
    BY <1>1, ListInvIs
  <2>2. ListOK(nodes', status)
    BY <1>3, <2>1, ListPatched
  <2>3. status' = status /\ device_id' = device_id
    BY DEF TransmitterFrame
  <2> QED  BY <1>3, <2>1, <2>2, <2>3 DEF ListInv, ListOK, ListIntact, Apart
<1>7. Current' = Current
  <2>1. getALLIfd(nodes')[size + 1].dev = getALLIfd(nodes)[size + 1].dev
    BY <1>1, <1>2, <1>3, <1>4, PlaceStays
  <2> QED  BY <2>1 DEF Current, TransmitterFrame
<1>8. OnlyCurrent'
  BY <1>2, <1>3, <1>4, <1>7 DEF LinksInv, OnlyCurrent, TransmitterFrame
<1>9. SameLinks(nodes, nodes') /\ Held' = Held
  BY <1>1, <1>3, <1>5 DEF SameLinks, Held, TransmitterFrame
<1>10. nodes'[Active].dev = nodes[Active].dev
  <2>1. CASE Active # 0
    BY <1>2, <1>3, <2>1, SuccessIs DEF Active
  <2>2. CASE Active = 0
    <3>1. nodes' = nodes
      BY <2>2 DEF KeepsLinks
    <3> QED  BY <3>1
  <2> QED  BY <2>1, <2>2
<1> QED  BY <1>1, <1>3, <1>5, <1>6, <1>8, <1>9, <1>10

(* Where trans_message is after the step, as TransmitterAt wants it.        *)
NextAt ==
  /\ pc' # "select" => Active # 0
  /\ pc' \in HoldsPc => newFd' # -1
  /\ newFd' # -1 => pc' \in HoldsPc \/ (pc' = "closeOld" /\ nodes[Active].dev # "lan")

(* What the steps do to the descriptors.                                   *)
FdKeeps == UNCHANGED <<owner, newFd>>
FdTakes ==
  /\ newFd = -1 /\ Active # 0 /\ nodes' = nodes
  /\ \E f \in Fd : /\ owner[f] = "free" /\ newFd' = f
                   /\ owner' = [owner EXCEPT ![f] = nodes[Active].dev]
FdCloses ==
  /\ newFd # -1 /\ newFd' \in {newFd, -1} /\ nodes' = nodes
  /\ owner' = [owner EXCEPT ![newFd] = "free"]
FdClosesZero ==
  newFd' = newFd /\ nodes' = nodes /\ owner' = [owner EXCEPT ![0] = "free"]

LEMMA TransmitterSteps ==
  ASSUME LinksInv, phase = "run", C!NoLink \/ C!LinkEnds \/ C!Reinit
  PROVE  \/ KeepsLinks /\ NextAt /\ (FdKeeps \/ FdTakes \/ FdCloses \/ FdClosesZero)
         \/ C!Succeed /\ Active # 0 /\ newFd # -1
<1> DEFINE d == nodes[Active].dev
<1>1. /\ pc # "select" => Active # 0
      /\ pc \in HoldsPc => newFd # -1
      /\ newFd # -1 => pc \in HoldsPc \/ (pc = "closeOld" /\ d # "lan")
  BY DEF LinksInv, TransmitterAt
<1>2. newFd \in Fd \union {-1} /\ \A f \in Fd : f \in Nat /\ f # -1
  BY FdIs DEF LinksInv, FdInv, FdTyped
<1>3. C!Active = Active /\ C!Dev = d
  BY CommIs
<1>4. Active # 0 => nodes[Active].breaker \in Breaker
  <2>1. nodes \in Seq(Node) /\ Len(nodes) \in Nat
    BY ListIs DEF LinksInv, ListInv
  <2>2. Active # 0 => nodes[Active] \in Node
    BY <2>1, ListIs, SuccessIs DEF Active
  <2> QED  BY <2>2 DEF Node
<1>5. C!Fd = Fd
  BY DEF C!Fd, Fd
<1> HIDE DEF d
<1> USE DEF HoldsPc, NextAt
<1>6. CASE C!NoLink
  BY <1>1, <1>6 DEF C!NoLink, KeepsLinks, FdKeeps
<1>7. CASE C!LinkEnds
  BY <1>1, <1>3, <1>7 DEF C!LinkEnds, KeepsLinks, FdKeeps
<1>8. CASE C!Begin
  <2>1. /\ pc = "reinit" /\ pc' \in {"pause", "closeOld", "open"}
        /\ UNCHANGED <<owner, newFd>>
        /\ nodes' = [nodes EXCEPT ![Active].breaker = C!AfterAllow(nodes[Active].breaker)]
    BY <1>3, <1>8, CommIs DEF C!Begin
  <2>2. Active # 0 /\ newFd = -1
    BY <1>1, <2>1
  <2>3. C!AfterAllow(nodes[Active].breaker) \in Breaker
    BY <1>4, <2>2, BreakerKept
  <2>4. KeepsLinks
    BY <2>1, <2>2, <2>3 DEF KeepsLinks
  <2> QED  BY <2>1, <2>2, <2>4 DEF FdKeeps
<1>9. CASE C!Open
  <2>1. PICK f \in Fd : /\ owner[f] = "free" /\ owner' = [owner EXCEPT ![f] = d]
                        /\ newFd' = f
    BY <1>3, <1>5, <1>9 DEF C!Open, C!LowestFree
  <2>2. /\ pc = "open" /\ nodes' = nodes
        /\ pc' = "connect"
    BY <1>3, <1>9 DEF C!Open
  <2>3. FdTakes
    BY <1>1, <2>1, <2>2 DEF FdTakes, d
  <2>4. NextAt
    BY <1>1, <1>2, <2>1, <2>2 DEF d
  <2> QED  BY <2>2, <2>3, <2>4 DEF KeepsLinks
<1>10. CASE C!OpenFails
  BY <1>1, <1>10 DEF C!OpenFails, KeepsLinks, FdKeeps
<1>11. CASE C!Connect
  <2>1. /\ pc = "connect" /\ UNCHANGED <<nodes, owner, newFd>>
        /\ pc' = (IF d = "lan" THEN "succeed" ELSE "closeOld")
    BY <1>3, <1>11 DEF C!Connect
  <2> QED  BY <1>1, <2>1 DEF KeepsLinks, FdKeeps, d
<1>12. CASE C!ConnectFails
  BY <1>1, <1>12 DEF C!ConnectFails, KeepsLinks, FdKeeps
<1>13. CASE C!CloseNew
  <2>1. /\ pc = "closeNew" /\ nodes' = nodes
        /\ owner' = [owner EXCEPT ![newFd] = "free"]
        /\ newFd' = (IF d = "lan" THEN newFd ELSE -1)
        /\ pc' \in {"closeAgain", "fail", "closeOld"}
        /\ d = "lan" <=> pc' = "closeAgain"
    BY <1>3, <1>13 DEF C!CloseNew, C!Close
  <2> QED  BY <1>1, <2>1 DEF KeepsLinks, FdCloses
<1>14. CASE C!CloseAgain
  BY <1>1, <1>14 DEF C!CloseAgain, C!Close, KeepsLinks, FdCloses
<1>15. CASE C!CloseOld
  <2>1. /\ pc = "closeOld" /\ UNCHANGED <<nodes, newFd>>
        /\ owner' = [owner EXCEPT ![0] = "free"]
        /\ pc' = (IF d = "lan" THEN "open"
                  ELSE IF newFd >= 0 THEN "succeed" ELSE "fail")
    BY <1>3, <1>15, CommIs DEF C!CloseOld, C!Close
  <2> QED  BY <1>1, <1>2, <2>1 DEF KeepsLinks, FdClosesZero
<1>16. CASE C!Fail
  <2>1. /\ pc = "fail" /\ pc' = "pause" /\ owner' = owner /\ newFd' = -1
        /\ nodes' = [nodes EXCEPT ![Active].breaker = C!AfterFailure(nodes[Active].breaker)]
    BY <1>3, <1>16, CommIs DEF C!Fail
  <2>2. Active # 0 /\ newFd = -1
    BY <1>1, <2>1
  <2>3. C!AfterFailure(nodes[Active].breaker) \in Breaker
    BY <1>4, <2>2, BreakerKept
  <2>4. KeepsLinks
    BY <2>1, <2>2, <2>3 DEF KeepsLinks
  <2> QED  BY <2>1, <2>2, <2>4 DEF FdKeeps
<1>17. CASE C!Succeed
  BY <1>1, <1>17 DEF C!Succeed
<1>18. CASE C!Pause
  <2>1. /\ pc = "pause" /\ pc' = "select" /\ UNCHANGED <<owner, newFd>>
        /\ nodes' = [nodes EXCEPT ![Active].breaker =
                       C!Older(nodes[Active].breaker, C!PauseSeconds)]
    BY <1>3, <1>18, CommIs DEF C!Pause
  <2>2. Active # 0 /\ newFd = -1
    BY <1>1, <2>1
  <2>3. C!Older(nodes[Active].breaker, C!PauseSeconds) \in Breaker
    BY <1>4, <2>2, BreakerKept
  <2>4. KeepsLinks
    BY <2>1, <2>2, <2>3 DEF KeepsLinks
  <2> QED  BY <2>1, <2>2, <2>4 DEF FdKeeps
<1> QED
  BY <1>6, <1>7, <1>8, <1>9, <1>10, <1>11, <1>12, <1>13, <1>14, <1>15, <1>16, <1>17,
     <1>18
  DEF C!Reinit

LEMMA KeepingInv ==
  ASSUME LinksInv, TransmitterFrame, NoteClash, KeepsLinks, NextAt,
         FdKeeps \/ FdTakes \/ FdCloses \/ FdClosesZero
  PROVE  LinksInv'
<1>1. /\ ListInv' /\ OnlyCurrent' /\ Registering' /\ MainAt' /\ Ran'
      /\ Active' = Active /\ Held' = Held /\ SameLinks(nodes, nodes')
      /\ nodes'[Active].dev = nodes[Active].dev
  BY KeptLinks
<1>2. /\ phase = "run" /\ phase' = "run" /\ UNCHANGED <<serverFd, gpsFd, state>>
      /\ ListInv /\ FdInv /\ nodes \in Seq(Node) /\ state = "Success"
  BY TransmitterRest DEF TransmitterFrame
<1>3. TransmitterAt'
  BY <1>1, <1>2 DEF TransmitterAt, NextAt
<1>4. clash \in BOOLEAN /\ gpsFd \in Fd \union {-1, -2} /\ -1 < 0 /\ -2 < 0
      /\ owner \in [Fd -> {"free", "std", "gps"} \union Device]
  BY <1>2 DEF FdInv, FdTyped
<1>5. CASE FdKeeps
  <2>1. clash' = clash
    BY <1>2, <1>4, <1>5 DEF NoteClash, FdKeeps
  <2>2. FdInv'
    BY <1>1, <1>2, <1>5, <2>1, FdKept DEF FdKeeps
  <2> QED  BY <1>1, <1>3, <2>2 DEF LinksInv
<1>6. CASE FdTakes
  <2>1. PICK f \in Fd : /\ owner[f] = "free" /\ newFd' = f
                        /\ owner' = [owner EXCEPT ![f] = nodes[Active].dev]
    BY <1>6 DEF FdTakes
  <2>2. newFd = -1 /\ Active # 0 /\ nodes' = nodes
    BY <1>6 DEF FdTakes
  <2>3. clash' = clash
    <3>1. gpsFd >= 0 /\ owner[gpsFd] = "gps" => owner'[gpsFd] = "gps"
      BY <1>4, <2>1
    <3> QED  BY <1>2, <1>4, <3>1 DEF NoteClash
  <2>4. nodes[Active].dev \in Device
    <3>1. Active \in DOMAIN nodes
      BY <1>2, <2>2, NodesAre, SuccessIs DEF Active
    <3>2. nodes[Active] \in Node
      BY <1>2, <3>1, NodesAre
    <3> QED  BY <3>2 DEF Node, Device
  <2>5. FdInv'
    BY <1>1, <1>2, <2>1, <2>2, <2>3, <2>4, FdTaken
  <2> QED  BY <1>1, <1>3, <2>5 DEF LinksInv
<1>7. CASE FdCloses
  <2>1. FdInv'
    BY <1>1, <1>2, <1>7, FdClosed DEF FdCloses
  <2> QED  BY <1>1, <1>3, <2>1 DEF LinksInv
<1>8. CASE FdClosesZero
  <2>1. FdInv'
    BY <1>1, <1>2, <1>8, ZeroClosed DEF FdClosesZero
  <2> QED  BY <1>1, <1>3, <2>1 DEF LinksInv
<1> QED  BY <1>5, <1>6, <1>7, <1>8

LEMMA NotThere ==
  ASSUME NEW n \in Nat, NEW a \in 1..n, NEW i \in 1..n, i # n
  PROVE  /\ i \in 1..(n - 1) /\ i + 1 \in 1..n
         /\ i < a => i # a
         /\ ~ (i < a) => i + 1 # a
OBVIOUS

(* The reopened link is not enabled, and no other is.                      *)
LEMMA SucceedInv ==
  ASSUME LinksInv, TransmitterFrame, NoteClash, C!Succeed, Active # 0, newFd # -1
  PROVE  LinksInv' /\ Active' = 0
<1> DEFINE n == Len(nodes)
           d == nodes[Active].dev
           cb == nodes[Active].cb
<1>1. /\ MainAt' /\ Ran' /\ (Len(nodes') = n => Registering')
      /\ ListInv /\ FdInv /\ nodes \in Seq(Node) /\ state = "Success"
  BY TransmitterRest
<1>2. /\ n \in Nat /\ DOMAIN nodes = 1..n
      /\ \A i \in DOMAIN nodes : nodes[i] \in Node
  BY <1>1, NodesAre
<1>3. Active \in 1..n /\ nodes[Active].enabled
  BY <1>2, SuccessIs DEF Active
<1>4. newFd \in Fd /\ cb \in BOOLEAN
  <2>1. newFd \in Fd
    BY <1>1 DEF FdInv, FdTyped
  <2>2. cb \in BOOLEAN
    BY <1>2, <1>3 DEF Node
  <2> QED  BY <2>1, <2>2
<1>5. /\ nodes' = callbackRgist(insertNode(deletecommunicateNode(nodes, d),
                                           createComnode(d, newFd)), d, cb)
      /\ newFd' = -1 /\ pc' = "select" /\ owner' = owner
  BY CommIs, SameList DEF C!Succeed, C!Active, Active
<1>6. /\ nodes' \in Seq(Node) /\ Len(nodes') = n
      /\ \A i \in 1..(n - 1) : nodes'[i] = IF i < Active THEN nodes[i] ELSE nodes[i + 1]
      /\ IsFresh(nodes'[n], d, newFd, cb)
  <2>1. \A i, j \in DOMAIN nodes : nodes[i].dev = nodes[j].dev => i = j
    BY <1>1 DEF ListInv, Apart
  <2> HIDE DEF cb
  <2> QED  BY <1>1, <1>3, <1>4, <1>5, <2>1, ReplacedList
<1>7. nodes'[n].dev = d /\ nodes'[n].cb = cb /\ ~nodes'[n].enabled
  BY <1>6 DEF IsFresh
<1>8. ListInv'
  <2>1. ListOK(nodes, status) /\ Len(device_id) = n /\ device_id \in Seq(Fd)
    BY <1>1, ListInvIs
  <2>2. ListOK(nodes', status)
    <3> HIDE DEF cb
    <3>1. nodes'[n].cb = nodes[Active].cb
      BY <1>7 DEF cb
    <3> QED  BY <1>3, <1>6, <1>7, <2>1, <3>1, ListReplaced
  <2>3. status' = status /\ device_id' = device_id
    BY DEF TransmitterFrame
  <2> QED  BY <1>6, <2>1, <2>2, <2>3 DEF ListInv, ListOK, ListIntact, Apart
<1>9. \A i \in 1..n : nodes[i].enabled => i = Active
  <2>1. \A i \in 1..n : nodes[i].enabled => nodes[i].dev = Current
    BY <1>2 DEF LinksInv, OnlyCurrent
  <2> QED  BY <1>1, <1>2, <1>3, <2>1 DEF ListInv, Apart
<1>10. DOMAIN nodes' = 1..n
  BY <1>6, ListIs
<1>11. \A i \in DOMAIN nodes' : ~nodes'[i].enabled
  <2> SUFFICES ASSUME NEW i \in 1..n PROVE ~nodes'[i].enabled
    BY <1>10
  <2>1. CASE i = n
    BY <1>7, <2>1
  <2>2. CASE i # n
    <3>1. /\ i \in 1..(n - 1) /\ i + 1 \in 1..n
          /\ (i < Active => i # Active) /\ (~ (i < Active) => i + 1 # Active)
      <4> HIDE DEF n
      <4> QED  BY <1>2, <1>3, <2>2, NotThere
    <3>2. nodes'[i] = IF i < Active THEN nodes[i] ELSE nodes[i + 1]
      BY <1>6, <3>1
    <3>3. CASE i < Active
      BY <1>9, <3>1, <3>2, <3>3
    <3>4. CASE ~ (i < Active)
      BY <1>9, <3>1, <3>2, <3>4
    <3> QED  BY <3>3, <3>4
  <2> QED  BY <2>1, <2>2
<1>12. Active' = 0
  <2>1. Active' # 0 => Active' \in 1..Len(nodes') /\ nodes'[Active'].enabled
    BY <1>2, <1>6, SuccessIs DEF Active
  <2> QED  BY <1>6, <1>10, <1>11, <2>1
<1>13. OnlyCurrent'
  BY <1>11 DEF OnlyCurrent
<1>14. TransmitterAt'
  BY <1>1, <1>5 DEF TransmitterAt, TransmitterFrame, HoldsPc
<1>15. ~Held'
  BY <1>12 DEF Held, TransmitterFrame
<1>16. FdInv'
  <2>1. clash' \in BOOLEAN
    BY <1>1 DEF NoteClash, FdInv, FdTyped
  <2> QED  BY <1>1, <1>5, <1>15, <2>1, FdReplaced DEF TransmitterFrame
<1> QED  BY <1>1, <1>6, <1>8, <1>12, <1>13, <1>14, <1>16 DEF LinksInv

(* Its steps are one of the phase "run".                                   *)
LinkStep ==
  Transmitter(C!NoLink) \/ Transmitter(C!LinkEnds) \/ Transmitter(C!Reinit)

LEMMA LinkStepIs ==
  ASSUME LinkStep
  PROVE  TransmitterFrame /\ NoteClash /\ (C!NoLink \/ C!LinkEnds \/ C!Reinit)
BY DEF LinkStep, Transmitter, TransmitterFrame, initVars, registVars

LEMMA LinkStepInv ==
  ASSUME LinksInv, LinkStep
  PROVE  LinksInv'
<1>1. TransmitterFrame /\ NoteClash /\ (C!NoLink \/ C!LinkEnds \/ C!Reinit)
  BY LinkStepIs
<1>2. phase = "run"
  BY <1>1 DEF TransmitterFrame
<1> QED  BY <1>1, <1>2, TransmitterSteps, KeepingInv, SucceedInv

(* A pause lets the breaker of the link cool, and only a failure, which a   *)
(* pause follows, opens it.                                                *)
LEMMA PatchedBreaker ==
  ASSUME ListInv, Active # 0, NEW b \in Breaker, NEW m,
         m = [nodes EXCEPT ![Active].breaker = b]
  PROVE  m[Active].breaker = b /\ nodes[Active].breaker \in Breaker
<1>1. Len(nodes) \in Nat /\ nodes \in Seq(Node) /\ \A i \in 1..Len(nodes) : nodes[i] \in Node
  BY NodesAre
<1>2. Active \in 1..Len(nodes)
  BY <1>1, SuccessIs DEF Active
<1>3. m[Active].breaker = b
  BY <1>1, <1>2, Patched
<1> QED  BY <1>1, <1>2, <1>3 DEF Node

LEMMA LinkStepCooled ==
  ASSUME PauseOutlasts, LinksInv, Cooled, LinkStep
  PROVE  Cooled'
<1>1. TransmitterFrame /\ NoteClash /\ (C!NoLink \/ C!LinkEnds \/ C!Reinit)
  BY LinkStepIs
<1>2. phase = "run" /\ phase' = "run"
  BY <1>1 DEF TransmitterFrame
<1>3. SUFFICES ASSUME pc' \in {"select", "reinit"}, Active' # 0
               PROVE  Allows(nodes'[Active'].breaker)
  BY <1>2 DEF Cooled
<1>4. /\ C!Active = Active /\ C!Dev = nodes[Active].dev
      /\ pc # "select" => Active # 0
      /\ ListInv
  BY CommIs DEF LinksInv, TransmitterAt
<1>5. CASE C!NoLink \/ C!LinkEnds
  BY <1>3, <1>5 DEF C!NoLink, C!LinkEnds, Active, Cooled
<1>6. CASE C!Begin
  BY <1>3, <1>6 DEF C!Begin
<1>7. CASE C!Open \/ C!OpenFails \/ C!Connect \/ C!ConnectFails
  BY <1>3, <1>7 DEF C!Open, C!OpenFails, C!Connect, C!ConnectFails
<1>8. CASE C!CloseNew \/ C!CloseAgain \/ C!CloseOld
  BY <1>3, <1>8 DEF C!CloseNew, C!CloseAgain, C!CloseOld
<1>9. CASE C!Fail
  BY <1>3, <1>9 DEF C!Fail
<1>10. CASE C!Succeed
  <2>1. newFd # -1
    BY <1>2, <1>10 DEF C!Succeed, LinksInv, TransmitterAt, HoldsPc
  <2>2. Active # 0
    BY <1>4, <1>10 DEF C!Succeed
  <2> QED  BY <1>1, <1>3, <1>10, <2>1, <2>2, SucceedInv
<1>11. CASE C!Pause
  <2>1. /\ Active # 0 /\ pc = "pause"
        /\ nodes' = [nodes EXCEPT ![Active].breaker =
                       C!Older(nodes[Active].breaker, C!PauseSeconds)]
    BY <1>4, <1>11, CommIs DEF C!Pause
  <2>2. nodes[Active].breaker \in Breaker
    <3>1. NewBreaker \in Breaker
      BY BreakerAssumption DEF NewBreaker, Breaker, CircuitState
    <3> QED  BY <1>4, <2>1, <3>1, PatchedBreaker
  <2>3. C!Older(nodes[Active].breaker, C!PauseSeconds) \in Breaker
    BY <2>2, BreakerKept
  <2>4. nodes'[Active].breaker = C!Older(nodes[Active].breaker, C!PauseSeconds)
    BY <1>4, <2>1, <2>3, PatchedBreaker
  <2>5. Active' = Active
    BY <1>1, <2>1, <2>3, KeptLinks DEF KeepsLinks
  <2> QED  BY <2>2, <2>4, <2>5, PauseIsEnough
<1> QED
  BY <1>1, <1>5, <1>6, <1>7, <1>8, <1>9, <1>10, <1>11 DEF C!Reinit

-----------------------------------------------------------------------------
(* The GPS thread.                                                         *)
LEMMA GpsInv ==
  ASSUME LinksInv, Gps
  PROVE  LinksInv' /\ (Cooled => Cooled')
<1>1. /\ GpsOpens \/ GpsCloses
      /\ UNCHANGED <<cur, step, newFd, nodes, status, device_id, serverFd, phase, clash,
                     state, size, id, requests, confirms, pc>>
  BY DEF Gps, GpsOpens, GpsCloses, registry, registVars, commVars
<1>2. phase = "bringUp" /\ newFd # -1 => Dev \in Device
  BY RunningDev DEF LinksInv
<1>3. FdInv /\ nodes \in Seq(Node)
  BY DEF LinksInv, ListInv
<1>4. FdInv'
  <2>1. phase' = phase /\ clash' = clash
    BY <1>1
  <2> QED  BY <1>1, <1>2, <1>3, <2>1, FdGpsOpens, FdGpsCloses
<1>5. ListInv' /\ Ran'
  BY <1>1 DEF LinksInv, ListInv, Apart, ListIntact, Ran
<1>6. MainAt'
  BY <1>1 DEF LinksInv, MainAt, Done
<1>7. TransmitterAt' /\ (Cooled => Cooled')
  BY <1>1 DEF LinksInv, TransmitterAt, Active, Cooled
<1>8. Registering' /\ OnlyCurrent'
  BY <1>1 DEF LinksInv, Registering, OnlyCurrent, Current
<1> QED  BY <1>4, <1>5, <1>6, <1>7, <1>8 DEF LinksInv

LEMMA StutterInv ==
  ASSUME LinksInv, UNCHANGED linkVars
  PROVE  LinksInv' /\ (Cooled => Cooled')
<1>1. UNCHANGED <<cur, step, newFd, owner, nodes, status, device_id, serverFd, gpsFd,
                  phase, clash, state, size, id, requests, confirms, pc>>
  BY DEF linkVars, vars, registVars, commVars
<1>2. ListInv' /\ Ran'
  BY <1>1 DEF LinksInv, ListInv, Apart, ListIntact, Ran
<1>3. MainAt'
  BY <1>1 DEF LinksInv, MainAt, Done
<1>4. TransmitterAt' /\ (Cooled => Cooled')
  BY <1>1 DEF LinksInv, TransmitterAt, Active, Cooled
<1>5. Registering' /\ OnlyCurrent'
  BY <1>1 DEF LinksInv, Registering, OnlyCurrent, Current
<1>6. FdInv'
  BY <1>1
  DEF LinksInv, FdInv, FdTyped, Standard, Held, LeakFree, OwnLinks, OwnGps, OwnNew,
      NotOthers, Dev, Active
<1> QED  BY <1>2, <1>3, <1>4, <1>5, <1>6 DEF LinksInv

-----------------------------------------------------------------------------
LEMMA InitInv == LinksInit => LinksInv /\ Cooled
<1> SUFFICES ASSUME LinksInit PROVE LinksInv /\ Cooled
  OBVIOUS
<1>1. /\ cur = 1 /\ step = "begin" /\ newFd = -1 /\ nodes = <<>> /\ status = {}
      /\ device_id = <<>> /\ serverFd = -1 /\ gpsFd = -1
      /\ owner = [f \in Fd |-> IF f <= 3 THEN "std" ELSE "free"]
      /\ phase = "bringUp" /\ clash = FALSE /\ pc = "select"
  BY DEF LinksInit, Init
<1>2. /\ state = "SelectChannel" /\ size = Cardinality(Clients) - 1
      /\ requests = [d \in R!Device |-> 0] /\ confirms = 0
  BY DEF LinksInit, R!RegistInit
<1>3. /\ Len(nodes) = 0 /\ DOMAIN nodes = {} /\ nodes \in Seq(Node)
      /\ device_id \in Seq(Fd) /\ Len(device_id) = 0
  BY <1>1
<1>4. IsFiniteSet({}) /\ Cardinality({}) = 0
  BY FS_EmptySet
<1>5. ListInv
  BY <1>1, <1>3, <1>4 DEF ListInv, Apart, ListIntact
<1>6. MainAt
  BY <1>1 DEF MainAt, Steps, HoldsStep, Done
<1>7. TransmitterAt
  BY <1>1 DEF TransmitterAt
<1>8. Ran
  BY <1>1 DEF Ran
<1>9. Registering
  BY <1>1, <1>2, ClientsFinite DEF Registering
<1>10. OnlyCurrent /\ Cooled
  <2>1. Active = 0
    BY <1>3, SuccessIs DEF Active
  <2> QED  BY <1>1, <1>3, <2>1 DEF OnlyCurrent, Cooled
<1>11. FdInv
  <2>1. 0..3 \subseteq Fd /\ \A f \in Fd : f \in Nat /\ f # -1
    BY FdIs
  <2>2. \A f \in Fd : owner[f] \in {"std", "free"}
    BY <1>1
  <2>3. \A f \in 0..3 : owner[f] = "std"
    BY <1>1, <2>1
  <2>4. FdTyped
    BY <1>1 DEF FdTyped
  <2>5. Standard /\ NotOthers
    BY <1>1, <1>3, <2>3 DEF Standard, NotOthers
  <2>6. LeakFree
    BY <2>2, NotADevice DEF LeakFree
  <2>7. OwnLinks /\ OwnGps /\ OwnNew
    BY <1>1, <1>3 DEF OwnLinks, OwnGps, OwnNew
  <2> QED  BY <2>4, <2>5, <2>6, <2>7 DEF FdInv
<1> QED  BY <1>5, <1>6, <1>7, <1>8, <1>9, <1>10, <1>11 DEF LinksInv

LEMMA NextInv ==
  ASSUME LinksInv, [LinksNext]_linkVars
  PROVE  LinksInv' /\ (PauseOutlasts /\ Cooled => Cooled')
<1>1. CASE BringUp
  BY <1>1, BringUpInv
<1>2. CASE NoDevice
  BY <1>2, NoDeviceInv
<1>3. CASE StartRegistration
  BY <1>3, StartRegistrationInv
<1>4. CASE DeviceRegist
  BY <1>4, DeviceRegistInv
<1>5. CASE JoinRegistration
  BY <1>5, JoinInv
<1>6. CASE LinkStep
  BY <1>6, LinkStepInv, LinkStepCooled
<1>7. CASE Gps
  BY <1>7, GpsInv
<1>8. CASE UNCHANGED linkVars
  BY <1>8, StutterInv
<1> QED
  BY <1>1, <1>2, <1>3, <1>4, <1>5, <1>6, <1>7, <1>8 DEF LinksNext, LinkStep

LEMMA Invariant == LinksSpec => []LinksInv
<1>1. LinksInit => LinksInv
  BY InitInv
<1>2. LinksInv /\ [LinksNext]_linkVars => LinksInv'
  BY NextInv
<1> QED  BY <1>1, <1>2, PTL DEF LinksSpec

-----------------------------------------------------------------------------
(* Whatever comes up or fails, and however often a link is reopened, the    *)
(* list holds every client that came up exactly once, with its callback     *)
(* (communica_manage.cpp, device_init.cpp).                                 *)
THEOREM ListStaysSound == LinksSpec => []ListIntact
<1>1. LinksInv => ListIntact
  BY DEF LinksInv, ListInv
<1> QED  BY <1>1, Invariant, PTL

(* trans_message uses no link but the one on which the gateway registered   *)
(* the process: setEnable is called for that device alone, found by its     *)
(* place in a sorted copy of the list (regist_manage.cpp:318).              *)
THEOREM OnlyRegisteredLinkUsed == LinksSpec => []RegisteredIsUsed
<1>1. ASSUME LinksInv PROVE RegisteredIsUsed
  <2> SUFFICES ASSUME NEW i \in DOMAIN nodes, nodes[i].enabled
               PROVE  /\ state = "Success" /\ id # "FF" /\ nodes[i].dev = Current
                      /\ requests[size] > 0 /\ confirms > 0
                      /\ \A j \in DOMAIN nodes : nodes[j].enabled => j = i
    BY DEF RegisteredIsUsed
  <2>1. /\ \A j \in DOMAIN nodes : nodes[j].enabled => nodes[j].dev = Current
        /\ state = "Success"
    BY <1>1 DEF LinksInv, OnlyCurrent
  <2>2. \A j, k \in DOMAIN nodes : nodes[j].dev = nodes[k].dev => j = k
    BY <1>1 DEF LinksInv, ListInv, Apart
  <2>3. id # "FF" /\ requests[size] > 0 /\ confirms > 0
    BY <1>1, <2>1 DEF LinksInv, Registering
  <2> QED  BY <2>1, <2>2, <2>3
<1> QED  BY <1>1, Invariant, PTL

(* No strategy of the bring-up and no failed reinitialisation leaves a      *)
(* descriptor behind (device_init.cpp, tcp_client.cpp).                     *)
THEOREM NoDescriptorLeaks == LinksSpec => []NothingLeaks
<1>1. LinksInv => NothingLeaks
  BY DEF LinksInv, FdInv, Held, LeakFree, NothingLeaks
<1> QED  BY <1>1, Invariant, PTL

(* Every node of the list names a descriptor of its own link, as long as    *)
(* no close hit the port of the GPS thread.                                *)
THEOREM LinksKeepTheirDescriptor == LinksSpec => []EnabledFdHeld
<1>1. LinksInv => EnabledFdHeld
  BY DEF LinksInv, FdInv, Held, OwnLinks, EnabledFdHeld
<1> QED  BY <1>1, Invariant, PTL

(* Where the pause of trans_message is longer than the cool-down, as with   *)
(* the defaults, the breaker refuses no attempt to reopen the link, however *)
(* many of them failed (message_transmitter.cpp:128, circuit_breaker.h).    *)
THEOREM AttemptsAreNotRefused ==
  ASSUME PauseOutlasts
  PROVE  LinksSpec => []NeverRefused
<1> DEFINE Both == LinksInv /\ Cooled
<1>1. LinksInit => Both
  BY InitInv
<1>2. Both /\ [LinksNext]_linkVars => Both'
  BY NextInv
<1>3. ASSUME Both PROVE NeverRefused
  <2>1. C!Active = Active /\ \A b : C!Allows(b) = Allows(b)
    BY CommIs DEF C!Allows, Allows
  <2>2. pc # "select" => Active # 0
    BY <1>3 DEF LinksInv, TransmitterAt
  <2>3. pc = "reinit" => Allows(nodes[Active].breaker)
    BY <1>3, <2>2 DEF Cooled
  <2> QED  BY <2>1, <2>3 DEF NeverRefused, C!NeverRefused
<1> HIDE DEF Both
<1> QED  BY <1>1, <1>2, <1>3, PTL DEF LinksSpec

-----------------------------------------------------------------------------
(* The bring-up comes to its end. *)

(* Descent of three numbers, by the first that changes. *)
LEMMA ThreeGoDown ==
  ASSUME NEW a \in Nat, NEW b \in Nat, NEW c \in Nat,
         NEW a1 \in Nat, NEW b1 \in Nat, NEW c1 \in Nat,
         \/ a1 < a
         \/ a1 = a /\ b1 < b
         \/ a1 = a /\ b1 = b /\ c1 < c
  PROVE  GoesDown(<<a1, b1, c1>>, <<a, b, c>>)
<1> DEFINE p == <<a1, b1, c1>>
           q == <<a, b, c>>
<1>1. /\ DOMAIN q = 1..3 /\ q[1] = a /\ q[2] = b /\ q[3] = c
      /\ p[1] = a1 /\ p[2] = b1 /\ p[3] = c1
  OBVIOUS
<1> HIDE DEF p, q
<1>2. \A i \in 1..3 : i = 1 \/ i = 2 \/ i = 3
  OBVIOUS
<1>3. \A i \in 1..3 : p[i] \in Nat /\ q[i] \in Nat
  BY <1>1, <1>2
<1>4. ASSUME NEW i \in 1..3, p[i] < q[i], \A j \in 1..3 : j < i => p[j] = q[j]
      PROVE  GoesDown(p, q)
  <2>1. \A j \in 1..(i - 1) : j \in 1..3 /\ j < i
    OBVIOUS
  <2>2. LexLess(p, q)
    BY <1>1, <1>4, <2>1 DEF LexLess
  <2> QED  BY <1>1, <1>3, <2>2 DEF GoesDown
<1>5. \A j \in 1..3 : ~(j < 1) /\ (j < 2 => j = 1) /\ (j < 3 => j \in {1, 2})
  OBVIOUS
<1>6. \E i \in 1..3 : p[i] < q[i] /\ \A j \in 1..3 : j < i => p[j] = q[j]
  <2>1. CASE a1 < a
    BY <1>1, <1>5, <2>1
  <2>2. CASE a1 = a /\ b1 < b
    BY <1>1, <1>5, <2>2
  <2>3. CASE a1 = a /\ b1 = b /\ c1 < c
    BY <1>1, <1>5, <2>3
  <2> QED  BY <2>1, <2>2, <2>3
<1>7. GoesDown(p, q)
  BY <1>4, <1>6
<1> QED  BY <1>7 DEF p, q

(* Attempts are left wherever one is made.                                 *)
Attempting ==
  /\ tries \in Nat /\ lines \in 0..1
  /\ phase = "bringUp" =>
       /\ step = "dial" => Dev = "cell4g"
       /\ step \in {"dial", "scan"} => tries > 0
       /\ step = "open" /\ Dev = "bt" => tries > 0

LEMMA RetryCounts ==
  /\ PortTries \in Nat /\ PortTries > 0 /\ ScanTries \in Nat /\ ScanTries > 0
  /\ DialTries \in Nat /\ DialTries > 0
BY InitAssumption DEF InitAssumption

(* What a step of dev_init does to tries, lines and step.                   *)
LEMMA MainStepFalls ==
  ASSUME MainAt, Attempting, phase = "bringUp", phase' = "bringUp", MainStep
  PROVE  /\ Attempting' /\ cur <= Len(Strategies) /\ cur' \in {cur, cur + 1}
         /\ Stage \in Nat /\ Stage' \in Nat
         /\ \/ ScanLine
            \/ cur' = cur + 1
            \/ cur' = cur /\ Stage' < Stage
            \/ cur' = cur /\ Stage' = Stage /\ tries' < tries
<1> DEFINE Falls ==
             \/ ScanLine
             \/ cur' = cur + 1
             \/ cur' = cur /\ Stage' < Stage
             \/ cur' = cur /\ Stage' = Stage /\ tries' < tries
           Tried ==
             /\ tries' \in Nat /\ lines' \in 0..1
             /\ step' = "dial" => Dev' = "cell4g"
             /\ step' \in {"dial", "scan"} => tries' > 0
             /\ step' = "open" /\ Dev' = "bt" => tries' > 0
           Goal == Tried /\ cur <= Len(Strategies) /\ cur' \in {cur, cur + 1} /\ Falls
<1>s. Stage \in Nat /\ Stage' \in Nat
  BY DEF Stage
<1>r. /\ PortTries \in Nat /\ PortTries > 0 /\ ScanTries \in Nat /\ ScanTries > 0
      /\ DialTries \in Nat /\ DialTries > 0
  BY RetryCounts
<1>t. tries \in Nat /\ lines \in 0..1
  BY DEF Attempting
<1> SUFFICES Goal
  BY <1>s DEF Attempting
<1> USE DEF Running
<1>1. CASE Begin
  <2>1. /\ cur' = cur /\ cur <= Len(Strategies) /\ lines' = lines /\ step = "begin"
        /\ tries' \in {PortTries, DialTries, 1} /\ step' \in {"dial", "open"}
        /\ step' = "dial" => Dev' = "cell4g"
    BY <1>1 DEF Begin, Dev
  <2>2. tries' \in Nat /\ tries' > 0
    BY <1>r, <2>1
  <2>3. Tried
    BY <1>t, <2>1, <2>2
  <2>4. Stage' < Stage
    BY <2>1 DEF Stage
  <2> QED  BY <2>1, <2>3, <2>4
<1>2. ASSUME NEW a \in BOOLEAN, Dial(a) PROVE Goal
  <2>1. /\ cur' = cur /\ cur <= Len(Strategies) /\ lines' = lines /\ step = "dial"
        /\ tries' = tries - 1 /\ tries > 0 /\ Dev' = "cell4g"
        /\ \/ step' = "open" \/ step' = "failed"
           \/ step' = "dial" /\ tries # 1
    BY <1>2 DEF Dial, Attempting, Dev
  <2>2. tries' \in Nat /\ tries' < tries /\ (step' = "dial" => tries' > 0)
    BY <1>t, <2>1
  <2>4. Stage' < Stage \/ Stage' = Stage
    BY <2>1 DEF Stage
  <2>8. Tried
    BY <1>t, <2>1, <2>2, <2>4
  <2>9. Falls
    BY <1>t, <2>1, <2>2, <2>4
  <2> QED  BY <1>t, <2>1, <2>2, <2>4, <2>8, <2>9
<1>3. CASE Open
  <2>1. /\ cur' = cur /\ cur <= Len(Strategies) /\ UNCHANGED <<tries, lines>>
        /\ step = "open" /\ step' \in {"link", "setOpt"}
    BY <1>3 DEF Open
  <2>2. Stage' < Stage
    BY <2>1 DEF Stage
  <2>8. Tried
    BY <1>t, <2>1, <2>2
  <2>9. Falls
    BY <1>t, <2>1, <2>2
  <2> QED  BY <1>t, <2>1, <2>2, <2>8, <2>9
<1>4. CASE OpenFails
  <2>1. /\ cur' = cur /\ cur <= Len(Strategies) /\ lines' = lines /\ step = "open"
        /\ tries' = (IF Dev = "bt" THEN tries - 1 ELSE 0)
        /\ step' = (IF tries' = 0 THEN "failed" ELSE "open")
        /\ Dev = "bt" => tries > 0
    BY <1>4 DEF OpenFails, Attempting
  <2>2. tries' \in Nat /\ (Dev = "bt" => tries' < tries)
    BY <1>t, <2>1
  <2>3. Dev' = Dev
    BY <2>1 DEF Dev
  <2>4. CASE tries' = 0
    <3>1. step' = "failed"
      BY <2>1, <2>4
    <3>2. Stage' < Stage
      BY <2>1, <3>1 DEF Stage
    <3>8. Tried
      BY <1>t, <2>1, <2>2, <3>1, <3>2
    <3>9. Falls
      BY <1>t, <2>1, <2>2, <3>1, <3>2
    <3> QED  BY <1>t, <2>1, <2>2, <3>1, <3>2, <3>8, <3>9
  <2>5. CASE tries' # 0
    <3>1. step' = "open" /\ Dev = "bt"
      BY <2>1, <2>5
    <3>2. Stage' = Stage
      BY <2>1, <3>1 DEF Stage
    <3>8. Tried
      BY <1>t, <2>1, <2>2, <2>5, <3>1, <3>2
    <3>9. Falls
      BY <1>t, <2>1, <2>2, <2>5, <3>1, <3>2
    <3> QED  BY <1>t, <2>1, <2>2, <2>5, <3>1, <3>2, <3>8, <3>9
  <2> QED  BY <2>4, <2>5
<1>5. CASE SetOpt \/ Link \/ LinkFails \/ CloseAgain
  <2>1. /\ cur' = cur /\ cur <= Len(Strategies) /\ UNCHANGED <<tries, lines>>
        /\ \/ step \in {"setOpt", "link"} /\ step' \in {"reset", "works", "closeAgain", "failed"}
           \/ step = "closeAgain" /\ step' = "failed"
    BY <1>5 DEF SetOpt, Link, LinkFails, CloseAgain
  <2>2. Stage' < Stage
    BY <2>1 DEF Stage
  <2>8. Tried
    BY <1>t, <2>1, <2>2
  <2>9. Falls
    BY <1>t, <2>1, <2>2
  <2> QED  BY <1>t, <2>1, <2>2, <2>8, <2>9
<1>6. CASE StartScan
  <2>1. /\ cur' = cur /\ cur <= Len(Strategies) /\ tries' = ScanTries /\ lines' = 0
        /\ step = "reset" /\ step' = "scan"
    BY <1>6 DEF StartScan
  <2>2. Stage' < Stage
    BY <2>1 DEF Stage
  <2>8. Tried
    BY <1>r, <2>1, <2>2
  <2>9. Falls
    BY <1>r, <2>1, <2>2
  <2> QED  BY <1>r, <2>1, <2>2, <2>8, <2>9
<1>7. CASE ScanTimeout
  <2>1. /\ cur' = cur /\ cur <= Len(Strategies) /\ lines' = lines /\ step = "scan"
        /\ tries' = tries - 1 /\ tries > 0
        /\ step' = (IF tries' = 0 THEN "giveUp" ELSE "scan")
    BY <1>7 DEF ScanTimeout, Attempting
  <2>2. tries' \in Nat /\ tries' < tries /\ (step' = "scan" => tries' > 0)
    BY <1>t, <2>1
  <2>3. Stage' < Stage \/ Stage' = Stage
    BY <2>1 DEF Stage
  <2>8. Tried
    BY <1>t, <2>1, <2>2, <2>3
  <2>9. Falls
    BY <1>t, <2>1, <2>2, <2>3
  <2> QED  BY <1>t, <2>1, <2>2, <2>3, <2>8, <2>9
<1>8. CASE ScanLine
  <2>1. /\ cur' = cur /\ cur <= Len(Strategies) /\ UNCHANGED <<tries, step>>
        /\ step = "scan" /\ lines' = 1 - lines /\ tries > 0
    BY <1>8 DEF ScanLine, Attempting
  <2>2. lines' \in 0..1
    BY <1>t, <2>1
  <2>3. Tried
    BY <1>t, <2>1, <2>2
  <2> QED  BY <1>8, <2>1, <2>3
<1>9. CASE ScanFinds \/ BtFails \/ GiveUp
  <2>1. /\ cur' = cur /\ cur <= Len(Strategies) /\ UNCHANGED <<tries, lines>>
        /\ \/ step \in {"reset", "scan"} /\ step' \in {"works", "giveUp"}
           \/ step = "giveUp" /\ step' = "failed"
    BY <1>9 DEF ScanFinds, BtFails, GiveUp
  <2>2. Stage' < Stage
    BY <2>1 DEF Stage
  <2>8. Tried
    BY <1>t, <2>1, <2>2
  <2>9. Falls
    BY <1>t, <2>1, <2>2
  <2> QED  BY <1>t, <2>1, <2>2, <2>8, <2>9
<1>10. CASE Register \/ Failed
  <2>1. /\ cur' = cur + 1 /\ cur <= Len(Strategies) /\ UNCHANGED <<tries, lines>>
        /\ step' = "begin"
    BY <1>10 DEF Register, Failed, NextStrategy
  <2>8. Tried
    BY <1>t, <2>1
  <2>9. Falls
    BY <1>t, <2>1
  <2> QED  BY <1>t, <2>1, <2>8, <2>9
<1> QED
  BY <1>1, <1>2, <1>3, <1>4, <1>5, <1>6, <1>7, <1>8, <1>9, <1>10 DEF MainStep, BtStep

LEMMA AttemptingNext ==
  ASSUME LinksInv, Attempting, [LinksNext]_linkVars
  PROVE  Attempting'
<1>1. CASE BringUp
  <2>1. phase = "bringUp" /\ phase' = "bringUp" /\ MainStep /\ MainAt
    BY <1>1 DEF BringUp, LinksInv
  <2> QED  BY <2>1, MainStepFalls
<1>2. CASE StartRegistration
  <2>1. tries' = 0 /\ lines' = 0 /\ phase' = "regist"
    BY <1>2 DEF StartRegistration
  <2> QED  BY <2>1, RetryCounts DEF Attempting
<1>3. CASE ~BringUp /\ ~StartRegistration
  <2>1. UNCHANGED <<tries, lines, step, cur>> /\ (phase' = "bringUp" => phase = "bringUp")
    BY <1>3
    DEF LinksNext, NoDevice, DeviceRegist, JoinRegistration, Transmitter, Gps, GpsOpens,
        GpsCloses, linkVars, vars, initVars
  <2> QED  BY <2>1 DEF Attempting, Dev
<1> QED  BY <1>1, <1>2, <1>3

(* The bring-up is over after a bounded number of steps, for any devices    *)
(* and any retry counts, but for the lines a Bluetooth module sends in its  *)
(* scan: what a loop inside a strategy resets is paid for by the strategies *)
(* that are left, the stage of this one or its attempts (device_init.cpp,   *)
(* bluetooth.cpp:170, de_cell4g.cpp).                                       *)
THEOREM StrategiesEnd == LinksSpec => StrategiesRunOut
<1> DEFINE Both == LinksInv /\ Attempting
           Step == [BringUp => GoesDown(Left', Left) \/ ScanLine]_linkVars
<1>1. LinksInit => Both
  <2>1. ASSUME LinksInit PROVE Attempting
    <3>1. tries = 0 /\ lines = 0 /\ step = "begin"
      BY <2>1 DEF LinksInit, Init
    <3> QED  BY <3>1, RetryCounts DEF Attempting
  <2> QED  BY <2>1, InitInv
<1>2. Both /\ [LinksNext]_linkVars => Both'
  BY NextInv, AttemptingNext
<1>3. ASSUME Both, Both', BringUp, ~ScanLine PROVE GoesDown(Left', Left)
  <2>1. /\ phase = "bringUp" /\ phase' = "bringUp" /\ MainStep /\ MainAt /\ Attempting
        /\ Attempting'
    BY <1>3 DEF BringUp, LinksInv
  <2>2. /\ cur <= Len(Strategies) /\ cur' \in {cur, cur + 1}
        /\ Stage \in Nat /\ Stage' \in Nat
        /\ \/ cur' = cur + 1
           \/ cur' = cur /\ Stage' < Stage
           \/ cur' = cur /\ Stage' = Stage /\ tries' < tries
    BY <1>3, <2>1, MainStepFalls
  <2>3. PICK n \in Nat : n = Len(Strategies)
    BY StrategiesAre, LenProperties DEF Strand
  <2>4. cur \in Nat /\ tries \in Nat /\ tries' \in Nat
    BY <2>1 DEF MainAt, Attempting
  <2>5. n + 1 - cur \in Nat /\ n + 1 - cur' \in Nat
    BY <2>2, <2>3, <2>4
  <2>6. n + 1 - (cur + 1) < n + 1 - cur
    BY <2>3, <2>4
  <2>7. \/ n + 1 - cur' < n + 1 - cur
        \/ n + 1 - cur' = n + 1 - cur /\ Stage' < Stage
        \/ n + 1 - cur' = n + 1 - cur /\ Stage' = Stage /\ tries' < tries
    BY <2>2, <2>6, Zenon
  <2>8. GoesDown(<<n + 1 - cur', Stage', tries'>>, <<n + 1 - cur, Stage, tries>>)
    BY <2>2, <2>4, <2>5, <2>7, ThreeGoDown
  <2> QED  BY <2>3, <2>8 DEF Left
<1>4. Both /\ Both' => Step
  BY <1>3
<1> HIDE DEF Both, Step
<1>5. LinksSpec => []Both
  BY <1>1, <1>2, PTL DEF LinksSpec
<1>6. QED
  BY <1>4, <1>5, PTL DEF StrategiesRunOut, Step

-----------------------------------------------------------------------------
(* Every variable has its type. *)

(* The counters of the registration stay within their limits: what a listen *)
(* or an attempt adds was below the limit before.                          *)
Counting ==
  /\ R!RegistTypeOK
  /\ state = "WaitForIdle" => myCount < IdleLimit /\ select_num <= myCount + 1
  /\ state \notin {"SelectChannel", "Failed"} => regist_num < RegistLimit

Pcs == {"select", "reinit", "open", "connect", "closeNew", "closeAgain",
        "closeOld", "fail", "succeed", "pause"}

Elsewhere ==
  /\ cur <= Len(Strategies) + 1 /\ serverFd \in Fd \union {-1}
  /\ pc \in Pcs /\ down \in BOOLEAN /\ delay \in 1..30
  /\ pc # "select" => down

LEMMA RegistLimits ==
  /\ RegistLimit \in Nat /\ RegistLimit >= 2
  /\ IdleLimit \in Nat \ {0} /\ Retry17 \in Nat \ {0} /\ ListenNum \in Nat \ {0}
  /\ Cardinality(Clients) \in Nat \ {0}
BY LinksAssumption DEF R!RegistrationAssumption

LEMMA ADevice ==
  /\ Cardinality(Clients) - 1 \in R!Device /\ -1 \notin R!Device
  /\ \A d \in R!Device : d \in Int /\ d # -1 /\ ~(d < 0) /\ d - 1 \in R!Device \union {-1}
BY RegistLimits DEF R!Device

LEMMA CountingStep ==
  ASSUME Counting, R!RegistNext
  PROVE  Counting'
<1>l. /\ RegistLimit \in Nat /\ RegistLimit >= 2
      /\ IdleLimit \in Nat \ {0} /\ Retry17 \in Nat \ {0} /\ ListenNum \in Nat \ {0}
  BY RegistLimits
<1>t. /\ size \in R!Device \union {-1} /\ regist_num \in 1..RegistLimit
      /\ requests \in [R!Device -> Nat] /\ confirms \in Nat
      /\ state # "Failed" => size \in R!Device
  BY DEF Counting, R!RegistTypeOK
<1>1. CASE R!SelectChannel
  <2>1. /\ state = "SelectChannel" /\ size \in R!Device
        /\ UNCHANGED <<retry, listen_num, id, enabled, requests, confirms>>
        /\ \/ /\ regist_num = RegistLimit /\ regist_num' = 1
              /\ size' = size - 1
           \/ /\ regist_num # RegistLimit /\ regist_num' = regist_num
              /\ size' = size
        /\ \/ /\ size' < 0 /\ state' = "Failed" /\ UNCHANGED <<select_num, myCount>>
           \/ /\ ~(size' < 0) /\ state' = "WaitForIdle"
              /\ select_num' = 1 /\ myCount' = 0
    BY <1>1, <1>t DEF R!SelectChannel, R!NextDevice
  <2>2. /\ size' \in R!Device \union {-1} /\ (~(size' < 0) => size' # -1)
        /\ regist_num' \in 1..RegistLimit /\ regist_num' < RegistLimit
    BY <1>l, <1>t, <2>1, ADevice
  <2>3. R!RegistTypeOK'
    BY <1>l, <2>1, <2>2 DEF Counting, R!RegistTypeOK
  <2> QED  BY <1>l, <2>1, <2>2, <2>3 DEF Counting
<1>2. ASSUME NEW o \in R!Heard, R!ListenIdle(o) PROVE Counting'
  <2>1. /\ state = "WaitForIdle" /\ size \in R!Device
        /\ myCount < IdleLimit /\ select_num <= myCount + 1
        /\ myCount \in Nat /\ select_num \in Nat /\ select_num >= 1
        /\ regist_num < RegistLimit
    BY <1>2, <1>t DEF R!ListenIdle, Counting, R!RegistTypeOK
  <2>2. /\ myCount' = myCount + 1
        /\ select_num' = select_num \/ select_num' = select_num + 1
        /\ \/ state' = "Failed"
           \/ state' = "SendRegister"
           \/ state' = "WaitForIdle" /\ myCount' < IdleLimit
        /\ UNCHANGED <<size, regist_num, retry, listen_num, id, enabled, requests,
                       confirms>>
    BY <1>2, <1>l, <2>1 DEF R!ListenIdle
  <2>3. R!RegistTypeOK'
    BY <1>l, <2>1, <2>2 DEF Counting, R!RegistTypeOK
  <2> QED  BY <2>1, <2>2, <2>3 DEF Counting
<1>3. ASSUME NEW ok \in BOOLEAN, R!SendRegister(ok) PROVE Counting'
  <2>1. /\ state = "SendRegister" /\ size \in R!Device /\ regist_num < RegistLimit
        /\ requests' = [requests EXCEPT ![size] = @ + 1]
        /\ UNCHANGED <<size, myCount, listen_num, id, enabled, confirms>>
    BY <1>3, <1>t DEF R!SendRegister, Counting
  <2>2. requests' \in [R!Device -> Nat]
    BY <1>t, <2>1
  <2>3. \/ /\ state' = "WaitFor17" /\ retry' = Retry17
           /\ UNCHANGED <<select_num, regist_num>>
        \/ /\ state' = "SelectChannel" /\ select_num' = 1 /\ regist_num' = regist_num + 1
           /\ UNCHANGED retry
    BY <1>3 DEF R!SendRegister, R!TryAgain
  <2>4. R!RegistTypeOK'
    BY <1>l, <1>t, <2>1, <2>2, <2>3 DEF Counting, R!RegistTypeOK
  <2> QED  BY <2>1, <2>3, <2>4 DEF Counting
<1>4. ASSUME NEW answer \in {"nothing", "FF", "01"}, R!Listen17(answer) PROVE Counting'
  <2>1. /\ state = "WaitFor17" /\ retry' \in 0..Retry17 /\ id' \in {"FF", "01"}
        /\ UNCHANGED <<state, size, regist_num, select_num, myCount, listen_num,
                       enabled, requests, confirms>>
    BY <1>4, <1>l DEF R!Listen17, R!history, Counting, R!RegistTypeOK
  <2> QED  BY <2>1 DEF Counting, R!RegistTypeOK
<1>5. CASE R!Judge17
  <2>1. /\ state = "WaitFor17" /\ size \in R!Device /\ regist_num < RegistLimit
        /\ UNCHANGED <<size, myCount, retry, listen_num, id, enabled, requests, confirms>>
    BY <1>5, <1>t DEF R!Judge17, R!history, Counting
  <2>2. \/ state' = "SendConfirm" /\ UNCHANGED <<select_num, regist_num>>
        \/ state' = "SelectChannel" /\ select_num' = 1 /\ regist_num' = regist_num + 1
    BY <1>5 DEF R!Judge17, R!TryAgain
  <2>3. R!RegistTypeOK'
    BY <1>l, <1>t, <2>1, <2>2 DEF Counting, R!RegistTypeOK
  <2> QED  BY <2>1, <2>2, <2>3 DEF Counting
<1>6. CASE R!SendConfirm
  <2>1. /\ state = "SendConfirm" /\ size \in R!Device /\ regist_num < RegistLimit
        /\ confirms' = confirms + 1 /\ listen_num' = ListenNum
        /\ state' = "WaitForTimestamp"
        /\ UNCHANGED <<size, regist_num, select_num, myCount, retry, id, enabled,
                       requests>>
    BY <1>6, <1>t DEF R!SendConfirm, Counting
  <2> QED  BY <1>l, <1>t, <2>1 DEF Counting, R!RegistTypeOK
<1>7. ASSUME NEW valid \in BOOLEAN, R!ListenTimestamp(valid) PROVE Counting'
  <2>1. /\ state = "WaitForTimestamp" /\ size \in R!Device
        /\ listen_num' \in 0..ListenNum
        /\ \/ state' = "Success" /\ enabled' = enabled \union {size}
           \/ UNCHANGED <<state, enabled>>
        /\ UNCHANGED <<size, regist_num, select_num, myCount, retry, id, requests,
                       confirms>>
    BY <1>7, <1>t, <1>l DEF R!ListenTimestamp, R!history, Counting, R!RegistTypeOK
  <2> QED  BY <2>1 DEF Counting, R!RegistTypeOK
<1>8. CASE R!JudgeTimestamp
  <2>1. /\ state = "WaitForTimestamp" /\ size \in R!Device /\ regist_num < RegistLimit
        /\ regist_num' = regist_num + 1
        /\ \/ state' = "Failed" /\ UNCHANGED listen_num
           \/ /\ state' = "SendConfirm" /\ listen_num' = ListenNum
              /\ ~(regist_num' >= RegistLimit)
        /\ UNCHANGED <<size, select_num, myCount, retry, id, enabled, requests, confirms>>
    BY <1>8, <1>t DEF R!JudgeTimestamp, R!history, Counting
  <2> QED  BY <1>l, <1>t, <2>1 DEF Counting, R!RegistTypeOK
<1> QED
  BY <1>1, <1>2, <1>3, <1>4, <1>5, <1>6, <1>7, <1>8 DEF R!RegistNext

LEMMA CountingNext ==
  ASSUME LinksInv, Counting, [LinksNext]_linkVars
  PROVE  Counting'
<1>1. CASE StartRegistration
  <2>1. /\ ListInv /\ Len(nodes) \in Nat /\ Len(nodes) <= Cardinality(Clients)
        /\ nodes # <<>> /\ nodes \in Seq(Node)
    BY <1>1, NodesAre DEF LinksInv, StartRegistration
  <2>2. Len(nodes) # 0
    BY <2>1, EmptySeq, Zenon
  <2>3. Len(nodes) - 1 \in R!Device /\ Len(nodes) - 1 # -1
    BY <2>1, <2>2, RegistLimits DEF R!Device
  <2>4. R!RegistStarts(Len(nodes))
    BY <1>1, <2>1, SortedLen DEF StartRegistration
  <2> QED  BY <2>3, <2>4, RegistLimits DEF R!RegistStarts, Counting, R!RegistTypeOK
<1>2. CASE DeviceRegist
  BY <1>2, CountingStep DEF DeviceRegist
<1>3. CASE JoinRegistration
  <2>1. /\ state \in {"Success", "Failed"}
        /\ regist_num' = 1 /\ select_num' = 1 /\ myCount' = 0
        /\ retry' = 0 /\ listen_num' = 0
        /\ UNCHANGED <<state, size, id, enabled, requests, confirms>>
    BY <1>3 DEF JoinRegistration, R!Ended
  <2> QED  BY <2>1, RegistLimits DEF Counting, R!RegistTypeOK
<1>4. CASE ~StartRegistration /\ ~DeviceRegist /\ ~JoinRegistration
  <2>1. UNCHANGED registVars
    BY <1>4 DEF LinksNext, BringUp, NoDevice, Transmitter, Gps, linkVars
  <2> QED  BY <2>1 DEF registVars, Counting, R!RegistTypeOK
<1> QED  BY <1>1, <1>2, <1>3, <1>4

LEMMA ReopenTypes ==
  ASSUME pc \in Pcs, down \in BOOLEAN, delay \in 1..30, pc # "select" => down,
         C!NoLink \/ C!LinkEnds \/ C!Reinit
  PROVE  pc' \in Pcs /\ down' \in BOOLEAN /\ delay' \in 1..30 /\ (pc' # "select" => down')
<1> USE DEF Pcs
<1>1. CASE C!NoLink
  BY <1>1 DEF C!NoLink
<1>2. CASE C!LinkEnds
  BY <1>2 DEF C!LinkEnds
<1>3. CASE C!Begin
  BY <1>3 DEF C!Begin
<1>4. CASE C!Open
  BY <1>4 DEF C!Open
<1>5. CASE C!OpenFails
  BY <1>5 DEF C!OpenFails
<1>6. CASE C!Connect
  BY <1>6 DEF C!Connect
<1>7. CASE C!ConnectFails
  BY <1>7 DEF C!ConnectFails
<1>8. CASE C!CloseNew
  BY <1>8 DEF C!CloseNew
<1>9. CASE C!CloseAgain
  BY <1>9 DEF C!CloseAgain
<1>10. CASE C!CloseOld
  BY <1>10 DEF C!CloseOld
<1>11. CASE C!Fail
  BY <1>11 DEF C!Fail
<1>12. CASE C!Succeed
  BY <1>12 DEF C!Succeed
<1>13. CASE C!Pause
  BY <1>13 DEF C!Pause
<1> QED
  BY <1>1, <1>2, <1>3, <1>4, <1>5, <1>6, <1>7, <1>8, <1>9, <1>10, <1>11, <1>12, <1>13
  DEF C!Reinit

LEMMA ElsewhereNext ==
  ASSUME LinksInv, Attempting, Elsewhere, [LinksNext]_linkVars
  PROVE  Elsewhere'
<1>1. CASE BringUp
  <2>1. /\ phase = "bringUp" /\ phase' = "bringUp" /\ MainStep /\ MainAt
        /\ newFd \in Fd \union {-1} /\ UNCHANGED <<pc, down, delay>>
    BY <1>1 DEF BringUp, LinksInv, FdInv, FdTyped, commVars
  <2>2. cur <= Len(Strategies) /\ cur' \in {cur, cur + 1}
    BY <2>1, MainStepFalls
  <2>3. PICK n \in Nat : n = Len(Strategies)
    BY StrategiesAre, LenProperties DEF Strand
  <2>4. cur' <= n + 1
    BY <2>1, <2>2, <2>3 DEF MainAt
  <2>5. serverFd' \in {serverFd, newFd}
    BY <2>1, MainSteps
    DEF KeepsFd, TakesFd, ClosesFd, Register, Failed, registry
  <2> QED  BY <2>1, <2>3, <2>4, <2>5 DEF Elsewhere
<1>2. CASE LinkStep
  <2>1. TransmitterFrame /\ (C!NoLink \/ C!LinkEnds \/ C!Reinit)
    BY <1>2, LinkStepIs
  <2> QED  BY <2>1, ReopenTypes DEF Elsewhere, TransmitterFrame
<1>3. CASE ~BringUp /\ ~LinkStep
  <2>1. UNCHANGED <<cur, serverFd, pc, down, delay>>
    BY <1>3
    DEF LinksNext, LinkStep, NoDevice, StartRegistration, DeviceRegist, JoinRegistration,
        Gps, GpsOpens, GpsCloses, linkVars, vars, initVars, commVars, registry
  <2> QED  BY <2>1 DEF Elsewhere
<1> QED  BY <1>1, <1>2, <1>3

(* No variable of the composition leaves its type, in any phase: the        *)
(* descriptors are those of the table, the list of strategies is not read   *)
(* beyond its end, no counter of the registration passes its limit and the  *)
(* delay of send_mess stays within 30 s (device_init.cpp, regist_manage.cpp, *)
(* message_transmitter.cpp).                                               *)
THEOREM TypeCorrect == LinksSpec => []LinksTypeOK
<1> DEFINE All == LinksInv /\ Attempting /\ Counting /\ Elsewhere
<1>1. ASSUME LinksInit PROVE All
  <2>1. /\ tries = 0 /\ lines = 0 /\ step = "begin" /\ cur = 1 /\ serverFd = -1
        /\ pc = "select" /\ down = FALSE /\ delay = 1
    BY <1>1 DEF LinksInit, Init
  <2>2. Attempting
    BY <2>1, RetryCounts DEF Attempting
  <2>3. Counting
    BY <1>1, RegistLimits, ADevice
    DEF LinksInit, R!RegistInit, Counting, R!RegistTypeOK
  <2>4. PICK n \in Nat : n = Len(Strategies)
    BY StrategiesAre, LenProperties DEF Strand
  <2>5. cur <= n + 1 /\ delay \in 1..30 /\ serverFd \in Fd \union {-1}
    BY <2>1
  <2>6. Elsewhere
    BY <2>1, <2>4, <2>5, Zenon DEF Elsewhere, Pcs
  <2> QED  BY <1>1, <2>2, <2>3, <2>6, InitInv
<1>2. All /\ [LinksNext]_linkVars => All'
  BY NextInv, AttemptingNext, CountingNext, ElsewhereNext
<1>3. ASSUME All PROVE LinksTypeOK
  <2>1. PICK n \in Nat : n = Len(Strategies)
    BY StrategiesAre, LenProperties DEF Strand
  <2>2. cur \in 1..(n + 1)
    BY <1>3, <2>1 DEF Elsewhere, LinksInv, MainAt
  <2>3. status \subseteq Device
    <3>1. status \subseteq Clients
      BY <1>3 DEF LinksInv, ListInv, ListIntact
    <3> QED  BY <3>1, InitAssumption DEF InitAssumption, Clients
  <2>4. TypeOK
    BY <1>3, <2>1, <2>2, <2>3
    DEF Elsewhere, Attempting, LinksInv, MainAt, Steps, FdInv, FdTyped, TypeOK
  <2> QED
    BY <1>3, <2>4
    DEF Counting, Elsewhere, Pcs, LinksInv, MainAt, FdInv, FdTyped, LinksTypeOK
<1> HIDE DEF All
<1> QED  BY <1>1, <1>2, <1>3, PTL DEF LinksSpec
=============================================================================
