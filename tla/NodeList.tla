------------------------------- MODULE NodeList -------------------------------
(***************************************************************************)
(* The list of communication devices that communicaManage keeps            *)
(* (infra/communica_manage.cpp): its operations as operators on a sequence *)
(* of nodes.  They run under its mutex.                                    *)
(***************************************************************************)
EXTENDS CircuitBreaker, SequencesExt

(* createAll, in its order; the device id is the position.                 *)
Order == <<"lora", "wifi", "bt", "lan", "lan_server", "cell4g">>
DeviceName == {Order[i] : i \in DOMAIN Order}
Id(dev) == SelectInSeq(Order, LAMBDA d : d = dev)

createComnodeEnabled(dev, fd) ==
  [dev |-> dev, fd |-> fd, enabled |-> TRUE, cb |-> FALSE,
   breaker |-> NewBreaker]

(* A node is not enabled and has no callback; its breaker is new.          *)
createComnode(dev, fd) ==
  [dev |-> dev, fd |-> fd, enabled |-> FALSE, cb |-> FALSE,
   breaker |-> NewBreaker]

(* The position of a device, 0 when it is not in the list.                 *)
findcommunicate(l, dev) == SelectInSeq(l, LAMBDA n : n.dev = dev)

(* At the end, unless the id is there already.                             *)
insertNode(l, node) ==
  IF findcommunicate(l, node.dev) = 0 THEN Append(l, node) ELSE l

deletecommunicateNode(l, dev) ==
  IF findcommunicate(l, dev) = 0 THEN l ELSE RemoveAt(l, findcommunicate(l, dev))

callbackRgist(l, dev, cb) ==
  [i \in DOMAIN l |-> IF l[i].dev = dev THEN [l[i] EXCEPT !.cb = cb] ELSE l[i]]

setEnable(l, dev) ==
  [i \in DOMAIN l |->
     IF l[i].dev = dev THEN [l[i] EXCEPT !.enabled = TRUE] ELSE l[i]]

(* The number of nodes with a smaller id: the place in the sorted list.    *)
Rank(l, i) == Cardinality({j \in DOMAIN l : Id(l[j].dev) < Id(l[i].dev)})

(* Sorted by id.                                                           *)
getALLIfd(l) == [k \in DOMAIN l |-> l[CHOOSE i \in DOMAIN l : Rank(l, i) = k - 1]]

(* getSuccessFd and getSuccessId take the first enabled node.              *)
getSuccess(l) == SelectInSeq(l, LAMBDA n : n.enabled)
=============================================================================
