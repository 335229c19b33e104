----------------------------- MODULE QueueProofs -----------------------------
(***************************************************************************)
(* What Queue promises for any number of producers, consumers and data.    *)
(***************************************************************************)
EXTENDS Queue, FiniteSetTheorems, TLAPS

USE ThreadsAssumption, SpuriousAssumption

ProducerLabels == {"idle", "locking", "linking", "signalling", "exited"}
ConsumerLabels == {"idle", "testing", "waiting", "woken", "unlocking", "exited"}
OwnerLabels    == {"running", "closing", "joining", "freeing", "destroyed"}

\* Who is where: the mutex follows the labels, and only those who wait sleep.
KnownLabels == /\ \A p \in Producers : pc[p] \in ProducerLabels
               /\ \A c \in Consumers : pc[c] \in ConsumerLabels
               /\ pc[Owner] \in OwnerLabels
Sleeping == \A c \in waiters : pc[c] = "waiting"
Joined   == pc[Owner] \in {"freeing", "destroyed"} =>
               \A t \in Threads \ {Owner} : pc[t] = "exited"

Control == KnownLabels /\ MutualExclusion /\ Sleeping /\ Joined

LEMMA ThreadKinds ==
  /\ \A p \in Producers : p \in Threads /\ p \notin Consumers /\ p # Owner /\ p # Null
  /\ \A c \in Consumers : c \in Threads /\ c \notin Producers /\ c # Owner /\ c # Null
  /\ Owner \in Threads /\ Owner # Null
BY DEF Threads

LEMMA InitControl == Init => Control
BY DEF Init, Control, KnownLabels, MutualExclusion, Sleeping, Joined, Threads, InSection,
       ProducerLabels, ConsumerLabels, OwnerLabels

ControlTypes == /\ pc \in [Threads -> Labels]
                /\ lock \in Threads \cup {Null}
                /\ waiters \subseteq Consumers

LEMMA ProducerControl ==
  ASSUME ControlTypes, Control, NEW p \in Producers, Producer(p)
  PROVE  Control' /\ ControlTypes'
<1> USE ThreadKinds DEF Control, ControlTypes, KnownLabels, MutualExclusion, Sleeping, Joined,
        InSection, ProducerLabels, ConsumerLabels, OwnerLabels, Labels, Goto
<1>1. CASE PushAllocate(p)
  BY <1>1 DEF PushAllocate
<1>2. CASE PushNoMemory(p)
  BY <1>2 DEF PushNoMemory
<1>3. CASE PushLock(p)
  BY <1>3 DEF PushLock, MutexFree
<1>4. CASE PushRefuse(p)
  BY <1>4 DEF PushRefuse
<1>5. CASE PushLink(p)
  BY <1>5 DEF PushLink
<1>6. CASE PushSignal(p)
  BY <1>6 DEF PushSignal
<1>7. CASE Leave(p)
  BY <1>7 DEF Leave
<1> QED
  BY <1>1, <1>2, <1>3, <1>4, <1>5, <1>6, <1>7 DEF Producer

LEMMA ConsumerControl ==
  ASSUME ControlTypes, Control, NEW c \in Consumers, Consumer(c)
  PROVE  Control' /\ ControlTypes'
<1> USE ThreadKinds DEF Control, ControlTypes, KnownLabels, MutualExclusion, Sleeping, Joined,
        InSection, ProducerLabels, ConsumerLabels, OwnerLabels, Labels, Goto
<1>1. CASE PopLock(c)
  BY <1>1 DEF PopLock, MutexFree
<1>2. CASE PopWait(c)
  BY <1>2 DEF PopWait
<1>3. CASE PopSpurious(c)
  BY <1>3 DEF PopSpurious
<1>4. CASE PopEnd(c)
  BY <1>4 DEF PopEnd
<1>5. CASE PopUnlink(c)
  BY <1>5 DEF PopUnlink
<1>6. CASE PopUnlock(c)
  BY <1>6 DEF PopUnlock
<1> QED
  BY <1>1, <1>2, <1>3, <1>4, <1>5, <1>6 DEF Consumer

LEMMA OwnerControl ==
  ASSUME ControlTypes, Control, OwnerStep
  PROVE  Control' /\ ControlTypes'
<1> USE ThreadKinds DEF Control, ControlTypes, KnownLabels, MutualExclusion, Sleeping, Joined,
        InSection, ProducerLabels, ConsumerLabels, OwnerLabels, Labels, Goto
<1>1. CASE ShutdownLock
  BY <1>1 DEF ShutdownLock, MutexFree
<1>2. CASE ShutdownBroadcast
  BY <1>2 DEF ShutdownBroadcast, WakeAll
<1>3. CASE DestroyLock
  BY <1>3 DEF DestroyLock, MutexFree
<1>4. CASE DestroyNode
  BY <1>4 DEF DestroyNode
<1>5. CASE DestroyEnd
  BY <1>5 DEF DestroyEnd
<1> QED
  BY <1>1, <1>2, <1>3, <1>4, <1>5 DEF OwnerStep

-----------------------------------------------------------------------------
(* The list *)

\* What a producer carries is not accepted yet, is its own, and is the end of
\* any list it is linked to.
Carrying(p) == pc[p] \in {"locking", "linking"}
Handling    == \A p \in Producers :
                  IF Carrying(p) THEN item[p] \in unsent /\ next[item[p]] = Null
                                 ELSE item[p] = Null
OwnItems    == \A p, q \in Producers : p # q /\ Carrying(p) /\ Carrying(q) => item[p] # item[q]

\* Every accepted datum is accepted once.
NoRepeat == /\ \A i, j \in 1 .. Len(contents) : contents[i] = contents[j] => i = j
            /\ \A i \in 1 .. Len(contents) : contents[i] \notin unsent

ListTypes == /\ {head, tail} \subseteq Data \cup {Null}
             /\ next \in [Data -> Data \cup {Null}]
             /\ size \in Nat
             /\ item \in [Producers -> Data \cup {Null}]
             /\ unsent \subseteq Data
             /\ contents \in Seq(Data)

List == ListTypes /\ Handling /\ OwnItems /\ NoRepeat /\ ListShape

LEMMA InitList == Init => List
BY ThreadKinds DEF Init, List, ListTypes, Handling, OwnItems, NoRepeat, ListShape, Carrying, Threads

\* Steps that leave the list alone and put nothing into a producer's hands.
LEMMA ListKept ==
  ASSUME List, UNCHANGED <<head, tail, next, size, item, unsent, contents>>,
         \A p \in Producers : Carrying(p)' <=> Carrying(p)
  PROVE  List'
BY DEF List, ListTypes, Handling, OwnItems, NoRepeat, ListShape, Carrying

LEMMA AllocateKeepsList ==
  ASSUME ControlTypes, List, NEW p \in Producers, PushAllocate(p)
  PROVE  List'
<1>1. PICK d \in unsent \ InHand :
         /\ pc[p] = "idle" /\ item' = [item EXCEPT ![p] = d]
         /\ next' = [next EXCEPT ![d] = Null]
         /\ Goto(p, "locking")
         /\ UNCHANGED <<head, tail, size, unsent, contents>>
  BY DEF PushAllocate, history
<1>2. d \in Data /\ d # Null /\ \A q \in Producers : item[q] # d
  BY <1>1 DEF InHand, List, ListTypes
<1>3. /\ Carrying(p)' /\ item'[p] = d
      /\ \A q \in Producers \ {p} : (Carrying(q)' <=> Carrying(q)) /\ item'[q] = item[q]
  BY <1>1, ThreadKinds DEF Goto, Carrying, ControlTypes, List, ListTypes
<1>4. next'[d] = Null /\ \A e \in Data \ {d} : next'[e] = next[e]
  BY <1>1, <1>2 DEF List, ListTypes
<1>5. ListTypes'
  BY <1>1, <1>2 DEF List, ListTypes
<1>6. Handling' /\ OwnItems'
  BY <1>1, <1>2, <1>3, <1>4 DEF List, ListTypes, Handling, OwnItems
<1>7. NoRepeat'
  BY <1>1 DEF List, NoRepeat
<1>8. ListShape'
  BY <1>1, <1>4 DEF List, ListTypes, ListShape, NoRepeat
<1> QED
  BY <1>5, <1>6, <1>7, <1>8 DEF List

LEMMA LinkKeepsList ==
  ASSUME ControlTypes, List, NEW p \in Producers, PushLink(p)
  PROVE  List'
<1> DEFINE n == Len(contents)
           d == item[p]
<1>1. /\ n \in Nat /\ contents \in Seq(Data) /\ Carrying(p)
      /\ d \in Data /\ d # Null /\ d \in unsent /\ next[d] = Null
  BY DEF List, ListTypes, Handling, Carrying, PushLink
<1>2. /\ contents' = Append(contents, d) /\ contents' \in Seq(Data) /\ Len(contents') = n + 1
      /\ \A i \in 1 .. n : contents'[i] = contents[i] /\ contents[i] \in Data
      /\ contents'[n + 1] = d
  BY <1>1 DEF PushLink
<1>3. /\ ~ Carrying(p)' /\ item'[p] = Null
      /\ \A q \in Producers \ {p} : (Carrying(q)' <=> Carrying(q)) /\ item'[q] = item[q]
  BY ThreadKinds DEF PushLink, Goto, Carrying, ControlTypes, List, ListTypes
<1>4. \A i \in 1 .. n : contents[i] # d
  BY <1>1 DEF List, NoRepeat
<1>5. head = (IF n = 0 THEN Null ELSE contents[1]) /\ tail = (IF n = 0 THEN Null ELSE contents[n])
  BY DEF List, ListShape
<1>6. (head = Null) <=> (n = 0)
  BY <1>1, <1>2, <1>5
<1>7. ListTypes'
  BY <1>1, <1>2, <1>5, <1>6 DEF PushLink, List, ListTypes
<1>8. Handling' /\ OwnItems'
  <2>1. \A q \in Producers \ {p} : Carrying(q) =>
           item[q] \in unsent' /\ next'[item[q]] = Null
    <3> SUFFICES ASSUME NEW q \in Producers \ {p}, Carrying(q)
                 PROVE  item[q] \in unsent' /\ next'[item[q]] = Null
      OBVIOUS
    <3>1. item[q] \in unsent /\ item[q] # d /\ next[item[q]] = Null /\ item[q] \in Data
      BY <1>1 DEF List, ListTypes, Handling, OwnItems
    <3>2. n # 0 => item[q] # tail
      BY <1>1, <1>5, <3>1 DEF List, NoRepeat
    <3> QED
      BY <1>6, <3>1, <3>2 DEF PushLink, List, ListTypes
  <2> QED
    BY <1>3, <2>1 DEF List, Handling, OwnItems
<1>9. NoRepeat'
  BY <1>1, <1>2, <1>4 DEF PushLink, List, NoRepeat
<1>10. ListShape'
  <2>1. size' = n + 1 /\ tail' = d /\ head' = contents'[1]
    BY <1>1, <1>2, <1>5, <1>6 DEF PushLink, List, ListShape
  <2>2. ASSUME NEW i \in 1 .. n + 1
        PROVE  next'[contents'[i]] = IF i = n + 1 THEN Null ELSE contents'[i + 1]
    <3>1. CASE i = n + 1
      BY <1>1, <1>2, <1>4, <1>5, <1>6, <3>1 DEF PushLink, List, ListTypes
    <3>2. CASE i = n /\ n # 0
      BY <1>1, <1>2, <1>5, <1>6, <3>2 DEF PushLink, List, ListTypes
    <3>3. CASE i < n
      <4>1. contents[i] # tail /\ contents[i] \in Data
        BY <1>1, <1>2, <1>5, <3>3 DEF List, NoRepeat
      <4>2. next'[contents[i]] = next[contents[i]]
        BY <1>6, <4>1, <3>3 DEF PushLink, List, ListTypes
      <4> QED
        BY <1>1, <1>2, <3>3, <4>2 DEF List, ListShape
    <3> QED
      BY <1>1, <2>2, <3>1, <3>2, <3>3
  <2>3. Len(contents') = n + 1 /\ n + 1 # 0 /\ contents'[n + 1] = d
    BY <1>1, <1>2
  <2> QED
    BY ONLY <2>1, <2>2, <2>3 DEF ListShape
<1> QED
  BY <1>7, <1>8, <1>9, <1>10 DEF List

LEMMA RefuseKeepsList ==
  ASSUME ControlTypes, List, NEW p \in Producers, PushRefuse(p)
  PROVE  List'
<1>1. Carrying(p) /\ item[p] \in Data /\ item[p] # Null
  BY DEF PushRefuse, Carrying, List, ListTypes, Handling
<1>2. /\ ~ Carrying(p)' /\ item'[p] = Null
      /\ \A q \in Producers \ {p} : (Carrying(q)' <=> Carrying(q)) /\ item'[q] = item[q]
  BY ThreadKinds DEF PushRefuse, Goto, Carrying, ControlTypes, List, ListTypes
<1>3. ListTypes' /\ NoRepeat' /\ ListShape'
  BY <1>1 DEF PushRefuse, List, ListTypes, NoRepeat, ListShape
<1>4. Handling' /\ OwnItems'
  BY <1>1, <1>2 DEF PushRefuse, List, Handling, OwnItems
<1> QED
  BY <1>3, <1>4 DEF List

LEMMA NoMemoryKeepsList ==
  ASSUME List, NEW p \in Producers, PushNoMemory(p)
  PROVE  List'
<1>1. PICK d \in unsent \ InHand :
         unsent' = unsent \ {d} /\ UNCHANGED <<head, tail, next, size, item, contents, pc>>
  BY DEF PushNoMemory, list
<1>2. \A q \in Producers : item[q] # d
  BY <1>1 DEF InHand
<1>3. Handling' /\ OwnItems'
  BY <1>1, <1>2 DEF List, Handling, OwnItems, Carrying
<1>4. ListTypes' /\ NoRepeat' /\ ListShape'
  BY <1>1 DEF List, ListTypes, NoRepeat, ListShape
<1> QED
  BY <1>3, <1>4 DEF List

\* A consumer never enters what a producer is carrying.
LEMMA ConsumersCarryNothing ==
  ASSUME ControlTypes, NEW c \in Consumers, NEW l, Goto(c, l), NEW p \in Producers
  PROVE  Carrying(p)' <=> Carrying(p)
BY ThreadKinds DEF ControlTypes, Goto, Carrying

LEMMA UnlinkKeepsList ==
  ASSUME ControlTypes, List, NEW c \in Consumers, PopUnlink(c)
  PROVE  List'
<1> DEFINE n == Len(contents)
<1>1. n \in Nat /\ contents \in Seq(Data) /\ n # 0 /\ head = contents[1] /\ tail = contents[n]
      /\ size = n
  BY DEF PopUnlink, List, ListTypes, ListShape
<1>2. \A i \in 1 .. n : contents[i] \in Data /\ contents[i] # Null
                        /\ next[contents[i]] = IF i = n THEN Null ELSE contents[i + 1]
  BY <1>1 DEF List, ListShape
<1>3. /\ contents' = Tail(contents) /\ contents' \in Seq(Data) /\ Len(contents') = n - 1
      /\ \A i \in 1 .. n - 1 : contents'[i] = contents[i + 1]
  BY <1>1 DEF PopUnlink
<1>4. UNCHANGED <<next, item, unsent>>
  BY DEF PopUnlink
<1>5. Handling' /\ OwnItems'
  BY <1>4, ConsumersCarryNothing DEF PopUnlink, List, Handling, OwnItems
<1>6. NoRepeat'
  BY <1>1, <1>3, <1>4 DEF List, NoRepeat
<1>7. /\ size' = n - 1
      /\ head' = IF n - 1 = 0 THEN Null ELSE contents'[1]
      /\ tail' = IF n - 1 = 0 THEN Null ELSE contents'[n - 1]
  BY <1>1, <1>2, <1>3 DEF PopUnlink, TailAfterPop, SizeAfterPop
<1>8. ListTypes'
  BY <1>1, <1>2, <1>3, <1>4, <1>7 DEF List, ListTypes
<1>9. ListShape'
  BY <1>1, <1>2, <1>3, <1>4, <1>7 DEF ListShape
<1> QED
  BY <1>5, <1>6, <1>8, <1>9 DEF List

LEMMA ProducerList ==
  ASSUME ControlTypes, List, NEW p \in Producers, Producer(p)
  PROVE  List'
<1>1. CASE PushLock(p) \/ PushSignal(p) \/ Leave(p)
  <2>1. UNCHANGED <<head, tail, next, size, item, unsent, contents>>
    BY <1>1 DEF PushLock, PushSignal, Leave, list, history
  <2>2. \A q \in Producers : Carrying(q)' <=> Carrying(q)
    BY <1>1, ThreadKinds DEF PushLock, PushSignal, Leave, Goto, Carrying, ControlTypes
  <2> QED
    BY <2>1, <2>2, ListKept
<1> QED
  BY <1>1, AllocateKeepsList, NoMemoryKeepsList, RefuseKeepsList, LinkKeepsList DEF Producer

LEMMA ConsumerList ==
  ASSUME ControlTypes, List, NEW c \in Consumers, Consumer(c)
  PROVE  List'
<1>1. CASE PopLock(c) \/ PopWait(c) \/ PopSpurious(c) \/ PopEnd(c) \/ PopUnlock(c)
  <2>1. UNCHANGED <<head, tail, next, size, item, unsent, contents>>
    BY <1>1 DEF PopLock, PopWait, PopSpurious, PopEnd, PopUnlock, list, history
  <2>2. \A q \in Producers : Carrying(q)' <=> Carrying(q)
    BY <1>1, ConsumersCarryNothing DEF PopLock, PopWait, PopSpurious, PopEnd, PopUnlock
  <2> QED
    BY <2>1, <2>2, ListKept
<1> QED
  BY <1>1, UnlinkKeepsList DEF Consumer

LEMMA OwnerList ==
  ASSUME ControlTypes, Control, List, OwnerStep
  PROVE  List'
<1>1. UNCHANGED <<head, tail, next, size, item, unsent, contents>>
  BY DEF OwnerStep, ShutdownLock, ShutdownBroadcast, DestroyLock, DestroyNode, DestroyEnd,
         list, history
<1>2. \A q \in Producers : Carrying(q)' <=> Carrying(q)
  BY ThreadKinds DEF OwnerStep, ShutdownLock, ShutdownBroadcast, DestroyLock, DestroyNode,
     DestroyEnd, Goto, Carrying, ControlTypes, WakeAll
<1> QED
  BY <1>1, <1>2, ListKept

-----------------------------------------------------------------------------
(* The nodes *)

Here(k) == IF k = Len(contents) + 1 THEN Null ELSE contents[k]

\* While the list lives its nodes are the accepted data and those in hand;
\* destroy_queue has freed those before its cursor and none behind.
Nodes ==
    /\ pc[Owner] \notin {"freeing", "destroyed"} =>
          \A d \in Data : d \in allocated <=>
             \/ \E i \in 1 .. Len(contents) : contents[i] = d
             \/ \E p \in Producers : Carrying(p) /\ item[p] = d
    /\ pc[Owner] = "freeing" =>
          \E k \in 1 .. Len(contents) + 1 :
             /\ cursor = Here(k)
             /\ \A d \in Data : d \in allocated <=> \E j \in k .. Len(contents) : contents[j] = d
    /\ pc[Owner] = "destroyed" => allocated = {}

NodeTypes == allocated \subseteq Data /\ cursor \in Data \cup {Null}

LEMMA InitNodes == Init => Nodes /\ NodeTypes
BY ThreadKinds DEF Init, Nodes, NodeTypes, Carrying, Threads

LEMMA NodesImply == List /\ NodeTypes /\ Nodes => NodesOwned
<1> SUFFICES ASSUME List, NodeTypes, Nodes PROVE NodesOwned
  OBVIOUS
<1> USE DEF List, ListTypes
<1>1. ASSUME pc[Owner] \notin {"freeing", "destroyed"}
      PROVE  allocated = Range(contents) \cup Preparing
  <2>1. Range(contents) = {contents[i] : i \in 1 .. Len(contents)}
    BY DEF Range
  <2>2. \A d \in Preparing : d \in Data /\ \E p \in Producers : Carrying(p) /\ item[p] = d
    BY DEF Preparing, Carrying, Handling
  <2>3. \A p \in Producers : Carrying(p) => item[p] \in Preparing
    BY DEF Preparing, Carrying
  <2>4. \A d \in Data : d \in allocated <=> d \in Range(contents) \/ d \in Preparing
    BY <1>1, <2>1, <2>2, <2>3 DEF Nodes
  <2>5. Range(contents) \subseteq Data /\ Preparing \subseteq Data /\ allocated \subseteq Data
    BY <2>1, <2>2 DEF NodeTypes
  <2> QED
    BY <2>4, <2>5
<1>2. ASSUME pc[Owner] = "freeing", cursor # Null
      PROVE  cursor \in allocated
  <2>1. PICK k \in 1 .. Len(contents) + 1 :
           /\ cursor = Here(k)
           /\ \A d \in Data : d \in allocated <=> \E j \in k .. Len(contents) : contents[j] = d
    BY <1>2 DEF Nodes
  <2>2. k \in 1 .. Len(contents) /\ contents[k] \in Data
    BY <1>2, <2>1 DEF Here, ListTypes
  <2> QED
    BY <2>1, <2>2 DEF Here, ListTypes
<1> QED
  BY <1>1, <1>2 DEF NodesOwned, Nodes

\* Steps before destroy_queue that leave nodes and list alone.
LEMMA NodesKept ==
  ASSUME Nodes, NodeTypes, UNCHANGED <<allocated, cursor, contents, item>>,
         pc'[Owner] = pc[Owner] \/ {pc[Owner], pc'[Owner]} \cap {"freeing", "destroyed"} = {},
         \A p \in Producers : Carrying(p)' <=> Carrying(p)
  PROVE  Nodes' /\ NodeTypes'
<1>1. NodeTypes'
  BY DEF NodeTypes
<1>2. Here(1)' = Here(1) /\ \A k : Here(k)' = Here(k)
  BY DEF Here
<1>3. \A d \in Data : (\E p \in Producers : Carrying(p) /\ item[p] = d)'
                      <=> \E p \in Producers : Carrying(p) /\ item[p] = d
  OBVIOUS
<1>4. pc[Owner] \in {"freeing", "destroyed"} \/ pc'[Owner] \in {"freeing", "destroyed"}
         => pc'[Owner] = pc[Owner]
  OBVIOUS
<1>5. (pc[Owner] = "freeing" =>
          \E k \in 1 .. Len(contents) + 1 :
             /\ cursor = Here(k)
             /\ \A d \in Data : d \in allocated <=> \E j \in k .. Len(contents) : contents[j] = d)'
  BY <1>2, <1>4 DEF Nodes
<1> QED
  BY <1>1, <1>3, <1>4, <1>5 DEF Nodes

\* A thread that still takes steps keeps the owner from destroying.
LEMMA NotDestroying ==
  ASSUME Control, NEW t \in Threads \ {Owner}, pc[t] # "exited"
  PROVE  pc[Owner] \notin {"freeing", "destroyed"}
BY DEF Control, Joined

LEMMA ProducerNodes ==
  ASSUME ControlTypes, Control, List, Nodes, NodeTypes, NEW p \in Producers, Producer(p)
  PROVE  Nodes' /\ NodeTypes'
<1>a. p \in Threads \ {Owner} /\ pc[p] # "exited"
  BY ThreadKinds DEF Producer, PushAllocate, PushNoMemory, PushLock, PushRefuse, PushLink,
     PushSignal, Leave
<1>b. pc[Owner] \notin {"freeing", "destroyed"}
  BY <1>a, NotDestroying
<1>c. pc'[Owner] = pc[Owner]
  BY ThreadKinds DEF Producer, PushAllocate, PushNoMemory, PushLock, PushRefuse, PushLink,
     PushSignal, Leave, Goto, ControlTypes
<1>d. \A q \in Producers \ {p} : Carrying(q)' <=> Carrying(q)
  BY ThreadKinds DEF Producer, PushAllocate, PushNoMemory, PushLock, PushRefuse, PushLink,
     PushSignal, Leave, Goto, Carrying, ControlTypes
<1>1. CASE PushNoMemory(p) \/ PushLock(p) \/ PushSignal(p) \/ Leave(p)
  <2>1. UNCHANGED <<allocated, cursor, contents, item>>
    BY <1>1 DEF PushNoMemory, PushLock, PushSignal, Leave, list, history
  <2>2. Carrying(p)' <=> Carrying(p)
    BY <1>1, <1>a DEF PushNoMemory, PushLock, PushSignal, Leave, Goto, Carrying, ControlTypes
  <2> QED
    BY <1>c, <1>d, <2>1, <2>2, NodesKept
<1>2. CASE PushAllocate(p)
  <2>1. PICK d \in unsent \ InHand :
           /\ pc[p] = "idle" /\ item' = [item EXCEPT ![p] = d] /\ Goto(p, "locking")
           /\ allocated' = allocated \cup {d} /\ UNCHANGED <<cursor, contents>>
    BY <1>2 DEF PushAllocate, history
  <2>2. d \in Data /\ Carrying(p)' /\ ~ Carrying(p)
    BY <1>a, <2>1 DEF List, ListTypes, Goto, Carrying, ControlTypes
  <2>3. item'[p] = d /\ \A q \in Producers \ {p} : item'[q] = item[q]
    BY <2>1 DEF List, ListTypes
  <2> QED
    BY <1>b, <1>c, <1>d, <2>1, <2>2, <2>3 DEF Nodes, NodeTypes
<1>3. CASE PushRefuse(p)
  <2>1. /\ Carrying(p) /\ ~ Carrying(p)' /\ allocated' = allocated \ {item[p]}
        /\ UNCHANGED <<cursor, contents>>
        /\ \A q \in Producers \ {p} : item'[q] = item[q]
    BY <1>3, <1>a DEF PushRefuse, FreeRefusedNode, Goto, Carrying, ControlTypes, List, ListTypes
  <2>2. \A q \in Producers \ {p} : Carrying(q) => item[q] # item[p]
    BY <2>1 DEF List, OwnItems
  <2>3. \A i \in 1 .. Len(contents) : contents[i] # item[p]
    BY <2>1 DEF List, NoRepeat, Handling
  <2> QED
    BY <1>b, <1>c, <1>d, <2>1, <2>2, <2>3 DEF Nodes, NodeTypes
<1>4. CASE PushLink(p)
  <2>1. /\ Carrying(p) /\ ~ Carrying(p)' /\ UNCHANGED <<cursor, allocated>>
        /\ contents' = Append(contents, item[p]) /\ item[p] \in Data
        /\ \A q \in Producers \ {p} : item'[q] = item[q]
    BY <1>4, <1>a DEF PushLink, Goto, Carrying, ControlTypes, List, ListTypes, Handling
  <2>2. \A d \in Data : (\E i \in 1 .. Len(contents') : contents'[i] = d)
                        <=> d = item[p] \/ \E i \in 1 .. Len(contents) : contents[i] = d
    <3>1. /\ contents \in Seq(Data) /\ Len(contents') = Len(contents) + 1
          /\ \A i \in 1 .. Len(contents) : contents'[i] = contents[i]
          /\ contents'[Len(contents) + 1] = item[p]
      BY <2>1 DEF List, ListTypes
    <3>2. Len(contents) \in Nat
      BY <3>1
    <3> QED
      BY <3>1, <3>2
  <2> QED
    BY <1>b, <1>c, <1>d, <2>1, <2>2 DEF Nodes, NodeTypes
<1> QED
  BY <1>1, <1>2, <1>3, <1>4 DEF Producer

LEMMA ConsumerNodes ==
  ASSUME ControlTypes, Control, List, Nodes, NodeTypes, NEW c \in Consumers, Consumer(c)
  PROVE  Nodes' /\ NodeTypes'
<1>c. pc'[Owner] = pc[Owner]
  BY ThreadKinds DEF Consumer, PopLock, PopWait, PopSpurious, PopEnd, PopUnlink, PopUnlock,
     Goto, ControlTypes
<1>d. \A q \in Producers : Carrying(q)' <=> Carrying(q)
  BY ConsumersCarryNothing DEF Consumer, PopLock, PopWait, PopSpurious, PopEnd, PopUnlink, PopUnlock
<1>1. CASE PopLock(c) \/ PopWait(c) \/ PopSpurious(c) \/ PopEnd(c) \/ PopUnlock(c)
  <2>1. UNCHANGED <<allocated, cursor, contents, item>>
    BY <1>1 DEF PopLock, PopWait, PopSpurious, PopEnd, PopUnlock, list, history
  <2> QED
    BY <1>c, <1>d, <2>1, NodesKept
<1>2. CASE PopUnlink(c)
  <2>1. pc[Owner] \notin {"freeing", "destroyed"}
    BY <1>2, ThreadKinds, NotDestroying DEF PopUnlink
  <2>2. /\ Len(contents) \in Nat \ {0} /\ head = contents[1] /\ head \in Data
        /\ contents \in Seq(Data) /\ contents' = Tail(contents)
        /\ allocated' = allocated \ {head} /\ UNCHANGED <<cursor, item>>
    BY <1>2 DEF PopUnlink, List, ListTypes, ListShape
  <2>3. Len(contents') = Len(contents) - 1
        /\ \A i \in 1 .. Len(contents) - 1 : contents'[i] = contents[i + 1]
    BY <2>2
  <2>4. \A d \in Data : (\E i \in 1 .. Len(contents') : contents'[i] = d)
                        <=> d # head /\ \E i \in 1 .. Len(contents) : contents[i] = d
    <3>1. ASSUME NEW i \in 2 .. Len(contents) PROVE contents[i] # head
      BY <2>2, <3>1 DEF List, NoRepeat
    <3>2. ASSUME NEW i \in 2 .. Len(contents)
          PROVE  i - 1 \in 1 .. Len(contents') /\ contents'[i - 1] = contents[i]
      BY <2>2, <2>3, <3>2
    <3>3. ASSUME NEW i \in 1 .. Len(contents')
          PROVE  i + 1 \in 2 .. Len(contents) /\ contents'[i] = contents[i + 1]
      BY <2>2, <2>3, <3>3
    <3>4. \A i \in 1 .. Len(contents) : i = 1 \/ i \in 2 .. Len(contents)
      BY <2>2
    <3> QED
      BY <2>2, <3>1, <3>2, <3>3, <3>4
  <2>5. \A p \in Producers : Carrying(p) => item[p] # head
    BY <2>2 DEF List, NoRepeat, Handling
  <2> QED
    BY <1>c, <1>d, <2>1, <2>2, <2>4, <2>5 DEF Nodes, NodeTypes
<1> QED
  BY <1>1, <1>2 DEF Consumer

LEMMA OwnerNodes ==
  ASSUME ControlTypes, Control, List, Nodes, NodeTypes, OwnerStep
  PROVE  Nodes' /\ NodeTypes'
<1>a. \A q \in Producers : Carrying(q)' <=> Carrying(q)
  BY ThreadKinds DEF OwnerStep, ShutdownLock, ShutdownBroadcast, DestroyLock, DestroyNode,
     DestroyEnd, Goto, Carrying, ControlTypes, WakeAll
<1>b. contents \in Seq(Data) /\ Len(contents) \in Nat /\ contents' = contents
  BY DEF List, ListTypes, OwnerStep, ShutdownLock, ShutdownBroadcast, DestroyLock,
     DestroyNode, DestroyEnd, history
<1>1. CASE ShutdownLock \/ ShutdownBroadcast
  <2>1. UNCHANGED <<allocated, cursor, contents, item>>
    BY <1>1 DEF ShutdownLock, ShutdownBroadcast, list, history
  <2>2. {pc[Owner], pc'[Owner]} \cap {"freeing", "destroyed"} = {}
    BY <1>1, ThreadKinds DEF ShutdownLock, ShutdownBroadcast, Goto, ControlTypes, WakeAll, Control, Sleeping
  <2> QED
    BY <1>a, <2>1, <2>2, NodesKept
<1>2. CASE DestroyLock
  <2>1. pc[Owner] = "joining" /\ pc'[Owner] = "freeing" /\ cursor' = head /\ allocated' = allocated
    BY <1>2, ThreadKinds DEF DestroyLock, Goto, ControlTypes, list
  <2>2. \A p \in Producers : ~ Carrying(p)
    BY <1>2, ThreadKinds DEF DestroyLock, Carrying
  <2>3. \A d \in Data : d \in allocated <=> \E j \in 1 .. Len(contents) : contents[j] = d
    BY <2>1, <2>2 DEF Nodes
  <2>4. head = Here(1) /\ 1 \in 1 .. Len(contents) + 1
    BY <1>b DEF List, ListShape, Here
  <2>5. Here(1)' = Here(1)
    BY <1>b DEF Here
  <2> QED
    BY <1>b, <2>1, <2>3, <2>4, <2>5 DEF Nodes, NodeTypes, List, ListTypes
<1>3. CASE DestroyNode
  <2>1. PICK k \in 1 .. Len(contents) + 1 :
           /\ cursor = Here(k)
           /\ \A d \in Data : d \in allocated <=> \E j \in k .. Len(contents) : contents[j] = d
    BY <1>3 DEF DestroyNode, Nodes
  <2>2. k \in 1 .. Len(contents) /\ cursor = contents[k] /\ cursor \in Data
    BY <1>3, <1>b, <2>1 DEF DestroyNode, Here
  <2>3. cursor' = Here(k + 1) /\ k + 1 \in 1 .. Len(contents) + 1
    BY <1>3, <1>b, <2>2 DEF DestroyNode, NextNode, Here, List, ListShape
  <2>4. \A d \in Data : d \in allocated' <=> \E j \in k + 1 .. Len(contents) : contents[j] = d
    <3>1. \A j \in k + 1 .. Len(contents) : contents[j] # cursor
      BY <1>b, <2>2 DEF List, NoRepeat
    <3>2. allocated' = allocated \ {cursor}
      BY <1>3 DEF DestroyNode
    <3> QED
      BY <1>b, <2>1, <2>2, <3>1, <3>2
  <2>5. pc'[Owner] = "freeing" /\ Here(k + 1)' = Here(k + 1)
    BY <1>3, <1>b DEF DestroyNode, Here
  <2>6. NodeTypes'
    BY <1>3, <1>b, <2>2, <2>3 DEF DestroyNode, NodeTypes, Here
  <2> QED
    BY <1>b, <2>3, <2>4, <2>5, <2>6 DEF Nodes
<1>4. CASE DestroyEnd
  <2>1. PICK k \in 1 .. Len(contents) + 1 :
           /\ cursor = Here(k)
           /\ \A d \in Data : d \in allocated <=> \E j \in k .. Len(contents) : contents[j] = d
    BY <1>4 DEF DestroyEnd, Nodes
  <2>2. k = Len(contents) + 1
    <3>1. \A i \in 1 .. Len(contents) : contents[i] # Null
      BY <1>b
    <3> QED
      BY <1>4, <1>b, <2>1, <3>1 DEF DestroyEnd, Here
  <2>3. allocated = {}
    BY <1>b, <2>1, <2>2 DEF NodeTypes
  <2>4. pc'[Owner] = "destroyed" /\ allocated' = allocated /\ cursor' = cursor
    BY <1>4, ThreadKinds DEF DestroyEnd, Goto, ControlTypes, list
  <2> QED
    BY <2>3, <2>4 DEF Nodes, NodeTypes
<1> QED
  BY <1>1, <1>2, <1>3, <1>4 DEF OwnerStep

-----------------------------------------------------------------------------
(* What the callers are told *)

OtherTypes == /\ isShutdown \in BOOLEAN
              /\ spurious \in Nat
              /\ refused \subseteq Data
              /\ taken \in [Consumers -> SUBSET Data]
              /\ stopped \subseteq Consumers

\* The queue is open until the owner closes it; who was told to stop is gone;
\* who is about to return from queue_pop with a datum took one.
OpenAtFirst == pc[Owner] \in {"running", "closing"} => ~ isShutdown
StoppedGone == \A c \in stopped : pc[c] = "exited"
TookBefore  == \A c \in Consumers : pc[c] = "unlocking" => taken[c] # {}

Told == OpenAtFirst /\ StoppedGone /\ TookBefore

LEMMA InitTold == Init => OtherTypes /\ Told
<1> SUFFICES ASSUME Init PROVE OtherTypes /\ Told
  OBVIOUS
<1>1. ~ isShutdown /\ isShutdown \in BOOLEAN
  BY Zenon DEF Init
<1>2. /\ spurious \in Nat /\ refused \subseteq Data /\ stopped \subseteq Consumers
      /\ taken \in [Consumers -> SUBSET Data]
  BY DEF Init
<1>3. StoppedGone /\ TookBefore
  BY ThreadKinds DEF Init, StoppedGone, TookBefore
<1> QED
  BY <1>1, <1>2, <1>3, Zenon DEF OtherTypes, Told, OpenAtFirst

LEMMA ProducerTold ==
  ASSUME ControlTypes, Control, List, OtherTypes, Told, NEW p \in Producers, Producer(p)
  PROVE  OtherTypes' /\ Told'
<1>1. UNCHANGED <<isShutdown, spurious, taken, stopped>>
  BY DEF Producer, PushAllocate, PushNoMemory, PushLock, PushRefuse, PushLink, PushSignal,
     Leave, history
<1>2. refused' \subseteq Data
  BY DEF Producer, PushAllocate, PushNoMemory, PushLock, PushRefuse, PushLink, PushSignal,
     Leave, history, List, ListTypes, Handling, Carrying, OtherTypes
<1>3. /\ pc'[Owner] = pc[Owner]
      /\ \A c \in Consumers : pc'[c] # pc[c] => pc[c] = "waiting" /\ pc'[c] = "woken"
  BY ThreadKinds DEF Producer, PushAllocate, PushNoMemory, PushLock, PushRefuse, PushLink,
     PushSignal, Leave, Goto, ControlTypes, Control, Sleeping
<1>4. OtherTypes'
  BY <1>1, <1>2 DEF OtherTypes
<1>5. Told'
  BY <1>1, <1>3 DEF Told, OpenAtFirst, StoppedGone, TookBefore, OtherTypes
<1> QED
  BY <1>4, <1>5

LEMMA ConsumerTold ==
  ASSUME ControlTypes, Control, List, OtherTypes, Told, NEW c \in Consumers, Consumer(c)
  PROVE  OtherTypes' /\ Told'
<1>a. UNCHANGED <<isShutdown, refused>>
  BY DEF Consumer, PopLock, PopWait, PopSpurious, PopEnd, PopUnlink, PopUnlock, history
<1>b. pc'[Owner] = pc[Owner] /\ \A t \in Consumers \ {c} : pc'[t] = pc[t]
  BY ThreadKinds DEF Consumer, PopLock, PopWait, PopSpurious, PopEnd, PopUnlink, PopUnlock,
     Goto, ControlTypes
<1>c. pc[c] # "exited"
  BY DEF Consumer, PopLock, PopWait, PopSpurious, PopEnd, PopUnlink, PopUnlock, Control, Sleeping
<1>1. CASE PopLock(c) \/ PopWait(c) \/ PopSpurious(c)
  <2>1. UNCHANGED <<taken, stopped>> /\ spurious' \in Nat
    BY <1>1 DEF PopLock, PopWait, PopSpurious, history, OtherTypes
  <2>2. pc'[c] # "unlocking"
    BY <1>1, ThreadKinds DEF PopLock, PopWait, PopSpurious, Goto, ControlTypes
  <2> QED
    BY <1>a, <1>b, <1>c, <2>1, <2>2 DEF OtherTypes, Told, OpenAtFirst, StoppedGone, TookBefore
<1>2. CASE PopUnlink(c)
  <2>1. /\ head \in Data /\ taken' = [taken EXCEPT ![c] = @ \cup {head}]
        /\ UNCHANGED <<stopped, spurious>>
    BY <1>2 DEF PopUnlink, List, ListTypes, ListShape
  <2>2. taken'[c] # {} /\ \A t \in Consumers \ {c} : taken'[t] = taken[t]
    BY <2>1 DEF OtherTypes
  <2>3. OtherTypes'
    BY <1>a, <2>1 DEF OtherTypes
  <2>4. StoppedGone' /\ TookBefore'
    BY <1>b, <1>c, <2>1, <2>2 DEF OtherTypes, Told, StoppedGone, TookBefore
  <2>5. OpenAtFirst'
    BY <1>a, <1>b, Zenon DEF Told, OpenAtFirst
  <2> QED
    BY <2>3, <2>4, <2>5 DEF Told
<1>3. CASE PopEnd(c) \/ PopUnlock(c)
  <2>1. UNCHANGED <<taken, spurious>>
    BY <1>3 DEF PopEnd, PopUnlock
  <2>2. ASSUME PopEnd(c)
        PROVE  pc'[c] = "exited" /\ stopped' = stopped \cup {c}
    <3>1. pc' = [pc EXCEPT ![c] = "exited"] /\ stopped' = stopped \cup {c}
      BY <2>2 DEF PopEnd, Goto
    <3> QED
      BY <3>1, ThreadKinds DEF ControlTypes
  <2>3. ASSUME PopUnlock(c)
        PROVE  \/ pc'[c] = "idle" /\ stopped' = stopped
               \/ pc'[c] = "exited" /\ stopped' = stopped \cup {c}
    <3>1. \/ pc' = [pc EXCEPT ![c] = "idle"] /\ stopped' = stopped
          \/ pc' = [pc EXCEPT ![c] = "exited"] /\ stopped' = stopped \cup {c}
      BY <2>3 DEF PopUnlock, Goto
    <3> QED
      BY <3>1, ThreadKinds DEF ControlTypes
  <2>4. /\ pc'[c] \in {"idle", "exited"}
        /\ stopped' = stopped \/ (stopped' = stopped \cup {c} /\ pc'[c] = "exited")
    BY <1>3, <2>2, <2>3
  <2>5. StoppedGone' /\ TookBefore' /\ stopped' \subseteq Consumers
    BY <1>b, <1>c, <2>1, <2>4 DEF OtherTypes, Told, StoppedGone, TookBefore
  <2>6. OpenAtFirst'
    BY <1>a, <1>b, Zenon DEF Told, OpenAtFirst
  <2>7. OtherTypes'
    BY <1>a, <2>1, <2>5, Zenon DEF OtherTypes
  <2> QED
    BY <2>5, <2>6, <2>7 DEF Told
<1> QED
  BY <1>1, <1>2, <1>3 DEF Consumer

LEMMA OwnerTold ==
  ASSUME ControlTypes, Control, OtherTypes, Told, OwnerStep
  PROVE  OtherTypes' /\ Told'
<1>1. UNCHANGED <<spurious, refused, taken, stopped>>
  BY DEF OwnerStep, ShutdownLock, ShutdownBroadcast, DestroyLock, DestroyNode, DestroyEnd, history
<1>2. \A c \in Consumers : pc'[c] # pc[c] => pc[c] = "waiting" /\ pc'[c] = "woken"
  BY ThreadKinds DEF OwnerStep, ShutdownLock, ShutdownBroadcast, DestroyLock, DestroyNode,
     DestroyEnd, Goto, ControlTypes, WakeAll, Control, Sleeping
<1>3. OpenAtFirst' /\ isShutdown' \in BOOLEAN
  <2>1. CASE ShutdownBroadcast
    <3>1. pc'[Owner] = "joining"
      BY <2>1, ThreadKinds DEF ShutdownBroadcast, WakeAll, ControlTypes
    <3>2. isShutdown' \in BOOLEAN
      BY <2>1, Zenon DEF ShutdownBroadcast
    <3> QED
      BY <3>1, <3>2 DEF OpenAtFirst
  <2>2. CASE ShutdownLock \/ DestroyLock \/ DestroyNode \/ DestroyEnd
    <3>1. isShutdown' = isShutdown
      BY <2>2, Zenon DEF ShutdownLock, DestroyLock, DestroyNode, DestroyEnd
    <3>2. pc'[Owner] \in {"running", "closing"} => pc[Owner] \in {"running", "closing"}
      BY <2>2, ThreadKinds DEF ShutdownLock, DestroyLock, DestroyNode, DestroyEnd, Goto, ControlTypes
    <3> QED
      BY <3>1, <3>2, Zenon DEF OtherTypes, Told, OpenAtFirst
  <2> QED
    BY <2>1, <2>2 DEF OwnerStep
<1> QED
  BY <1>1, <1>2, <1>3 DEF OtherTypes, Told, StoppedGone, TookBefore

-----------------------------------------------------------------------------
(* The inductive invariant and what follows from it *)

Inv == /\ ControlTypes /\ Control
       /\ List
       /\ NodeTypes /\ Nodes
       /\ OtherTypes /\ Told

LEMMA InitInv == Init => Inv
<1> SUFFICES ASSUME Init PROVE Inv
  OBVIOUS
<1>1. ControlTypes
  BY DEF Init, ControlTypes, Labels
<1> QED
  BY <1>1, InitControl, InitList, InitNodes, InitTold DEF Inv

LEMMA StutterInv == Inv /\ UNCHANGED vars => Inv'
<1> SUFFICES ASSUME Inv, UNCHANGED vars PROVE Inv'
  OBVIOUS
<1> USE DEF Inv, vars, list, history
<1>1. ControlTypes' /\ Control'
  BY DEF ControlTypes, Control, KnownLabels, MutualExclusion, Sleeping, Joined
<1>2. List'
  BY ListKept DEF Carrying
<1>3. Nodes' /\ NodeTypes'
  BY NodesKept DEF Carrying
<1>4. OtherTypes' /\ Told'
  BY DEF OtherTypes, Told, OpenAtFirst, StoppedGone, TookBefore
<1> QED
  BY <1>1, <1>2, <1>3, <1>4

LEMMA NextInv == Inv /\ [Next]_vars => Inv'
<1> SUFFICES ASSUME Inv, [Next]_vars PROVE Inv'
  OBVIOUS
<1>1. ASSUME NEW p \in Producers, Producer(p) PROVE Inv'
  BY <1>1, ProducerControl, ProducerList, ProducerNodes, ProducerTold DEF Inv
<1>2. ASSUME NEW c \in Consumers, Consumer(c) PROVE Inv'
  BY <1>2, ConsumerControl, ConsumerList, ConsumerNodes, ConsumerTold DEF Inv
<1>3. CASE OwnerStep
  BY <1>3, OwnerControl, OwnerList, OwnerNodes, OwnerTold DEF Inv
<1>4. CASE UNCHANGED vars
  BY <1>4, StutterInv
<1> QED
  BY <1>1, <1>2, <1>3, <1>4 DEF Next, Destroyed

LEMMA InvTypes == Inv => TypeOK
BY DEF Inv, ControlTypes, List, ListTypes, NodeTypes, OtherTypes, TypeOK

\* The queue of queue.c for any number of threads and data: all variables keep
\* their types, the mutex is held by whoever is in one of the four operations,
\* the linked list is the accepted data in order, and every node that malloc
\* gave is linked, in the hands of one push, or freed.
THEOREM QueueIsSound == Safety => [](TypeOK /\ MutualExclusion /\ ListShape /\ NodesOwned)
<1>1. Init => Inv
  BY InitInv
<1>2. Inv /\ [Next]_vars => Inv'
  BY NextInv
<1>3. Inv => TypeOK /\ MutualExclusion /\ ListShape /\ NodesOwned
  BY InvTypes, NodesImply DEF Inv, Control, List
<1> QED
  BY <1>1, <1>2, <1>3, PTL DEF Safety

-----------------------------------------------------------------------------
(* Nobody sleeps through a datum *)

\* The threads that will look at the list, or wake one that does, before they
\* sleep again.
Looking == {t \in Threads : pc[t] \in {"woken", "testing", "signalling"}}

Awake == waiters # {} => ~isShutdown /\ size <= Cardinality(Looking)

LEMMA LookingFinite ==
  ASSUME IsFiniteSet(Threads)
  PROVE  IsFiniteSet(Looking) /\ Cardinality(Looking) \in Nat
<1>1. Looking \in SUBSET Threads
  BY DEF Looking
<1> QED
  BY <1>1, FS_Subset, FS_CardinalityType

\* Steps after which nobody new sleeps, and as many look as before.
LEMMA StillAwake ==
  ASSUME IsFiniteSet(Threads), List, Awake,
         waiters' \subseteq waiters, isShutdown' = isShutdown, size' = size,
         Looking \subseteq Looking'
  PROVE  Awake'
<1>1. IsFiniteSet(Looking) /\ IsFiniteSet(Looking')
  BY LookingFinite, FS_Subset DEF Looking
<1>2. /\ Cardinality(Looking) <= Cardinality(Looking')
      /\ Cardinality(Looking) \in Nat /\ Cardinality(Looking') \in Nat
  BY <1>1, FS_Subset, FS_CardinalityType
<1> QED
  BY <1>2 DEF Awake, List, ListTypes

LEMMA ProducerAwake ==
  ASSUME IsFiniteSet(Threads), ControlTypes, Control, List, Awake,
         NEW p \in Producers, Producer(p)
  PROVE  Awake'
<1> USE ThreadKinds
<1>1. CASE PushAllocate(p) \/ PushNoMemory(p) \/ PushLock(p) \/ PushRefuse(p) \/ Leave(p)
  <2>1. UNCHANGED <<waiters, isShutdown, size>>
    BY <1>1, Zenon DEF PushAllocate, PushNoMemory, PushLock, PushRefuse, Leave, list
  <2>2. Looking \subseteq Looking'
    BY <1>1 DEF PushAllocate, PushNoMemory, PushLock, PushRefuse, Leave, Goto, ControlTypes, Looking
  <2> QED
    BY <2>1, <2>2, StillAwake
<1>2. CASE PushLink(p)
  <2>1. p \notin Looking /\ Looking' = Looking \cup {p}
    BY <1>2 DEF PushLink, Goto, ControlTypes, Looking
  <2>2. Cardinality(Looking') = Cardinality(Looking) + 1 /\ Cardinality(Looking) \in Nat
    BY <2>1, LookingFinite, FS_AddElement
  <2> QED
    BY <1>2, <2>2 DEF PushLink, Awake, List, ListTypes
<1>3. CASE PushSignal(p) /\ waiters = {}
  <2>1. waiters' = {}
    BY <1>3 DEF PushSignal
  <2> QED
    BY <2>1 DEF Awake
<1>4. CASE PushSignal(p) /\ waiters # {}
  <2>1. PICK c \in waiters : /\ waiters' = waiters \ {c}
                             /\ pc' = [pc EXCEPT ![p] = "idle", ![c] = "woken"]
    BY <1>4 DEF PushSignal
  <2>2. pc[p] = "signalling" /\ pc[c] = "waiting" /\ c \in Threads /\ c # p
    BY <1>4, <2>1 DEF PushSignal, Control, Sleeping, ControlTypes
  <2>3. p \in Looking /\ c \notin Looking \ {p} /\ Looking' = (Looking \ {p}) \cup {c}
    BY <2>1, <2>2 DEF Looking, ControlTypes
  <2>4. IsFiniteSet(Looking) /\ Cardinality(Looking) \in Nat
    BY LookingFinite
  <2>5. IsFiniteSet(Looking \ {p}) /\ Cardinality(Looking \ {p}) = Cardinality(Looking) - 1
    BY <2>3, <2>4, FS_RemoveElement
  <2>6. Cardinality(Looking') = Cardinality(Looking)
    <3>1. PICK T : T = Looking \ {p}
      OBVIOUS
    <3>2. IsFiniteSet(T) /\ c \notin T /\ Looking' = T \cup {c}
      BY <2>3, <2>5, <3>1
    <3>3. Cardinality(T \cup {c}) = Cardinality(T) + 1
      BY <3>2, FS_AddElement
    <3> QED
      BY <2>4, <2>5, <3>1, <3>2, <3>3
  <2>7. isShutdown' = isShutdown /\ size' = size
    BY <1>4, Zenon DEF PushSignal, list
  <2> QED
    BY <1>4, <2>6, <2>7 DEF Awake
<1> QED
  BY <1>1, <1>2, <1>3, <1>4 DEF Producer

LEMMA ConsumerAwake ==
  ASSUME IsFiniteSet(Threads), ControlTypes, Control, List, Awake,
         NEW c \in Consumers, Consumer(c)
  PROVE  Awake'
<1> USE ThreadKinds
<1>1. CASE PopLock(c) \/ PopSpurious(c) \/ PopUnlock(c)
  <2>1. isShutdown' = isShutdown /\ size' = size
    BY <1>1, Zenon DEF PopLock, PopSpurious, PopUnlock, list
  <2>2. waiters' \subseteq waiters
    BY <1>1 DEF PopLock, PopSpurious, PopUnlock
  <2>3. Looking \subseteq Looking'
    BY <1>1 DEF PopLock, PopSpurious, PopUnlock, Goto, ControlTypes, Looking
  <2> QED
    BY <2>1, <2>2, <2>3, StillAwake
<1>2. CASE PopWait(c)
  <2>1. size' = 0 /\ ~isShutdown'
    BY <1>2, Zenon DEF PopWait, list
  <2>2. Cardinality(Looking') \in Nat
    BY FS_Subset, FS_CardinalityType DEF Looking
  <2> QED
    BY <2>1, <2>2 DEF Awake
<1>3. CASE PopEnd(c)
  <2>1. waiters = {} /\ waiters' = waiters
    BY <1>3 DEF PopEnd, EndOfQueue, Awake
  <2> QED
    BY <2>1 DEF Awake
<1>4. CASE PopUnlink(c)
  <2>1. c \in Looking /\ Looking' = Looking \ {c}
    BY <1>4 DEF PopUnlink, Goto, ControlTypes, Looking
  <2>2. Cardinality(Looking') = Cardinality(Looking) - 1 /\ Cardinality(Looking) \in Nat
    BY <2>1, LookingFinite, FS_RemoveElement
  <2>3. isShutdown' = isShutdown /\ waiters' = waiters
    BY <1>4, Zenon DEF PopUnlink
  <2>4. size' = size - 1 /\ size \in Nat
    BY <1>4 DEF PopUnlink, SizeAfterPop, List, ListTypes
  <2> QED
    BY <2>2, <2>3, <2>4 DEF Awake
<1> QED
  BY <1>1, <1>2, <1>3, <1>4 DEF Consumer

LEMMA OwnerAwake ==
  ASSUME IsFiniteSet(Threads), ControlTypes, Control, List, Awake, OwnerStep
  PROVE  Awake'
<1> USE ThreadKinds
<1>1. CASE ShutdownBroadcast
  <2>1. waiters' = {}
    BY <1>1 DEF ShutdownBroadcast, WakeAll
  <2> QED
    BY <2>1 DEF Awake
<1>2. CASE ShutdownLock \/ DestroyLock \/ DestroyNode \/ DestroyEnd
  <2>1. UNCHANGED <<waiters, isShutdown, size>>
    BY <1>2, Zenon DEF ShutdownLock, DestroyLock, DestroyNode, DestroyEnd, list
  <2>2. Looking \subseteq Looking'
    BY <1>2 DEF ShutdownLock, DestroyLock, DestroyNode, DestroyEnd, Goto, ControlTypes, Looking
  <2> QED
    BY <2>1, <2>2, StillAwake
<1> QED
  BY <1>1, <1>2 DEF OwnerStep

\* queue_push signals once for each datum and queue_shutdown wakes everybody:
\* while a consumer sleeps, the queue is open and for every datum in the list
\* some other thread is on its way to look, for any number of threads.
THEOREM NobodySleepsThrough ==
  ASSUME IsFiniteSet(Threads)
  PROVE  Safety => []NoLostWakeup
<1>1. Init => Inv /\ Awake
  BY InitInv DEF Init, Awake
<1>2. Inv /\ Awake /\ [Next]_vars => (Inv /\ Awake)'
  <2> SUFFICES ASSUME Inv, Awake, [Next]_vars PROVE Awake'
    BY NextInv
  <2>1. ControlTypes /\ Control /\ List
    BY DEF Inv
  <2>2. CASE UNCHANGED vars
    <3>1. UNCHANGED <<waiters, isShutdown, size, pc>>
      BY <2>2, Zenon DEF vars, list
    <3> QED
      BY <2>1, <3>1, StillAwake DEF Looking
  <2>3. ASSUME NEW p \in Producers, Producer(p) PROVE Awake'
    BY <2>1, <2>3, ProducerAwake
  <2>4. ASSUME NEW c \in Consumers, Consumer(c) PROVE Awake'
    BY <2>1, <2>4, ConsumerAwake
  <2>5. CASE OwnerStep
    BY <2>1, <2>5, OwnerAwake
  <2> QED
    BY <2>2, <2>3, <2>4, <2>5 DEF Next, Destroyed
<1>3. Awake => NoLostWakeup
  BY DEF Awake, Looking, NoLostWakeup
<1> QED
  BY <1>1, <1>2, <1>3, PTL DEF Safety

-----------------------------------------------------------------------------
(* The queue is a channel *)

LEMMA InitRefines == Init => C!Init
BY DEF Init, C!Init

\* A step the callers do not notice.
Unnoticed == UNCHANGED <<unsent, refused, contents, taken, isShutdown, stopped>>

LEMMA UnnoticedRefines == Unnoticed => UNCHANGED C!vars
BY DEF Unnoticed, C!vars

LEMMA ProducerRefines ==
  ASSUME Inv, NEW p \in Producers, Producer(p)
  PROVE  C!Next \/ UNCHANGED C!vars
<1>1. CASE PushAllocate(p) \/ PushLock(p) \/ PushSignal(p) \/ Leave(p)
  BY <1>1, UnnoticedRefines DEF Unnoticed, PushAllocate, PushLock, PushSignal, Leave, history
<1>2. CASE PushNoMemory(p)
  <2>1. PICK d \in unsent : C!Refuse(d)
    BY <1>2 DEF PushNoMemory, C!Refuse
  <2> QED
    BY <2>1 DEF C!Next, Inv, List, ListTypes
<1>3. CASE PushRefuse(p)
  <2>1. item[p] \in unsent /\ item[p] \in Data
    BY <1>3 DEF PushRefuse, Inv, List, ListTypes, Handling, Carrying
  <2>2. C!Refuse(item[p])
    BY <1>3, <2>1 DEF PushRefuse, C!Refuse
  <2> QED
    BY <2>1, <2>2 DEF C!Next
<1>4. CASE PushLink(p)
  <2>1. item[p] \in unsent /\ item[p] \in Data
    BY <1>4 DEF PushLink, Inv, List, ListTypes, Handling, Carrying
  <2>2. C!Send(item[p])
    BY <1>4, <2>1 DEF PushLink, C!Send
  <2> QED
    BY <2>1, <2>2 DEF C!Next
<1> QED
  BY <1>1, <1>2, <1>3, <1>4 DEF Producer

LEMMA ConsumerRefines ==
  ASSUME Inv, NEW c \in Consumers, Consumer(c)
  PROVE  C!Next \/ UNCHANGED C!vars
<1>1. CASE PopLock(c) \/ PopWait(c) \/ PopSpurious(c)
  BY <1>1, UnnoticedRefines DEF Unnoticed, PopLock, PopWait, PopSpurious, history
<1>2. CASE PopEnd(c)
  <2>1. contents = << >>
    <3>1. size = 0
      BY <1>2, Zenon DEF PopEnd, EndOfQueue
    <3>2. contents \in Seq(Data) /\ size = Len(contents)
      BY DEF Inv, List, ListTypes, ListShape
    <3> QED
      BY <3>1, <3>2
  <2>2. C!Tell(c)
    BY <1>2, <2>1 DEF PopEnd, EndOfQueue, C!Tell
  <2> QED
    BY <2>2 DEF C!Next
<1>3. CASE PopUnlink(c)
  <2>1. contents # << >> /\ head = Head(contents)
    BY <1>3 DEF PopUnlink, Inv, List, ListTypes, ListShape
  <2>2. c \notin stopped
    BY <1>3 DEF PopUnlink, Inv, Told, StoppedGone
  <2>3. C!Take(c)
    BY <1>3, <2>1, <2>2 DEF PopUnlink, C!Take
  <2> QED
    BY <2>3 DEF C!Next
<1>4. CASE PopUnlock(c)
  <2>1. taken[c] # {}
    BY <1>4 DEF PopUnlock, Inv, Told, TookBefore
  <2>2. C!Quit(c) \/ Unnoticed
    BY <1>4, <2>1 DEF PopUnlock, C!Quit, Unnoticed
  <2> QED
    BY <2>2, UnnoticedRefines DEF C!Next
<1> QED
  BY <1>1, <1>2, <1>3, <1>4 DEF Consumer

LEMMA OwnerRefines ==
  ASSUME Inv, OwnerStep
  PROVE  C!Next \/ UNCHANGED C!vars
<1>1. CASE ShutdownLock \/ DestroyLock \/ DestroyNode \/ DestroyEnd
  BY <1>1, UnnoticedRefines
     DEF Unnoticed, ShutdownLock, DestroyLock, DestroyNode, DestroyEnd, history
<1>2. CASE ShutdownBroadcast
  <2>1. ~ isShutdown
    BY <1>2 DEF ShutdownBroadcast, Inv, Told, OpenAtFirst
  <2>2. C!Close
    BY <1>2, <2>1 DEF ShutdownBroadcast, C!Close, history
  <2> QED
    BY <2>2 DEF C!Next
<1> QED
  BY <1>1, <1>2 DEF OwnerStep

\* queue.c implements Channel for any number of threads and data: what is
\* handed out is what was accepted, in order and once, nothing is accepted
\* after the shutdown, and NULL comes only from a closed and empty queue.
THEOREM QueueIsChannel == Safety => C!Safety
<1>1. Init => C!Init
  BY InitRefines
<1>2. Inv /\ [Next]_vars => [C!Next]_(C!vars)
  <2> SUFFICES ASSUME Inv, [Next]_vars PROVE C!Next \/ UNCHANGED C!vars
    OBVIOUS
  <2>1. CASE UNCHANGED vars
    BY <2>1, UnnoticedRefines DEF Unnoticed, vars, history
  <2> QED
    BY <2>1, ProducerRefines, ConsumerRefines, OwnerRefines DEF Next, Destroyed
<1> QED
  BY <1>1, <1>2, InitInv, NextInv, PTL DEF Safety, C!Safety

=============================================================================
