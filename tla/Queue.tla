------------------------------- MODULE Queue -------------------------------
(***************************************************************************)
(* src/core/queue.c: a blocking queue, a singly linked list under a mutex  *)
(* with one condition variable.  Producers push, consumers pop until they  *)
(* get NULL, the owner shuts the queue down, joins everybody and destroys  *)
(* it.  A mutex section is split where another thread could see, or be     *)
(* affected by, a half-done operation if the locking were wrong.           *)
(*                                                                         *)
(* A QueueNode is named by the datum it carries: a pointer is pushed at    *)
(* most once, so node and datum determine each other.                      *)
(***************************************************************************)
EXTENDS Naturals, Sequences, FiniteSets, Functions

CONSTANTS Producers, Consumers,  \* the threads that call queue_push, queue_pop
          Owner,                 \* the thread that creates and destroys
          Data,                  \* the pointers that are pushed
          Null,                  \* NULL, and the owner of a free mutex
          Quitters,              \* consumers that may leave before NULL comes
          MaxSpurious            \* bound on wakeups nobody asked for

Threads == Producers \cup Consumers \cup {Owner}

ASSUME ThreadsAssumption ==
    /\ Producers \cap Consumers = {}
    /\ Owner \notin Producers \cup Consumers
    /\ Quitters \subseteq Consumers
    /\ Null \notin Data \cup Threads
ASSUME SpuriousAssumption == MaxSpurious \in Nat

VARIABLES
    lock,        \* who holds q->lock
    waiters,     \* threads blocked in pthread_cond_wait on q->cond
    head, tail,  \* q->head, q->tail
    next,        \* the next field of every node
    size,        \* q->size
    isShutdown,  \* q->is_shutdown
    allocated,   \* the nodes malloc gave and free has not taken back
    cursor,      \* destroy_queue's current
    pc,          \* where each thread is
    item,        \* the datum a producer is pushing
    spurious,    \* spurious wakeups so far
    \* What the threads were told, kept to state the promises of the queue:
    unsent, refused, contents, taken, stopped

list    == <<head, tail, next, size, allocated>>
history == <<unsent, refused, contents, taken, stopped>>
vars    == <<lock, waiters, list, isShutdown, cursor, pc, item, spurious, history>>

Goto(t, l) == pc' = [pc EXCEPT ![t] = l]

\* pthread_mutex_lock returns; without the mutex it would always go ahead.
NoMutex   == TRUE
MutexFree == lock = Null

\* create_queue, and threads that have not called anything yet.
Init == /\ lock = Null /\ waiters = {}
        /\ head = Null /\ tail = Null
        /\ next = [d \in Data |-> Null]
        /\ size = 0
        /\ isShutdown = FALSE
        /\ allocated = {} /\ cursor = Null
        /\ pc = [t \in Threads |-> IF t = Owner THEN "running" ELSE "idle"]
        /\ item = [p \in Producers |-> Null]
        /\ spurious = 0
        /\ unsent = Data /\ refused = {}
        /\ contents = <<>>
        /\ taken = [c \in Consumers |-> {}]
        /\ stopped = {}

-----------------------------------------------------------------------------
(* queue_push *)

InHand == {item[p] : p \in Producers}

\* The node is allocated and filled before the mutex is taken.
PushAllocate(p) ==
    \E d \in unsent \ InHand :
       /\ pc[p] = "idle"
       /\ item' = [item EXCEPT ![p] = d]
       /\ allocated' = allocated \cup {d}
       /\ next' = [next EXCEPT ![d] = Null]
       /\ Goto(p, "locking")
       /\ UNCHANGED <<lock, waiters, head, tail, size, isShutdown, cursor, spurious, history>>

\* malloc returns NULL: QUEUE_ERROR, whatever the state of the queue.
PushNoMemory(p) ==
    \E d \in unsent \ InHand :
       /\ pc[p] = "idle"
       /\ unsent' = unsent \ {d}
       /\ refused' = refused \cup {d}
       /\ UNCHANGED <<lock, waiters, list, isShutdown, cursor, pc, item, spurious,
                      contents, taken, stopped>>

PushLock(p) ==
    /\ pc[p] = "locking"
    /\ MutexFree
    /\ lock' = p
    /\ Goto(p, "linking")
    /\ UNCHANGED <<waiters, list, isShutdown, cursor, item, spurious, history>>

\* Without free(qn) on this path the node would stay behind.
KeepRefusedNode(p) == allocated
FreeRefusedNode(p) == allocated \ {item[p]}

\* A closed queue: unlock, give the node back, QUEUE_ERROR.
PushRefuse(p) ==
    /\ pc[p] = "linking"
    /\ isShutdown
    /\ lock' = Null
    /\ allocated' = FreeRefusedNode(p)
    /\ unsent' = unsent \ {item[p]}
    /\ refused' = refused \cup {item[p]}
    /\ item' = [item EXCEPT ![p] = Null]
    /\ Goto(p, "idle")
    /\ UNCHANGED <<waiters, head, tail, next, size, isShutdown, cursor, spurious,
                   contents, taken, stopped>>

PushLink(p) ==
    /\ pc[p] = "linking"
    /\ ~isShutdown
    /\ head' = IF head = Null THEN item[p] ELSE head
    /\ next' = IF head = Null THEN next ELSE [next EXCEPT ![tail] = item[p]]
    /\ tail' = item[p]
    /\ size' = size + 1
    /\ contents' = Append(contents, item[p])
    /\ unsent' = unsent \ {item[p]}
    /\ item' = [item EXCEPT ![p] = Null]
    /\ Goto(p, "signalling")
    /\ UNCHANGED <<lock, waiters, isShutdown, allocated, cursor, spurious,
                   refused, taken, stopped>>

\* pthread_cond_signal wakes one waiter, if there is one; it has to get the
\* mutex back before it goes on.
PushSignal(p) ==
    /\ pc[p] = "signalling"
    /\ \/ /\ waiters = {}
          /\ Goto(p, "idle")
          /\ UNCHANGED waiters
       \/ \E c \in waiters :
             /\ waiters' = waiters \ {c}
             /\ pc' = [pc EXCEPT ![p] = "idle", ![c] = "woken"]
    /\ lock' = Null
    /\ UNCHANGED <<list, isShutdown, cursor, item, spurious, history>>

\* The thread's routine returns: it will not push any more.
Leave(p) ==
    /\ pc[p] = "idle"
    /\ Goto(p, "exited")
    /\ UNCHANGED <<lock, waiters, list, isShutdown, cursor, item, spurious, history>>

Producer(p) == \/ PushAllocate(p) \/ PushNoMemory(p) \/ PushLock(p)
               \/ PushRefuse(p) \/ PushLink(p) \/ PushSignal(p) \/ Leave(p)

-----------------------------------------------------------------------------
(* queue_pop *)

\* The call itself, or the way back out of pthread_cond_wait.
PopLock(c) ==
    /\ pc[c] \in {"idle", "woken"}
    /\ MutexFree
    /\ lock' = c
    /\ Goto(c, "testing")
    /\ UNCHANGED <<waiters, list, isShutdown, cursor, item, spurious, history>>

\* pthread_cond_wait: the mutex is released and the wait begins in one step.
PopWait(c) ==
    /\ pc[c] = "testing"
    /\ size = 0 /\ ~isShutdown
    /\ lock' = Null
    /\ waiters' = waiters \cup {c}
    /\ Goto(c, "waiting")
    /\ UNCHANGED <<list, isShutdown, cursor, item, spurious, history>>

\* POSIX lets pthread_cond_wait return without a signal.
PopSpurious(c) ==
    /\ c \in waiters
    /\ spurious < MaxSpurious
    /\ spurious' = spurious + 1
    /\ waiters' = waiters \ {c}
    /\ Goto(c, "woken")
    /\ UNCHANGED <<lock, list, isShutdown, cursor, item, history>>

\* NULL is for a closed and empty queue, not for every closed queue.
ClosedOnly    == isShutdown
EndOfQueue    == size = 0 /\ isShutdown

\* Shut down and empty: NULL, and the routines of all consumers return.
PopEnd(c) ==
    /\ pc[c] = "testing"
    /\ EndOfQueue
    /\ lock' = Null
    /\ stopped' = stopped \cup {c}
    /\ Goto(c, "exited")
    /\ UNCHANGED <<waiters, list, isShutdown, cursor, item, spurious,
                   unsent, refused, contents, taken>>

\* The last node takes the tail pointer with it; a stale one would be used by
\* nobody until the list is walked or linked to.
KeepTail     == tail
TailAfterPop == IF next[head] = Null THEN Null ELSE tail

CountTwice   == size - 2
SizeAfterPop == size - 1

PopUnlink(c) ==
    /\ pc[c] = "testing"
    /\ size # 0
    /\ head' = next[head]
    /\ tail' = TailAfterPop
    /\ size' = SizeAfterPop
    /\ allocated' = allocated \ {head}
    /\ contents' = Tail(contents)
    /\ taken' = [taken EXCEPT ![c] = @ \cup {head}]
    /\ Goto(c, "unlocking")
    /\ UNCHANGED <<lock, waiters, next, isShutdown, cursor, item, spurious,
                   unsent, refused, stopped>>

\* The datum is returned; a quitter may leave its loop on it, as the DB
\* worker does when the datum is a DB_TASK_SHUTDOWN.
PopUnlock(c) ==
    /\ pc[c] = "unlocking"
    /\ lock' = Null
    /\ \/ Goto(c, "idle") /\ UNCHANGED stopped
       \/ c \in Quitters /\ Goto(c, "exited") /\ stopped' = stopped \cup {c}
    /\ UNCHANGED <<waiters, list, isShutdown, cursor, item, spurious,
                   unsent, refused, contents, taken>>

Consumer(c) == \/ PopLock(c) \/ PopWait(c) \/ PopSpurious(c)
               \/ PopEnd(c) \/ PopUnlink(c) \/ PopUnlock(c)

-----------------------------------------------------------------------------
(* queue_shutdown, then pthread_join of every thread, then destroy_queue *)

ShutdownLock ==
    /\ pc[Owner] = "running"
    /\ MutexFree
    /\ lock' = Owner
    /\ Goto(Owner, "closing")
    /\ UNCHANGED <<waiters, list, isShutdown, cursor, item, spurious, history>>

\* pthread_cond_broadcast wakes everybody, pthread_cond_signal would wake one.
WakeOne == IF waiters = {} THEN {} ELSE {CHOOSE c \in waiters : TRUE}
WakeAll == waiters

\* The flag, the broadcast and the unlock.
ShutdownBroadcast ==
    /\ pc[Owner] = "closing"
    /\ isShutdown' = TRUE
    /\ waiters' = waiters \ WakeAll
    /\ pc' = [t \in Threads |-> IF t \in WakeAll THEN "woken"
                                ELSE IF t = Owner THEN "joining" ELSE pc[t]]
    /\ lock' = Null
    /\ UNCHANGED <<list, cursor, item, spurious, history>>

DestroyLock ==
    /\ pc[Owner] = "joining"
    /\ \A t \in Threads \ {Owner} : pc[t] = "exited"
    /\ MutexFree
    /\ lock' = Owner
    /\ cursor' = head
    /\ Goto(Owner, "freeing")
    /\ UNCHANGED <<waiters, list, isShutdown, item, spurious, history>>

\* The walk reads next before it frees the node.
OnlyTheFirst == Null
NextNode     == next[cursor]

\* The nodes are freed; the data in them are not.
DestroyNode ==
    /\ pc[Owner] = "freeing"
    /\ cursor # Null
    /\ allocated' = allocated \ {cursor}
    /\ cursor' = NextNode
    /\ UNCHANGED <<lock, waiters, head, tail, next, size, isShutdown, pc, item,
                   spurious, history>>

DestroyEnd ==
    /\ pc[Owner] = "freeing"
    /\ cursor = Null
    /\ lock' = Null
    /\ Goto(Owner, "destroyed")
    /\ UNCHANGED <<waiters, list, isShutdown, cursor, item, spurious, history>>

OwnerStep == ShutdownLock \/ ShutdownBroadcast \/ DestroyLock \/ DestroyNode \/ DestroyEnd

\* The program is past the queue; anything else without a step is a deadlock.
Destroyed == pc[Owner] = "destroyed" /\ UNCHANGED vars

Next == \/ \E p \in Producers : Producer(p)
        \/ \E c \in Consumers : Consumer(c)
        \/ OwnerStep
        \/ Destroyed

\* Every thread is scheduled; a spurious wakeup is never owed to anybody.
Fairness == /\ \A p \in Producers : WF_vars(Producer(p))
            /\ \A c \in Consumers :
                  WF_vars(PopLock(c) \/ PopWait(c) \/ PopEnd(c) \/ PopUnlink(c) \/ PopUnlock(c))
            /\ WF_vars(OwnerStep)

Safety == Init /\ [][Next]_vars
Spec   == Safety /\ Fairness

-----------------------------------------------------------------------------
(* Properties *)

Labels == {"idle", "locking", "linking", "signalling", "exited", "testing", "waiting",
           "woken", "unlocking", "running", "closing", "joining", "freeing", "destroyed"}

\* The type of every variable; size never leaves 0 .. the number of data.
TypeOK == /\ lock \in Threads \cup {Null}
          /\ waiters \subseteq Consumers
          /\ {head, tail, cursor} \subseteq Data \cup {Null}
          /\ next \in [Data -> Data \cup {Null}]
          /\ size \in Nat
          /\ isShutdown \in BOOLEAN
          /\ allocated \subseteq Data
          /\ pc \in [Threads -> Labels]
          /\ item \in [Producers -> Data \cup {Null}]
          /\ spurious \in Nat
          /\ unsent \subseteq Data /\ refused \subseteq Data
          /\ contents \in Seq(Data)
          /\ taken \in [Consumers -> SUBSET Data]
          /\ stopped \subseteq Consumers

InSection == {"linking", "signalling", "testing", "unlocking", "closing", "freeing"}

\* A thread between lock and unlock of q->lock is the one that holds it, so
\* no two threads are inside push, pop, shutdown or destroy at once.
MutualExclusion == \A t \in Threads : (pc[t] \in InSection) <=> (lock = t)

\* The linked list is the accepted data in order: head, tail, size and the
\* next fields of queue_push and queue_pop agree at every unlock and between.
ListShape ==
    LET n == Len(contents) IN
    /\ size = n
    /\ head = IF n = 0 THEN Null ELSE contents[1]
    /\ tail = IF n = 0 THEN Null ELSE contents[n]
    /\ \A i \in 1 .. n : next[contents[i]] = IF i = n THEN Null ELSE contents[i + 1]

Preparing == {item[p] : p \in {q \in Producers : pc[q] \in {"locking", "linking"}}}

\* No node leaks and none is used after free: what malloc gave is linked or
\* in the hands of a push, until destroy_queue gives back all that is left.
NodesOwned ==
    /\ pc[Owner] \notin {"freeing", "destroyed"} => allocated = Range(contents) \cup Preparing
    /\ pc[Owner] = "freeing" /\ cursor # Null => cursor \in allocated
    /\ pc[Owner] = "destroyed" => allocated = {}

\* A consumer is asleep only if somebody else will look at every datum in the
\* list, and nobody sleeps on a closed queue: signal and broadcast suffice.
NoLostWakeup ==
    waiters # {} =>
       /\ ~isShutdown
       /\ size <= Cardinality({t \in Threads : pc[t] \in {"woken", "testing", "signalling"}})

\* Every thread leaves and the owner's joins return, so destroy_queue ends.
Terminates == <>(pc[Owner] = "destroyed")

\* The queue is a channel: FIFO, each datum to one consumer, nothing accepted
\* after shutdown, NULL only when closed and empty.
C == INSTANCE Channel WITH Receivers <- Consumers, open <- ~isShutdown

ImplementsChannel == C!Spec
=============================================================================
