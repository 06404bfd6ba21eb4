------------------------------ MODULE TsQueue ------------------------------
(***************************************************************************)
(* ts_queue of the server (include/ts_queue.hpp): a linked list with a     *)
(* dummy last node and one mutex for each end.  The status server's thread *)
(* pushes messages, the bot's thread pops them with a wait that is limited *)
(* to 500 ms.                                                              *)
(*                                                                         *)
(* A step is what a thread does between two points at which another thread *)
(* can see the difference: taking a mutex, writing shared memory, waiting. *)
(* Nodes are heap addresses: a popped node is freed and may be allocated   *)
(* again.  The node set bounds the length of the queue.                    *)
(*                                                                         *)
(* try_pop() is not modelled: nothing calls it.                            *)
(***************************************************************************)
EXTENDS Integers, Sequences

CONSTANTS Producers, Consumers,  \* the threads
          Node, Value,
          Free,                  \* no thread holds the mutex
          NoNode, NoValue,       \* nullptr; the data of a default node
          Nothing, Something     \* see FifoQueue

Threads == Producers \cup Consumers

ASSUME QueueAssumption ==
  /\ Producers \cap Consumers = {}
  /\ Free \notin Threads /\ NoNode \notin Node
  /\ Value \cap {NoValue, Nothing, Something} = {} /\ Nothing # Something
  /\ Node # {}

VARIABLES
  head, tail,          \* the ends of the list
  data, next,          \* the nodes' members
  heap,                \* allocated nodes
  headLock, tailLock,  \* the mutexes: the thread that holds them
  waiters,             \* threads waiting on data_cond
  pc,                  \* where each thread is
  arg,                 \* the producers' new_value
  node,                \* a producer's new node, a consumer's old_head
  popping,             \* consumers in limited_wait_for_pop()
  timedOut,            \* consumers whose 500 ms are over
  out                  \* what each consumer last learnt

\* The nodes from head to tail; history, read by no action of the program.
VARIABLE chain

list    == <<head, tail, data, next, heap, chain>>
locks   == <<headLock, tailLock>>
queueVars == <<list, locks, waiters, pc, arg, node, popping, timedOut, out>>

Goto(t, where) == pc' = [pc EXCEPT ![t] = where]

----------------------------------------------------------------------------
(***************************************************************************)
(* push(): the new node becomes the dummy, the value goes into the old     *)
(* one.  The waiter is notified after the mutex has been released.         *)
(***************************************************************************)
StartPush(p, v, n) ==
  /\ pc[p] = "idle"
  /\ n \notin heap
  /\ heap' = heap \cup {n}
  /\ data' = [data EXCEPT ![n] = NoValue]
  /\ next' = [next EXCEPT ![n] = NoNode]
  /\ arg' = [arg EXCEPT ![p] = v]
  /\ node' = [node EXCEPT ![p] = n]
  /\ Goto(p, "lockTail")
  /\ UNCHANGED <<head, tail, chain, locks, waiters, popping, timedOut, out>>

\* Mutant: push() without its mutex.
LockTailNot(p) ==
  /\ pc[p] = "lockTail"
  /\ Goto(p, "write")
  /\ UNCHANGED <<list, locks, waiters, arg, node, popping, timedOut, out>>

LockTail(p) ==
  /\ pc[p] = "lockTail" /\ tailLock = Free
  /\ tailLock' = p
  /\ Goto(p, "write")
  /\ UNCHANGED <<list, headLock, waiters, arg, node, popping, timedOut, out>>

WriteTail(p) ==
  /\ pc[p] = "write"
  /\ data' = [data EXCEPT ![tail] = arg[p]]
  /\ next' = [next EXCEPT ![tail] = node[p]]
  /\ Goto(p, "swing")
  /\ UNCHANGED <<head, tail, heap, chain, locks, waiters, arg, node, popping,
                 timedOut, out>>

SwingTail(p) ==
  /\ pc[p] = "swing"
  /\ tail' = node[p]
  /\ chain' = Append(chain, node[p])
  /\ tailLock' = Free
  /\ Goto(p, "notify")
  /\ UNCHANGED <<head, data, next, heap, headLock, waiters, arg, node, popping,
                 timedOut, out>>

\* notify_one() on data_cond.
Notify(p) ==
  /\ pc[p] = "notify"
  /\ \/ /\ waiters = {}
        /\ Goto(p, "idle") /\ UNCHANGED waiters
     \/ \E c \in waiters :
          /\ waiters' = waiters \ {c}
          /\ pc' = [pc EXCEPT ![p] = "idle", ![c] = "lockHead"]
  /\ UNCHANGED <<list, locks, arg, node, popping, timedOut, out>>

----------------------------------------------------------------------------
(***************************************************************************)
(* empty() and limited_wait_for_pop(): both compare the ends with the head *)
(* mutex held; get_tail() takes the tail mutex for its read only.          *)
(***************************************************************************)
Start(c, pop) ==
  /\ pc[c] = "idle"
  /\ popping' = IF pop THEN popping \cup {c} ELSE popping \ {c}
  /\ timedOut' = timedOut \ {c}
  /\ Goto(c, "lockHead")
  /\ UNCHANGED <<list, locks, waiters, arg, node, out>>

LockHead(c) ==
  /\ pc[c] = "lockHead" /\ headLock = Free
  /\ headLock' = c
  /\ Goto(c, "getTail")
  /\ UNCHANGED <<list, tailLock, waiters, arg, node, popping, timedOut, out>>

GetTail(c) ==
  /\ pc[c] = "getTail" /\ tailLock = Free
  /\ tailLock' = c
  /\ Goto(c, "compare")
  /\ UNCHANGED <<list, headLock, waiters, arg, node, popping, timedOut, out>>

\* Mutant: the clock is looked at first.
AfterCompareClock(c) ==
  IF c \notin popping \/ c \in timedOut THEN "return"
  ELSE IF head # tail THEN "detach" ELSE "wait"

\* Data goes to the pop, no data to the wait while there is time left.
AfterCompare(c) ==
  IF c \notin popping THEN "return"
  ELSE IF head # tail THEN "detach"
  ELSE IF c \in timedOut THEN "return" ELSE "wait"

\* Mutant: a wait that is over does not look again.
CompareTimedOut(c) ==
  /\ pc[c] = "compare"
  /\ out' = [out EXCEPT ![c] = IF head # tail /\ c \notin timedOut
                                 THEN Something ELSE Nothing]
  /\ tailLock' = Free
  /\ Goto(c, AfterCompare(c))
  /\ UNCHANGED <<list, headLock, waiters, arg, node, popping, timedOut>>

Compare(c) ==
  /\ pc[c] = "compare"
  /\ out' = [out EXCEPT ![c] = IF head # tail THEN Something ELSE Nothing]
  /\ tailLock' = Free
  /\ Goto(c, AfterCompare(c))
  /\ UNCHANGED <<list, headLock, waiters, arg, node, popping, timedOut>>

Return(c) ==
  /\ pc[c] = "return"
  /\ headLock' = Free
  /\ Goto(c, "idle")
  /\ UNCHANGED <<list, tailLock, waiters, arg, node, popping, timedOut, out>>

\* Mutant: sleeping instead, with the head mutex held.
WaitHolding(c) ==
  /\ pc[c] = "wait"
  /\ waiters' = waiters \cup {c}
  /\ Goto(c, "waiting")
  /\ UNCHANGED <<list, locks, arg, node, popping, timedOut, out>>

\* data_cond.wait_for() releases the head mutex and waits in one step.
Wait(c) ==
  /\ pc[c] = "wait"
  /\ headLock' = Free
  /\ waiters' = waiters \cup {c}
  /\ Goto(c, "waiting")
  /\ UNCHANGED <<list, tailLock, arg, node, popping, timedOut, out>>

\* Mutant: waking up is taken for data.
WakeUpTrusting(c) ==
  /\ c \in waiters
  /\ waiters' = waiters \ {c}
  /\ Goto(c, "detach")
  /\ UNCHANGED <<list, locks, arg, node, popping, timedOut, out>>

\* A waiter wakes on the deadline, or for no reason.
WakeUp(c) ==
  /\ c \in waiters
  /\ waiters' = waiters \ {c}
  /\ Goto(c, "lockHead")
  /\ UNCHANGED <<list, locks, arg, node, popping, timedOut, out>>

\* Mutant: a wait without a limit for a consumer that already waits.
TimeoutBefore(c) ==
  /\ pc[c] \notin {"idle", "waiting"} /\ c \in popping \ timedOut
  /\ timedOut' = timedOut \cup {c}
  /\ UNCHANGED <<list, locks, waiters, pc, arg, node, popping, out>>

Timeout(c) ==
  /\ pc[c] # "idle" /\ c \in popping \ timedOut
  /\ timedOut' = timedOut \cup {c}
  /\ UNCHANGED <<list, locks, waiters, pc, arg, node, popping, out>>

\* pop_head(), then the data is copied and the node freed.
Detach(c) ==
  /\ pc[c] = "detach"
  /\ node' = [node EXCEPT ![c] = head]
  /\ head' = next[head]
  /\ chain' = Tail(chain)
  /\ Goto(c, "copy")
  /\ UNCHANGED <<tail, data, next, heap, locks, waiters, arg, popping,
                 timedOut, out>>

Copy(c) ==
  /\ pc[c] = "copy"
  /\ out' = [out EXCEPT ![c] = data[node[c]]]
  /\ heap' = heap \ {node[c]}
  /\ node' = [node EXCEPT ![c] = NoNode]
  /\ headLock' = Free
  /\ Goto(c, "idle")
  /\ UNCHANGED <<head, tail, data, next, chain, tailLock, waiters, arg,
                 popping, timedOut>>

----------------------------------------------------------------------------
QueueInit ==
  \E n \in Node :
    /\ head = n /\ tail = n /\ heap = {n} /\ chain = <<n>>
    /\ data = [m \in Node |-> NoValue] /\ next = [m \in Node |-> NoNode]
    /\ headLock = Free /\ tailLock = Free /\ waiters = {}
    /\ pc = [t \in Threads |-> "idle"]
    /\ arg = [p \in Producers |-> NoValue]
    /\ node = [t \in Threads |-> NoNode]
    /\ popping = {} /\ timedOut = {}
    /\ out = [c \in Consumers |-> Nothing]

\* What a thread does by itself once it has called an operation.
ProducerStep(p) == LockTail(p) \/ WriteTail(p) \/ SwingTail(p) \/ Notify(p)

ConsumerStep(c) ==
  \/ LockHead(c) \/ GetTail(c) \/ Compare(c) \/ Return(c) \/ Wait(c)
  \/ Detach(c) \/ Copy(c)

QueueNext ==
  \/ \E p \in Producers :
        ProducerStep(p) \/ \E v \in Value, n \in Node : StartPush(p, v, n)
  \/ \E c \in Consumers :
        ConsumerStep(c) \/ WakeUp(c) \/ Timeout(c)
          \/ \E pop \in BOOLEAN : Start(c, pop)

(***************************************************************************)
(* Threads that are not blocked run on, a mutex asked for again and again  *)
(* is got, the clock advances, and a waiter past its deadline is woken.    *)
(***************************************************************************)
QueueFairness ==
  /\ \A p \in Producers : SF_queueVars(ProducerStep(p))
  /\ \A c \in Consumers :
        /\ SF_queueVars(ConsumerStep(c))
        /\ WF_queueVars(Timeout(c))
        /\ WF_queueVars(c \in timedOut /\ WakeUp(c))

QueueSpec == QueueInit /\ [][QueueNext]_queueVars /\ QueueFairness

\* A consumer that, like the bot's loop, comes back for more.
ServedSpec == QueueSpec /\ \A c \in Consumers : SF_queueVars(Start(c, TRUE))

----------------------------------------------------------------------------
QueueTypeOK ==
  /\ head \in Node /\ tail \in Node
  /\ data \in [Node -> Value \cup {NoValue}]
  /\ next \in [Node -> Node \cup {NoNode}]
  /\ heap \subseteq Node
  /\ headLock \in Consumers \cup {Free} /\ tailLock \in Threads \cup {Free}
  /\ waiters \subseteq Consumers
  /\ pc \in [Threads -> {"idle", "lockTail", "write", "swing", "notify",
                         "lockHead", "getTail", "compare", "return", "wait",
                         "waiting", "detach", "copy"}]
  /\ arg \in [Producers -> Value \cup {NoValue}]
  /\ node \in [Threads -> Node \cup {NoNode}]
  /\ popping \subseteq Consumers /\ timedOut \subseteq Consumers
  /\ out \in [Consumers -> Value \cup {NoValue, Nothing, Something}]
  /\ chain \in Seq(Node)

(***************************************************************************)
(* The two mutexes are enough (ts_queue.hpp:20-37): the node a producer    *)
(* writes is never the one a consumer unlinks or reads, nobody reads a     *)
(* node that was freed, and a node that is read has been filled.           *)
(***************************************************************************)
Writes(p) == IF pc[p] \in {"write", "swing"} THEN {tail, node[p]} ELSE {}
Reads(c) == IF pc[c] = "detach" THEN {head}
            ELSE IF pc[c] = "copy" THEN {node[c]} ELSE {}

NoDataRace ==
  \A c \in Consumers :
    /\ \A p \in Producers : Writes(p) \cap Reads(c) = {}
    /\ \A n \in Reads(c) : n \in heap /\ data[n] # NoValue

(***************************************************************************)
(* No node is leaked and none is freed early: what is allocated is the     *)
(* list, the nodes about to be linked and the nodes about to be freed.     *)
(***************************************************************************)
Pending == {t \in Threads : pc[t] \in {"lockTail", "write", "swing", "copy"}}

HeapExact ==
  heap = {chain[i] : i \in DOMAIN chain} \cup {node[t] : t \in Pending}

MemorySafe == QueueTypeOK /\ NoDataRace /\ HeapExact

(***************************************************************************)
(* The two mutexes cannot block each other, nor a wait the mutexes: who    *)
(* waits for a mutex waits for a thread that can run, or for a consumer    *)
(* that waits for one that can; and who waits for data has a deadline.     *)
(***************************************************************************)
WaitsFor(t, u) ==
  \/ pc[t] \in {"lockTail", "getTail"} /\ tailLock = u
  \/ pc[t] = "lockHead" /\ headLock = u

CanRun(t) ==
  pc[t] \notin {"idle", "waiting"} /\ \A u \in Threads : ~WaitsFor(t, u)

NoDeadlock ==
  \A t \in Threads :
    /\ pc[t] = "waiting" => t \in waiters \cap popping
    /\ \A u \in Threads :
         WaitsFor(t, u) =>
           CanRun(u) \/ \E v \in Threads : WaitsFor(u, v) /\ CanRun(v)

(***************************************************************************)
(* The queue is safe to share: its members stay what they are declared to  *)
(* be, no two threads race for a node, no node is leaked, freed early or   *)
(* freed twice, and no threads block each other.                           *)
(***************************************************************************)
ThreadSafe == MemorySafe /\ NoDeadlock

(***************************************************************************)
(* The bot asks !empty() before it pops (telegram_bot.cpp:112): to a sole  *)
(* consumer the answer stays true, its pop never comes back with nothing.  *)
(***************************************************************************)
AnswerKept ==
  [][\A c \in Consumers :
       Consumers = {c} /\ out[c] = Something => out'[c] # Nothing]_queueVars

(***************************************************************************)
(* Nobody is stuck in the queue: a push returns, and a limited wait        *)
(* returns although push() notifies without the head mutex, so that a      *)
(* notification can fall between a consumer's comparison and its wait.     *)
(***************************************************************************)
EveryCallReturns == \A t \in Threads : pc[t] # "idle" ~> pc[t] = "idle"

(***************************************************************************)
(* The oldest message does not stay while consumers come back for more.    *)
(***************************************************************************)
OldestLeaves ==
  \A n \in Node : (head = n /\ tail # n) ~> head # n

(***************************************************************************)
(* ts_queue implements FifoQueue: a push takes effect when the tail moves, *)
(* a pop when the head does, and an answer when the ends are compared.     *)
(***************************************************************************)
Fifo == INSTANCE FifoQueue WITH
  queue <- [i \in 1 .. Len(chain) - 1 |-> data[chain[i]]],
  out   <- [c \in Consumers |->
              IF pc[c] = "copy" THEN data[node[c]] ELSE out[c]]

IsFifo == Fifo!FifoSpec
============================================================================
