---------------------------- MODULE TsQueueProofs ----------------------------
(***************************************************************************)
(* Theorems about ts_queue, for any number of producers, consumers, nodes  *)
(* and values.                                                             *)
(***************************************************************************)
EXTENDS TsQueue, SequenceTheorems, TLAPS

ProducerPlaces == {"idle", "lockTail", "write", "swing", "notify"}
ConsumerPlaces == {"idle", "lockHead", "getTail", "compare", "return", "wait",
                   "waiting", "detach", "copy"}

(***************************************************************************)
(* Who holds which mutex.                                                  *)
(***************************************************************************)
LocksInv ==
  /\ \A p \in Producers :
       /\ pc[p] \in ProducerPlaces
       /\ pc[p] \in {"write", "swing"} <=> tailLock = p
  /\ \A c \in Consumers :
       /\ pc[c] \in ConsumerPlaces
       /\ pc[c] = "compare" <=> tailLock = c
       /\ pc[c] \in {"getTail", "compare", "return", "wait", "detach", "copy"}
            <=> headLock = c
       /\ pc[c] = "waiting" <=> c \in waiters

(***************************************************************************)
(* The list: all its nodes are allocated and different, and all but the    *)
(* dummy are linked and filled.                                            *)
(***************************************************************************)
ChainInv ==
  /\ Len(chain) >= 1 /\ head = chain[1] /\ tail = chain[Len(chain)]
  /\ \A i \in 1 .. Len(chain) : chain[i] \in heap
  /\ \A i, j \in 1 .. Len(chain) : chain[i] = chain[j] => i = j
  /\ \A i \in 1 .. Len(chain) - 1 :
       next[chain[i]] = chain[i + 1] /\ data[chain[i]] \in Value

(***************************************************************************)
(* The nodes beside the list: each belongs to one thread.                  *)
(***************************************************************************)
Holds(t) == pc[t] \in {"lockTail", "write", "swing", "copy"}

NodesInv ==
  /\ \A t \in Threads :
       Holds(t) => /\ node[t] \in heap
                   /\ \A i \in 1 .. Len(chain) : node[t] # chain[i]
  /\ \A s, t \in Threads :
       Holds(s) /\ Holds(t) /\ node[s] = node[t] => s = t
  /\ \A n \in heap :
       \/ \E i \in 1 .. Len(chain) : chain[i] = n
       \/ \E t \in Threads : Holds(t) /\ node[t] = n

(***************************************************************************)
(* What a thread relies on where it is.                                    *)
(***************************************************************************)
CallsInv ==
  /\ \A p \in Producers :
       /\ pc[p] \in {"lockTail", "write", "swing"} => arg[p] \in Value
       /\ pc[p] = "swing" => data[tail] = arg[p] /\ next[tail] = node[p]
  /\ \A c \in Consumers :
       /\ pc[c] = "detach" => Len(chain) >= 2
       /\ pc[c] = "copy" => data[node[c]] \in Value

QueueInv == QueueTypeOK /\ LocksInv /\ ChainInv /\ NodesInv /\ CallsInv

----------------------------------------------------------------------------
LEMMA Chains ==
  ASSUME QueueTypeOK
  PROVE  /\ Len(chain) \in Nat /\ DOMAIN chain = 1 .. Len(chain)
         /\ \A i \in 1 .. Len(chain) : chain[i] \in Node
         /\ Producers \subseteq Threads /\ Consumers \subseteq Threads
BY LenProperties, ElementOfSeq DEF QueueTypeOK, Threads

LEMMA QueueIsSafe == QueueInv => MemorySafe
<1> SUFFICES ASSUME QueueInv PROVE MemorySafe
  OBVIOUS
<1> USE DEF QueueInv
<1>1. /\ Len(chain) \in Nat /\ DOMAIN chain = 1 .. Len(chain)
      /\ Producers \subseteq Threads /\ Consumers \subseteq Threads
  BY Chains
<1>2. HeapExact
  BY <1>1 DEF HeapExact, Pending, NodesInv, ChainInv, Holds
<1>3. ASSUME NEW c \in Consumers, pc[c] = "detach"
      PROVE  /\ \A p \in Producers : Writes(p) \cap Reads(c) = {}
             /\ \A n \in Reads(c) : n \in heap /\ data[n] # NoValue
  <2>1. Reads(c) = {chain[1]}
    BY <1>3 DEF Reads, ChainInv
  <2>2. /\ 1 \in 1 .. Len(chain) /\ 1 \in 1 .. Len(chain) - 1
        /\ Len(chain) \in 1 .. Len(chain) /\ Len(chain) # 1
    BY <1>1, <1>3 DEF CallsInv
  <2>3. chain[1] \in heap /\ data[chain[1]] \in Value /\ chain[1] # tail
    BY <2>2 DEF ChainInv
  <2>4. \A p \in Producers : Writes(p) \cap Reads(c) = {}
    BY <1>1, <2>1, <2>2, <2>3 DEF Writes, NodesInv, Holds
  <2> QED
    BY <2>1, <2>3, <2>4, QueueAssumption
<1>4. ASSUME NEW c \in Consumers, pc[c] = "copy"
      PROVE  /\ \A p \in Producers : Writes(p) \cap Reads(c) = {}
             /\ \A n \in Reads(c) : n \in heap /\ data[n] # NoValue
  <2>1. Reads(c) = {node[c]}
    BY <1>4 DEF Reads
  <2>2. /\ node[c] \in heap /\ data[node[c]] \in Value
        /\ \A i \in 1 .. Len(chain) : node[c] # chain[i]
    BY <1>1, <1>4 DEF NodesInv, CallsInv, Holds
  <2>3. tail # node[c]
    BY <1>1, <2>2 DEF ChainInv
  <2>4. \A p \in Producers : p # c
    BY QueueAssumption
  <2>5. ASSUME NEW p \in Producers
        PROVE  Writes(p) \cap Reads(c) = {}
    <3>1. pc[p] \in {"write", "swing"} => node[p] # node[c]
      <4>1. p \in Threads /\ c \in Threads
        BY <1>1
      <4>2. Holds(c) /\ (pc[p] \in {"write", "swing"} => Holds(p))
        BY <1>4 DEF Holds
      <4> QED
        BY <2>4, <4>1, <4>2 DEF NodesInv
    <3> QED
      BY <2>1, <2>3, <3>1 DEF Writes
  <2> QED
    BY <2>1, <2>2, <2>5, QueueAssumption
<1>5. NoDataRace
  BY <1>3, <1>4 DEF NoDataRace, Reads
<1> QED
  BY <1>2, <1>5 DEF MemorySafe

LEMMA InitQueue == QueueInit => QueueInv
<1> SUFFICES ASSUME QueueInit PROVE QueueInv
  OBVIOUS
<1>1. PICK n \in Node :
        /\ head = n /\ tail = n /\ heap = {n} /\ chain = <<n>>
        /\ data = [m \in Node |-> NoValue] /\ next = [m \in Node |-> NoNode]
        /\ headLock = Free /\ tailLock = Free /\ waiters = {}
        /\ pc = [t \in Threads |-> "idle"]
        /\ arg = [p \in Producers |-> NoValue]
        /\ node = [t \in Threads |-> NoNode]
        /\ popping = {} /\ timedOut = {}
        /\ out = [c \in Consumers |-> Nothing]
  BY DEF QueueInit
<1>2. Len(chain) = 1 /\ chain[1] = n /\ chain \in Seq(Node)
  BY <1>1
<1>3. QueueTypeOK
  BY <1>1, <1>2 DEF QueueTypeOK
<1>4. LocksInv
  BY <1>1, QueueAssumption
  DEF LocksInv, ProducerPlaces, ConsumerPlaces, Threads
<1>5. ChainInv
  BY <1>1, <1>2 DEF ChainInv
<1>6. NodesInv /\ CallsInv
  BY <1>1, <1>2 DEF NodesInv, CallsInv, Holds, Threads
<1> QED
  BY <1>3, <1>4, <1>5, <1>6 DEF QueueInv

----------------------------------------------------------------------------
(***************************************************************************)
(* Types and mutexes.                                                      *)
(***************************************************************************)
LEMMA StepTypes ==
  ASSUME QueueInv, QueueNext
  PROVE  QueueTypeOK'
<1> USE DEF QueueInv, QueueTypeOK, list, locks, Goto
<1>0. Producers \subseteq Threads /\ Consumers \subseteq Threads
  BY DEF Threads
<1>1. ASSUME NEW p \in Producers, NEW v \in Value, NEW n \in Node,
             StartPush(p, v, n)
      PROVE  QueueTypeOK'
  BY <1>0, <1>1 DEF StartPush
<1>2. ASSUME NEW p \in Producers, LockTail(p) \/ Notify(p)
      PROVE  QueueTypeOK'
  BY <1>0, <1>2 DEF LockTail, Notify
<1>3. ASSUME NEW p \in Producers, WriteTail(p)
      PROVE  QueueTypeOK'
  BY <1>0, <1>3 DEF WriteTail
<1>4. ASSUME NEW p \in Producers, SwingTail(p)
      PROVE  QueueTypeOK'
  <2>1. node[p] \in Node
    BY <1>0, <1>4, QueueAssumption DEF SwingTail, NodesInv, Holds
  <2>2. chain' \in Seq(Node)
    BY <1>4, <2>1, AppendProperties DEF SwingTail
  <2> QED
    BY <1>0, <1>4, <2>1, <2>2 DEF SwingTail
<1>5. ASSUME NEW c \in Consumers,
             \/ LockHead(c) \/ GetTail(c) \/ Compare(c) \/ Return(c) \/ Wait(c)
             \/ WakeUp(c) \/ Timeout(c) \/ \E pop \in BOOLEAN : Start(c, pop)
      PROVE  QueueTypeOK'
  BY <1>0, <1>5
  DEF LockHead, GetTail, Compare, Return, Wait, WakeUp, Timeout, Start,
      AfterCompare
<1>6. ASSUME NEW c \in Consumers, Detach(c)
      PROVE  QueueTypeOK'
  <2>1. Len(chain) >= 2 /\ next[chain[1]] = chain[2] /\ chain[2] \in Node
        /\ chain # <<>>
    <3>1. Len(chain) >= 2 /\ Len(chain) \in Nat
      BY <1>6, Chains DEF Detach, CallsInv
    <3>2. 1 \in 1 .. Len(chain) - 1 /\ 2 \in 1 .. Len(chain)
      BY <3>1
    <3>3. chain # <<>>
      BY <3>1
    <3> QED
      BY <3>1, <3>2, <3>3, Chains DEF ChainInv
  <2>2. chain' \in Seq(Node)
    BY <1>6, <2>1, HeadTailProperties DEF Detach
  <2>3. head' \in Node
    BY <1>6, <2>1 DEF Detach, ChainInv
  <2> QED
    BY <1>0, <1>6, <2>2, <2>3 DEF Detach
<1>7. ASSUME NEW c \in Consumers, Copy(c)
      PROVE  QueueTypeOK'
  <2>1. data[node[c]] \in Value
    BY <1>7 DEF Copy, CallsInv
  <2> QED
    BY <1>0, <1>7, <2>1 DEF Copy
<1> QED
  BY <1>1, <1>2, <1>3, <1>4, <1>5, <1>6, <1>7
  DEF QueueNext, ProducerStep, ConsumerStep

LEMMA StepLocks ==
  ASSUME QueueInv, QueueNext
  PROVE  LocksInv'
<1> USE QueueAssumption
    DEF QueueInv, LocksInv, list, locks, Goto, Threads, ProducerPlaces,
        ConsumerPlaces
<1>0. DOMAIN pc = Threads /\ pc = [t \in DOMAIN pc |-> pc[t]]
      /\ waiters \subseteq Consumers
  BY DEF QueueTypeOK
<1>1. ASSUME NEW p \in Producers,
             \/ LockTail(p) \/ WriteTail(p) \/ SwingTail(p)
             \/ \E v \in Value, n \in Node : StartPush(p, v, n)
      PROVE  LocksInv'
  BY <1>0, <1>1 DEF StartPush, LockTail, WriteTail, SwingTail
<1>2. ASSUME NEW p \in Producers, Notify(p)
      PROVE  LocksInv'
  BY <1>0, <1>2 DEF Notify
<1>3. ASSUME NEW c \in Consumers,
             \/ LockHead(c) \/ GetTail(c) \/ Compare(c) \/ Return(c) \/ Wait(c)
      PROVE  LocksInv'
  BY <1>0, <1>3 DEF LockHead, GetTail, Compare, Return, Wait, AfterCompare
<1>4. ASSUME NEW c \in Consumers,
             \/ WakeUp(c) \/ Timeout(c) \/ \E pop \in BOOLEAN : Start(c, pop)
             \/ Detach(c) \/ Copy(c)
      PROVE  LocksInv'
  BY <1>0, <1>4 DEF WakeUp, Timeout, Start, Detach, Copy
<1> QED
  BY <1>1, <1>2, <1>3, <1>4 DEF QueueNext, ProducerStep, ConsumerStep

----------------------------------------------------------------------------
(***************************************************************************)
(* The list and the nodes beside it.                                       *)
(***************************************************************************)
ListInv == ChainInv /\ NodesInv /\ CallsInv

\* The steps that touch neither.
LEMMA KeepList ==
  ASSUME QueueInv, UNCHANGED <<list, node, arg>>,
         \A t \in Threads : Holds(t)' <=> Holds(t),
         \A p \in Producers :
           /\ pc'[p] \in {"lockTail", "write", "swing"} =>
                pc[p] \in {"lockTail", "write", "swing"}
           /\ pc'[p] = "swing" => pc[p] = "swing",
         \A c \in Consumers :
           /\ pc'[c] = "detach" => pc[c] = "detach" \/ Len(chain) >= 2
           /\ pc'[c] = "copy" => pc[c] = "copy"
  PROVE  ListInv'
<1> USE DEF QueueInv, list
<1>1. ChainInv'
  BY DEF ChainInv
<1>2. NodesInv'
  BY DEF NodesInv
<1>3. CallsInv'
  BY DEF CallsInv
<1> QED
  BY <1>1, <1>2, <1>3 DEF ListInv

LEMMA TwoNodes ==
  ASSUME QueueInv, head # tail
  PROVE  Len(chain) >= 2
BY Chains DEF QueueInv, ChainInv

LEMMA QuietSteps ==
  ASSUME QueueInv,
         \/ \E p \in Producers : LockTail(p) \/ Notify(p)
         \/ \E c \in Consumers :
              \/ LockHead(c) \/ GetTail(c) \/ Compare(c) \/ Return(c)
              \/ Wait(c) \/ WakeUp(c) \/ Timeout(c)
              \/ \E pop \in BOOLEAN : Start(c, pop)
  PROVE  ListInv'
<1> USE QueueAssumption DEF Goto, Threads, list, locks
<1>0. /\ DOMAIN pc = Threads /\ pc = [t \in DOMAIN pc |-> pc[t]]
      /\ \A c \in waiters : c \in Consumers /\ pc[c] = "waiting"
      /\ \A p \in Producers : pc[p] \in ProducerPlaces
      /\ \A c \in Consumers : pc[c] \in ConsumerPlaces
  BY DEF QueueInv, QueueTypeOK, LocksInv
<1>1. ASSUME NEW p \in Producers, LockTail(p) \/ Notify(p)
      PROVE  ListInv'
  <2>1. UNCHANGED <<list, node, arg>>
    BY <1>1 DEF LockTail, Notify
  <2>2. \A t \in Threads : Holds(t)' <=> Holds(t)
    BY <1>0, <1>1 DEF LockTail, Notify, Holds
  <2>3. /\ \A q \in Producers :
             /\ pc'[q] \in {"lockTail", "write", "swing"} =>
                  pc[q] \in {"lockTail", "write", "swing"}
             /\ pc'[q] = "swing" => pc[q] = "swing"
        /\ \A c \in Consumers :
             /\ pc'[c] = "detach" => pc[c] = "detach" \/ Len(chain) >= 2
             /\ pc'[c] = "copy" => pc[c] = "copy"
    BY <1>0, <1>1 DEF LockTail, Notify
  <2> QED
    BY <2>1, <2>2, <2>3, KeepList
<1>2. ASSUME NEW c \in Consumers,
             \/ LockHead(c) \/ GetTail(c) \/ Compare(c) \/ Return(c)
             \/ Wait(c) \/ WakeUp(c) \/ Timeout(c)
             \/ \E pop \in BOOLEAN : Start(c, pop)
      PROVE  ListInv'
  <2>1. UNCHANGED <<list, node, arg>>
    BY <1>2 DEF LockHead, GetTail, Compare, Return, Wait, WakeUp, Timeout, Start
  <2>2. \E w : /\ pc' = [pc EXCEPT ![c] = w] \/ pc' = pc
               /\ w \notin {"lockTail", "write", "swing", "copy"}
               /\ pc' # pc => ~Holds(c)
               /\ w = "detach" => Len(chain) >= 2
    BY <1>0, <1>2, TwoNodes
    DEF LockHead, GetTail, Compare, Return, Wait, WakeUp, Timeout, Start, Holds,
        AfterCompare
  <2>3. PICK w : /\ pc' = [pc EXCEPT ![c] = w] \/ pc' = pc
                 /\ w \notin {"lockTail", "write", "swing", "copy"}
                 /\ pc' # pc => ~Holds(c)
                 /\ w = "detach" => Len(chain) >= 2
    BY <2>2
  <2>4. \A t \in Threads : Holds(t)' <=> Holds(t)
    BY <1>0, <2>3 DEF Holds
  <2>5. /\ \A q \in Producers :
             /\ pc'[q] \in {"lockTail", "write", "swing"} =>
                  pc[q] \in {"lockTail", "write", "swing"}
             /\ pc'[q] = "swing" => pc[q] = "swing"
        /\ \A d \in Consumers :
             /\ pc'[d] = "detach" => pc[d] = "detach" \/ Len(chain) >= 2
             /\ pc'[d] = "copy" => pc[d] = "copy"
    BY <1>0, <2>3
  <2> QED
    BY <2>1, <2>4, <2>5, KeepList
<1> QED
  BY <1>1, <1>2

LEMMA StartPushKeeps ==
  ASSUME QueueInv, NEW p \in Producers, NEW v \in Value, NEW n \in Node,
         StartPush(p, v, n)
  PROVE  ListInv'
<1> USE DEF QueueInv
<1>0. /\ DOMAIN pc = Threads /\ DOMAIN node = Threads /\ DOMAIN arg = Producers
      /\ DOMAIN data = Node /\ DOMAIN next = Node /\ p \in Threads
      /\ Len(chain) \in Nat
  BY Chains DEF QueueTypeOK
<1>1. /\ pc[p] = "idle" /\ n \notin heap /\ heap' = heap \cup {n}
      /\ pc' = [pc EXCEPT ![p] = "lockTail"]
      /\ node' = [node EXCEPT ![p] = n] /\ arg' = [arg EXCEPT ![p] = v]
      /\ data' = [data EXCEPT ![n] = NoValue]
      /\ next' = [next EXCEPT ![n] = NoNode]
      /\ head' = head /\ tail' = tail /\ chain' = chain
  BY DEF StartPush, Goto
<1>2. /\ \A i \in 1 .. Len(chain) : chain[i] # n /\ chain[i] \in heap
      /\ \A m \in heap : data'[m] = data[m] /\ next'[m] = next[m]
  BY <1>0, <1>1 DEF ChainInv, QueueTypeOK
<1>3. \A t \in Threads : /\ Holds(t)' <=> (Holds(t) \/ t = p)
                         /\ t # p => node'[t] = node[t] /\ pc'[t] = pc[t]
  BY <1>0, <1>1 DEF Holds
<1>4. ~Holds(p) /\ node'[p] = n /\ pc'[p] = "lockTail"
  BY <1>0, <1>1 DEF Holds
<1>5. ChainInv'
  BY <1>0, <1>1, <1>2 DEF ChainInv
<1>6. NodesInv'
  <2>1. ASSUME NEW t \in Threads, Holds(t)'
        PROVE  /\ node'[t] \in heap'
               /\ \A i \in 1 .. Len(chain') : node'[t] # chain'[i]
               /\ t # p => Holds(t) /\ node'[t] \in heap /\ node'[t] # n
    BY <1>1, <1>2, <1>3, <1>4, <2>1 DEF NodesInv
  <2>2. ASSUME NEW s \in Threads, NEW t \in Threads, Holds(s)', Holds(t)',
               node'[s] = node'[t]
        PROVE  s = t
    <3>1. CASE s = p \/ t = p
      BY <1>4, <2>1, <2>2, <3>1
    <3>2. CASE s # p /\ t # p
      BY <1>3, <2>1, <2>2, <3>2 DEF NodesInv
    <3> QED
      BY <3>1, <3>2
  <2>3. ASSUME NEW m \in heap'
        PROVE  \/ \E i \in 1 .. Len(chain') : chain'[i] = m
               \/ \E t \in Threads : Holds(t)' /\ node'[t] = m
    <3>1. CASE m = n
      BY <1>0, <1>3, <1>4, <3>1
    <3>2. CASE m # n
      <4>1. m \in heap
        BY <1>1, <3>2
      <4>2. CASE \E i \in 1 .. Len(chain) : chain[i] = m
        BY <1>1, <4>2
      <4>3. CASE \E t \in Threads : Holds(t) /\ node[t] = m
        BY <1>3, <1>4, <4>3
      <4> QED
        BY <4>1, <4>2, <4>3 DEF NodesInv
    <3> QED
      BY <3>1, <3>2
  <2> QED
    BY <2>1, <2>2, <2>3 DEF NodesInv
<1>7. CallsInv'
  <2>1. ASSUME NEW q \in Producers
        PROVE  /\ pc'[q] \in {"lockTail", "write", "swing"} => arg'[q] \in Value
               /\ pc'[q] = "swing" =>
                    data'[tail'] = arg'[q] /\ next'[tail'] = node'[q]
    <3>1. tail \in heap
      BY <1>0 DEF ChainInv
    <3>2. CASE q = p
      BY <1>0, <1>1, <1>4, <3>2
    <3>3. CASE q # p
      <4>1. q \in Threads /\ pc'[q] = pc[q] /\ node'[q] = node[q]
            /\ arg'[q] = arg[q]
        BY <1>0, <1>1, <1>3, <3>3 DEF Threads
      <4> QED
        BY <1>1, <1>2, <3>1, <4>1 DEF CallsInv
    <3> QED
      BY <3>2, <3>3
  <2>2. ASSUME NEW c \in Consumers
        PROVE  /\ pc'[c] = "detach" => Len(chain') >= 2
               /\ pc'[c] = "copy" => data'[node'[c]] \in Value
    <3>1. c # p /\ c \in Threads
      BY QueueAssumption DEF Threads
    <3>2. pc'[c] = pc[c] /\ node'[c] = node[c]
      BY <1>3, <3>1
    <3>3. pc[c] = "copy" => node[c] \in heap
      BY <3>1 DEF NodesInv, Holds
    <3> QED
      BY <1>1, <1>2, <3>2, <3>3 DEF CallsInv
  <2> QED
    BY <2>1, <2>2 DEF CallsInv
<1> QED
  BY <1>5, <1>6, <1>7 DEF ListInv

LEMMA WriteTailKeeps ==
  ASSUME QueueInv, NEW p \in Producers, WriteTail(p)
  PROVE  ListInv'
<1> USE DEF QueueInv
<1>0. /\ DOMAIN pc = Threads /\ DOMAIN node = Threads
      /\ DOMAIN data = Node /\ DOMAIN next = Node /\ p \in Threads
      /\ Len(chain) \in Nat /\ tail \in Node
  BY Chains DEF QueueTypeOK
<1>1. /\ pc[p] = "write" /\ pc' = [pc EXCEPT ![p] = "swing"]
      /\ data' = [data EXCEPT ![tail] = arg[p]]
      /\ next' = [next EXCEPT ![tail] = node[p]]
      /\ head' = head /\ tail' = tail /\ chain' = chain /\ heap' = heap
      /\ node' = node /\ arg' = arg
  BY DEF WriteTail, Goto, locks
<1>2. /\ \A i \in 1 .. Len(chain) - 1 : chain[i] # tail
      /\ \A m : m # tail => data'[m] = data[m] /\ next'[m] = next[m]
      /\ data'[tail] = arg[p] /\ next'[tail] = node[p]
  <2>1. \A i \in 1 .. Len(chain) - 1 : chain[i] # tail
    BY <1>0 DEF ChainInv
  <2>2. /\ data'[tail] = arg[p] /\ next'[tail] = node[p]
        /\ \A m \in Node : m # tail => data'[m] = data[m] /\ next'[m] = next[m]
    BY <1>0, <1>1
  <2>3. \A m : m # tail => data'[m] = data[m] /\ next'[m] = next[m]
    BY <1>0, <1>1
  <2> QED
    BY <2>1, <2>2, <2>3
<1>3. \A t \in Threads : Holds(t)' <=> Holds(t)
  BY <1>0, <1>1 DEF Holds
<1>4. ChainInv'
  BY <1>0, <1>1, <1>2 DEF ChainInv
<1>5. NodesInv'
  BY <1>1, <1>3 DEF NodesInv
<1>6. CallsInv'
  <2>1. ASSUME NEW q \in Producers
        PROVE  /\ pc'[q] \in {"lockTail", "write", "swing"} => arg'[q] \in Value
               /\ pc'[q] = "swing" =>
                    data'[tail'] = arg'[q] /\ next'[tail'] = node'[q]
    <3>1. CASE q = p
      BY <1>0, <1>1, <1>2, <3>1 DEF CallsInv
    <3>2. CASE q # p
      <4>1. pc'[q] = pc[q] /\ pc[q] # "swing"
        BY <1>0, <1>1, <3>2 DEF LocksInv, Threads
      <4> QED
        BY <1>1, <4>1 DEF CallsInv
    <3> QED
      BY <3>1, <3>2
  <2>2. ASSUME NEW c \in Consumers
        PROVE  /\ pc'[c] = "detach" => Len(chain') >= 2
               /\ pc'[c] = "copy" => data'[node'[c]] \in Value
    <3>1. pc'[c] = pc[c]
      BY <1>0, <1>1, QueueAssumption
    <3>2. pc[c] = "copy" => node[c] # tail
      <4>1. Len(chain) \in 1 .. Len(chain) /\ c \in Threads
        BY <1>0 DEF ChainInv, Threads
      <4> QED
        BY <4>1 DEF NodesInv, Holds, ChainInv
    <3> QED
      BY <1>1, <1>2, <3>1, <3>2 DEF CallsInv
  <2> QED
    BY <2>1, <2>2 DEF CallsInv
<1> QED
  BY <1>4, <1>5, <1>6 DEF ListInv

LEMMA SwingTailKeeps ==
  ASSUME QueueInv, NEW p \in Producers, SwingTail(p)
  PROVE  ListInv'
<1> USE DEF QueueInv
<1>0. /\ DOMAIN pc = Threads /\ p \in Threads /\ Len(chain) \in Nat
      /\ Len(chain) >= 1
  BY Chains DEF QueueTypeOK, ChainInv
<1>1. /\ pc[p] = "swing" /\ pc' = [pc EXCEPT ![p] = "notify"]
      /\ tail' = node[p] /\ chain' = Append(chain, node[p])
      /\ head' = head /\ data' = data /\ next' = next /\ heap' = heap
      /\ node' = node /\ arg' = arg
  BY DEF SwingTail, Goto
<1>2. /\ Holds(p) /\ node[p] \in heap /\ node[p] \in Node
      /\ \A i \in 1 .. Len(chain) : node[p] # chain[i]
  BY <1>0, <1>1 DEF Holds, NodesInv, QueueTypeOK
<1>3. /\ Len(chain') = Len(chain) + 1
      /\ \A i \in 1 .. Len(chain) : chain'[i] = chain[i]
      /\ chain'[Len(chain) + 1] = node[p]
  BY <1>1, <1>2, AppendProperties DEF QueueTypeOK
<1>4. \A i \in 1 .. Len(chain') :
        i \in 1 .. Len(chain) \/ i = Len(chain) + 1
  BY <1>0, <1>3
<1>5. \A t \in Threads : Holds(t)' <=> (Holds(t) /\ t # p)
  BY <1>0, <1>1 DEF Holds
<1>6. ChainInv'
  <2>1. Len(chain') >= 1 /\ head' = chain'[1] /\ tail' = chain'[Len(chain')]
    BY <1>0, <1>1, <1>3 DEF ChainInv
  <2>2. /\ \A i \in 1 .. Len(chain') : chain'[i] \in heap'
        /\ \A i, j \in 1 .. Len(chain') : chain'[i] = chain'[j] => i = j
    BY <1>1, <1>2, <1>3, <1>4 DEF ChainInv
  <2>3. ASSUME NEW i \in 1 .. Len(chain') - 1
        PROVE  next'[chain'[i]] = chain'[i + 1] /\ data'[chain'[i]] \in Value
    <3>1. CASE i = Len(chain)
      <4>1. chain'[i] = tail /\ chain'[i + 1] = node[p]
        BY <1>0, <1>3, <3>1 DEF ChainInv
      <4> QED
        BY <1>1, <4>1 DEF CallsInv
    <3>2. CASE i # Len(chain)
      <4>1. i \in 1 .. Len(chain) - 1 /\ i \in 1 .. Len(chain)
            /\ i + 1 \in 1 .. Len(chain)
        BY <1>0, <1>3, <3>2
      <4> QED
        BY <1>1, <1>3, <4>1 DEF ChainInv
    <3> QED
      BY <3>1, <3>2
  <2> QED
    BY <2>1, <2>2, <2>3 DEF ChainInv
<1>7. NodesInv'
  <2>1. \A t \in Threads : Holds(t)' => node[t] # node[p] /\ node[t] \in heap
    BY <1>0, <1>2, <1>5 DEF NodesInv
  <2>2. \A t \in Threads :
          Holds(t)' => \A i \in 1 .. Len(chain') : node[t] # chain'[i]
    BY <1>3, <1>4, <1>5, <2>1 DEF NodesInv
  <2>3. \A s, t \in Threads :
          Holds(s)' /\ Holds(t)' /\ node'[s] = node'[t] => s = t
    BY <1>1, <1>5 DEF NodesInv
  <2>4. ASSUME NEW n \in heap
        PROVE  \/ \E i \in 1 .. Len(chain') : chain'[i] = n
               \/ \E t \in Threads : Holds(t)' /\ node'[t] = n
    <3>1. CASE \E i \in 1 .. Len(chain) : chain[i] = n
      BY <1>0, <1>3, <3>1
    <3>2. CASE \E t \in Threads : Holds(t) /\ node[t] = n
      <4>1. PICK t \in Threads : Holds(t) /\ node[t] = n
        BY <3>2
      <4>2. CASE t = p
        <5>1. Len(chain) + 1 \in 1 .. Len(chain')
          BY <1>0, <1>3
        <5> QED
          BY <1>3, <4>1, <4>2, <5>1
      <4>3. CASE t # p
        BY <1>1, <1>5, <4>1, <4>3
      <4> QED
        BY <4>2, <4>3
    <3> QED
      BY <3>1, <3>2 DEF NodesInv
  <2> QED
    BY <1>1, <2>1, <2>2, <2>3, <2>4 DEF NodesInv
<1>8. CallsInv'
  <2>1. ASSUME NEW q \in Producers
        PROVE  /\ pc'[q] \in {"lockTail", "write", "swing"} => arg'[q] \in Value
               /\ pc'[q] # "swing"
    BY <1>0, <1>1 DEF LocksInv, CallsInv, Threads
  <2>2. ASSUME NEW c \in Consumers
        PROVE  pc'[c] = pc[c]
    BY <1>0, <1>1, QueueAssumption
  <2> QED
    BY <1>0, <1>1, <1>3, <2>1, <2>2 DEF CallsInv
<1> QED
  BY <1>6, <1>7, <1>8 DEF ListInv

LEMMA DetachKeeps ==
  ASSUME QueueInv, NEW c \in Consumers, Detach(c)
  PROVE  ListInv'
<1> USE DEF QueueInv
<1>0. /\ DOMAIN pc = Threads /\ DOMAIN node = Threads /\ c \in Threads
      /\ Len(chain) \in Nat /\ chain \in Seq(Node)
  BY Chains DEF QueueTypeOK
<1>1. /\ pc[c] = "detach" /\ pc' = [pc EXCEPT ![c] = "copy"]
      /\ node' = [node EXCEPT ![c] = head] /\ head' = next[head]
      /\ chain' = Tail(chain) /\ tail' = tail /\ data' = data /\ next' = next
      /\ heap' = heap /\ arg' = arg
  BY DEF Detach, Goto
<1>2. Len(chain) >= 2
  BY <1>1 DEF CallsInv
<1>3. /\ Len(chain') = Len(chain) - 1
      /\ \A i \in 1 .. Len(chain) - 1 : chain'[i] = chain[i + 1]
  <2>1. chain # <<>>
    BY <1>2
  <2> QED
    BY <1>0, <1>1, <2>1, HeadTailProperties
<1>4. \A i \in 1 .. Len(chain') :
        /\ i + 1 \in 1 .. Len(chain) /\ chain'[i] = chain[i + 1]
        /\ i \in 1 .. Len(chain)
  BY <1>0, <1>3
<1>5. /\ 1 \in 1 .. Len(chain) /\ 1 \in 1 .. Len(chain) - 1 /\ head = chain[1]
      /\ next[chain[1]] = chain[2] /\ data[chain[1]] \in Value
  BY <1>0, <1>2 DEF ChainInv
<1>6. \A t \in Threads : /\ Holds(t)' <=> (Holds(t) \/ t = c)
                         /\ t # c => node'[t] = node[t] /\ pc'[t] = pc[t]
  BY <1>0, <1>1 DEF Holds
<1>7. ~Holds(c) /\ node'[c] = chain[1] /\ pc'[c] = "copy"
  BY <1>0, <1>1, <1>5 DEF Holds
<1>8. ChainInv'
  <2>1. /\ Len(chain') >= 1 /\ head' = chain'[1]
        /\ tail' = chain'[Len(chain')]
    BY <1>0, <1>1, <1>2, <1>3, <1>5 DEF ChainInv
  <2>2. \A i \in 1 .. Len(chain') : chain'[i] \in heap'
    BY <1>1, <1>4 DEF ChainInv
  <2>3. ASSUME NEW i \in 1 .. Len(chain'), NEW j \in 1 .. Len(chain'),
               chain'[i] = chain'[j]
        PROVE  i = j
    <3>1. i + 1 = j + 1
      BY <1>4, <2>3 DEF ChainInv
    <3> QED
      BY <1>0, <3>1
  <2>4. ASSUME NEW i \in 1 .. Len(chain') - 1
        PROVE  next'[chain'[i]] = chain'[i + 1] /\ data'[chain'[i]] \in Value
    <3>1. /\ i \in 1 .. Len(chain') /\ i + 1 \in 1 .. Len(chain')
          /\ i + 1 \in 1 .. Len(chain) - 1
      BY <1>0, <1>3
    <3> QED
      BY <1>1, <1>4, <3>1 DEF ChainInv
  <2> QED
    BY <2>1, <2>2, <2>3, <2>4 DEF ChainInv
<1>9. NodesInv'
  <2>1. ASSUME NEW t \in Threads, Holds(t)'
        PROVE  /\ node'[t] \in heap'
               /\ \A i \in 1 .. Len(chain') : node'[t] # chain'[i]
               /\ t # c => Holds(t) /\ node'[t] # chain[1]
    <3>1. CASE t = c
      <4>1. \A i \in 1 .. Len(chain') : i + 1 # 1
        BY <1>0
      <4> QED
        BY <1>1, <1>4, <1>5, <1>7, <3>1, <4>1 DEF ChainInv
    <3>2. CASE t # c
      <4>1. Holds(t) /\ node'[t] = node[t]
        BY <1>6, <2>1, <3>2
      <4> QED
        BY <1>1, <1>4, <1>5, <3>2, <4>1 DEF NodesInv
    <3> QED
      BY <3>1, <3>2
  <2>2. ASSUME NEW s \in Threads, NEW t \in Threads, Holds(s)', Holds(t)',
               node'[s] = node'[t]
        PROVE  s = t
    <3>1. CASE s = c \/ t = c
      BY <1>7, <2>1, <2>2, <3>1
    <3>2. CASE s # c /\ t # c
      BY <1>6, <2>1, <2>2, <3>2 DEF NodesInv
    <3> QED
      BY <3>1, <3>2
  <2>3. ASSUME NEW m \in heap'
        PROVE  \/ \E i \in 1 .. Len(chain') : chain'[i] = m
               \/ \E t \in Threads : Holds(t)' /\ node'[t] = m
    <3>1. CASE \E i \in 1 .. Len(chain) : chain[i] = m
      <4>1. PICK i \in 1 .. Len(chain) : chain[i] = m
        BY <3>1
      <4>2. CASE i = 1
        BY <1>0, <1>6, <1>7, <4>1, <4>2
      <4>3. CASE i # 1
        <5>1. /\ i - 1 \in 1 .. Len(chain') /\ i - 1 \in 1 .. Len(chain) - 1
              /\ (i - 1) + 1 = i
          BY <1>0, <1>3, <4>3
        <5>2. chain'[i - 1] = m
          BY <1>3, <4>1, <5>1
        <5> QED
          BY <5>1, <5>2
      <4> QED
        BY <4>2, <4>3
    <3>2. CASE \E t \in Threads : Holds(t) /\ node[t] = m
      BY <1>6, <1>7, <3>2
    <3> QED
      BY <1>1, <3>1, <3>2 DEF NodesInv
  <2> QED
    BY <2>1, <2>2, <2>3 DEF NodesInv
<1>10. CallsInv'
  <2>1. ASSUME NEW q \in Producers
        PROVE  /\ pc'[q] \in {"lockTail", "write", "swing"} => arg'[q] \in Value
               /\ pc'[q] = "swing" =>
                    data'[tail'] = arg'[q] /\ next'[tail'] = node'[q]
    <3>1. q # c /\ q \in Threads
      BY QueueAssumption DEF Threads
    <3> QED
      BY <1>1, <1>6, <3>1 DEF CallsInv
  <2>2. ASSUME NEW d \in Consumers
        PROVE  /\ pc'[d] # "detach"
               /\ pc'[d] = "copy" => data'[node'[d]] \in Value
    <3>1. CASE d = c
      BY <1>1, <1>5, <1>7, <3>1
    <3>2. CASE d # c
      <4>1. pc'[d] = pc[d] /\ node'[d] = node[d] /\ pc[d] # "detach"
        BY <1>1, <1>6, <3>2 DEF LocksInv, Threads
      <4> QED
        BY <1>1, <4>1 DEF CallsInv
    <3> QED
      BY <3>1, <3>2
  <2> QED
    BY <2>1, <2>2 DEF CallsInv
<1> QED
  BY <1>8, <1>9, <1>10 DEF ListInv

LEMMA CopyKeeps ==
  ASSUME QueueInv, NEW c \in Consumers, Copy(c)
  PROVE  ListInv'
<1> USE DEF QueueInv
<1>0. /\ DOMAIN pc = Threads /\ DOMAIN node = Threads /\ c \in Threads
      /\ Len(chain) \in Nat
  BY Chains DEF QueueTypeOK
<1>1. /\ pc[c] = "copy" /\ pc' = [pc EXCEPT ![c] = "idle"]
      /\ node' = [node EXCEPT ![c] = NoNode] /\ heap' = heap \ {node[c]}
      /\ UNCHANGED <<head, tail, data, next, chain, arg>>
  BY DEF Copy, Goto
<1>2. \A t \in Threads : /\ Holds(t)' <=> (Holds(t) /\ t # c)
                         /\ t # c => node'[t] = node[t] /\ pc'[t] = pc[t]
  BY <1>0, <1>1 DEF Holds
<1>3. /\ Holds(c) /\ pc'[c] = "idle"
      /\ \A i \in 1 .. Len(chain) : chain[i] # node[c]
  BY <1>0, <1>1 DEF Holds, NodesInv
<1>4. ChainInv'
  BY <1>1, <1>3 DEF ChainInv
<1>5. NodesInv'
  <2>1. ASSUME NEW t \in Threads, Holds(t)'
        PROVE  /\ node'[t] \in heap'
               /\ \A i \in 1 .. Len(chain') : node'[t] # chain'[i]
    BY <1>0, <1>1, <1>2, <1>3, <2>1 DEF NodesInv
  <2>2. \A s, t \in Threads :
          Holds(s)' /\ Holds(t)' /\ node'[s] = node'[t] => s = t
    BY <1>2 DEF NodesInv
  <2>3. \A m \in heap' : \/ \E i \in 1 .. Len(chain') : chain'[i] = m
                         \/ \E t \in Threads : Holds(t)' /\ node'[t] = m
    BY <1>1, <1>2 DEF NodesInv
  <2> QED
    BY <2>1, <2>2, <2>3 DEF NodesInv
<1>6. CallsInv'
  <2>1. \A p \in Producers : pc'[p] = pc[p] /\ node'[p] = node[p]
    BY <1>2, QueueAssumption DEF Threads
  <2>2. \A d \in Consumers : d = c \/ (pc'[d] = pc[d] /\ node'[d] = node[d])
    BY <1>2 DEF Threads
  <2> QED
    BY <1>1, <1>3, <2>1, <2>2 DEF CallsInv
<1> QED
  BY <1>4, <1>5, <1>6 DEF ListInv

LEMMA StepQueue ==
  ASSUME QueueInv, [QueueNext]_queueVars
  PROVE  QueueInv'
<1>1. CASE UNCHANGED queueVars
  BY <1>1
  DEF QueueInv, QueueTypeOK, LocksInv, ChainInv, NodesInv, CallsInv, Holds,
      queueVars, list, locks
<1>2. CASE QueueNext
  <2>1. ListInv'
    BY <1>2, QuietSteps, StartPushKeeps, WriteTailKeeps, SwingTailKeeps,
       DetachKeeps, CopyKeeps DEF QueueNext, ProducerStep, ConsumerStep
  <2> QED
    BY <1>2, <2>1, StepTypes, StepLocks DEF QueueInv, ListInv
<1> QED
  BY <1>1, <1>2

(***************************************************************************)
(* The two mutexes of ts_queue (ts_queue.hpp:20-37) are enough for any     *)
(* number of threads: nobody touches a node another thread is working on,  *)
(* and no node is leaked, freed early or freed twice.                      *)
(***************************************************************************)
THEOREM QueueIsMemorySafe == QueueSpec => []MemorySafe
<1>1. QueueInv /\ [QueueNext]_queueVars => QueueInv'
  BY StepQueue
<1> QED
  BY InitQueue, <1>1, QueueIsSafe, PTL DEF QueueSpec

----------------------------------------------------------------------------
(***************************************************************************)
(* The queue as its users see it: what the list holds, and what each       *)
(* consumer has been told, from the moment it unlinks a node on.           *)
(***************************************************************************)
Contents == [i \in 1 .. Len(chain) - 1 |-> data[chain[i]]]
Told(c) == IF pc[c] = "copy" THEN data[node[c]] ELSE out[c]
Answers == [c \in Consumers |-> Told(c)]

LEMMA ContentsFacts ==
  ASSUME QueueInv
  PROVE  /\ Contents \in Seq(Value) /\ Len(Contents) = Len(chain) - 1
         /\ \A i \in 1 .. Len(chain) - 1 : Contents[i] = data[chain[i]]
         /\ Len(chain) \in Nat /\ Len(chain) >= 1
         /\ Contents = <<>> <=> Len(chain) = 1
<1>1. /\ Len(chain) \in Nat /\ Len(chain) >= 1 /\ Len(chain) - 1 \in Nat
      /\ \A i \in 1 .. Len(chain) - 1 : data[chain[i]] \in Value
  BY Chains DEF QueueInv, ChainInv
<1>2. Contents \in [1 .. Len(chain) - 1 -> Value]
  BY <1>1 DEF Contents
<1>3. Contents \in Seq(Value)
  BY <1>1, <1>2
<1>4. Len(Contents) = Len(chain) - 1
  BY <1>1, <1>2, <1>3, LenProperties
<1>5. Contents = <<>> <=> Len(chain) = 1
  BY <1>1, <1>3, <1>4
<1> QED
  BY <1>1, <1>3, <1>4, <1>5 DEF Contents

Listed ==
  /\ Contents \in Seq(Value) /\ Len(Contents) = Len(chain) - 1
  /\ \A i \in 1 .. Len(chain) - 1 : Contents[i] = data[chain[i]]

LEMMA ContentsListed == QueueInv => Listed
BY ContentsFacts DEF Listed

\* Steps that only go on.
LEMMA SameContents ==
  ASSUME chain' = chain,
         \A i \in 1 .. Len(chain) - 1 : data'[chain[i]] = data[chain[i]]
  PROVE  Contents' = Contents
BY DEF Contents

LEMMA SameAnswers ==
  ASSUME \A c \in Consumers : Told(c)' = Told(c)
  PROVE  Answers' = Answers
BY DEF Answers

LEMMA QuietContents ==
  ASSUME QueueInv,
         \/ \E p \in Producers : LockTail(p) \/ Notify(p)
         \/ \E c \in Consumers :
              \/ LockHead(c) \/ GetTail(c) \/ Return(c) \/ Wait(c)
              \/ WakeUp(c) \/ Timeout(c) \/ \E pop \in BOOLEAN : Start(c, pop)
  PROVE  Contents' = Contents /\ Answers' = Answers
<1> USE QueueAssumption DEF Goto, list, locks
<1>0. /\ DOMAIN pc = Threads /\ Consumers \subseteq Threads
      /\ \A c \in waiters : c \in Consumers /\ pc[c] = "waiting"
  BY DEF QueueInv, QueueTypeOK, LocksInv, Threads
<1>1. chain' = chain /\ data' = data /\ node' = node /\ out' = out
  BY DEF LockTail, Notify, LockHead, GetTail, Return, Wait, WakeUp, Timeout,
         Start
<1>2. \A c \in Consumers : pc'[c] = "copy" <=> pc[c] = "copy"
  BY <1>0
  DEF LockTail, Notify, LockHead, GetTail, Return, Wait, WakeUp, Timeout, Start
<1>3. \A c \in Consumers : Told(c)' = Told(c)
  BY <1>1, <1>2 DEF Told
<1> QED
  BY <1>1, <1>3, SameContents, SameAnswers

LEMMA FillingContents ==
  ASSUME QueueInv, NEW p \in Producers,
         WriteTail(p) \/ \E v \in Value, n \in Node : StartPush(p, v, n)
  PROVE  Contents' = Contents /\ Answers' = Answers
<1>0. /\ DOMAIN pc = Threads /\ DOMAIN node = Threads /\ DOMAIN data = Node
      /\ \A c \in Consumers : c \in Threads /\ c # p
      /\ p \in Threads /\ Len(chain) \in Nat /\ Len(chain) >= 1
  BY Chains, QueueAssumption DEF QueueInv, QueueTypeOK, ChainInv, Threads
<1>1. /\ \A i \in 1 .. Len(chain) - 1 : chain[i] \in heap /\ chain[i] # tail
      /\ \A c \in Consumers :
           pc[c] = "copy" => node[c] \in heap /\ node[c] # tail
      /\ tail \in Node
  BY <1>0 DEF QueueInv, QueueTypeOK, ChainInv, NodesInv, Holds
<1>2. /\ chain' = chain /\ out' = out
      /\ \A c \in Consumers : pc'[c] = pc[c] /\ node'[c] = node[c]
  BY <1>0 DEF WriteTail, StartPush, Goto, locks
<1>3. \A m \in heap : m # tail => data'[m] = data[m]
  BY <1>0, <1>1 DEF WriteTail, StartPush, QueueInv, QueueTypeOK
<1>4. \A c \in Consumers : Told(c)' = Told(c)
  BY <1>1, <1>2, <1>3 DEF Told
<1> QED
  BY <1>1, <1>2, <1>3, <1>4, SameContents, SameAnswers

LEMMA SwingPushes ==
  ASSUME QueueInv, NEW p \in Producers, SwingTail(p)
  PROVE  /\ arg[p] \in Value /\ Answers' = Answers
         /\ Contents' = Append(Contents, arg[p])
<1>0. /\ DOMAIN pc = Threads /\ p \in Threads /\ pc[p] = "swing"
      /\ \A c \in Consumers : c \in Threads /\ c # p
      /\ chain \in Seq(Node) /\ node[p] \in Node
  BY QueueAssumption
  DEF QueueInv, QueueTypeOK, Threads, SwingTail, NodesInv, Holds
<1>1. arg[p] \in Value /\ data[chain[Len(chain)]] = arg[p]
  BY <1>0 DEF QueueInv, CallsInv, ChainInv
<1>2. /\ chain' = Append(chain, node[p]) /\ Len(chain') = Len(chain) + 1
      /\ \A i \in 1 .. Len(chain) : chain'[i] = chain[i]
      /\ data' = data
  BY <1>0, AppendProperties DEF SwingTail
<1>3. \A c \in Consumers : Told(c)' = Told(c)
  BY <1>0 DEF SwingTail, Goto, Told
<1>4. QueueInv'
  BY StepQueue DEF QueueNext, ProducerStep
<1>5. Contents' \in Seq(Value) /\ Len(Contents') = Len(chain)
      /\ \A i \in 1 .. Len(chain) : Contents'[i] = data[chain[i]]
  <2>1. /\ Contents' \in Seq(Value) /\ Len(Contents') = Len(chain') - 1
        /\ \A i \in 1 .. Len(chain') - 1 : Contents'[i] = data'[chain'[i]]
    <3>1. Listed'
      BY <1>4, ContentsListed, PTL
    <3> QED
      BY <3>1 DEF Listed
  <2> QED
    BY <1>2, <2>1, ContentsFacts
<1>6. Contents' = Append(Contents, arg[p])
  <2> DEFINE longer == Append(Contents, arg[p])
  <2>1. /\ longer \in Seq(Value) /\ Len(longer) = Len(chain)
        /\ \A i \in 1 .. Len(chain) - 1 : longer[i] = data[chain[i]]
        /\ longer[Len(chain)] = arg[p]
    BY <1>1, ContentsFacts, AppendProperties
  <2> HIDE DEF longer
  <2>2. \A i \in 1 .. Len(chain) : longer[i] = Contents'[i]
    BY <1>1, <1>5, <2>1, ContentsFacts
  <2>3. longer = Contents'
    BY <1>5, <2>1, <2>2, SeqEqual
  <2> QED
    BY <2>3 DEF longer
<1> QED
  BY <1>1, <1>3, <1>6, SameAnswers

LEMMA ComparingSees ==
  ASSUME QueueInv, NEW c \in Consumers, Compare(c)
  PROVE  /\ Contents' = Contents
         /\ Answers' = [Answers EXCEPT ![c] =
                          IF Contents = <<>> THEN Nothing ELSE Something]
<1>0. /\ DOMAIN pc = Threads /\ c \in Threads /\ Consumers \subseteq Threads
      /\ DOMAIN out = Consumers
  BY DEF QueueInv, QueueTypeOK, Threads
<1>1. /\ pc[c] = "compare" /\ chain' = chain /\ data' = data /\ node' = node
      /\ pc' = [pc EXCEPT ![c] = AfterCompare(c)]
      /\ out' = [out EXCEPT ![c] = IF head # tail THEN Something ELSE Nothing]
  BY DEF Compare, Goto, list
<1>2. head = tail <=> Contents = <<>>
  <2>1. 1 \in 1 .. Len(chain) /\ Len(chain) \in 1 .. Len(chain)
    BY ContentsFacts
  <2> QED
    BY <2>1, ContentsFacts DEF QueueInv, ChainInv
<1>3. \A d \in Consumers :
        Told(d)' = IF d = c
                     THEN IF Contents = <<>> THEN Nothing ELSE Something
                     ELSE Told(d)
  BY <1>0, <1>1, <1>2 DEF Told, AfterCompare
<1>4. Answers' = [Answers EXCEPT ![c] =
                   IF Contents = <<>> THEN Nothing ELSE Something]
  BY <1>3 DEF Answers
<1> QED
  BY <1>1, <1>4, SameContents

LEMMA DetachingPops ==
  ASSUME QueueInv, NEW c \in Consumers, Detach(c)
  PROVE  /\ Contents # <<>> /\ Contents' = Tail(Contents)
         /\ Answers' = [Answers EXCEPT ![c] = Head(Contents)]
<1>0. /\ DOMAIN pc = Threads /\ DOMAIN node = Threads /\ c \in Threads
      /\ Consumers \subseteq Threads /\ chain \in Seq(Node)
  BY DEF QueueInv, QueueTypeOK, Threads
<1>1. /\ pc[c] = "detach" /\ pc' = [pc EXCEPT ![c] = "copy"]
      /\ node' = [node EXCEPT ![c] = head] /\ chain' = Tail(chain)
      /\ data' = data /\ out' = out
  BY DEF Detach, Goto
<1>2. /\ Len(chain) >= 2 /\ head = chain[1] /\ Contents # <<>>
      /\ Head(Contents) = data[head]
  <2>1. Len(chain) >= 2 /\ head = chain[1]
    BY <1>1 DEF QueueInv, CallsInv, ChainInv
  <2>2. Contents # <<>> /\ Contents[1] = data[chain[1]]
    BY <2>1, ContentsFacts
  <2> QED
    BY <2>1, <2>2, ContentsFacts
<1>3. /\ Len(chain') = Len(chain) - 1
      /\ \A i \in 1 .. Len(chain) - 1 : chain'[i] = chain[i + 1]
  <2>1. chain # <<>>
    BY <1>2
  <2> QED
    BY <1>0, <1>1, <1>2, <2>1, HeadTailProperties
<1>4. \A d \in Consumers :
        Told(d)' = IF d = c THEN Head(Contents) ELSE Told(d)
  BY <1>0, <1>1, <1>2 DEF Told
<1>5. Answers' = [Answers EXCEPT ![c] = Head(Contents)]
  BY <1>4 DEF Answers
<1>6. QueueInv'
  BY StepQueue DEF QueueNext, ConsumerStep
<1>7. /\ Contents' \in Seq(Value) /\ Len(Contents') = Len(chain) - 2
      /\ \A i \in 1 .. Len(chain) - 2 : Contents'[i] = data[chain[i + 1]]
  <2>1. /\ Contents' \in Seq(Value) /\ Len(Contents') = Len(chain') - 1
        /\ \A i \in 1 .. Len(chain') - 1 : Contents'[i] = data'[chain'[i]]
    <3>1. Listed'
      BY <1>6, ContentsListed, PTL
    <3> QED
      BY <3>1 DEF Listed
  <2> QED
    BY <1>1, <1>3, <2>1, ContentsFacts
<1>8. Contents' = Tail(Contents)
  <2> DEFINE rest == Tail(Contents)
  <2>1. /\ rest \in Seq(Value) /\ Len(rest) = Len(chain) - 2
        /\ \A i \in 1 .. Len(rest) : rest[i] = Contents[i + 1]
    BY <1>2, ContentsFacts, HeadTailProperties
  <2> HIDE DEF rest
  <2>2. ASSUME NEW i \in 1 .. Len(rest)
        PROVE  rest[i] = Contents'[i]
    <3>1. i \in 1 .. Len(chain) - 2 /\ i + 1 \in 1 .. Len(chain) - 1
      BY <2>1, ContentsFacts
    <3>2. rest[i] = Contents[i + 1] /\ Contents[i + 1] = data[chain[i + 1]]
      BY <2>1, <3>1, ContentsFacts
    <3> QED
      BY <1>7, <3>1, <3>2
  <2>3. rest = Contents'
    BY <1>7, <2>1, <2>2, SeqEqual
  <2> QED
    BY <2>3 DEF rest
<1> QED
  BY <1>2, <1>5, <1>8

LEMMA CopyingTells ==
  ASSUME QueueInv, NEW c \in Consumers, Copy(c)
  PROVE  Contents' = Contents /\ Answers' = Answers
<1>0. /\ DOMAIN pc = Threads /\ DOMAIN node = Threads /\ c \in Threads
      /\ Consumers \subseteq Threads /\ DOMAIN out = Consumers
  BY DEF QueueInv, QueueTypeOK, Threads
<1>1. /\ pc[c] = "copy" /\ pc' = [pc EXCEPT ![c] = "idle"]
      /\ node' = [node EXCEPT ![c] = NoNode] /\ chain' = chain
      /\ data' = data /\ out' = [out EXCEPT ![c] = data[node[c]]]
  BY DEF Copy, Goto
<1>2. \A d \in Consumers : Told(d)' = Told(d)
  BY <1>0, <1>1 DEF Told
<1> QED
  BY <1>1, <1>2, SameContents, SameAnswers

LEMMA StepFifo ==
  ASSUME QueueInv, [QueueNext]_queueVars
  PROVE  [Fifo!FifoNext]_(Fifo!fifoVars)
<1>1. CASE \E p \in Producers : SwingTail(p)
  <2>1. \E v \in Value :
          Contents' = Append(Contents, v) /\ Answers' = Answers
    BY <1>1, SwingPushes
  <2> QED
    BY <2>1 DEF Fifo!FifoNext, Fifo!Push, Contents, Answers, Told
<1>2. CASE \E c \in Consumers : Compare(c)
  <2>1. PICK c \in Consumers :
          /\ Contents' = Contents
          /\ Answers' = [Answers EXCEPT ![c] =
                           IF Contents = <<>> THEN Nothing ELSE Something]
    BY <1>2, ComparingSees
  <2>2. CASE Contents = <<>>
    <3>1. /\ Contents = <<>> /\ Contents' = Contents
          /\ Answers' = [Answers EXCEPT ![c] = Nothing]
      BY <2>1, <2>2
    <3> QED
      BY <3>1 DEF Fifo!FifoNext, Fifo!SeeEmpty, Contents, Answers, Told
  <2>3. CASE Contents # <<>>
    <3>1. /\ Contents # <<>> /\ Contents' = Contents
          /\ Answers' = [Answers EXCEPT ![c] = Something]
      BY <2>1, <2>3
    <3> QED
      BY <3>1 DEF Fifo!FifoNext, Fifo!SeeData, Contents, Answers, Told
  <2> QED
    BY <2>2, <2>3
<1>3. CASE \E c \in Consumers : Detach(c)
  <2>1. \E c \in Consumers :
          /\ Contents # <<>> /\ Contents' = Tail(Contents)
          /\ Answers' = [Answers EXCEPT ![c] = Head(Contents)]
    BY <1>3, DetachingPops
  <2> QED
    BY <2>1 DEF Fifo!FifoNext, Fifo!Pop, Contents, Answers, Told
<1>4. ASSUME Contents' = Contents, Answers' = Answers
      PROVE  [Fifo!FifoNext]_(Fifo!fifoVars)
  BY <1>4 DEF Fifo!fifoVars, Contents, Answers, Told
<1>5. CASE UNCHANGED queueVars
  <2>1. Contents' = Contents /\ Answers' = Answers
    BY <1>5 DEF queueVars, list, Contents, Answers, Told
  <2> QED
    BY <1>4, <2>1
<1>6. CASE QueueNext /\ ~(\E p \in Producers : SwingTail(p))
           /\ ~(\E c \in Consumers : Compare(c) \/ Detach(c))
  <2>1. Contents' = Contents /\ Answers' = Answers
    BY <1>6, QuietContents, FillingContents, CopyingTells
    DEF QueueNext, ProducerStep, ConsumerStep
  <2> QED
    BY <1>4, <2>1
<1> QED
  BY <1>1, <1>2, <1>3, <1>5, <1>6

LEMMA InitFifo == QueueInit => Fifo!FifoInit
<1> SUFFICES ASSUME QueueInit PROVE Fifo!FifoInit
  OBVIOUS
<1>1. Len(chain) = 1
  BY DEF QueueInit
<1>2. Contents = <<>>
  BY <1>1, InitQueue, ContentsFacts
<1>3. Answers = [c \in Consumers |-> Nothing]
  BY DEF QueueInit, Answers, Told, Threads
<1> QED
  BY <1>2, <1>3 DEF Fifo!FifoInit, Contents, Answers, Told

(***************************************************************************)
(* Whatever the threads do, ts_queue behaves as one FIFO sequence whose    *)
(* operations take effect at one instant each: push() when the tail moves  *)
(* (ts_queue.hpp:70), a pop when the head does (ts_queue.hpp:27).          *)
(***************************************************************************)
THEOREM QueueIsAFifo == QueueSpec => IsFifo
<1>1. QueueInv /\ [QueueNext]_queueVars => QueueInv'
  BY StepQueue
<1>2. QueueInv /\ [QueueNext]_queueVars => [Fifo!FifoNext]_(Fifo!fifoVars)
  BY StepFifo
<1> QED
  BY InitQueue, InitFifo, <1>1, <1>2, PTL
  DEF QueueSpec, IsFifo, Fifo!FifoSpec

----------------------------------------------------------------------------
(***************************************************************************)
(* What a sole consumer was told stays true until it pops.                 *)
(***************************************************************************)
AnswerInv ==
  \A c \in Consumers :
    Consumers = {c} /\ out[c] = Something => Len(chain) >= 2 \/ pc[c] = "copy"

LEMMA StepAnswer ==
  ASSUME QueueInv, AnswerInv, [QueueNext]_queueVars
  PROVE  /\ AnswerInv'
         /\ \A c \in Consumers :
              Consumers = {c} /\ out[c] = Something => out'[c] # Nothing
<1> SUFFICES ASSUME NEW c \in Consumers, Consumers = {c}
             PROVE  /\ out'[c] = Something =>
                         Len(chain') >= 2 \/ pc'[c] = "copy"
                    /\ out[c] = Something => out'[c] # Nothing
  BY DEF AnswerInv
<1>0. /\ DOMAIN pc = Threads /\ c \in Threads /\ DOMAIN out = Consumers
      /\ chain \in Seq(Node) /\ Len(chain) \in Nat /\ Len(chain) >= 1
      /\ Something # Nothing
      /\ out[c] = Something => Len(chain) >= 2 \/ pc[c] = "copy"
      /\ \A p \in Producers : p # c /\ p \in Threads
      /\ \A d \in waiters : d = c /\ pc[c] = "waiting"
  BY QueueAssumption, ContentsFacts
  DEF QueueInv, QueueTypeOK, LocksInv, Threads, AnswerInv
<1>1. CASE Compare(c)
  <2>1. /\ chain' = chain
        /\ out'[c] = IF head # tail THEN Something ELSE Nothing
        /\ pc[c] = "compare"
    BY <1>0, <1>1 DEF Compare, list
  <2>2. head # tail <=> Len(chain) >= 2
    <3>1. 1 \in 1 .. Len(chain) /\ Len(chain) \in 1 .. Len(chain)
      BY <1>0
    <3> QED
      BY <1>0, <3>1 DEF QueueInv, ChainInv
  <2> QED
    BY <1>0, <2>1, <2>2
<1>2. CASE Detach(c)
  BY <1>0, <1>2 DEF Detach, Goto
<1>3. CASE Copy(c)
  <2>1. data[node[c]] \in Value /\ out'[c] = data[node[c]]
    BY <1>0, <1>3 DEF Copy, QueueInv, CallsInv
  <2> QED
    BY <2>1, QueueAssumption
<1>4. CASE \E p \in Producers : SwingTail(p)
  <2>1. PICK p \in Producers : SwingTail(p)
    BY <1>4
  <2>2. node[p] \in Node
    BY <1>0, <2>1 DEF SwingTail, QueueInv, QueueTypeOK, NodesInv, Holds
  <2>3. Len(chain') = Len(chain) + 1 /\ out' = out
    BY <1>0, <2>1, <2>2, AppendProperties DEF SwingTail
  <2> QED
    BY <1>0, <2>3
<1>5. CASE UNCHANGED queueVars
  BY <1>0, <1>5 DEF queueVars, list
<1>6. CASE QueueNext /\ ~(\E p \in Producers : SwingTail(p))
           /\ ~(Compare(c) \/ Detach(c) \/ Copy(c))
  <2>1. chain' = chain /\ out' = out
    BY <1>6
    DEF QueueNext, ProducerStep, ConsumerStep, StartPush, LockTail, WriteTail,
        Notify, Start, LockHead, GetTail, Return, Wait, WakeUp, Timeout, list
  <2>2. pc[c] = "copy" => pc'[c] = "copy"
    BY <1>0, <1>6
    DEF QueueNext, ProducerStep, ConsumerStep, StartPush, LockTail, WriteTail,
        Notify, Start, LockHead, GetTail, Return, Wait, WakeUp, Timeout, Goto
  <2> QED
    BY <1>0, <2>1, <2>2
<1> QED
  BY <1>1, <1>2, <1>3, <1>4, <1>5, <1>6

(***************************************************************************)
(* A sole consumer that was told there is data, as the bot is before it    *)
(* pops (telegram_bot.cpp:112), never comes back with nothing.             *)
(***************************************************************************)
THEOREM AnswersHold == QueueSpec => AnswerKept
<1>1. QueueInv /\ [QueueNext]_queueVars => QueueInv'
  BY StepQueue
<1>2. QueueInit => AnswerInv
  BY QueueAssumption DEF QueueInit, AnswerInv
<1>3. QueueInv /\ AnswerInv /\ [QueueNext]_queueVars => AnswerInv'
  BY StepAnswer
<1>4. QueueInv /\ AnswerInv /\ [QueueNext]_queueVars
        => [\A c \in Consumers :
              Consumers = {c} /\ out[c] = Something
                => out'[c] # Nothing]_queueVars
  BY StepAnswer
<1> QED
  BY InitQueue, <1>1, <1>2, <1>3, <1>4, PTL DEF QueueSpec, AnswerKept
----------------------------------------------------------------------------
(***************************************************************************)
(* The mutexes.  Where a holder is (LocksInv) says what it can wait for;   *)
(* only a consumer that pops ever waits for data.                          *)
(***************************************************************************)
WaitInv == \A c \in Consumers : pc[c] \in {"wait", "waiting"} => c \in popping

LEMMA StepWait ==
  ASSUME QueueInv, WaitInv, [QueueNext]_queueVars
  PROVE  WaitInv'
<1> SUFFICES ASSUME NEW c \in Consumers, pc'[c] \in {"wait", "waiting"}
             PROVE  c \in popping'
  BY DEF WaitInv
<1>0. /\ DOMAIN pc = Threads /\ c \in Threads
      /\ \A p \in Producers : p # c /\ p \in Threads
      /\ pc[c] \in {"wait", "waiting"} => c \in popping
  BY QueueAssumption DEF QueueInv, QueueTypeOK, Threads, WaitInv
<1>1. CASE UNCHANGED queueVars
  BY <1>0, <1>1 DEF queueVars
<1>2. ASSUME NEW p \in Producers,
             ProducerStep(p) \/ \E v \in Value, n \in Node : StartPush(p, v, n)
      PROVE  c \in popping'
  <2>1. popping' = popping
    BY <1>2
    DEF ProducerStep, StartPush, LockTail, WriteTail, SwingTail, Notify
  <2>2. pc'[c] = pc[c] \/ pc'[c] = "lockHead"
    BY <1>0, <1>2
    DEF ProducerStep, StartPush, LockTail, WriteTail, SwingTail, Notify, Goto,
        QueueInv, QueueTypeOK
  <2> QED
    BY <1>0, <2>1, <2>2
<1>3. ASSUME NEW d \in Consumers, NEW pop \in BOOLEAN, Start(d, pop)
      PROVE  c \in popping'
  <2>1. d \in Threads /\ pc'[d] = "lockHead" /\ (c # d => pc'[c] = pc[c])
    BY <1>0, <1>3 DEF Start, Goto, Threads
  <2>2. c # d
    BY <2>1
  <2> QED
    BY <1>0, <1>3, <2>1, <2>2 DEF Start
<1>4. ASSUME NEW d \in Consumers, Compare(d)
      PROVE  c \in popping'
  <2>1. d \in Threads /\ pc'[d] = AfterCompare(d) /\ (c # d => pc'[c] = pc[c])
    BY <1>0, <1>4 DEF Compare, Goto, Threads
  <2>2. popping' = popping
    BY <1>4 DEF Compare
  <2>3. AfterCompare(d) \in {"wait", "waiting"} => d \in popping
    BY DEF AfterCompare
  <2> QED
    BY <1>0, <2>1, <2>2, <2>3
<1>5. ASSUME NEW d \in Consumers,
             LockHead(d) \/ GetTail(d) \/ Return(d) \/ Wait(d) \/ Detach(d)
               \/ Copy(d) \/ WakeUp(d) \/ Timeout(d)
      PROVE  c \in popping'
  <2>1. popping' = popping
    BY <1>5
    DEF LockHead, GetTail, Return, Wait, Detach, Copy, WakeUp, Timeout
  <2>2. \/ pc'[c] = pc[c] \/ pc'[c] \notin {"wait", "waiting"}
        \/ c = d /\ pc[c] = "wait"
    BY <1>0, <1>5
    DEF LockHead, GetTail, Return, Wait, Detach, Copy, WakeUp, Timeout, Goto,
        Threads
  <2> QED
    BY <1>0, <2>1, <2>2
<1> QED
  BY <1>1, <1>2, <1>3, <1>4, <1>5 DEF QueueNext, ConsumerStep

LEMMA LocksAreOrdered ==
  ASSUME QueueInv, WaitInv
  PROVE  NoDeadlock
<1>0. /\ Threads = Producers \cup Consumers /\ Producers \cap Consumers = {}
      /\ Free \notin Threads
      /\ headLock \in Consumers \cup {Free} /\ tailLock \in Threads \cup {Free}
  BY QueueAssumption DEF Threads, QueueInv, QueueTypeOK
\* The holder of the tail mutex waits for nothing.
<1>1. ASSUME NEW u \in Threads, tailLock = u
      PROVE  CanRun(u)
  <2>1. pc[u] \in {"write", "swing", "compare"}
    BY <1>0, <1>1 DEF QueueInv, LocksInv
  <2> QED
    BY <2>1 DEF CanRun, WaitsFor
\* That of the head mutex waits for the tail mutex at most.
<1>2. ASSUME NEW u \in Threads, headLock = u
      PROVE  CanRun(u) \/ \E v \in Threads : WaitsFor(u, v) /\ CanRun(v)
  <2>1. pc[u] \in {"getTail", "compare", "return", "wait", "detach", "copy"}
    BY <1>0, <1>2 DEF QueueInv, LocksInv
  <2>2. CASE pc[u] = "getTail" /\ tailLock # Free
    <3>1. tailLock \in Threads /\ CanRun(tailLock) /\ WaitsFor(u, tailLock)
      BY <1>0, <1>1, <2>2 DEF WaitsFor
    <3> QED
      BY <3>1
  <2>3. CASE ~(pc[u] = "getTail" /\ tailLock # Free)
    BY <1>0, <2>1, <2>3 DEF CanRun, WaitsFor
  <2> QED
    BY <2>2, <2>3
<1>3. ASSUME NEW t \in Threads, pc[t] = "waiting"
      PROVE  t \in waiters \cap popping
  <2>1. t \in Consumers
    BY <1>0, <1>3 DEF QueueInv, LocksInv, ProducerPlaces
  <2> QED
    BY <1>3, <2>1 DEF QueueInv, LocksInv, WaitInv
<1>4. ASSUME NEW t \in Threads, NEW u \in Threads, WaitsFor(t, u)
      PROVE  CanRun(u) \/ \E v \in Threads : WaitsFor(u, v) /\ CanRun(v)
  <2>1. tailLock = u \/ headLock = u
    BY <1>4 DEF WaitsFor
  <2> QED
    BY <1>1, <1>2, <2>1
<1> QED
  BY <1>3, <1>4 DEF NoDeadlock

(***************************************************************************)
(* Any number of producers and consumers leave each other able to run      *)
(* (ts_queue.hpp:20-57): the head mutex is taken before the tail mutex and *)
(* never after it, and is given back by the wait.  With QueueIsMemorySafe  *)
(* the queue is safe to share.                                             *)
(***************************************************************************)
THEOREM QueueIsThreadSafe == QueueSpec => []ThreadSafe
<1>1. QueueInv /\ [QueueNext]_queueVars => QueueInv'
  BY StepQueue
<1>2. QueueInit => WaitInv
  BY DEF QueueInit, WaitInv, Threads
<1>3. QueueInv /\ WaitInv /\ [QueueNext]_queueVars => WaitInv'
  BY StepWait
<1>4. QueueInv /\ WaitInv => ThreadSafe
  BY LocksAreOrdered, QueueIsSafe DEF ThreadSafe
<1> QED
  BY InitQueue, <1>1, <1>2, <1>3, <1>4, PTL DEF QueueSpec
=============================================================================
