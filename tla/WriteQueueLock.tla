--------------------------- MODULE WriteQueueLock ---------------------------
(* The lock of Merkletree.processWriteQueueForTree: calls for one tree form a
   chain of promises.  A call stores its own promise as the tree's lock and
   awaits the promise that was there before; whatever happens inside, its
   `finally` block resolves the promise and removes it from the lock if it is
   still the last one.  Calls of updateTreesFromWriteQueue visit the trees
   with queued leaves one after the other, and start over after a delay when
   the processing of a tree throws.

   A promise is named by the call that made it: a call has at most one that
   is not resolved.                                                          *)
EXTENDS Integers, FiniteSets, Sequences

CONSTANTS Proc,       \* concurrent calls of updateTreesFromWriteQueue
          Tree,       \* tree numbers
          NoPromise   \* no unresolved promise

ASSUME TreesAreNumbers == Tree \subseteq Nat
ASSUME NoPromiseIsNotACall == NoPromise \notin Proc

VARIABLES tail,   \* tail[t]: processingWriteQueueLock[t]
          prev,   \* prev[p]: the unresolved promise call p awaits
          todo,   \* todo[p]: trees call p has yet to process
          pc      \* pc[p]: where call p is

vars == <<tail, prev, todo, pc>>

Stage == {"idle", "next", "chained", "holding", "delay"}

TypeOK == /\ tail \in [Tree -> Proc \union {NoPromise}]
          /\ prev \in [Proc -> Proc \union {NoPromise}]
          /\ todo \in [Proc -> SUBSET Tree]
          /\ pc \in [Proc -> Stage]

Init == /\ tail = [t \in Tree |-> NoPromise]
        /\ prev = [p \in Proc |-> NoPromise]
        /\ todo = [p \in Proc |-> {}]
        /\ pc = [p \in Proc |-> "idle"]

\* t is the tree p is at: the `for` loop takes tree indices in ascending order
Current(p, t) == t \in todo[p] /\ \A u \in todo[p] : t <= u

\* updateTreesFromWriteQueue: the trees that have a write queue at this moment
Call(p) == /\ pc[p] = "idle"
           /\ \E queued \in SUBSET Tree : todo' = [todo EXCEPT ![p] = queued]
           /\ pc' = [pc EXCEPT ![p] = "next"]
           /\ UNCHANGED <<tail, prev>>

Chain(p, t) == /\ pc[p] = "next"
               /\ Current(p, t)
               /\ prev' = [prev EXCEPT ![p] = tail[t]]
               /\ tail' = [tail EXCEPT ![t] = p]
               /\ pc' = [pc EXCEPT ![p] = "chained"]
               /\ UNCHANGED todo

\* mutant: the promise that was there is not awaited
EnterAtOnce(p) == /\ pc[p] = "chained"
                  /\ pc' = [pc EXCEPT ![p] = "holding"]
                  /\ UNCHANGED <<tail, prev, todo>>

Enter(p) == /\ pc[p] = "chained"
            /\ prev[p] = NoPromise
            /\ pc' = [pc EXCEPT ![p] = "holding"]
            /\ UNCHANGED <<tail, prev, todo>>

\* mutant: the lock is removed whoever is the last one
ReleaseForAll(p, t) ==
  /\ prev' = [q \in Proc |-> IF prev[q] = p THEN NoPromise ELSE prev[q]]
  /\ tail' = [tail EXCEPT ![t] = NoPromise]

\* the `finally` block: resolve, and remove the lock when nobody chained behind
Release(p, t) ==
  /\ prev' = [q \in Proc |-> IF prev[q] = p THEN NoPromise ELSE prev[q]]
  /\ tail' = [tail EXCEPT ![t] = IF @ = p THEN NoPromise ELSE @]

Leave(p, t) == /\ pc[p] = "holding"
               /\ Current(p, t)
               /\ Release(p, t)
               /\ todo' = [todo EXCEPT ![p] = @ \ {t}]
               /\ pc' = [pc EXCEPT ![p] = "next"]

\* an exception leaves processWriteQueueForTree through the same block
Throw(p, t) == /\ pc[p] = "holding"
               /\ Current(p, t)
               /\ Release(p, t)
               /\ pc' = [pc EXCEPT ![p] = "delay"]
               /\ UNCHANGED todo

Retry(p) == /\ pc[p] = "delay"
            /\ \E queued \in SUBSET Tree : todo' = [todo EXCEPT ![p] = queued]
            /\ pc' = [pc EXCEPT ![p] = "next"]
            /\ UNCHANGED <<tail, prev>>

Return(p) == /\ pc[p] = "next"
             /\ todo[p] = {}
             /\ pc' = [pc EXCEPT ![p] = "idle"]
             /\ UNCHANGED <<tail, prev, todo>>

Step(p) == \/ Enter(p) \/ Retry(p) \/ Return(p)
           \/ \E t \in Tree : Chain(p, t) \/ Leave(p, t) \/ Throw(p, t)

Next == \E p \in Proc : Call(p) \/ Step(p)

\* the event loop runs every continuation, and the awaited operations settle
Spec == Init /\ [][Next]_vars /\ \A p \in Proc : WF_vars(Step(p))
-----------------------------------------------------------------------------
\* At p's turn in the chain of tree t: p has a promise there that is unresolved
Queued(p, t) == pc[p] \in {"chained", "holding"} /\ Current(p, t)

\* s is the chain of promises of tree t, from its resolved end to the tail
IsChain(s, t) ==
  /\ \A p \in Proc : Queued(p, t) <=> \E i \in 1..Len(s) : s[i] = p
  /\ \A i, j \in 1..Len(s) : s[i] = s[j] => i = j
  /\ \A i \in 1..Len(s) : prev[s[i]] = IF i = 1 THEN NoPromise ELSE s[i - 1]
  /\ tail[t] = IF Len(s) = 0 THEN NoPromise ELSE s[Len(s)]

Members(t) == {p \in Proc : Queued(p, t)}

ChainOf(t) ==
  CHOOSE s \in UNION {[1..n -> Members(t)] : n \in 0..Cardinality(Members(t))} : IsChain(s, t)

line   == [t \in Tree |-> ChainOf(t)]
inside == {p \in Proc : pc[p] = "holding"}

Fifo == INSTANCE FifoLock

(* The promise chain implements the FIFO lock: callers of a tree are served
   one at a time, in the order in which they read and replaced the lock.     *)
ServesInOrder == Fifo!Spec

(* Two calls never run the body of processWriteQueueForTree for the same tree
   at the same time, whatever calls, errors and retries came before.         *)
MutualExclusion ==
  \A p, q \in Proc, t \in Tree :
    /\ p # q
    /\ pc[p] = "holding" /\ pc[q] = "holding"
    => ~(Current(p, t) /\ Current(q, t))

(* Nobody awaits a promise that nobody will resolve: the call p awaits is in
   the chain of the same tree.                                               *)
NoAbandonedWaiter ==
  \A p \in Proc : prev[p] # NoPromise =>
    \E t \in Tree : Queued(p, t) /\ Queued(prev[p], t)
=============================================================================
