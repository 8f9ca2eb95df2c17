--------------------------- MODULE EventLoopProofs ---------------------------
(* The two mechanisms that order what the event loop of the process does: the
   lock of a tree's write queue (WriteQueueLock), a chain of promises, and the
   live subscriber (BatchedPollingEventSubscriber), timers and requests.  They
   share no state; each theorem is about the specification of one of them.

   The processing lock excludes and abandons nobody, for any number of calls
   and trees.  The promises of a tree always form one chain: a sequence of
   distinct calls, the first of which awaits nothing, each of the others the
   call before it, and the last of which is the tree's lock.  That sequence
   is the queue of FifoLock, whose steps the steps of the calls implement.

   The subscriber never goes deaf and emits the logs of blocks in order, once
   and without gaps, for any batch size and interval.                        *)
EXTENDS WriteQueueLock, BatchedPollingEventSubscriber, FiniteSetTheorems,
        SequenceTheorems, WellFoundedInduction, TLAPS

Chained == \A t \in Tree : \E s \in Seq(Proc) : IsChain(s, t)

OnlyChainedAwait == \A p \in Proc : pc[p] # "chained" => prev[p] = NoPromise

QueuedSomewhere ==
  \A p \in Proc : pc[p] \in {"chained", "holding"} => \E t \in Tree : Current(p, t)

IInv == TypeOK /\ Chained /\ OnlyChainedAwait /\ QueuedSomewhere

LEMMA CurrentIsUnique ==
  ASSUME TypeOK, NEW p \in Proc, NEW t \in Tree, NEW u \in Tree,
         Current(p, t), Current(p, u)
  PROVE  t = u
BY TreesAreNumbers DEF TypeOK, Current

\* The call that awaits nothing is the first of its chain
LEMMA ResolvedIsFirst ==
  ASSUME TypeOK, NEW p \in Proc, NEW t \in Tree, NEW s \in Seq(Proc),
         IsChain(s, t), Queued(p, t), prev[p] = NoPromise
  PROVE  Len(s) > 0 /\ s[1] = p
<1>1. PICK i \in 1..Len(s) : s[i] = p
  BY DEF IsChain
<1>2. CASE i = 1
  BY <1>1, <1>2
<1>3. CASE i # 1
  <2>1. prev[p] = s[i - 1]
    BY <1>1, <1>3 DEF IsChain
  <2>2. i - 1 \in 1..Len(s)
    BY <1>1, <1>3
  <2>3. s[i - 1] \in Proc
    BY <2>2
  <2> QED
    BY <2>1, <2>3, NoPromiseIsNotACall
<1> QED
  BY <1>2, <1>3

LEMMA InitIInv == Init => IInv
<1> SUFFICES ASSUME Init PROVE IInv
  OBVIOUS
<1>1. TypeOK
  BY DEF Init, TypeOK, Stage
<1>2. ASSUME NEW t \in Tree PROVE IsChain(<< >>, t)
  BY DEF Init, IsChain, Queued
<1>3. << >> \in Seq(Proc)
  OBVIOUS
<1>4. Chained
  BY <1>2, <1>3 DEF Chained
<1>5. OnlyChainedAwait /\ QueuedSomewhere
  BY DEF Init, OnlyChainedAwait, QueuedSomewhere
<1> QED
  BY <1>1, <1>4, <1>5 DEF IInv

\* A step that leaves the promises and the queued calls alone keeps every chain
LEMMA ChainedFrame ==
  ASSUME IInv, UNCHANGED <<tail, prev>>,
         \A p \in Proc, t \in Tree : Queued(p, t)' <=> Queued(p, t)
  PROVE  Chained'
<1> SUFFICES ASSUME NEW t \in Tree PROVE \E s \in Seq(Proc) : IsChain(s, t)'
  BY DEF Chained
<1>1. PICK s \in Seq(Proc) : IsChain(s, t)
  BY DEF IInv, Chained
<1>2. IsChain(s, t)'
  BY <1>1 DEF IsChain
<1> QED
  BY <1>2

\* Who calls is the new end of the chain of its tree, and of no other
LEMMA ChainGrows ==
  ASSUME IInv, NEW p \in Proc, NEW t \in Tree, Chain(p, t),
         NEW u \in Tree, NEW s \in Seq(Proc), IsChain(s, u)
  PROVE  /\ u # t => IsChain(s, u)'
         /\ u = t => IsChain(Append(s, p), u)'
<1> USE DEF IInv
<1>1. IsChain(s, u) /\ \A v \in Tree : ~Queued(p, v)
  BY DEF Chain, Queued
<1>2. \A i \in 1..Len(s) : s[i] \in Proc /\ s[i] # p
  BY <1>1 DEF IsChain
<1>3. \A q \in Proc : q # p => (Queued(q, u)' <=> Queued(q, u))
  BY DEF Queued, Current, Chain, TypeOK
<1>4. \A q \in Proc : q # p => prev'[q] = prev[q]
  BY DEF Chain, TypeOK
<1>5. CASE u # t
  <2>1. ~Queued(p, u)'
    <3>1. Current(p, t)
      BY DEF Chain
    <3>2. ~Current(p, u)
      BY <1>5, <3>1, CurrentIsUnique
    <3> QED
      BY <3>2 DEF Queued, Current, Chain
  <2>2. tail'[u] = tail[u]
    BY <1>5 DEF Chain, TypeOK
  <2>3. \A q \in Proc : Queued(q, u)' <=> Queued(q, u)
    BY <1>1, <1>3, <2>1
  <2>4. \A i \in 1..Len(s) : prev'[s[i]] = prev[s[i]]
    BY <1>2, <1>4
  <2>5. IsChain(s, u)'
    BY <1>1, <2>2, <2>3, <2>4 DEF IsChain
  <2> QED
    BY <1>5, <2>5
<1>6. CASE u = t
  <2> DEFINE r == Append(s, p)
  <2>1. r \in Seq(Proc) /\ Len(r) = Len(s) + 1
    OBVIOUS
  <2>2. \A i \in 1..Len(s) : r[i] = s[i]
    OBVIOUS
  <2>3. r[Len(s) + 1] = p
    OBVIOUS
  <2>4. Queued(p, t)'
    BY DEF Queued, Chain, Current, TypeOK
  <2>5. tail'[t] = p /\ prev'[p] = tail[t]
    BY DEF Chain, TypeOK
  <2> HIDE DEF r
  <2>6. \A q \in Proc : Queued(q, t)' <=> \E i \in 1..Len(r) : r[i] = q
    <3>1. ASSUME NEW q \in Proc, q # p
          PROVE  Queued(q, t)' <=> \E i \in 1..Len(r) : r[i] = q
      <4>1. Queued(q, t)' <=> \E i \in 1..Len(s) : s[i] = q
        BY <1>1, <1>3, <1>6, <3>1 DEF IsChain
      <4>2. (\E i \in 1..Len(s) : s[i] = q) <=> \E i \in 1..Len(r) : r[i] = q
        BY <2>1, <2>2, <2>3, <3>1
      <4> QED
        BY <4>1, <4>2
    <3>2. \E i \in 1..Len(r) : r[i] = p
      BY <2>1, <2>3
    <3> QED
      BY <2>4, <3>1, <3>2
  <2>7. \A i, j \in 1..Len(r) : r[i] = r[j] => i = j
    <3>1. \A i, j \in 1..Len(s) : s[i] = s[j] => i = j
      BY <1>1 DEF IsChain
    <3> QED
      BY <1>2, <2>1, <2>2, <2>3, <3>1
  <2>8. \A i \in 1..Len(r) : prev'[r[i]] = IF i = 1 THEN NoPromise ELSE r[i - 1]
    <3>1. ASSUME NEW i \in 1..Len(s)
          PROVE  prev'[r[i]] = IF i = 1 THEN NoPromise ELSE r[i - 1]
      <4>1. prev'[r[i]] = prev[s[i]]
        BY <1>2, <1>4, <2>2
      <4>2. prev[s[i]] = IF i = 1 THEN NoPromise ELSE s[i - 1]
        BY <1>1 DEF IsChain
      <4>3. i # 1 => r[i - 1] = s[i - 1]
        BY <2>2
      <4> QED
        BY <4>1, <4>2, <4>3
    <3>2. prev'[p] = IF Len(s) = 0 THEN NoPromise ELSE s[Len(s)]
      BY <1>1, <1>6, <2>5 DEF IsChain
    <3>3. Len(s) # 0 => r[Len(s)] = s[Len(s)]
      BY <2>2
    <3>4. prev'[r[Len(s) + 1]]
            = IF Len(s) + 1 = 1 THEN NoPromise ELSE r[Len(s) + 1 - 1]
      BY <2>3, <3>2, <3>3
    <3> QED
      BY <2>1, <3>1, <3>4
  <2>9. tail'[t] = IF Len(r) = 0 THEN NoPromise ELSE r[Len(r)]
    BY <2>1, <2>3, <2>5
  <2>10. IsChain(r, t)'
    BY <2>6, <2>7, <2>8, <2>9 DEF IsChain
  <2> QED
    BY <1>6, <2>10 DEF r
<1> QED
  BY <1>5, <1>6

LEMMA ChainStep ==
  ASSUME IInv, NEW p \in Proc, NEW t \in Tree, Chain(p, t)
  PROVE  IInv'
<1> USE DEF IInv
<1>1. TypeOK'
  BY DEF TypeOK, Chain, Stage
<1>2. OnlyChainedAwait'
  BY DEF OnlyChainedAwait, Chain, TypeOK
<1>3. QueuedSomewhere'
  BY DEF QueuedSomewhere, Chain, TypeOK, Current
<1>4. Chained'
  <2> SUFFICES ASSUME NEW u \in Tree PROVE \E s \in Seq(Proc) : IsChain(s, u)'
    BY DEF Chained
  <2>1. PICK s \in Seq(Proc) : IsChain(s, u)
    BY DEF Chained
  <2>2. Append(s, p) \in Seq(Proc)
    OBVIOUS
  <2> QED
    BY <2>1, <2>2, ChainGrows
<1> QED
  BY <1>1, <1>2, <1>3, <1>4

\* What the `finally` block does to the chains, however the call goes on
LEMMA ChainShrinks ==
  ASSUME IInv, NEW p \in Proc, NEW t \in Tree,
         pc[p] = "holding", Current(p, t), Release(p, t),
         \A u \in Tree : ~Queued(p, u)',
         \A q \in Proc, u \in Tree : q # p => (Queued(q, u)' <=> Queued(q, u)),
         NEW u \in Tree, NEW s \in Seq(Proc), IsChain(s, u)
  PROVE  /\ u # t => IsChain(s, u)'
         /\ u = t => Len(s) > 0 /\ s[1] = p /\ IsChain(Tail(s), u)'
<1> USE DEF IInv
<1>8. prev[p] = NoPromise
  BY DEF OnlyChainedAwait
<1>9. Queued(p, t)
  BY DEF Queued
<1>1. IsChain(s, u)
  OBVIOUS
<1>2. \A i \in 1..Len(s) : s[i] \in Proc
  OBVIOUS
<1>3. CASE u # t
  <2>1. ~Queued(p, u)
    <3>1. ~Current(p, u)
      BY <1>3, CurrentIsUnique
    <3> QED
      BY <3>1 DEF Queued
  <2>2. \A i \in 1..Len(s) : s[i] # p
    BY <1>1, <2>1 DEF IsChain
  <2>3. \A i \in 1..Len(s) : prev[s[i]] # p
    <3>1. ASSUME NEW i \in 1..Len(s) PROVE prev[s[i]] # p
      <4>1. prev[s[i]] = IF i = 1 THEN NoPromise ELSE s[i - 1]
        BY <1>1 DEF IsChain
      <4>2. CASE i = 1
        BY <4>1, <4>2, NoPromiseIsNotACall
      <4>3. CASE i # 1
        <5>1. i - 1 \in 1..Len(s)
          BY <4>3
        <5> QED
          BY <2>2, <4>1, <4>3, <5>1
      <4> QED
        BY <4>2, <4>3
    <3> QED
      BY <3>1
  <2>4. \A i \in 1..Len(s) : prev'[s[i]] = prev[s[i]]
    BY <1>2, <2>3 DEF Release
  <2>5. tail'[u] = tail[u]
    BY <1>3 DEF Release, TypeOK
  <2>6. \A q \in Proc : Queued(q, u)' <=> Queued(q, u)
    BY <2>1
  <2>7. IsChain(s, u)'
    BY <1>1, <2>4, <2>5, <2>6 DEF IsChain
  <2> QED
    BY <1>3, <2>7
<1>4. CASE u = t
  <2>1. Len(s) > 0 /\ s[1] = p
    BY <1>8, <1>9, <1>1, <1>4, ResolvedIsFirst
  <2> DEFINE r == Tail(s)
  <2>2. r \in Seq(Proc) /\ Len(r) = Len(s) - 1 /\ Len(s) \in Nat /\ Len(r) \in Nat
    BY <2>1
  <2>3. \A i \in 1..Len(r) : r[i] = s[i + 1]
    BY <2>1, <2>2
  <2> HIDE DEF r
  <2>4. \A i, j \in 1..Len(s) : s[i] = s[j] => i = j
    BY <1>1 DEF IsChain
  <2>5. \A i \in 2..Len(s) : s[i] # p
    BY <2>1, <2>4
  <2>6. \A q \in Proc : Queued(q, t)' <=> \E i \in 1..Len(r) : r[i] = q
    <3>1. ASSUME NEW q \in Proc, q # p
          PROVE  Queued(q, t)' <=> \E i \in 1..Len(r) : r[i] = q
      <4>1. Queued(q, t)' <=> \E i \in 1..Len(s) : s[i] = q
        BY <1>1, <1>4, <3>1 DEF IsChain
      <4>2. ASSUME NEW i \in 1..Len(s), s[i] = q
            PROVE  \E j \in 1..Len(r) : r[j] = q
        <5>1. i # 1
          BY <2>1, <3>1, <4>2
        <5>2. i - 1 \in 1..Len(r) /\ r[i - 1] = s[i - 1 + 1]
          BY <2>2, <2>3, <5>1
        <5> QED
          BY <4>2, <5>2
      <4>3. ASSUME NEW j \in 1..Len(r), r[j] = q
            PROVE  \E i \in 1..Len(s) : s[i] = q
        <5>1. j \in Nat /\ j + 1 \in 1..Len(s)
          BY <2>2
        <5>2. s[j + 1] = q
          BY <2>3, <4>3
        <5> QED
          BY <5>1, <5>2
      <4> QED
        BY <4>1, <4>2, <4>3
    <3>2. ASSUME NEW i \in 1..Len(r) PROVE r[i] # p
      <4>1. i + 1 \in 2..Len(s)
        BY <2>2
      <4> QED
        BY <2>3, <2>5, <4>1
    <3> QED
      BY <3>1, <3>2
  <2>7. \A i, j \in 1..Len(r) : r[i] = r[j] => i = j
    BY <2>2, <2>3, <2>4
  <2>8. \A i \in 1..Len(r) : prev'[r[i]] = IF i = 1 THEN NoPromise ELSE r[i - 1]
    <3>1. ASSUME NEW i \in 1..Len(r)
          PROVE  prev'[r[i]] = IF i = 1 THEN NoPromise ELSE r[i - 1]
      <4>1. i + 1 \in 1..Len(s) /\ i + 1 # 1 /\ r[i] = s[i + 1]
        <5>1. i + 1 \in 1..Len(s) /\ i + 1 # 1
          BY <2>2
        <5>2. r[i] = s[i + 1]
          BY <2>3
        <5> QED
          BY <5>1, <5>2
      <4>2. prev[r[i]] = s[i]
        BY <1>1, <4>1 DEF IsChain
      <4>3. CASE i = 1
        <5>1. prev[r[i]] = p
          BY <2>1, <4>2, <4>3
        <5> QED
          BY <1>2, <4>1, <4>3, <5>1 DEF Release
      <4>4. CASE i # 1
        <5>1. i \in 2..Len(s)
          BY <2>2, <4>4
        <5>2. prev[r[i]] # p
          BY <2>5, <4>2, <5>1
        <5>3. prev'[r[i]] = prev[r[i]]
          BY <1>2, <4>1, <5>2 DEF Release
        <5>4. i - 1 \in 1..Len(r) /\ r[i - 1] = s[i - 1 + 1]
          BY <2>3, <4>4
        <5> QED
          BY <4>2, <4>4, <5>3, <5>4
      <4> QED
        BY <4>3, <4>4
    <3> QED
      BY <3>1
  <2>9. tail'[t] = IF Len(r) = 0 THEN NoPromise ELSE r[Len(r)]
    <3>1. tail[t] = s[Len(s)]
      BY <1>1, <1>4, <2>1 DEF IsChain
    <3>2. tail'[t] = IF s[Len(s)] = p THEN NoPromise ELSE s[Len(s)]
      BY <3>1 DEF Release, TypeOK
    <3>3. CASE Len(s) = 1
      BY <2>1, <2>2, <3>2, <3>3
    <3>4. CASE Len(s) # 1
      <4>1. s[Len(s)] # p
        <5>1. ASSUME NEW n \in Nat, n > 0, n # 1 PROVE n \in 2..n
          BY <5>1
        <5>2. Len(s) \in Nat /\ Len(s) > 0 /\ Len(s) # 1
          BY <2>1, <3>4
        <5>3. Len(s) \in 2..Len(s)
          BY <5>1, <5>2
        <5> QED
          BY <2>5, <5>3
      <4>2. Len(r) # 0 /\ r[Len(r)] = s[Len(s)]
        BY <2>1, <2>2, <2>3, <3>4
      <4> QED
        BY <3>2, <4>1, <4>2
    <3> QED
      BY <3>3, <3>4
  <2>10. IsChain(r, t)'
    BY <2>6, <2>7, <2>8, <2>9 DEF IsChain
  <2> QED
    BY <1>4, <2>1, <2>10 DEF r
<1> QED
  BY <1>3, <1>4

LEMMA ReleaseChains ==
  ASSUME IInv, NEW p \in Proc, NEW t \in Tree,
         pc[p] = "holding", Current(p, t), Release(p, t),
         \A u \in Tree : ~Queued(p, u)',
         \A q \in Proc, u \in Tree : q # p => (Queued(q, u)' <=> Queued(q, u))
  PROVE  Chained'
<1> SUFFICES ASSUME NEW u \in Tree PROVE \E s \in Seq(Proc) : IsChain(s, u)'
  BY DEF Chained
<1>1. PICK s \in Seq(Proc) : IsChain(s, u)
  BY DEF IInv, Chained
<1>2. Len(s) > 0 => Tail(s) \in Seq(Proc)
  OBVIOUS
<1> QED
  BY <1>1, <1>2, ChainShrinks

LEMMA LeaveStep ==
  ASSUME IInv, NEW p \in Proc, NEW t \in Tree, Leave(p, t)
  PROVE  IInv'
<1> USE DEF IInv
<1>1. TypeOK'
  BY DEF TypeOK, Leave, Release, Stage
<1>2. OnlyChainedAwait'
  BY NoPromiseIsNotACall DEF OnlyChainedAwait, Leave, Release, TypeOK
<1>3. QueuedSomewhere'
  BY DEF QueuedSomewhere, Leave, TypeOK, Current
<1>4. \A u \in Tree : ~Queued(p, u)'
  BY DEF Queued, Leave, TypeOK
<1>5. \A q \in Proc, u \in Tree : q # p => (Queued(q, u)' <=> Queued(q, u))
  BY DEF Queued, Current, Leave, TypeOK
<1>6. Chained'
  BY <1>4, <1>5, ReleaseChains DEF Leave
<1> QED
  BY <1>1, <1>2, <1>3, <1>6

LEMMA ThrowStep ==
  ASSUME IInv, NEW p \in Proc, NEW t \in Tree, Throw(p, t)
  PROVE  IInv'
<1> USE DEF IInv
<1>1. TypeOK'
  BY DEF TypeOK, Throw, Release, Stage
<1>2. OnlyChainedAwait'
  BY NoPromiseIsNotACall DEF OnlyChainedAwait, Throw, Release, TypeOK
<1>3. QueuedSomewhere'
  BY DEF QueuedSomewhere, Throw, TypeOK, Current
<1>4. \A u \in Tree : ~Queued(p, u)'
  BY DEF Queued, Throw, TypeOK
<1>5. \A q \in Proc, u \in Tree : q # p => (Queued(q, u)' <=> Queued(q, u))
  BY DEF Queued, Current, Throw, TypeOK
<1>6. Chained'
  BY <1>4, <1>5, ReleaseChains DEF Throw
<1> QED
  BY <1>1, <1>2, <1>3, <1>6

\* The steps of a call that is in no chain, or stays where it is in its chain
LEMMA OtherSteps ==
  ASSUME IInv, NEW p \in Proc, Call(p) \/ Enter(p) \/ Retry(p) \/ Return(p)
  PROVE  IInv'
<1> USE DEF IInv
<1>1. UNCHANGED <<tail, prev>>
  BY DEF Call, Enter, Retry, Return
<1>2. \A q \in Proc, t \in Tree : Queued(q, t)' <=> Queued(q, t)
  BY DEF Queued, Current, Call, Enter, Retry, Return, TypeOK
<1>3. Chained'
  BY <1>1, <1>2, ChainedFrame
<1>4. TypeOK'
  BY DEF TypeOK, Call, Enter, Retry, Return, Stage
<1>5. OnlyChainedAwait'
  BY DEF OnlyChainedAwait, Call, Enter, Retry, Return, TypeOK
<1>6. QueuedSomewhere'
  BY DEF QueuedSomewhere, Current, Call, Enter, Retry, Return, TypeOK
<1> QED
  BY <1>3, <1>4, <1>5, <1>6

(* The chains, and with them the types, are kept by every step of every call
   of updateTreesFromWriteQueue.                                             *)
THEOREM LockInvariant == Spec => []IInv
<1>1. Init => IInv
  BY InitIInv
<1>2. IInv /\ [Next]_vars => IInv'
  <2> SUFFICES ASSUME IInv, [Next]_vars PROVE IInv'
    OBVIOUS
  <2>1. CASE UNCHANGED vars
    <3>1. UNCHANGED <<tail, prev>>
      BY <2>1 DEF vars
    <3>2. \A q \in Proc, t \in Tree : Queued(q, t)' <=> Queued(q, t)
      BY <2>1 DEF vars, Queued, Current
    <3>3. Chained'
      BY <3>1, <3>2, ChainedFrame
    <3> QED
      BY <2>1, <3>3 DEF vars, IInv, TypeOK, OnlyChainedAwait, QueuedSomewhere, Current
  <2>2. CASE Next
    BY <2>2, ChainStep, LeaveStep, ThrowStep, OtherSteps DEF Next, Step
  <2> QED
    BY <2>1, <2>2
<1> QED
  BY <1>1, <1>2, PTL DEF Spec

(* Two calls of processWriteQueueForTree never process one tree at a time.    *)
THEOREM LockExcludes == Spec => []MutualExclusion
<1>1. IInv => MutualExclusion
  <2> SUFFICES ASSUME IInv, NEW p \in Proc, NEW q \in Proc, NEW t \in Tree,
                      pc[p] = "holding", pc[q] = "holding",
                      Current(p, t), Current(q, t)
               PROVE  p = q
    BY DEF MutualExclusion
  <2>1. PICK s \in Seq(Proc) : IsChain(s, t)
    BY DEF IInv, Chained
  <2>2. prev[p] = NoPromise /\ prev[q] = NoPromise
    BY DEF IInv, OnlyChainedAwait
  <2>3. Queued(p, t) /\ Queued(q, t)
    BY DEF Queued
  <2>4. s[1] = p
    BY <2>1, <2>2, <2>3, ResolvedIsFirst DEF IInv
  <2>5. s[1] = q
    BY <2>1, <2>2, <2>3, ResolvedIsFirst DEF IInv
  <2> QED
    BY <2>4, <2>5
<1> QED
  BY <1>1, LockInvariant, PTL

(* The promise a call awaits is always one that a call in the same chain is
   going to resolve.                                                         *)
THEOREM LockAbandonsNobody == Spec => []NoAbandonedWaiter
<1>1. IInv => NoAbandonedWaiter
  <2> SUFFICES ASSUME IInv, NEW p \in Proc, prev[p] # NoPromise
               PROVE  \E t \in Tree : Queued(p, t) /\ Queued(prev[p], t)
    BY DEF NoAbandonedWaiter
  <2>1. pc[p] = "chained"
    BY DEF IInv, OnlyChainedAwait
  <2>2. PICK t \in Tree : Current(p, t)
    BY <2>1 DEF IInv, QueuedSomewhere
  <2>3. Queued(p, t)
    BY <2>1, <2>2 DEF Queued
  <2>4. PICK s \in Seq(Proc) : IsChain(s, t)
    BY DEF IInv, Chained
  <2>5. PICK i \in 1..Len(s) : s[i] = p
    BY <2>3, <2>4 DEF IsChain
  <2>6. i # 1 /\ prev[p] = s[i - 1]
    BY <2>4, <2>5 DEF IsChain
  <2>7. i - 1 \in 1..Len(s) /\ s[i - 1] \in Proc
    BY <2>6
  <2>8. Queued(s[i - 1], t)
    BY <2>4, <2>7 DEF IsChain
  <2> QED
    BY <2>3, <2>6, <2>8
<1> QED
  BY <1>1, LockInvariant, PTL

(* Locks, chains and positions of calls keep their types.                    *)
THEOREM LockTypes == Spec => []TypeOK
<1>1. IInv => TypeOK
  BY DEF IInv
<1> QED
  BY <1>1, LockInvariant, PTL
-----------------------------------------------------------------------------
(* A tree has one chain: position by position two of them agree, as the call
   at a position is the only one that awaits the call before it.              *)
LEMMA ChainIsUnique ==
  ASSUME NEW t \in Tree, NEW r \in Seq(Proc), NEW s \in Seq(Proc),
         IsChain(r, t), IsChain(s, t)
  PROVE  r = s
<1>1. ASSUME NEW i \in 1..Len(r), NEW j \in 1..Len(s), r[i] = s[j],
             i # 1 => i - 1 \in 1..Len(s) /\ r[i - 1] = s[i - 1]
      PROVE  i = j
  <2>1. (IF i = 1 THEN NoPromise ELSE r[i - 1]) = (IF j = 1 THEN NoPromise ELSE s[j - 1])
    <3>1. prev[r[i]] = IF i = 1 THEN NoPromise ELSE r[i - 1]
      BY DEF IsChain
    <3>2. prev[s[j]] = IF j = 1 THEN NoPromise ELSE s[j - 1]
      BY DEF IsChain
    <3> QED
      BY <1>1, <3>1, <3>2
  <2>2. /\ i # 1 => i - 1 \in 1..Len(r) /\ r[i - 1] \in Proc
        /\ j # 1 => j - 1 \in 1..Len(s) /\ s[j - 1] \in Proc
    OBVIOUS
  <2>3. i = 1 <=> j = 1
    BY <2>1, <2>2, NoPromiseIsNotACall
  <2>4. CASE i = 1
    BY <2>3, <2>4
  <2>5. CASE i # 1
    <3>1. j # 1
      BY <2>3, <2>5
    <3>2. s[i - 1] = s[j - 1]
      BY <1>1, <2>1, <2>5, <3>1
    <3>3. i - 1 \in 1..Len(s) /\ j - 1 \in 1..Len(s)
      BY <1>1, <2>2, <2>5, <3>1
    <3>4. \A k, l \in 1..Len(s) : s[k] = s[l] => k = l
      BY DEF IsChain
    <3>5. i - 1 = j - 1
      BY <3>2, <3>3, <3>4
    <3> QED
      BY <3>5
  <2> QED
    BY <2>4, <2>5
<1>2. \A i \in 1..Len(r) : \E j \in 1..Len(s) : r[i] = s[j]
  <2>1. \A i \in 1..Len(r) : r[i] \in Proc
    OBVIOUS
  <2> QED
    BY <2>1 DEF IsChain
<1>3. \A j \in 1..Len(s) : \E i \in 1..Len(r) : r[i] = s[j]
  <2>1. \A j \in 1..Len(s) : s[j] \in Proc
    OBVIOUS
  <2> QED
    BY <2>1 DEF IsChain
<1> DEFINE T == {i \in 1..Len(r) : ~(i \in 1..Len(s) /\ r[i] = s[i])}
<1>4. T = {}
  <2> SUFFICES ASSUME T # {} PROVE FALSE
    OBVIOUS
  <2>1. T \subseteq Nat
    OBVIOUS
  <2> HIDE DEF T
  <2>2. PICK i \in T : \A k \in T : ~(<<k, i>> \in OpToRel(<, Nat))
    <3> DEFINE R == OpToRel(<, Nat)
    <3>1. IsWellFoundedOn(R, Nat)
      BY NatLessThanWellFounded
    <3> HIDE DEF R
    <3>2. \E x \in T : \A y \in T : ~(<<y, x>> \in R)
      BY <2>1, <3>1, WFMin
    <3> QED
      BY <3>2 DEF R
  <2>3. i \in 1..Len(r)
    BY DEF T
  <2>4. i # 1 => i - 1 \in 1..Len(r) /\ i - 1 \notin T
    <3>1. SUFFICES ASSUME i # 1 PROVE i - 1 \in 1..Len(r) /\ i - 1 \notin T
      OBVIOUS
    <3>2. i - 1 \in 1..Len(r) /\ i - 1 < i /\ i - 1 \in Nat /\ i \in Nat
      BY <2>3, <3>1
    <3>3. <<i - 1, i>> \in OpToRel(<, Nat)
      BY <3>2 DEF OpToRel
    <3> QED
      BY <2>2, <3>2, <3>3
  <2>5. i # 1 => i - 1 \in 1..Len(s) /\ r[i - 1] = s[i - 1]
    BY <2>4 DEF T
  <2>6. PICK j \in 1..Len(s) : r[i] = s[j]
    BY <1>2, <2>3
  <2>7. i = j
    BY <1>1, <2>3, <2>5, <2>6
  <2> QED
    BY <2>6, <2>7 DEF T
<1>5. \A i \in 1..Len(r) : i \in 1..Len(s) /\ r[i] = s[i]
  BY <1>4
<1>6. Len(s) <= Len(r)
  <2> SUFFICES ASSUME Len(r) < Len(s) PROVE FALSE
    OBVIOUS
  <2>1. PICK n \in 1..Len(s) : n = Len(r) + 1
    OBVIOUS
  <2>2. PICK i \in 1..Len(r) : r[i] = s[n]
    BY <1>3, <2>1
  <2>3. s[i] = s[n] /\ i \in 1..Len(s)
    BY <1>5, <2>2
  <2>4. i = n
    BY <2>1, <2>3 DEF IsChain
  <2> QED
    BY <2>1, <2>4
<1>7. Len(r) <= Len(s)
  <2>1. Len(r) # 0 => Len(r) \in 1..Len(r)
    OBVIOUS
  <2> QED
    BY <1>5, <2>1
<1> QED
  BY <1>5, <1>6, <1>7

ChainsAreLines == \A t \in Tree : \A s \in Seq(Proc) : IsChain(s, t) => line[t] = s

LEMMA LinesAreNamed == ChainsAreLines
<1> SUFFICES ASSUME NEW t \in Tree, NEW s \in Seq(Proc), IsChain(s, t) PROVE ChainOf(t) = s
  BY DEF ChainsAreLines, line
<1> DEFINE M == Members(t)
           n == Len(s)
           S == UNION {[1..k -> M] : k \in 0..Cardinality(M)}
<1>1. n \in Nat /\ \A i \in 1..n : s[i] \in M
  <2>1. n \in Nat /\ \A i \in 1..n : s[i] \in Proc
    OBVIOUS
  <2>2. \A i \in 1..n : s[i] \in Proc => Queued(s[i], t)
    BY DEF IsChain
  <2> QED
    BY <2>1, <2>2 DEF Members
<1>2. s \in [1..n -> M]
  BY <1>1
<1>3. \A p \in M : \E i \in 1..n : s[i] = p
  BY DEF Members, IsChain
<1>4. \A i, j \in 1..n : s[i] = s[j] => i = j
  BY DEF IsChain
<1>5. ExistsBijection(1..n, M)
  BY <1>2, <1>3, <1>4 DEF ExistsBijection, Bijection, Injection, Surjection, IsInjective
<1>6. Cardinality(M) = n
  BY <1>1, <1>5, FS_CountingElements
<1>7. s \in S
  BY <1>1, <1>2, <1>6
<1>8. \A r \in S : r \in Seq(Proc)
  <2> SUFFICES ASSUME NEW k \in 0..Cardinality(M), NEW r \in [1..k -> M] PROVE r \in Seq(Proc)
    OBVIOUS
  <2>1. M \subseteq Proc /\ k \in Nat
    BY <1>1, <1>6 DEF Members
  <2> QED
    BY <2>1
<1>9. \A r \in S : IsChain(r, t) => r = s
  BY <1>8, ChainIsUnique
<1> HIDE DEF S
<1>10. (CHOOSE r \in S : IsChain(r, t)) = s
  BY <1>7, <1>9
<1> QED
  BY <1>10 DEF S, ChainOf

LEMMA LinesAreChains ==
  ASSUME IInv, NEW t \in Tree
  PROVE  line[t] \in Seq(Proc) /\ IsChain(line[t], t)
<1>1. PICK s \in Seq(Proc) : IsChain(s, t)
  BY DEF IInv, Chained
<1>2. line[t] = s
  BY <1>1, LinesAreNamed DEF ChainsAreLines
<1> QED
  BY <1>1, <1>2

LEMMA LinesStayNamed == ChainsAreLines'
BY LinesAreNamed, PTL

\* Where the promises and the queued calls stay, the lines do
LEMMA LinesFrame ==
  ASSUME IInv, UNCHANGED <<tail, prev>>,
         \A p \in Proc, t \in Tree : Queued(p, t)' <=> Queued(p, t)
  PROVE  line' = line
<1>1. ASSUME NEW t \in Tree PROVE line'[t] = line[t]
  <2>1. PICK s \in Seq(Proc) : s = line[t] /\ IsChain(s, t)
    BY LinesAreChains
  <2>2. IsChain(s, t)'
    BY <2>1 DEF IsChain
  <2> QED
    BY <2>1, <2>2, LinesStayNamed DEF ChainsAreLines
<1>2. /\ line = [t \in Tree |-> line[t]]
      /\ line' = [t \in Tree |-> line'[t]]
  BY DEF line
<1> QED
  BY <1>1, <1>2

\* A call that reads and replaces the lock goes to the end of the line
LEMMA ChainArrives ==
  ASSUME IInv, NEW p \in Proc, NEW t \in Tree, Chain(p, t)
  PROVE  Fifo!Arrive(p, t)
<1>1. ~Fifo!InLine(p)
  <2> SUFFICES ASSUME NEW u \in Tree, NEW i \in DOMAIN line[u], line[u][i] = p PROVE FALSE
    BY DEF Fifo!InLine
  <2>1. Queued(p, u)
    BY LinesAreChains DEF IsChain
  <2> QED
    BY <2>1 DEF Queued, Chain
<1>2. ASSUME NEW u \in Tree
      PROVE  line'[u] = IF u = t THEN Append(line[u], p) ELSE line[u]
  <2>1. PICK s \in Seq(Proc) : s = line[u] /\ IsChain(s, u)
    BY LinesAreChains
  <2>2. /\ u # t => IsChain(s, u)'
        /\ u = t => IsChain(Append(s, p), u)'
    BY <2>1, ChainGrows
  <2>3. Append(s, p) \in Seq(Proc)
    OBVIOUS
  <2> QED
    BY <2>1, <2>2, <2>3, LinesStayNamed DEF ChainsAreLines
<1>3. /\ line = [u \in Tree |-> line[u]]
      /\ line' = [u \in Tree |-> line'[u]]
  BY DEF line
<1>4. line' = [line EXCEPT ![t] = Append(line[t], p)]
  BY <1>2, <1>3
<1>5. inside' = inside
  BY DEF IInv, TypeOK, Chain, inside
<1> QED
  BY <1>1, <1>4, <1>5 DEF Fifo!Arrive

\* A call whose promise is resolved is the first of its line
LEMMA EnterServesTheFirst ==
  ASSUME IInv, NEW p \in Proc, Enter(p)
  PROVE  \E t \in Tree : Fifo!Enter(t)
<1>1. PICK t \in Tree : Current(p, t)
  BY DEF IInv, QueuedSomewhere, Enter
<1>2. Queued(p, t)
  BY <1>1 DEF Queued, Enter
<1>3. line[t] \in Seq(Proc) /\ Len(line[t]) > 0 /\ line[t][1] = p
  BY <1>2, LinesAreChains, ResolvedIsFirst DEF IInv, Enter
<1>4. line[t] # << >> /\ Head(line[t]) = p
  BY <1>3
<1>5. \A q \in Proc, u \in Tree : Queued(q, u)' <=> Queued(q, u)
  BY DEF Queued, Current, Enter, IInv, TypeOK
<1>6. line' = line
  BY <1>5, LinesFrame DEF Enter
<1>7. p \notin inside /\ inside' = inside \union {p}
  BY DEF IInv, TypeOK, Enter, inside
<1> QED
  BY <1>4, <1>6, <1>7 DEF Fifo!Enter

\* The `finally` block takes the first call off its line, and only that one
LEMMA ReleaseServesTheNext ==
  ASSUME IInv, NEW p \in Proc, NEW t \in Tree, Leave(p, t) \/ Throw(p, t)
  PROVE  Fifo!Leave(t)
<1>1. pc[p] = "holding" /\ Current(p, t) /\ Release(p, t)
  BY DEF Leave, Throw
<1>2. \A u \in Tree : ~Queued(p, u)'
  BY DEF Queued, Leave, Throw, IInv, TypeOK
<1>3. \A q \in Proc, u \in Tree : q # p => (Queued(q, u)' <=> Queued(q, u))
  BY DEF Queued, Current, Leave, Throw, IInv, TypeOK
<1>4. ASSUME NEW u \in Tree
      PROVE  /\ line'[u] = IF u = t THEN Tail(line[u]) ELSE line[u]
             /\ u = t => line[u] # << >> /\ Head(line[u]) = p
  <2>1. PICK s \in Seq(Proc) : s = line[u] /\ IsChain(s, u)
    BY LinesAreChains
  <2>2. /\ u # t => IsChain(s, u)'
        /\ u = t => Len(s) > 0 /\ s[1] = p /\ IsChain(Tail(s), u)'
    BY <1>1, <1>2, <1>3, <2>1, ChainShrinks
  <2>3. Len(s) > 0 => Tail(s) \in Seq(Proc) /\ s # << >> /\ Head(s) = s[1]
    OBVIOUS
  <2> QED
    BY <2>1, <2>2, <2>3, LinesStayNamed DEF ChainsAreLines
<1>5. /\ line = [u \in Tree |-> line[u]]
      /\ line' = [u \in Tree |-> line'[u]]
  BY DEF line
<1>6. line' = [line EXCEPT ![t] = Tail(line[t])]
  BY <1>4, <1>5
<1>7. p \in inside /\ inside' = inside \ {p}
  BY DEF IInv, TypeOK, Leave, Throw, inside
<1> QED
  BY <1>4, <1>6, <1>7 DEF Fifo!Leave

\* Between two trees, and while it waits to start over, a call is in no line
LEMMA ElsewhereIsNoLine ==
  ASSUME IInv, NEW p \in Proc, Call(p) \/ Retry(p) \/ Return(p)
  PROVE  UNCHANGED Fifo!vars
<1>1. UNCHANGED <<tail, prev>>
  BY DEF Call, Retry, Return
<1>2. \A q \in Proc, t \in Tree : Queued(q, t)' <=> Queued(q, t)
  BY DEF Queued, Current, Call, Retry, Return, IInv, TypeOK
<1>3. line' = line
  BY <1>1, <1>2, LinesFrame
<1>4. inside' = inside
  BY DEF IInv, TypeOK, Call, Retry, Return, inside
<1> QED
  BY <1>3, <1>4 DEF Fifo!vars

(* The promises of processWriteQueueForTree implement a FIFO lock: the calls
   of a tree are served one at a time, in the order in which they read and
   replaced its lock, whatever errors and retries come between.  (That every
   call is served is the liveness part of ServesInOrder, left to TLC.)       *)
THEOREM ServesInOrderOfArrival == Spec => Fifo!Order
<1>1. Init => Fifo!Init
  <2> SUFFICES ASSUME Init PROVE Fifo!Init
    OBVIOUS
  <2>1. ASSUME NEW t \in Tree PROVE line[t] = << >>
    <3>1. IsChain(<< >>, t) /\ << >> \in Seq(Proc)
      BY DEF Init, IsChain, Queued
    <3> QED
      BY <3>1, LinesAreNamed DEF ChainsAreLines
  <2>2. line = [t \in Tree |-> line[t]]
    BY DEF line
  <2>3. inside = {}
    BY DEF Init, inside
  <2> QED
    BY <2>1, <2>2, <2>3 DEF Fifo!Init
<1>2. IInv /\ [Next]_vars => [Fifo!Next]_(Fifo!vars)
  <2> SUFFICES ASSUME IInv, [Next]_vars PROVE [Fifo!Next]_(Fifo!vars)
    OBVIOUS
  <2>1. CASE UNCHANGED vars
    <3>1. UNCHANGED <<tail, prev>> /\ inside' = inside
      BY <2>1 DEF vars, inside
    <3>2. \A q \in Proc, t \in Tree : Queued(q, t)' <=> Queued(q, t)
      BY <2>1 DEF vars, Queued, Current
    <3>3. line' = line
      BY <3>1, <3>2, LinesFrame
    <3> QED
      BY <3>1, <3>3 DEF Fifo!vars
  <2>2. CASE Next
    <3>1. PICK p \in Proc : Call(p) \/ Step(p)
      BY <2>2 DEF Next
    <3>2. CASE Call(p) \/ Retry(p) \/ Return(p)
      BY <3>2, ElsewhereIsNoLine
    <3>3. CASE Enter(p)
      BY <3>3, EnterServesTheFirst DEF Fifo!Next
    <3>4. ASSUME NEW t \in Tree, Chain(p, t)
          PROVE  Fifo!Next
      BY <3>4, ChainArrives DEF Fifo!Next
    <3>5. ASSUME NEW t \in Tree, Leave(p, t) \/ Throw(p, t)
          PROVE  Fifo!Next
      BY <3>5, ReleaseServesTheNext DEF Fifo!Next
    <3> QED
      BY <3>1, <3>2, <3>3, <3>4, <3>5 DEF Step
  <2> QED
    BY <2>1, <2>2
<1> QED
  BY <1>1, <1>2, LockInvariant, PTL DEF Spec, Fifo!Order
-----------------------------------------------------------------------------
\* everything delivered lies before what will be delivered next
Behind(b) == \A i \in 1..Len(delivered) : delivered[i] < b

\* every block between base and b, b excluded, is delivered
FullUpTo(b) == \A c \in Block : base < c /\ c < b =>
                 \E i \in 1..Len(delivered) : delivered[i] = c

InFlight == poll = "logs" =>
              from <= head /\ head <= chainHead /\ Behind(from) /\ FullUpTo(from)

Positioned == /\ Behind(chainHead + 1)
              /\ blockNumber # Unset => /\ Behind(blockNumber + 1)
                                        /\ blockNumber <= chainHead
                                        /\ FullUpTo(blockNumber + 1)

\* the wait after an error is an interval, doubled up to the limit
BacksOff == errorBackoff # 0 => PollingInterval <= errorBackoff /\ errorBackoff <= BackoffLimit

PollIInv == PollTypeOK /\ NeverDeaf /\ InOrder /\ BacksOff /\ InFlight /\ Positioned

LEMMA NumberFacts == Unset \notin Nat /\ MaxBlock \in Nat /\ MaxBatchBlocks \in Nat
                     /\ MaxBatchBlocks > 0 /\ Block \subseteq Nat
BY BatchesAreNotEmpty, BoundsAreNumbers DEF Unset, Block

LEMMA DeliveredAreNumbers ==
  ASSUME PollTypeOK
  PROVE  \A i \in 1..Len(delivered) : delivered[i] \in Nat
<1>1. \A i \in 1..Len(delivered) : delivered[i] \in Block
  BY DEF PollTypeOK
<1> QED
  BY <1>1, NumberFacts

LEMMA BatchEnds ==
  ASSUME PollTypeOK, from <= head
  PROVE  LastOfBatch \in Block /\ from <= LastOfBatch /\ LastOfBatch <= head
BY NumberFacts DEF PollTypeOK, LastOfBatch, Block

\* What a batch adds to the delivered blocks
LEMMA BatchAdds ==
  ASSUME PollTypeOK, from <= head, NEW d, d = delivered \o Batch
  PROVE  /\ d \in Seq(Block)
         /\ Len(d) = Len(delivered) + LastOfBatch + 1 - from
         /\ \A i \in 1..Len(delivered) : d[i] = delivered[i]
         /\ \A i \in (Len(delivered) + 1)..Len(d) : d[i] = from + i - Len(delivered) - 1
<1>1. Batch \in Seq(Block) /\ Len(Batch) = LastOfBatch + 1 - from
  <2>1. LastOfBatch + 1 - from \in Nat
    BY BatchEnds, NumberFacts DEF PollTypeOK, Block
  <2>2. \A i \in 1..(LastOfBatch + 1 - from) : from + i - 1 \in Block
    BY BatchEnds, NumberFacts DEF PollTypeOK, Block
  <2> QED
    BY <2>1, <2>2 DEF Batch
<1>2. \A i \in 1..Len(Batch) : Batch[i] = from + i - 1
  BY <1>1 DEF Batch
<1>3. delivered \in Seq(Block) /\ from \in Nat
  BY DEF PollTypeOK
<1>4. /\ d \in Seq(Block)
      /\ Len(d) = Len(delivered) + Len(Batch)
      /\ \A i \in 1..Len(delivered) : d[i] = delivered[i]
      /\ \A i \in (Len(delivered) + 1)..Len(d) : d[i] = Batch[i - Len(delivered)]
  <2>1. /\ d \in Seq(Block)
        /\ Len(d) = Len(delivered) + Len(Batch)
        /\ \A i \in 1..(Len(delivered) + Len(Batch)) :
             d[i] = IF i <= Len(delivered) THEN delivered[i] ELSE Batch[i - Len(delivered)]
    BY <1>1, <1>3, ConcatProperties
  <2>2. Len(delivered) \in Nat /\ Len(Batch) \in Nat
    BY <1>1, <1>3
  <2> QED
    BY <2>1, <2>2
<1>5. LastOfBatch \in Nat /\ Len(delivered) \in Nat
  <2>1. LastOfBatch \in Nat
    BY BatchEnds, NumberFacts
  <2> QED
    BY <1>3, <2>1
<1>6. \A i \in (Len(delivered) + 1)..Len(d) : d[i] = from + i - Len(delivered) - 1
  <2> SUFFICES ASSUME NEW i \in (Len(delivered) + 1)..Len(d)
               PROVE  d[i] = from + i - Len(delivered) - 1
    OBVIOUS
  <2>1. i - Len(delivered) \in 1..Len(Batch)
    BY <1>1, <1>3, <1>4, <1>5
  <2> QED
    BY <1>2, <1>3, <1>4, <1>5, <2>1
<1> QED
  BY <1>1, <1>3, <1>4, <1>5, <1>6

LEMMA InitPollIInv == PollInit => PollIInv
<1> SUFFICES ASSUME PollInit PROVE PollIInv
  OBVIOUS
<1>1. PollTypeOK
  <2>1. 0 \in Block /\ 0 \in 0..(MaxBlock + 1) /\ << >> \in Seq(Block)
    BY NumberFacts DEF Block
  <2>2. 0 \in 0..BackoffLimit
    BY LimitIsAnInterval
  <2> QED
    BY <2>1, <2>2 DEF PollInit, PollTypeOK
<1>2. Len(delivered) = 0
  BY DEF PollInit
<1> QED
  BY <1>1, <1>2
  DEF PollInit, PollIInv, NeverDeaf, InOrder, BacksOff, InFlight, Positioned, Behind

\* A poll that ends, or one that starts, leaves nothing in flight
LEMMA QuietStep ==
  ASSUME PollIInv, PollTypeOK', NeverDeaf', poll' # "logs", BacksOff',
         UNCHANGED <<base, blockNumber, delivered>>, chainHead <= chainHead'
  PROVE  PollIInv'
<1>1. InOrder' /\ InFlight'
  BY DEF PollIInv, InOrder, InFlight
<1>2. Positioned'
  <2>1. chainHead \in Nat /\ chainHead' \in Nat /\ delivered \in Seq(Block)
        /\ (blockNumber # Unset => blockNumber \in Nat)
    BY NumberFacts DEF PollIInv, PollTypeOK
  <2>2. \A i \in 1..Len(delivered) : delivered[i] \in Nat
    BY DeliveredAreNumbers DEF PollIInv
  <2> QED
    BY <2>1, <2>2 DEF PollIInv, Positioned, Behind, FullUpTo
<1> QED
  BY <1>1, <1>2 DEF PollIInv

LEMMA CallPollKeeps ==
  ASSUME PollTypeOK, NEW t \in BOOLEAN, CallPoll(t)
  PROVE  /\ poll' \in {"idle", "head", "logs"} /\ timer' \in BOOLEAN
         /\ timer' \/ poll' # "idle"
         /\ poll' = "logs" => poll = "logs"
         /\ poll = "logs" => poll' = "logs"
BY DEF PollTypeOK, CallPoll

\* Steps that leave a request for logs in flight as it is
LEMMA CarriedOn ==
  ASSUME PollIInv, PollTypeOK', NeverDeaf', poll' = poll, BacksOff',
         UNCHANGED <<base, delivered, local>>, chainHead <= chainHead',
         blockNumber' = blockNumber \/ blockNumber' = Unset
  PROVE  PollIInv'
<1>1. InOrder'
  BY DEF PollIInv, InOrder
<1>2. chainHead \in Nat /\ chainHead' \in Nat /\ delivered \in Seq(Block)
      /\ (blockNumber # Unset => blockNumber \in Nat) /\ from \in Nat /\ head \in Nat
  BY NumberFacts DEF PollIInv, PollTypeOK
<1>3. \A i \in 1..Len(delivered) : delivered[i] \in Nat
  BY DeliveredAreNumbers DEF PollIInv
<1>4. InFlight'
  BY <1>2 DEF PollIInv, InFlight, Behind, FullUpTo, local
<1>5. Positioned'
  BY <1>2, <1>3 DEF PollIInv, Positioned, Behind, FullUpTo
<1> QED
  BY <1>1, <1>4, <1>5 DEF PollIInv

LEMMA FirePollIInv == ASSUME PollIInv, Fire PROVE PollIInv'
<1>1. PollTypeOK'
  BY CallPollKeeps DEF PollIInv, PollTypeOK, Fire, local
<1>2. NeverDeaf'
  BY CallPollKeeps DEF PollIInv, NeverDeaf, Fire
<1>3. BacksOff' /\ chainHead <= chainHead'
  BY NumberFacts DEF PollIInv, BacksOff, Fire, PollTypeOK
<1>4. CASE poll' = poll
  BY <1>1, <1>2, <1>3, <1>4, CarriedOn DEF Fire
<1>5. CASE poll' # poll
  BY <1>1, <1>2, <1>3, <1>5, QuietStep, CallPollKeeps DEF Fire, PollIInv, CallPoll
<1> QED
  BY <1>4, <1>5

LEMMA StartPollIInv == ASSUME PollIInv, Start PROVE PollIInv'
<1>1. timer \in BOOLEAN /\ PollTypeOK
  BY DEF PollIInv, PollTypeOK
<1>2. PollTypeOK'
  BY <1>1, CallPollKeeps DEF PollTypeOK, Start, local
<1>3. NeverDeaf'
  BY <1>1, CallPollKeeps DEF NeverDeaf, Start
<1>4. BacksOff' /\ chainHead <= chainHead'
  BY NumberFacts DEF PollIInv, BacksOff, Start, PollTypeOK
<1>5. CASE poll' = poll
  BY <1>2, <1>3, <1>4, <1>5, CarriedOn DEF Start
<1>6. CASE poll' # poll
  BY <1>1, <1>2, <1>3, <1>4, <1>6, QuietStep DEF Start, CallPoll
<1> QED
  BY <1>5, <1>6

LEMMA StopPollIInv ==
  ASSUME PollIInv, NEW dropWhilePaused \in BOOLEAN, Stop(dropWhilePaused)
  PROVE  PollIInv'
<1>1. PollTypeOK'
  <2>1. running' \in BOOLEAN /\ timer' \in BOOLEAN
    BY DEF Stop
  <2>2. pauses' \in Nat /\ blockNumber' \in Block \union {Unset}
    BY DEF PollIInv, PollTypeOK, Stop
  <2> QED
    BY <2>1, <2>2 DEF PollIInv, PollTypeOK, Stop, local
<1>2. NeverDeaf' /\ BacksOff' /\ chainHead <= chainHead'
  BY NumberFacts DEF PollIInv, PollTypeOK, NeverDeaf, BacksOff, Stop
<1> QED
  BY <1>1, <1>2, CarriedOn DEF Stop

LEMMA MinePollIInv == ASSUME PollIInv, Mine PROVE PollIInv'
<1>1. PollTypeOK' /\ chainHead <= chainHead'
  BY NumberFacts DEF PollIInv, PollTypeOK, Mine, local, Block
<1>2. NeverDeaf' /\ BacksOff'
  BY DEF PollIInv, NeverDeaf, BacksOff, Mine
<1> QED
  BY <1>1, <1>2, CarriedOn DEF Mine

LEMMA PollEndTypes ==
  ASSUME PollTypeOK, PollEnds
  PROVE  from' \in 0..(MaxBlock + 1) /\ head' \in Block /\ poll' = "idle"
BY NumberFacts DEF PollEnds, Block

LEMMA ScheduledIsHeard ==
  ASSUME PollIInv, SchedulePoll, UNCHANGED running
  PROVE  NeverDeaf' /\ timer' \in BOOLEAN
BY DEF PollIInv, PollTypeOK, NeverDeaf, SchedulePoll

LEMMA NoNewBlockPollIInv == ASSUME PollIInv, NoNewBlock PROVE PollIInv'
<1>1. PollTypeOK'
  BY PollEndTypes, ScheduledIsHeard DEF PollIInv, PollTypeOK, NoNewBlock
<1>2. NeverDeaf' /\ BacksOff' /\ chainHead <= chainHead' /\ poll' # "logs"
  BY NumberFacts, ScheduledIsHeard, PollEndTypes
  DEF PollIInv, PollTypeOK, BacksOff, NoNewBlock
<1> QED
  BY <1>1, <1>2, QuietStep DEF NoNewBlock

LEMMA FailPollIInv == ASSUME PollIInv, Fail PROVE PollIInv'
<1>1. NextBackoff \in 0..BackoffLimit /\ PollingInterval <= NextBackoff
  BY IntervalIsPositive, LimitIsAnInterval DEF PollIInv, PollTypeOK, BacksOff, NextBackoff
<1>2. PollTypeOK'
  BY <1>1, PollEndTypes, ScheduledIsHeard DEF PollIInv, PollTypeOK, Fail
<1>3. NeverDeaf' /\ chainHead <= chainHead' /\ poll' # "logs"
  BY NumberFacts, ScheduledIsHeard, PollEndTypes DEF PollIInv, PollTypeOK, Fail
<1>4. BacksOff'
  BY <1>1 DEF BacksOff, Fail
<1> QED
  BY <1>2, <1>3, <1>4, QuietStep DEF Fail

LEMMA FirstBlockPollIInv == ASSUME PollIInv, FirstBlock PROVE PollIInv'
<1>1. chainHead \in Block /\ chainHead \in Nat /\ blockNumber' = chainHead
      /\ base' = chainHead /\ UNCHANGED <<chainHead, delivered>>
  BY NumberFacts DEF PollIInv, PollTypeOK, FirstBlock
<1>2. PollTypeOK'
  BY <1>1, PollEndTypes, ScheduledIsHeard DEF PollIInv, PollTypeOK, FirstBlock
<1>3. NeverDeaf' /\ BacksOff' /\ InOrder' /\ InFlight'
  BY ScheduledIsHeard, PollEndTypes
  DEF PollIInv, PollTypeOK, BacksOff, InOrder, InFlight, FirstBlock
<1>4. Positioned'
  <2>1. \A c \in Block : ~(chainHead < c /\ c < chainHead + 1)
    BY <1>1, NumberFacts
  <2> QED
    BY <1>1, <2>1 DEF PollIInv, Positioned, Behind, FullUpTo
<1> QED
  BY <1>2, <1>3, <1>4 DEF PollIInv

LEMMA NewBlocksPollIInv == ASSUME PollIInv, NewBlocks PROVE PollIInv'
<1>1. /\ blockNumber \in Block /\ blockNumber < chainHead /\ chainHead \in Block
      /\ blockNumber # Unset
      /\ UNCHANGED <<running, blockNumber, chainHead, base, delivered, errors, pauses>>
  BY DEF PollIInv, PollTypeOK, NewBlocks
<1>2. CASE running
  <2>1. poll' = "logs" /\ from' = blockNumber + 1 /\ head' = chainHead
        /\ UNCHANGED <<timer, errorBackoff>>
    BY <1>2 DEF NewBlocks, NextBlock
  <2>2. PollTypeOK'
    <3>1. from' \in 0..(MaxBlock + 1)
      BY <1>1, <2>1, NumberFacts DEF Block
    <3> QED
      BY <1>1, <2>1, <3>1 DEF PollIInv, PollTypeOK
  <2>3. NeverDeaf' /\ BacksOff' /\ InOrder'
    BY <1>1, <2>1 DEF PollIInv, NeverDeaf, BacksOff, InOrder
  <2>4. Positioned' /\ InFlight'
    BY <1>1, <2>1, NumberFacts DEF PollIInv, Positioned, InFlight, Behind, FullUpTo
  <2> QED
    BY <2>2, <2>3, <2>4 DEF PollIInv
<1>3. CASE ~running
  <2>1. PollEnds /\ SchedulePoll /\ errorBackoff' = 0
    BY <1>3 DEF NewBlocks
  <2>2. PollTypeOK'
    BY <1>1, <2>1, PollEndTypes, ScheduledIsHeard, LimitIsAnInterval
    DEF PollIInv, PollTypeOK
  <2>3. NeverDeaf' /\ BacksOff' /\ poll' # "logs" /\ chainHead <= chainHead'
    BY <1>1, <2>1, ScheduledIsHeard, PollEndTypes, NumberFacts DEF BacksOff, PollIInv
  <2> QED
    BY <1>1, <2>2, <2>3, QuietStep
<1> QED
  BY <1>2, <1>3

LEMMA LogsPollIInv == ASSUME PollIInv, Logs PROVE PollIInv'
<1> DEFINE last == LastOfBatch
<1>1. /\ PollTypeOK /\ poll = "logs"
      /\ from <= head /\ head <= chainHead /\ Behind(from) /\ FullUpTo(from)
  BY DEF PollIInv, InFlight, Logs
<1>2. /\ delivered' = delivered \o Batch /\ blockNumber' = last
      /\ UNCHANGED <<running, chainHead, base, errors, pauses>>
  BY DEF Logs
<1>3. last \in Block /\ from <= last /\ last <= head
  BY <1>1, BatchEnds
<1>4. /\ delivered' \in Seq(Block)
      /\ Len(delivered') = Len(delivered) + last + 1 - from
      /\ \A i \in 1..Len(delivered) : delivered'[i] = delivered[i]
      /\ \A i \in (Len(delivered) + 1)..Len(delivered') :
           delivered'[i] = from + i - Len(delivered) - 1
  BY <1>1, <1>2, BatchAdds
<1>5. /\ last \in Nat /\ from \in Nat /\ head \in Nat /\ chainHead \in Nat
      /\ Len(delivered) \in Nat /\ base \in Nat
      /\ \A i \in 1..Len(delivered) : delivered[i] \in Nat
  BY <1>1, <1>3, NumberFacts, DeliveredAreNumbers DEF PollTypeOK
<1> HIDE DEF last
<1>6. InOrder'
  <2> SUFFICES ASSUME NEW i \in 1..Len(delivered'), NEW j \in 1..Len(delivered'), i < j
               PROVE  delivered'[i] < delivered'[j]
    BY DEF InOrder
  <2>1. CASE j <= Len(delivered)
    <3>1. i \in 1..Len(delivered) /\ j \in 1..Len(delivered)
      BY <1>5, <2>1
    <3>2. delivered[i] < delivered[j]
      BY <3>1 DEF PollIInv, InOrder
    <3> QED
      BY <1>4, <3>1, <3>2
  <2>2. CASE i <= Len(delivered) /\ j > Len(delivered)
    <3>1. /\ i \in 1..Len(delivered)
          /\ j \in (Len(delivered) + 1)..Len(delivered')
      BY <1>4, <1>5, <2>2
    <3>2. delivered'[i] < from /\ delivered'[i] \in Nat
      BY <1>1, <1>4, <1>5, <3>1 DEF Behind
    <3>3. delivered'[j] = from + j - Len(delivered) - 1
      BY <1>4, <3>1
    <3> QED
      BY <1>4, <1>5, <3>1, <3>2, <3>3
  <2>3. CASE i > Len(delivered)
    <3>1. /\ i \in (Len(delivered) + 1)..Len(delivered')
          /\ j \in (Len(delivered) + 1)..Len(delivered')
          /\ i \in Nat /\ j \in Nat
      BY <1>4, <1>5, <2>3
    <3>2. /\ delivered'[i] = from + i - Len(delivered) - 1
          /\ delivered'[j] = from + j - Len(delivered) - 1
      BY <1>4, <3>1
    <3> QED
      BY <1>5, <3>1, <3>2
  <2> QED
    BY <1>5, <2>1, <2>2, <2>3
<1>7. \A i \in 1..Len(delivered') : delivered'[i] < last + 1
  <2> SUFFICES ASSUME NEW i \in 1..Len(delivered') PROVE delivered'[i] < last + 1
    OBVIOUS
  <2>1. CASE i <= Len(delivered)
    BY <1>1, <1>3, <1>4, <1>5, <2>1 DEF Behind
  <2>2. CASE i > Len(delivered)
    BY <1>4, <1>5, <2>2
  <2> QED
    BY <1>5, <2>1, <2>2
<1>8. \A c \in Block : base < c /\ c < last + 1 =>
        \E i \in 1..Len(delivered') : delivered'[i] = c
  <2> SUFFICES ASSUME NEW c \in Block, base < c, c < last + 1
               PROVE  \E i \in 1..Len(delivered') : delivered'[i] = c
    OBVIOUS
  <2>1. CASE c < from
    <3>1. PICK i \in 1..Len(delivered) : delivered[i] = c
      BY <1>1, <2>1 DEF FullUpTo
    <3>2. i \in 1..Len(delivered') /\ delivered'[i] = c
      BY <1>3, <1>4, <1>5, <3>1
    <3> QED
      BY <3>2
  <2>2. CASE c >= from
    <3> DEFINE i == Len(delivered) + 1 + c - from
    <3>1. c \in Nat
      BY NumberFacts
    <3>2. i \in (Len(delivered) + 1)..Len(delivered')
      BY <1>4, <1>5, <2>2, <3>1
    <3>3. delivered'[i] = from + i - Len(delivered) - 1
      BY <1>4, <3>2
    <3>4. i \in 1..Len(delivered') /\ delivered'[i] = c
      BY <1>4, <1>5, <3>1, <3>2, <3>3
    <3> QED
      BY <3>4
  <2> QED
    BY <1>5, NumberFacts, <2>1, <2>2
<1>9. Positioned'
  <2>1. last <= chainHead
    BY <1>1, <1>3, <1>5
  <2>2. \A i \in 1..Len(delivered') : delivered'[i] < chainHead + 1
    <3>1. \A i \in 1..Len(delivered') : delivered'[i] \in Nat
      <4>1. \A i \in 1..Len(delivered') : delivered'[i] \in Block
        BY <1>4
      <4> QED
        BY <4>1, NumberFacts
    <3> QED
      BY <1>5, <1>7, <2>1, <3>1
  <2> QED
    BY <1>2, <1>7, <1>8, <2>1, <2>2 DEF Positioned, Behind, FullUpTo
<1>10. CASE last < head /\ running
  <2>1. from' = last + 1 /\ UNCHANGED <<poll, head, timer, errorBackoff>>
    BY <1>10 DEF Logs, last
  <2>2. PollTypeOK'
    BY <1>1, <1>2, <1>3, <1>4, <2>1, NumberFacts DEF PollTypeOK, Block
  <2>3. NeverDeaf' /\ BacksOff'
    BY <1>2, <2>1 DEF PollIInv, NeverDeaf, BacksOff
  <2>4. InFlight'
    BY <1>1, <1>2, <1>5, <1>7, <1>8, <1>10, <2>1 DEF InFlight, Behind, FullUpTo
  <2> QED
    BY <1>6, <1>9, <2>2, <2>3, <2>4 DEF PollIInv
<1>11. CASE ~(last < head /\ running)
  <2>1. PollEnds /\ SchedulePoll /\ errorBackoff' = 0
    BY <1>11 DEF Logs, last
  <2>2. PollTypeOK'
    BY <1>1, <1>2, <1>3, <1>4, <2>1, PollEndTypes, ScheduledIsHeard, LimitIsAnInterval
    DEF PollTypeOK
  <2>3. NeverDeaf' /\ BacksOff' /\ InFlight'
    BY <1>1, <1>2, <2>1, ScheduledIsHeard, PollEndTypes DEF BacksOff, InFlight
  <2> QED
    BY <1>6, <1>9, <2>2, <2>3 DEF PollIInv
<1> QED
  BY <1>10, <1>11
-----------------------------------------------------------------------------
LEMMA NextPollIInv == PollIInv /\ [PollNext]_pollVars => PollIInv'
<1> SUFFICES ASSUME PollIInv, [PollNext]_pollVars PROVE PollIInv'
  OBVIOUS
<1>1. ASSUME NEW dropWhilePaused \in BOOLEAN, Stop(dropWhilePaused) PROVE PollIInv'
  BY <1>1, StopPollIInv
<1>2. CASE UNCHANGED pollVars
  BY <1>2 DEF pollVars, local, PollIInv, PollTypeOK, NeverDeaf, InOrder, BacksOff, InFlight,
              Positioned, Behind, FullUpTo
<1> QED
  BY <1>1, <1>2, FirePollIInv, StartPollIInv, NoNewBlockPollIInv, FirstBlockPollIInv,
     NewBlocksPollIInv, LogsPollIInv, FailPollIInv, MinePollIInv DEF PollNext, Answer

(* The strengthening of the theorems below: besides what they state, every
   delivered block lies before the ones requested next, and all before those
   are delivered.                                                            *)
THEOREM PollingInvariant == PollSpec => []PollIInv
BY InitPollIInv, NextPollIInv, PTL DEF PollSpec

(* The variables of the subscriber keep their types.                         *)
THEOREM PollingTypes == PollSpec => []PollTypeOK
<1>1. PollIInv => PollTypeOK
  BY DEF PollIInv
<1> QED
  BY <1>1, PollingInvariant, PTL

(* However start, stop, pause and resume meet requests in flight, a running
   subscriber has a poll or a timer, and a stopped one has no timer.         *)
THEOREM PollingNeverDeaf == PollSpec => []NeverDeaf
<1>1. PollIInv => NeverDeaf
  BY DEF PollIInv
<1> QED
  BY <1>1, PollingInvariant, PTL

(* Logs are emitted in the order of their blocks, each block's once.         *)
THEOREM PollingInOrder == PollSpec => []InOrder
<1>1. PollIInv => InOrder
  BY DEF PollIInv
<1> QED
  BY <1>1, PollingInvariant, PTL

(* No block after the one where the subscriber took up its position, up to
   the present position, is passed over.                                     *)
THEOREM PollingLeavesNoGap == PollSpec => []NoGap
<1>1. PollIInv => NoGap
  <2> SUFFICES ASSUME PollIInv, blockNumber # Unset, NEW b \in Block, base < b, b <= blockNumber
               PROVE  \E i \in 1..Len(delivered) : delivered[i] = b
    BY DEF NoGap
  <2>1. blockNumber \in Nat /\ b \in Nat
    BY NumberFacts DEF PollIInv, PollTypeOK
  <2>2. b < blockNumber + 1
    BY <2>1
  <2> QED
    BY <2>2 DEF PollIInv, Positioned, FullUpTo
<1> QED
  BY <1>1, PollingInvariant, PTL
=============================================================================
