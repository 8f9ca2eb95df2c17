---------------------------- MODULE MerkleNodes ----------------------------
(* The nodes of one merkletree: fillHashWriteGroup computes those above a group
   of new leaves, writeTreeToDB caches them and then writes them in one batch,
   and getMerkleProof reads a path of them meanwhile.  A node that is not cached
   is read from the database and cached when the answer comes.

   A hash stands for what it hashes: as the root of UtxoMerkletree, it is the
   sequence of the leaves below it, and here every node has one.             *)
EXTENDS Integers, Sequences, FiniteSets

CONSTANTS Depth,                  \* TREE_DEPTH
          RootHistory,            \* tree lengths whose root the contract has had
          None,
          MaxErrors, MaxRestarts  \* bounds

Level == 0..Depth

\* how many leaves are below a node: a shift by the level divides by it
size[level \in Level] == IF level = 0 THEN 1 ELSE 2 * size[level - 1]

Width(level) == size[Depth - level]
Node         == UNION {{level} \X (0..(Width(level) - 1)) : level \in Level}
Position     == 0..(Width(0) - 1)
RootNode     == <<Depth, 0>>

HashLeftRight(left, right) == left \o right

LeafHash(i) == <<i + 1>>
ZeroLeaf    == <<0>>

Hash(level) == [1..size[level] -> 0..Width(0)]

ASSUME DepthIsPositive == Depth \in Nat \ {0}
ASSUME HistoryIsLengths == RootHistory \subseteq 1..Width(0)
ASSUME NoneIsNoHash == \A level \in Level : None \notin Hash(level)
ASSUME BoundsAreNumbers == {MaxErrors, MaxRestarts} \subseteq Nat

\* the hashes of empty subtrees
zeros[level \in Level] ==
  IF level = 0 THEN ZeroLeaf ELSE HashLeftRight(zeros[level - 1], zeros[level - 1])

\* The leaf below node n that comes at place j
Below(n, j) == n[2] * size[n[1]] + j - 1

\* The nodes of a tree with the first k leaves: the definition of a merkle tree
Reference(k) == [n \in Node |->
  [j \in 1..size[n[1]] |-> IF Below(n, j) < k THEN Below(n, j) + 1 ELSE 0]]

VARIABLES
  cachedNodeHashes, \* memory
  storedNodes,      \* disk
  treeLength,       \* memory and disk
  writer,           \* where the insertion is
  group,            \* its hashWriteGroup
  end,              \* the length of the tree with the group
  reader,           \* where getMerkleProof is
  leaf,             \* the position it proves
  waiting,          \* nodes asked from the database
  arriving,         \* nodes read from the database and about to be cached
  answers,          \* nodes the proof is made of
  misread,          \* history: stored nodes of which zeros were answered
  undisturbed,      \* history: nothing was written during a proof since the start
  torn,             \* history: the process was restarted after a failed write
  spent             \* history: errors, restarts

writing == <<treeLength, writer, group, end>>
reading == <<reader, leaf, waiting, arriving, answers, misread, undisturbed>>
vars    == <<cachedNodeHashes, storedNodes, writing, reading, torn, spent>>

NoNodes == [n \in Node |-> None]

Written(nodes) == {n \in Node : nodes[n] # None}

AreHashes(nodes) == /\ DOMAIN nodes = Node
                    /\ \A n \in Written(nodes) : nodes[n] \in Hash(n[1])

TypeOK ==
  /\ AreHashes(cachedNodeHashes) /\ AreHashes(storedNodes)
  /\ AreHashes(group) /\ AreHashes(answers)
  /\ treeLength \in 0..Width(0) /\ end \in 0..Width(0)
  /\ writer \in {"idle", "validate", "batch", "length"}
  /\ reader \in {"idle", "leaf", "elements", "root"}
  /\ leaf \in Position
  /\ waiting \subseteq Node /\ arriving \subseteq Node
  /\ waiting \intersect Written(answers) = {}
  /\ arriving \subseteq Written(answers) /\ misread \subseteq Written(answers)
  /\ undisturbed \in BOOLEAN /\ torn \in BOOLEAN
  /\ spent \in [error : 0..MaxErrors, restart : 0..MaxRestarts]

Init == /\ cachedNodeHashes = NoNodes /\ storedNodes = NoNodes
        /\ treeLength = 0 /\ writer = "idle" /\ group = NoNodes /\ end = 0
        /\ reader = "idle" /\ leaf = 0 /\ waiting = {} /\ arriving = {}
        /\ answers = NoNodes /\ misread = {} /\ undisturbed = TRUE /\ torn = FALSE
        /\ spent = [error |-> 0, restart |-> 0]
-----------------------------------------------------------------------------
Overlay(nodes, others) == [n \in Node |-> IF nodes[n] # None THEN nodes[n] ELSE others[n]]

\* getNodeHash of every node at once.  That a read of it fails is left out: a
\* group above zeros in the place of nodes has a root that the validator refuses
NodeHash(n) == LET known == Overlay(cachedNodeHashes, storedNodes)
               IN IF known[n] # None THEN known[n] ELSE zeros[n[1]]

\* mutant: the last pair of a level is left out
ParentsBefore(level, first, last) ==
  LET start == first \div size[level]
      stop  == last \div size[level]
  IN {i \div 2 : i \in {j \in start..(stop - 1) : (j - start) % 2 = 0}}

\* the nodes above `level` that the loop over its pairs computes, which may be
\* one more than those above the group
Parents(level, first, last) ==
  LET start == first \div size[level]
      stop  == last \div size[level]
  IN {i \div 2 : i \in {j \in start..(stop + 1) : (j - start) % 2 = 0}}
       \intersect (0..(Width(level + 1) - 1))

\* the level above `below`: a child that is not in the group is looked up
NextLevel(below, level, first, last) ==
  LET child(i) == IF below[i] # None THEN below[i] ELSE NodeHash(<<level - 1, i>>)
  IN [i \in 0..(Width(level) - 1) |->
        IF i \in Parents(level - 1, first, last)
        THEN HashLeftRight(child(2 * i), child(2 * i + 1))
        ELSE None]

\* fillHashWriteGroup, for leaves from `first`; `last` is one after them
FillHashWriteGroup(first, last) ==
  LET H[level \in Level] ==
        IF level = 0
        THEN [i \in Position |-> IF first <= i /\ i < last THEN LeafHash(i) ELSE None]
        ELSE NextLevel(H[level - 1], level, first, last)
  IN [n \in Node |-> H[n[1]][n[2]]]

\* the nodes it looked up, which are cached from then on
LookedUp(nodes) == {n \in Node \ {RootNode} :
  nodes[n] = None /\ nodes[<<n[1] + 1, n[2] \div 2>>] # None}

\* insertLeaves, up to the validation
Insert == /\ writer = "idle"
          /\ \E last \in (treeLength + 1)..Width(0) :
               LET nodes == FillHashWriteGroup(treeLength, last)
               IN /\ group' = nodes
                  /\ end' = last
                  /\ cachedNodeHashes' = [n \in Node |->
                       IF n \in LookedUp(nodes) /\ cachedNodeHashes[n] = None
                       THEN storedNodes[n] ELSE cachedNodeHashes[n]]
          /\ writer' = "validate"
          /\ UNCHANGED <<storedNodes, treeLength, reading, torn, spent>>

\* merklerootValidator
KnownRoot(hash) == \E k \in RootHistory : hash = Reference(k)[RootNode]

EndWrite == writer' = "idle" /\ group' = NoNodes /\ end' = 0

Reject == /\ writer = "validate"
          /\ ~KnownRoot(group[RootNode])
          /\ EndWrite
          /\ UNCHANGED <<cachedNodeHashes, storedNodes, treeLength, reading, torn, spent>>

\* mutant: nodes that are cached already are not replaced
CacheNewNodes == /\ writer = "validate"
                 /\ KnownRoot(group[RootNode])
                 /\ cachedNodeHashes' = Overlay(cachedNodeHashes, group)
                 /\ writer' = "batch"
                 /\ undisturbed' = (undisturbed /\ reader = "idle")
                 /\ UNCHANGED <<storedNodes, treeLength, group, end, reader, leaf,
                                waiting, arriving, answers, misread, torn, spent>>

\* writeTreeToDB caches the nodes ...
CacheNodes == /\ writer = "validate"
              /\ KnownRoot(group[RootNode])
              /\ cachedNodeHashes' = Overlay(group, cachedNodeHashes)
              /\ writer' = "batch"
              /\ undisturbed' = (undisturbed /\ reader = "idle")
              /\ UNCHANGED <<storedNodes, treeLength, group, end, reader, leaf,
                             waiting, arriving, answers, misread, torn, spent>>

\* ... writes them in one batch ...
WriteNodes == /\ writer = "batch"
              /\ storedNodes' = Overlay(group, storedNodes)
              /\ writer' = "length"
              /\ UNCHANGED <<cachedNodeHashes, treeLength, group, end, reading, torn, spent>>

\* ... and then the length
SetLength == /\ writer = "length"
             /\ treeLength' = end
             /\ EndWrite
             /\ UNCHANGED <<cachedNodeHashes, storedNodes, reading, torn, spent>>

WriteFails == /\ writer \in {"batch", "length"}
              /\ spent.error < MaxErrors
              /\ spent' = [spent EXCEPT !.error = @ + 1]
              /\ EndWrite
              /\ UNCHANGED <<cachedNodeHashes, storedNodes, treeLength, reading, torn>>
-----------------------------------------------------------------------------
Sibling(i) == IF i % 2 = 0 THEN i + 1 ELSE i - 1

\* elementsIndices: the sibling of each node on the way to the root
Elements(i) == {<<level, Sibling(i \div size[level])>> : level \in 0..(Depth - 1)}

\* getNodeHash is called for these nodes: cached ones are answered at once
Ask(nodes) ==
  LET cached == nodes \intersect Written(cachedNodeHashes)
  IN /\ answers' = [n \in Node |-> IF n \in cached THEN cachedNodeHashes[n] ELSE answers[n]]
     /\ waiting' = nodes \ cached
     /\ UNCHANGED <<arriving, misread, cachedNodeHashes>>

\* the database reads a node, or throws since it has none or the read fails: the
\* answer is zeros in both cases, and zeros are not cached
DbGet(n) == /\ n \in waiting
            /\ waiting' = waiting \ {n}
            /\ \/ /\ storedNodes[n] # None
                  /\ answers' = [answers EXCEPT ![n] = storedNodes[n]]
                  /\ arriving' = arriving \union {n}
                  /\ UNCHANGED misread
               \/ /\ storedNodes[n] # None => spent.error + Cardinality(misread) < MaxErrors
                  /\ answers' = [answers EXCEPT ![n] = zeros[n[1]]]
                  /\ misread' = IF storedNodes[n] = None THEN misread ELSE misread \union {n}
                  /\ UNCHANGED arriving
            /\ UNCHANGED <<cachedNodeHashes, storedNodes, writing, reader, leaf,
                           undisturbed, torn, spent>>

\* the answer arrives, and is cached whatever happened meanwhile
CacheNodeHash(n) ==
  /\ n \in arriving
  /\ arriving' = arriving \ {n}
  /\ cachedNodeHashes' = [cachedNodeHashes EXCEPT ![n] = answers[n]]
  /\ UNCHANGED <<storedNodes, writing, reader, leaf, waiting, answers, misread,
                 undisturbed, torn, spent>>

Answered == waiting = {} /\ arriving = {}

\* getMerkleProof of a leaf in the tree
GetMerkleProof == /\ reader = "idle"
                  /\ \E i \in Position : /\ i < treeLength
                                         /\ leaf' = i
                                         /\ Ask({<<0, i>>})
                  /\ reader' = "leaf"
                  /\ undisturbed' = (undisturbed /\ writer # "batch")
                  /\ UNCHANGED <<storedNodes, writing, torn, spent>>

GetElements == /\ reader = "leaf" /\ Answered
               /\ Ask(Elements(leaf))
               /\ reader' = "elements"
               /\ UNCHANGED <<storedNodes, writing, leaf, undisturbed, torn, spent>>

GetRoot == /\ reader = "elements" /\ Answered
           /\ Ask({RootNode})
           /\ reader' = "root"
           /\ UNCHANGED <<storedNodes, writing, leaf, undisturbed, torn, spent>>

NoReader == /\ reader' = "idle" /\ leaf' = 0 /\ waiting' = {} /\ arriving' = {}
            /\ answers' = NoNodes /\ misread' = {}

ProofDone == reader = "root" /\ Answered

Return == /\ ProofDone
          /\ NoReader
          /\ UNCHANGED <<cachedNodeHashes, storedNodes, writing, undisturbed, torn, spent>>

\* the application stops and starts again on the same database
Restart == /\ spent.restart < MaxRestarts
           /\ spent' = [spent EXCEPT !.restart = @ + 1]
           /\ cachedNodeHashes' = NoNodes
           /\ EndWrite
           /\ NoReader
           /\ undisturbed' = TRUE
           /\ torn' = (torn \/ spent.error > 0)
           /\ UNCHANGED <<storedNodes, treeLength>>

Next == \/ Insert \/ Reject \/ CacheNodes \/ WriteNodes \/ SetLength \/ WriteFails
        \/ GetMerkleProof \/ GetElements \/ GetRoot \/ Return \/ Restart
        \/ \E n \in Node : DbGet(n) \/ CacheNodeHash(n)

Spec == Init /\ [][Next]_vars
-----------------------------------------------------------------------------
\* verifyMerkleProof: hash from the leaf up and compare with the root
Verifies ==
  LET H[level \in Level] ==
        IF level = 0 THEN answers[<<0, leaf>>]
        ELSE LET i == leaf \div size[level - 1]
                 element == answers[<<level - 1, Sibling(i)>>]
             IN IF i % 2 = 0 THEN HashLeftRight(H[level - 1], element)
                             ELSE HashLeftRight(element, H[level - 1])
  IN H[Depth] = answers[RootNode]

(* The root computed for a group is the root of a tree that holds the group and
   what was before it: no stale node gets below a root.  Proofs may be read
   meanwhile, and the process restarted in the middle of a write; or a write may
   have failed, as long as the process was not restarted after that (the cache
   may have brought nodes to disk whose children were in the failed batch) and
   no proof overlapped a write (it may have cached a stale node over one of the
   failed batch).  Reads of a proof may fail: their zeros stay in that proof. *)
GroupRootIsGenuine ==
  writer # "idle" /\ ~torn /\ (spent.error = 0 \/ undisturbed) =>
    \E k \in end..Width(0) : group[RootNode] = Reference(k)[RootNode]

(* While no write overlaps a proof, a proof verifies, and it proves the leaf that
   was asked for against the root of a tree that has at least the leaves counted:
   mixing cached nodes, stored nodes and zeros for the rest gives one tree.  A
   failed write may have brought nodes of more leaves into memory.  A proof whose
   own reads failed may be wrong, but none after it.                         *)
UndisturbedProofsVerify == ProofDone /\ undisturbed /\ ~torn /\ misread = {} =>
  /\ Verifies
  /\ answers[<<0, leaf>>] = LeafHash(leaf)
  /\ \E k \in treeLength..Width(0) : answers[RootNode] = Reference(k)[RootNode]
=============================================================================
