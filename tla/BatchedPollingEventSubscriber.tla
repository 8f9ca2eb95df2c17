-------------------- MODULE BatchedPollingEventSubscriber --------------------
(* The subscriber behind every live listener: a timer polls the provider for
   the block number and then for the logs of the blocks since the last poll, a
   batch at a time.  ethers starts, stops, pauses and resumes it at any moment,
   also while one of its requests is in flight.

   `delivered` is the history of the blocks whose logs were emitted.  The
   provider's block number does not go backwards, and it answers a request for
   logs with all the logs of the range.

   The specification is PollSpec, so that EventLoopProofs can extend this module
   and that of the lock.                                                      *)
EXTENDS Integers, Sequences

CONSTANTS MaxBatchBlocks,     \* #maxBatchBlocks
          PollingInterval,    \* #pollingInterval
          BackoffLimit,       \* the 30000 ms that #errorBackoff stops at
          MaxBlock, MaxErrors, MaxPauses     \* bounds of the model

ASSUME BatchesAreNotEmpty == MaxBatchBlocks \in Nat \ {0}
ASSUME IntervalIsPositive == PollingInterval \in Nat \ {0}
ASSUME LimitIsAnInterval == BackoffLimit \in Nat /\ PollingInterval <= BackoffLimit
ASSUME BoundsAreNumbers == {MaxBlock, MaxErrors, MaxPauses} \subseteq Nat

Unset == -2           \* the initial #blockNumber

VARIABLES running, blockNumber, errorBackoff,
          timer,      \* whether a timer is set that has not fired
          poll,       \* where the one poll in flight is: #polling is poll # "idle"
          from, head, \* currentFrom and head of that poll
          chainHead,  \* the provider's block number
          base,       \* history: #blockNumber when it was last set from the head alone
          delivered,  \* history: blocks whose logs were emitted, in that order
          errors, pauses      \* errors and dropping pauses so far

local    == <<from, head>>
pollVars == <<running, blockNumber, errorBackoff, timer, poll, local, chainHead,
              base, delivered, errors, pauses>>

Block == 0..MaxBlock

PollTypeOK == /\ running \in BOOLEAN
              /\ blockNumber \in Block \union {Unset}
              /\ errorBackoff \in 0..BackoffLimit
              /\ timer \in BOOLEAN
              /\ poll \in {"idle", "head", "logs"}
              /\ from \in 0..(MaxBlock + 1) /\ head \in Block
              /\ chainHead \in Block
              /\ base \in Block
              /\ delivered \in Seq(Block)
              /\ errors \in Nat /\ pauses \in Nat

PollInit == /\ running = FALSE /\ timer = FALSE
            /\ blockNumber = Unset /\ errorBackoff = 0
            /\ poll = "idle" /\ from = 0 /\ head = 0
            /\ chainHead = 0 /\ base = 0 /\ delivered = << >>
            /\ errors = 0 /\ pauses = 0
-----------------------------------------------------------------------------
\* #schedulePoll replaces the timer, unless the subscriber has been stopped
SchedulePoll == timer' = (timer \/ running)

\* #poll ends in its `finally` block; the variables of the call are gone
PollEnds == /\ poll' = "idle"
            /\ from' = 0
            /\ head' = 0

\* the synchronous part of #poll, called while `timer` is t and running is TRUE
CallPoll(t) == IF poll = "idle"
               THEN poll' = "head" /\ timer' = t
               ELSE UNCHANGED poll /\ timer' = TRUE

Fire == /\ timer
        /\ CallPoll(FALSE)
        /\ UNCHANGED <<running, blockNumber, errorBackoff, local, chainHead,
                       base, delivered, errors, pauses>>

\* start, and resume
Start == /\ ~running
         /\ running' = TRUE
         /\ CallPoll(timer)
         /\ UNCHANGED <<blockNumber, errorBackoff, local, chainHead, base,
                        delivered, errors, pauses>>

\* stop, and pause: with dropWhilePaused the position is given up
Stop(dropWhilePaused) ==
  /\ running' = FALSE /\ timer' = FALSE
  /\ IF dropWhilePaused
     THEN /\ pauses < MaxPauses
          /\ pauses' = pauses + 1
          /\ blockNumber' = Unset
     ELSE /\ running
          /\ UNCHANGED <<pauses, blockNumber>>
  /\ UNCHANGED <<errorBackoff, poll, local, chainHead, base, delivered, errors>>

\* mutant: no new poll when the head has not moved
NoNewBlockUnscheduled == /\ poll = "head"
                         /\ blockNumber # Unset /\ chainHead <= blockNumber
                         /\ PollEnds
                         /\ UNCHANGED <<running, blockNumber, errorBackoff, timer,
                                        chainHead, base, delivered, errors, pauses>>

\* the block number arrives: there is nothing new ...
NoNewBlock == /\ poll = "head"
              /\ blockNumber # Unset /\ chainHead <= blockNumber
              /\ PollEnds
              /\ SchedulePoll
              /\ UNCHANGED <<running, blockNumber, errorBackoff, chainHead, base,
                             delivered, errors, pauses>>

\* ... or it is where the subscriber starts
FirstBlock == /\ poll = "head"
              /\ blockNumber = Unset
              /\ blockNumber' = chainHead
              /\ base' = chainHead
              /\ PollEnds
              /\ SchedulePoll
              /\ UNCHANGED <<running, errorBackoff, chainHead, delivered, errors, pauses>>

\* mutant: the last block is fetched again
FromBlock == blockNumber

NextBlock == blockNumber + 1

\* ... or there are blocks to get the logs of, as long as nobody has stopped it
NewBlocks == /\ poll = "head"
             /\ blockNumber # Unset /\ blockNumber < chainHead
             /\ IF running
                THEN /\ poll' = "logs"
                     /\ from' = NextBlock /\ head' = chainHead
                     /\ UNCHANGED <<timer, errorBackoff>>
                ELSE /\ PollEnds
                     /\ SchedulePoll
                     /\ errorBackoff' = 0
             /\ UNCHANGED <<running, blockNumber, chainHead, base, delivered,
                            errors, pauses>>

LastOfBatch == IF from + MaxBatchBlocks - 1 < head THEN from + MaxBatchBlocks - 1 ELSE head

\* mutant: the range is taken to exclude its last block
ShortBatch == [i \in 1..(LastOfBatch - from) |-> from + i - 1]

Batch == [i \in 1..(LastOfBatch + 1 - from) |-> from + i - 1]

\* The logs of a batch arrive and are emitted, whether or not the subscriber is
\* still running.  The next batch is requested, or the poll is over.
Logs == /\ poll = "logs"
        /\ delivered' = delivered \o Batch
        /\ blockNumber' = LastOfBatch
        /\ IF LastOfBatch < head /\ running
           THEN /\ from' = LastOfBatch + 1
                /\ UNCHANGED <<poll, head, timer, errorBackoff>>
           ELSE /\ PollEnds
                /\ SchedulePoll
                /\ errorBackoff' = 0
        /\ UNCHANGED <<running, chainHead, base, errors, pauses>>

NextBackoff ==
  LET doubled == (IF errorBackoff = 0 THEN PollingInterval ELSE errorBackoff) * 2
  IN IF doubled < BackoffLimit THEN doubled ELSE BackoffLimit

\* a request fails: the poll is over, and the next one waits longer
Fail == /\ poll # "idle"
        /\ errors < MaxErrors
        /\ errors' = errors + 1
        /\ errorBackoff' = NextBackoff
        /\ PollEnds
        /\ SchedulePoll
        /\ UNCHANGED <<running, blockNumber, chainHead, base, delivered, pauses>>

Mine == /\ chainHead < MaxBlock
        /\ chainHead' = chainHead + 1
        /\ UNCHANGED <<running, blockNumber, errorBackoff, timer, poll, local,
                       base, delivered, errors, pauses>>

Answer == NoNewBlock \/ FirstBlock \/ NewBlocks \/ Logs

PollNext == \/ Fire \/ Start \/ Answer \/ Fail \/ Mine
            \/ \E dropWhilePaused \in BOOLEAN : Stop(dropWhilePaused)

\* timers fire, and the provider answers
PollSpec == /\ PollInit /\ [][PollNext]_pollVars
            /\ WF_pollVars(Fire) /\ WF_pollVars(Answer) /\ WF_pollVars(Mine)
-----------------------------------------------------------------------------
(* A running subscriber never goes deaf: it has a poll in flight, or a timer
   that will start one.  A stopped one has no timer, so that it polls no more:
   whatever start, stop, pause and resume do while requests are in flight.   *)
NeverDeaf == /\ running => timer \/ poll # "idle"
             /\ timer => running

(* The logs of no block are emitted twice, and none out of order, although
   polls overlap with pauses that reset the position: the listeners write what
   they get straight into the merkletree.                                    *)
InOrder == \A i, j \in 1..Len(delivered) : i < j => delivered[i] < delivered[j]

(* No block is passed over, except those the subscriber skips when it takes up
   the chain's head as its position.                                         *)
NoGap == blockNumber # Unset =>
           \A b \in Block : base < b /\ b <= blockNumber =>
             \E i \in 1..Len(delivered) : delivered[i] = b

(* Once nobody stops it any more, the subscriber catches up with the chain,
   over errors, overlapping polls and pauses.                                *)
CatchesUp == <>[]running => <>[](blockNumber = MaxBlock)
=============================================================================
