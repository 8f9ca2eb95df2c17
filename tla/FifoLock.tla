------------------------------ MODULE FifoLock ------------------------------
(* What a per-tree processing lock promises its callers: they are served one
   at a time, in the order in which they arrived, and every one is served.   *)
EXTENDS Naturals, Sequences

CONSTANTS Proc, Tree

VARIABLES line,    \* line[t]: callers waiting for tree t, the one served first
          inside   \* callers that are being served

vars == <<line, inside>>

InLine(p) == \E t \in Tree : \E i \in DOMAIN line[t] : line[t][i] = p

Init == /\ line = [t \in Tree |-> << >>]
        /\ inside = {}

Arrive(p, t) == /\ ~InLine(p)
                /\ line' = [line EXCEPT ![t] = Append(@, p)]
                /\ UNCHANGED inside

Enter(t) == /\ line[t] # << >>
            /\ Head(line[t]) \notin inside
            /\ inside' = inside \union {Head(line[t])}
            /\ UNCHANGED line

Leave(t) == /\ line[t] # << >>
            /\ Head(line[t]) \in inside
            /\ inside' = inside \ {Head(line[t])}
            /\ line' = [line EXCEPT ![t] = Tail(@)]

Next == \E t \in Tree : \/ \E p \in Proc : Arrive(p, t)
                        \/ Enter(t)
                        \/ Leave(t)

\* What it does, and then that it goes on
Order == Init /\ [][Next]_vars

Spec == Order /\ \A t \in Tree : WF_vars(Enter(t)) /\ WF_vars(Leave(t))
=============================================================================
