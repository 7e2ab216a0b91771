------------------------------- MODULE HistoryLog -------------------------------
(***************************************************************************)
(* What bish's history file is, however many shells share it: one list of  *)
(* entries in the order they were recorded, none of them twice.  Trimming  *)
(* keeps the newest Limit; an entry recorded while the file is rewritten   *)
(* may be missed or torn, a rewrite that is cut short may lose any, and an *)
(* append that is leaves a line which the next one runs into.              *)
(* History implements this specification.                                  *)
(***************************************************************************)
EXTENDS Integers, Sequences

CONSTANTS
    Limit,      \* entries a rewrite keeps
    Earlier,    \* entries the file may hold at first
    MayFail     \* whether appends and rewrites may fail

VARIABLES
    count,      \* entries recorded so far; entry k is the k-th
    kept,       \* those that will be there once no shell is rewriting
    unfinished, \* whether the last of them lacks the end of its line
    rewriting   \* whether one is

promised == <<count, kept, unfinished, rewriting>>

NewestOf(s, k) == IF Len(s) <= k THEN s ELSE SubSeq(s, Len(s) - k + 1, Len(s))
\* 0 is what is left of a torn entry.
InOrder(s) == \A i, j \in 1..Len(s) : i < j /\ s[i] # 0 /\ s[j] # 0 => s[i] < s[j]
Entries(s) == \A i \in 1..Len(s) : s[i] \in 0..count
IsPrefixOf(s, t) == Len(s) <= Len(t) /\ SubSeq(t, 1, Len(s)) = s

Init ==
    /\ count \in 0..Earlier
    /\ kept = [k \in 1..count |-> k]
    /\ unfinished = FALSE
    /\ rewriting = FALSE

\* An entry, or part of one, goes to the end, or into the line that is unfinished.
Added(x) ==
    IF unfinished THEN {kept, [kept EXCEPT ![Len(kept)] = 0]} ELSE {Append(kept, x)}

\* The file takes an entry at its end, unless it is being rewritten.
Record ==
    /\ count' = count + 1
    /\ \/ ~rewriting /\ kept' \in Added(count') /\ unfinished' = FALSE
       \/ (rewriting \/ MayFail) /\ UNCHANGED <<kept, unfinished>>
       \/ ~rewriting /\ MayFail /\ kept' \in Added(count') \cup Added(0) /\ unfinished' = TRUE
    /\ UNCHANGED rewriting

Trim ==
    /\ ~rewriting /\ rewriting' = TRUE
    /\ kept' = NewestOf(kept, Limit)
    /\ unfinished' = FALSE
    /\ UNCHANGED count

\* Some of what was recorded meanwhile is there, after all that was kept.
Finish ==
    /\ rewriting /\ rewriting' = FALSE
    /\ IsPrefixOf(kept, kept') /\ InOrder(kept') /\ Entries(kept')
    /\ unfinished' \in {FALSE, MayFail}
    /\ UNCHANGED count

\* The shell that rewrites fails or is killed.
CutShort ==
    /\ MayFail
    /\ rewriting /\ rewriting' = FALSE
    /\ InOrder(kept') /\ Entries(kept')
    /\ unfinished' \in BOOLEAN
    /\ UNCHANGED count

Next == Record \/ Trim \/ Finish \/ CutShort
Spec == Init /\ [][Next]_promised
=============================================================================
