----------------------------- MODULE StageNetwork -----------------------------
(***************************************************************************)
(* What a pipeline is, however its stages are run: N of them side by side,  *)
(* each with two queues of its own, one it takes from and one it puts into. *)
(* A stage that reads to the end ends only when its queue is empty and its  *)
(* neighbour is gone; one is stopped only when nobody takes from its queue. *)
(* Nothing here is shared but the queues.  Pipeline implements this with    *)
(* one thread and one pair of descriptors.                                  *)
(***************************************************************************)
EXTENDS Integers, Sequences

CONSTANTS
    N,          \* number of stages
    Roles,      \* what each may be asked to do
    Cap,        \* units a queue holds
    Chunk,      \* units in a line
    Feed,       \* units of input there will be
    Unbounded,  \* whether the last queue, the output, takes everything at once
    MayFail     \* whether the network may be given up before all have begun

VARIABLES
    role,       \* what each stage does
    up,         \* the stages that have not ended
    begun,      \* those that have begun
    code,       \* how each ended
    queue,      \* units between the stages; 0 is the input, N the output
    next,       \* the unit each queue is to be given next
    feed,       \* units of input still to come
    answer      \* the codes, once they are reported

network == <<role, up, begun, code, queue, next, feed, answer>>

Stage == 1..N
Broken == 141
Killed == 137
Carry(k, n) == ((k - 1 + n) % Chunk) + 1

\* A stage of these roles goes on until its input has ended.
ReadsAll == {"copy", "drain", "group"}
InputEnded(s) == queue[s - 1] = <<>> /\ (IF s = 1 THEN feed = 0 ELSE s - 1 \notin up)
IsRead(s) == s = N \/ s + 1 \in up
Works(s) == s \in up \cap begun

Init ==
    /\ role \in [Stage -> UNION {Roles[s] : s \in Stage}]
    /\ \A s \in Stage : role[s] \in Roles[s]
    /\ up = Stage /\ begun = {}
    /\ code = [s \in Stage |-> 0]
    /\ feed \in 0..Feed
    /\ queue = [p \in 0..N |-> IF p = 0 THEN [i \in 1..(Feed - feed) |-> Carry(1, i - 1)] ELSE <<>>]
    /\ next = [p \in 0..N |-> IF p = 0 THEN Carry(1, Feed - feed) ELSE 1]
    /\ answer = <<>>

Begin(s) ==
    /\ s \in up \ begun
    /\ begun' = begun \cup {s}
    /\ UNCHANGED <<role, up, code, queue, next, feed, answer>>

Read(s) ==
    /\ Works(s) /\ queue[s - 1] # <<>>
    /\ queue' = [queue EXCEPT ![s - 1] = Tail(@)]
    /\ UNCHANGED <<role, up, begun, code, next, feed, answer>>

\* A queue is given the units of one line after another, none left out, as long
\* as somebody takes from it.
Write(s) ==
    /\ Works(s) /\ IsRead(s)
    /\ \E n \in 1..Chunk :
        /\ next' = [next EXCEPT ![s] = Carry(@, n)]
        /\ IF s = N /\ Unbounded
           THEN UNCHANGED queue
           ELSE /\ Len(queue[s]) + n <= Cap
                /\ queue' = [queue EXCEPT ![s] = @ \o [i \in 1..n |-> Carry(next[s], i - 1)]]
    /\ UNCHANGED <<role, up, begun, code, feed, answer>>

End(s) ==
    /\ Works(s)
    /\ role[s] # "endless" /\ (role[s] \in ReadsAll => InputEnded(s))
    /\ up' = up \ {s}
    /\ code' = [code EXCEPT ![s] = 0]
    /\ UNCHANGED <<role, begun, queue, next, feed, answer>>

Stop(s) ==
    /\ Works(s) /\ ~IsRead(s)
    /\ up' = up \ {s}
    /\ code' = [code EXCEPT ![s] = Broken]
    /\ UNCHANGED <<role, begun, queue, next, feed, answer>>

InputArrives ==
    /\ feed > 0 /\ feed' = feed - 1
    /\ queue' = [queue EXCEPT ![0] = Append(@, next[0])]
    /\ next' = [next EXCEPT ![0] = Carry(@, 1)]
    /\ UNCHANGED <<role, up, begun, code, answer>>

OutputTaken ==
    /\ \E n \in 1..Len(queue[N]) : queue' = [queue EXCEPT ![N] = SubSeq(@, n + 1, Len(@))]
    /\ UNCHANGED <<role, up, begun, code, next, feed, answer>>

\* A stage cannot begin: those that have are killed.
Abandon ==
    /\ MayFail /\ begun # Stage
    /\ up' = {}
    /\ code' = [s \in Stage |-> IF Works(s) THEN Killed ELSE code[s]]
    /\ UNCHANGED <<role, begun, queue, next, feed, answer>>

\* All have begun and ended: how they did is reported, and the output taken.
Answer ==
    /\ begun = Stage /\ up = {}
    /\ answer = <<>> /\ answer' = code
    /\ queue' \in {queue, [queue EXCEPT ![N] = <<>>]}
    /\ UNCHANGED <<role, up, begun, code, next, feed>>

Next ==
    \/ \E s \in Stage : Begin(s) \/ Read(s) \/ Write(s) \/ End(s) \/ Stop(s)
    \/ InputArrives \/ OutputTaken \/ Abandon \/ Answer

Spec == Init /\ [][Next]_network
===============================================================================
