---------------------------------- MODULE Lists ----------------------------------
(***************************************************************************)
(* What a filter keeps of a list (Vec::retain, Iterator::filter), written   *)
(* as a function on its prefixes: the provers know nothing of SelectSeq.    *)
(***************************************************************************)
EXTENDS Integers, Sequences

\* The elements of q that are in K, in their order.
Only(q, K) ==
    LET kept[n \in 0..Len(q)] ==
            IF n = 0 THEN <<>>
            ELSE IF q[n] \in K THEN Append(kept[n - 1], q[n]) ELSE kept[n - 1]
    IN kept[Len(q)]
=============================================================================
