------------------------------ MODULE TdoTexts ------------------------------
(***************************************************************************)
(* What the logs promise, with no memory behind them: a log is a text that *)
(* only grows at its end, by what was read for it, and is emptied when its *)
(* slot is given away.  A byte is named by its log and its place there.    *)
(***************************************************************************)
EXTENDS Integers, Sequences

CONSTANTS Logs, ChunkSizes
VARIABLE texts

NoTexts == [l \in Logs |-> <<>>]

Init == texts = NoTexts

Read(l) ==
    \E size \in ChunkSizes :
        texts' = [texts EXCEPT ![l] = @ \o [i \in 1..size |-> <<l, Len(@) + i>>]]

Empty(l) == texts' = [texts EXCEPT ![l] = <<>>]

\* The run is over.
Release == texts' = NoTexts

Next == Release \/ \E l \in Logs : Read(l) \/ Empty(l)
Spec == Init /\ [][Next]_texts
=============================================================================
