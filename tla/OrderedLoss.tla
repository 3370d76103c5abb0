----------------------------- MODULE OrderedLoss -----------------------------
(***************************************************************************)
(* What a queue between two threads or processes of the emulator promises: *)
(* things come out in the order they went in, none twice and none that was *)
(* not put in.  It may lose some: from the front (handled, or gone with the*)
(* reader), from the back (taken back by the writer), or both at once.     *)
(***************************************************************************)
EXTENDS Integers, Sequences

CONSTANT Item

VARIABLE q      \* what has been put in and has not come out

Init == q = <<>>

Put == \E x \in Item : q' = Append(q, x)

\* The first i - 1 and the last n are gone, one contiguous part remains.
Shrink == \E i \in 1..Len(q) + 1, n \in 0..Len(q) : q' = SubSeq(q, i, Len(q) - n)

Next == Shrink \/ Put

Spec == Init /\ [][Next]_q
=============================================================================
