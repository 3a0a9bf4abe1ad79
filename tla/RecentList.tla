------------------------------ MODULE RecentList ------------------------------
(***************************************************************************)
(* What the list of recently edited packages promises: the package just    *)
(* opened is first, no package is in it twice, the others keep their order. *)
(***************************************************************************)
EXTENDS Naturals, Sequences, SequencesExt

CONSTANTS File, maxItems

VARIABLE list

Init == list \in {s \in UNION {[1 .. n -> File] : n \in 0 .. maxItems} : IsInjective(s)}

\* The oldest of a full list is dropped, also when the package was in it: the code
\* makes room before it looks for the room that the package has left.
Kept == IF Len(list) = maxItems THEN SubSeq(list, 1, maxItems - 1) ELSE list

Opened(f) ==
    \/ f \notin Range(Kept) /\ list' = <<f>> \o Kept
    \/ \E n \in 1 .. Len(Kept) : Kept[n] = f /\ list' = <<f>> \o RemoveAt(Kept, n)

Next == \E f \in File : Opened(f)

Spec == Init /\ [][Next]_list
=============================================================================
