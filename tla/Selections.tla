---------------------------- MODULE Selections -----------------------------
(***************************************************************************)
(* What a list comprehension or a loop with an append keeps of a list.     *)
(***************************************************************************)
EXTENDS Naturals, Sequences, SequencesExt

\* The elements of s at some of its places, in their order.
Selected(s, places) ==
    FlattenSeq([k \in DOMAIN s |-> IF k \in places THEN <<s[k]>> ELSE <<>>])
=============================================================================
