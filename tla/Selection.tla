----------------------------- MODULE Selection ------------------------------
(***************************************************************************)
(* A list comprehension that only leaves items out.  SelectSeq takes an    *)
(* operator, which lemmas cannot be instantiated with; this takes a set.   *)
(***************************************************************************)
EXTENDS SequencesExt

\* [item for item in items if item in chosen]
Selected(items, chosen) ==
  FlattenSeq([ i \in DOMAIN items |->
                 IF items[i] \in chosen THEN << items[i] >> ELSE << >> ])
=============================================================================
