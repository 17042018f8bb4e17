---------------------------- MODULE FifoChannel -----------------------------
(***************************************************************************)
(* What a reader of the link is promised: the items arrive in the order in *)
(* which they were sent, each once, none invented, and each in the end.    *)
(***************************************************************************)
EXTENDS Naturals, Sequences

CONSTANT Item

VARIABLES
  sent,      \* all that was ever sent
  received   \* all that the reader was ever given

vars == << sent, received >>

Init ==
  /\ sent = << >>
  /\ received = << >>

\* Stated of sent' as a whole, so that Item need not be a finite set.
Send ==
  /\ sent' \in Seq(Item)
  /\ Len(sent') = Len(sent) + 1
  /\ SubSeq(sent', 1, Len(sent)) = sent
  /\ UNCHANGED received

\* The reader is given the next items, several at a time if it comes late.
Deliver ==
  /\ \E n \in Len(received) + 1 .. Len(sent) : received' = SubSeq(sent, 1, n)
  /\ UNCHANGED sent

Next == Send \/ Deliver

Safety == Init /\ [][Next]_vars

Spec == Safety /\ WF_vars(Deliver)
=============================================================================
