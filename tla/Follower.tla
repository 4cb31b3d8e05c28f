------------------------------- MODULE Follower -------------------------------
(***************************************************************************)
(* What a reader of the transaction graph relies on: what is shown to him  *)
(* is the history of the ledger from its beginning up to some event.  It   *)
(* grows by the next event, or begins again from nothing.                  *)
(***************************************************************************)
EXTENDS Naturals, Sequences

CONSTANT Events

VARIABLES history, shown

Init == history = <<>> /\ shown = <<>>

Happen(e) == history' = Append(history, e) /\ UNCHANGED shown

Show ==
  /\ Len(shown) < Len(history)
  /\ shown' = Append(shown, history[Len(shown) + 1])
  /\ UNCHANGED history

BeginAgain == shown' = <<>> /\ UNCHANGED history

Next == (\E e \in Events : Happen(e)) \/ Show \/ BeginAgain

Spec == Init /\ [][Next]_<<history, shown>>
===============================================================================
