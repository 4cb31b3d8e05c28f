------------------------------- MODULE Registry -------------------------------
(***************************************************************************)
(* What the controller relies on when it calls submitTransaction: a single *)
(* shared registry, to which every accepted call of the contract applies   *)
(* in one step, judged against the registry as it is at that moment.       *)
(***************************************************************************)
EXTENDS Chaincode

CONSTANT Requests      \* the calls clients may make

VARIABLE db

Init == db = [k \in Keys |-> Nil]

\* A call that succeeds; one that returns an error changes nothing.
Invoke(tx) == \E w \in Simulate(tx, db) : db' = Apply(w, db)

Next == \E tx \in Requests : Invoke(tx)

Spec == Init /\ [][Next]_db
===============================================================================
