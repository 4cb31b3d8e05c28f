----------------------------- MODULE SiloRegistry -----------------------------
(***************************************************************************)
(* What a tenant may expect of the requests about its Virtual Silos: they  *)
(* are told apart by the tenant and the silo's name, a request is carried  *)
(* out on the silo of that tenant and that name and on no other, and a     *)
(* list holds exactly the tenant's own.  No identifier is put together     *)
(* here, so no two can be mixed up.                                        *)
(***************************************************************************)
CONSTANTS Tenants, Titles, VThings

VARIABLES
  owned,      \* <<tenant, title>> of every silo
  attached,   \* <<tenant, title, vThing>> of every attachment
  request,    \* the last request: <<operation, tenant, title, ...>>
  answer      \* and its answer: "ok", "refused" or what was read

registryVars == <<owned, attached, request, answer>>

Init ==
  /\ owned = {} /\ attached = {}
  /\ request = <<>> /\ answer = "ok"

Create(t, n) ==
  /\ request' = <<"create", t, n>>
  /\ answer' = IF <<t, n>> \in owned THEN "refused" ELSE "ok"
  /\ owned' = owned \cup {<<t, n>>}
  /\ UNCHANGED attached

Destroy(t, n) ==
  /\ request' = <<"destroy", t, n>>
  /\ answer' = IF <<t, n>> \in owned THEN "ok" ELSE "refused"
  /\ owned' = owned \ {<<t, n>>}
  /\ attached' = IF <<t, n>> \in owned
                 THEN attached \ {<<t, n, v>> : v \in VThings} ELSE attached

Attach(t, n, v) ==
  LET new == <<t, n>> \in owned /\ <<t, n, v>> \notin attached IN
  /\ request' = <<"attach", t, n, v>>
  /\ answer' = IF new THEN "ok" ELSE "refused"
  /\ attached' = IF new THEN attached \cup {<<t, n, v>>} ELSE attached
  /\ UNCHANGED owned

Detach(t, n, v) ==
  /\ request' = <<"detach", t, n, v>>
  /\ answer' = IF <<t, n, v>> \in attached THEN "ok" ELSE "refused"
  /\ attached' = attached \ {<<t, n, v>>}
  /\ UNCHANGED owned

Inspect(t, n) ==
  /\ request' = <<"inspect", t, n>>
  /\ answer' = IF <<t, n>> \in owned
               THEN {v \in VThings : <<t, n, v>> \in attached} ELSE "refused"
  /\ UNCHANGED <<owned, attached>>

List(t) ==
  /\ request' = <<"list", t>>
  /\ answer' = {n \in Titles : <<t, n>> \in owned}
  /\ UNCHANGED <<owned, attached>>

Next ==
  \E t \in Tenants :
    \/ List(t)
    \/ \E n \in Titles :
         \/ Create(t, n) \/ Destroy(t, n) \/ Inspect(t, n)
         \/ \E v \in VThings : Attach(t, n, v) \/ Detach(t, n, v)

Spec == Init /\ [][Next]_registryVars
===============================================================================
