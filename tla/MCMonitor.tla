------------------------------- MODULE MCMonitor -------------------------------
(***************************************************************************)
(* One ThingVisor with one vThing and one silo.  The silo bears the name   *)
(* of another flavour than that it is made from.                           *)
(***************************************************************************)
EXTENDS MonitorGraph

CONSTANTS tv, vth, fl, other, silo, none, filled

MCVThings == {vth}
MCPrefix  == [v \in {vth} |-> tv]
MCTexts   == {""}
MCDetails == {none, filled}
MCFlavourOf == [s \in {silo} |-> fl]
NamedAsOther   == [s \in {silo} |-> other]
NamedAsNothing == [s \in {silo} |-> silo]

Entry(st) == [status |-> st, tvDescription |-> "", params |-> "",
              details |-> none]

Providing ==
  {[fn |-> "CreateThingVisor", tv |-> tv, rec |-> Entry(STATUS_PENDING)],
   [fn |-> "UpdateThingVisor", tv |-> tv, rec |-> Entry(STATUS_RUNNING)],
   [fn |-> "StopThingVisor", tv |-> tv],
   [fn |-> "DeleteThingVisor", tv |-> tv, vThings |-> {vth}],
   [fn |-> "AddVThingToThingVisor", tv |-> tv, vThing |-> vth,
      details |-> none],
   [fn |-> "UpdateVThingOfThingVisor", vThing |-> vth, details |-> filled],
   [fn |-> "DeleteVThingFromThingVisor", tv |-> tv, vThing |-> vth]}

\* UpdateVThingOfThingVisor puts a vThing into the ledger in one step.
Consuming ==
  {[fn |-> "UpdateVThingOfThingVisor", vThing |-> vth, details |-> filled],
   [fn |-> "AddFlavour", flavour |-> fl],
   [fn |-> "AddFlavour", flavour |-> other],
   [fn |-> "DeleteFlavour", flavour |-> fl],
   [fn |-> "AddVirtualSilo", vSilo |-> silo],
   [fn |-> "UpdateVirtualSilo", vSilo |-> silo,
      rec |-> [status |-> STATUS_RUNNING, details |-> filled]],
   [fn |-> "DeleteVirtualSilo", vSilo |-> silo, vThings |-> {vth}],
   [fn |-> "AddVThingVSilo", vSilo |-> silo, vThing |-> vth, details |-> none],
   [fn |-> "DeleteVThingVSilo", vSilo |-> silo, vThing |-> vth]}

Coming == {[fn |-> "AddFlavour", flavour |-> fl],
           [fn |-> "DeleteFlavour", flavour |-> fl]}

AllRequests == Providing \cup Consuming
MCTimes     == 1..3

(***************************************************************************)
(* Sessions: the calls of either side in all orders; and few calls, at     *)
(* several times, with restarts.                                           *)
(***************************************************************************)
Sessions ==
  {[requests |-> Providing, times |-> {1},     events |-> 5, crashes |-> 0],
   [requests |-> Consuming, times |-> {1},     events |-> 4, crashes |-> 0],
   [requests |-> Coming,    times |-> MCTimes, events |-> 4, crashes |-> 2]}

VARIABLE session

MCInit == GraphInit /\ session \in Sessions

MCNext ==
  /\ GraphNext
  /\ Len(log') <= session.events /\ crashes' <= session.crashes
  /\ log' # log => LET e == Last(log')
                   IN  e.tx \in session.requests /\ e.time \in session.times
  /\ UNCHANGED session

MCSpec == MCInit /\ [][MCNext]_<<graphVars, session>>

MCFairSpec == MCSpec /\ Fairness
================================================================================
