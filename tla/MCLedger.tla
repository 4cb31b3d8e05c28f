------------------------------ MODULE MCLedger ------------------------------
(***************************************************************************)
(* A small instance of the ledger: one ThingVisor with one vThing, one     *)
(* flavour and one Virtual Silo, and the calls the controller makes for    *)
(* them, with few enough texts and details that every call is kept.        *)
(***************************************************************************)
EXTENDS Ledger

CONSTANTS tv, vth, fl, silo, empty, filled

MCVThings     == {vth}
MCPrefix      == [v \in {vth} |-> tv]
MCTexts       == {"", "a"}
MCDetails     == {empty, filled}

Entry(st, text) ==
  [status |-> st, tvDescription |-> text, params |-> "", details |-> empty]

\* The records the controller writes: pending ones without and running ones
\* with the details of a deployment.
ThingVisorRequests ==
  {[fn |-> "CreateThingVisor", tv |-> tv, rec |-> Entry(STATUS_PENDING, "")],
   [fn |-> "UpdateThingVisor", tv |-> tv, rec |-> Entry(STATUS_PENDING, "a")],
   [fn |-> "UpdateThingVisor", tv |-> tv, rec |-> Entry(STATUS_RUNNING, "a")],
   [fn |-> "UpdateThingVisorPartial", tv |-> tv, tvDescription |-> "",
      params |-> "a"],
   [fn |-> "StopThingVisor", tv |-> tv],
   [fn |-> "DeleteThingVisor", tv |-> tv, vThings |-> {vth}]}

VThingRequests ==
  {[fn |-> "AddVThingToThingVisor", tv |-> tv, vThing |-> vth,
      details |-> empty],
   [fn |-> "UpdateVThingOfThingVisor", vThing |-> vth, details |-> filled],
   [fn |-> "DeleteVThingFromThingVisor", tv |-> tv, vThing |-> vth]}

FlavourRequests ==
  {[fn |-> "AddFlavour", flavour |-> fl],
   [fn |-> "UpdateFlavour", flavour |-> fl,
      rec |-> [status |-> "ready", details |-> filled]],
   [fn |-> "DeleteFlavour", flavour |-> fl]}

VSiloRequests ==
  {[fn |-> "AddVirtualSilo", vSilo |-> silo],
   [fn |-> "UpdateVirtualSilo", vSilo |-> silo,
      rec |-> [status |-> STATUS_RUNNING, details |-> filled]],
   [fn |-> "DeleteVirtualSilo", vSilo |-> silo, vThings |-> {vth}],
   [fn |-> "AddVThingVSilo", vSilo |-> silo, vThing |-> vth, details |-> filled],
   [fn |-> "DeleteVThingVSilo", vSilo |-> silo, vThing |-> vth]}

(***************************************************************************)
(* The calls on ThingVisors and vThings touch other keys than those on     *)
(* flavours and silos: a behaviour has transactions of one half only.      *)
(***************************************************************************)
ProviderRequests == ThingVisorRequests \cup VThingRequests
ConsumerRequests == FlavourRequests \cup VSiloRequests
AllRequests      == ProviderRequests \cup ConsumerRequests

VARIABLE half

HalfInit == Init /\ half \in {ProviderRequests, ConsumerRequests}

HalfNext ==
  /\ Next
  /\ \A s \in Slots : flight'[s] = Free \/ flight'[s].tx \in half
  /\ UNCHANGED half

HalfSpec == HalfInit /\ [][HalfNext]_<<vars, half>>
=============================================================================
