------------------------------ MODULE Chaincode ------------------------------
(***************************************************************************)
(* The smart contract of chaincode/assetTransfer.go: what each of its      *)
(* sixteen writing functions reads, when it returns an error and what it   *)
(* puts into or deletes from the private data collections.                 *)
(*                                                                         *)
(* A function never updates the ledger itself: the peer simulates it       *)
(* against the current collections and collects a write set.  So each      *)
(* function is an operator of the request and of the ledger it sees, and   *)
(* its value is the set of write sets it can return: empty when the code   *)
(* returns an error, a singleton when it succeeds.                         *)
(*                                                                         *)
(* SetHistory, the transaction timestamp and the client identity only      *)
(* shape the event of the transaction and are left out here.               *)
(***************************************************************************)
EXTENDS Naturals

CONSTANTS
  ThingVisors,    \* thingVisorIDs
  VThings,        \* vThing IDs, "<thingVisorID>/<name>"
  Flavours,       \* flavourIDs
  VSilos,         \* vSiloIDs, "<tenantID>_<name>"
  VThingPrefix,   \* strings.Split(vThingID, "/")[0] of each vThing ID
  Texts,          \* values of tvDescription and params; "" is among them
  Details,        \* every other field of a record: opaque to the chaincode
  NoDetails,      \* the zero values AddFlavour and AddVirtualSilo fill in
  Nil             \* GetPrivateData of a key that is absent

STATUS_PENDING  == "pending"
STATUS_RUNNING  == "running"
STATUS_STOPPING == "stopping"

\* The chaincode writes only the three above; the controller also stores
\* "ready" and "error" in flavours.
Status == {STATUS_PENDING, STATUS_RUNNING, STATUS_STOPPING, "ready", "error"}

ThingVisorRecord ==
  [status : Status, tvDescription : Texts, params : Texts, details : Details]

Record == [status : Status, details : Details]   \* a Flavour or a VirtualSilo

(***************************************************************************)
(* The keys of the five private data collections.                          *)
(***************************************************************************)
ThingVisorKey(t)      == <<"collectionThingVisors", t>>
VThingTVKey(v)        == <<"collectionvThingTVs", v>>
FlavourKey(f)         == <<"collectionFlavours", f>>
VSiloKey(s)           == <<"collectionvSilos", s>>
VThingVSiloKey(s, v)  == <<"collectionvThingVSilos", <<s, v>>>>

Keys ==
  {ThingVisorKey(t) : t \in ThingVisors}
    \cup {VThingTVKey(v) : v \in VThings}
    \cup {FlavourKey(f) : f \in Flavours}
    \cup {VSiloKey(s) : s \in VSilos}
    \cup {VThingVSiloKey(s, v) : s \in VSilos, v \in VThings}

ASSUME ChaincodeAssumption ==
  /\ VThingPrefix \in [VThings -> ThingVisors]
  /\ "" \in Texts
  /\ NoDetails \in Details
  /\ Nil \notin ThingVisorRecord \cup Record \cup Details

(***************************************************************************)
(* Write sets: partial functions from keys; Nil stands for DelPrivateData. *)
(***************************************************************************)
Put(k, r)  == [key \in {k} |-> r]
Del(ks)    == [key \in ks |-> Nil]

Apply(w, db) == [k \in DOMAIN db |-> IF k \in DOMAIN w THEN w[k] ELSE db[k]]

(***************************************************************************)
(* ThingVisors and the vThings they offer.                                 *)
(***************************************************************************)
IsRunning(t, db) ==
  /\ db[ThingVisorKey(t)] # Nil
  /\ db[ThingVisorKey(t)].status = STATUS_RUNNING

CreateThingVisorOverwriting(tx, db) == {Put(ThingVisorKey(tx.tv), tx.rec)}

CreateThingVisor(tx, db) ==
  IF db[ThingVisorKey(tx.tv)] = Nil
  THEN {Put(ThingVisorKey(tx.tv), tx.rec)} ELSE {}

\* UpdateThingVisor looks at nothing before it writes.
UpdateThingVisor(tx, db) == {Put(ThingVisorKey(tx.tv), tx.rec)}

\* An absent record fails to unmarshal; an empty argument keeps the old text.
UpdateThingVisorPartial(tx, db) ==
  LET old     == db[ThingVisorKey(tx.tv)]
      Keep(new, text) == IF new = "" THEN text ELSE new
  IN  IF old = Nil THEN {}
      ELSE {Put(ThingVisorKey(tx.tv),
             [old EXCEPT !.tvDescription = Keep(tx.tvDescription, @),
                         !.params        = Keep(tx.params, @)])}

\* The vThing IDs of the call must carry the ThingVisor's prefix, and that is
\* all they are used for: their deletion is commented out.
DeleteThingVisor(tx, db) ==
  IF \A v \in tx.vThings : VThingPrefix[v] = tx.tv
  THEN {Del({ThingVisorKey(tx.tv)})} ELSE {}

StopThingVisorUnchecked(tx, db) ==
  LET old == db[ThingVisorKey(tx.tv)]
  IN  IF old = Nil THEN {}
      ELSE {Put(ThingVisorKey(tx.tv), [old EXCEPT !.status = STATUS_STOPPING])}

StopThingVisorForgetful(tx, db) ==
  IF IsRunning(tx.tv, db)
  THEN {Put(ThingVisorKey(tx.tv), [status |-> STATUS_STOPPING])} ELSE {}

StopThingVisor(tx, db) ==
  IF IsRunning(tx.tv, db)
  THEN {Put(ThingVisorKey(tx.tv),
          [db[ThingVisorKey(tx.tv)] EXCEPT !.status = STATUS_STOPPING])}
  ELSE {}

AddVThingUnchecked(tx, db) == {Put(VThingTVKey(tx.vThing), tx.details)}

AddVThingToThingVisor(tx, db) ==
  IF IsRunning(tx.tv, db) /\ VThingPrefix[tx.vThing] = tx.tv
  THEN {Put(VThingTVKey(tx.vThing), tx.details)} ELSE {}

\* Like UpdateThingVisor, it reads neither the vThing nor its ThingVisor.
UpdateVThingOfThingVisor(tx, db) == {Put(VThingTVKey(tx.vThing), tx.details)}

DeleteVThingFromThingVisor(tx, db) ==
  IF IsRunning(tx.tv, db) /\ VThingPrefix[tx.vThing] = tx.tv
  THEN {Del({VThingTVKey(tx.vThing)})} ELSE {}

(***************************************************************************)
(* Flavours.                                                               *)
(***************************************************************************)
AddFlavour(tx, db) ==
  IF db[FlavourKey(tx.flavour)] = Nil
  THEN {Put(FlavourKey(tx.flavour),
          [status |-> STATUS_PENDING, details |-> NoDetails])}
  ELSE {}

UpdateFlavourUnchecked(tx, db) == {Put(FlavourKey(tx.flavour), tx.rec)}

UpdateFlavour(tx, db) ==
  IF db[FlavourKey(tx.flavour)] = Nil THEN {}
  ELSE {Put(FlavourKey(tx.flavour), tx.rec)}

DeleteFlavour(tx, db) ==
  IF db[FlavourKey(tx.flavour)] = Nil THEN {}
  ELSE {Del({FlavourKey(tx.flavour)})}

(***************************************************************************)
(* Virtual Silos and the vThings attached to them.                         *)
(***************************************************************************)
AddVirtualSilo(tx, db) ==
  IF db[VSiloKey(tx.vSilo)] = Nil
  THEN {Put(VSiloKey(tx.vSilo),
          [status |-> STATUS_PENDING, details |-> NoDetails])}
  ELSE {}

UpdateVirtualSilo(tx, db) ==
  IF db[VSiloKey(tx.vSilo)] = Nil THEN {}
  ELSE {Put(VSiloKey(tx.vSilo), tx.rec)}

DeleteVirtualSiloOnly(tx, db) == {Del({VSiloKey(tx.vSilo)})}

DeleteAttachmentsOnly(tx, db) ==
  {Del({VThingVSiloKey(tx.vSilo, v) : v \in tx.vThings})}

\* Deletes the attachments the caller lists, then the silo; checks nothing.
DeleteVirtualSilo(tx, db) ==
  {Del({VThingVSiloKey(tx.vSilo, v) : v \in tx.vThings}
         \cup {VSiloKey(tx.vSilo)})}

AddVThingVSilo(tx, db) ==
  {Put(VThingVSiloKey(tx.vSilo, tx.vThing), tx.details)}

DeleteVThingVSilo(tx, db) == {Del({VThingVSiloKey(tx.vSilo, tx.vThing)})}

(***************************************************************************)
(* Calls of the contract.                                                  *)
(***************************************************************************)
ThingVisorCalls ==
  [fn : {"CreateThingVisor", "UpdateThingVisor"},
     tv : ThingVisors, rec : ThingVisorRecord]
  \cup [fn : {"UpdateThingVisorPartial"},
          tv : ThingVisors, tvDescription : Texts, params : Texts]
  \cup [fn : {"DeleteThingVisor"}, tv : ThingVisors, vThings : SUBSET VThings]
  \cup [fn : {"StopThingVisor"}, tv : ThingVisors]

VThingCalls ==
  [fn : {"AddVThingToThingVisor"},
     tv : ThingVisors, vThing : VThings, details : Details]
  \cup [fn : {"UpdateVThingOfThingVisor"}, vThing : VThings, details : Details]
  \cup [fn : {"DeleteVThingFromThingVisor"}, tv : ThingVisors, vThing : VThings]

FlavourCalls ==
  [fn : {"AddFlavour", "DeleteFlavour"}, flavour : Flavours]
  \cup [fn : {"UpdateFlavour"}, flavour : Flavours, rec : Record]

VSiloCalls ==
  [fn : {"AddVirtualSilo"}, vSilo : VSilos]
  \cup [fn : {"UpdateVirtualSilo"}, vSilo : VSilos, rec : Record]
  \cup [fn : {"DeleteVirtualSilo"}, vSilo : VSilos, vThings : SUBSET VThings]
  \cup [fn : {"AddVThingVSilo"},
          vSilo : VSilos, vThing : VThings, details : Details]
  \cup [fn : {"DeleteVThingVSilo"}, vSilo : VSilos, vThing : VThings]

Calls == ThingVisorCalls \cup VThingCalls \cup FlavourCalls \cup VSiloCalls

Simulate(tx, db) ==
  CASE tx.fn = "CreateThingVisor"           -> CreateThingVisor(tx, db)
    [] tx.fn = "UpdateThingVisor"           -> UpdateThingVisor(tx, db)
    [] tx.fn = "UpdateThingVisorPartial"    -> UpdateThingVisorPartial(tx, db)
    [] tx.fn = "DeleteThingVisor"           -> DeleteThingVisor(tx, db)
    [] tx.fn = "StopThingVisor"             -> StopThingVisor(tx, db)
    [] tx.fn = "AddVThingToThingVisor"      -> AddVThingToThingVisor(tx, db)
    [] tx.fn = "UpdateVThingOfThingVisor"   -> UpdateVThingOfThingVisor(tx, db)
    [] tx.fn = "DeleteVThingFromThingVisor" -> DeleteVThingFromThingVisor(tx, db)
    [] tx.fn = "AddFlavour"                 -> AddFlavour(tx, db)
    [] tx.fn = "UpdateFlavour"              -> UpdateFlavour(tx, db)
    [] tx.fn = "DeleteFlavour"              -> DeleteFlavour(tx, db)
    [] tx.fn = "AddVirtualSilo"             -> AddVirtualSilo(tx, db)
    [] tx.fn = "UpdateVirtualSilo"          -> UpdateVirtualSilo(tx, db)
    [] tx.fn = "DeleteVirtualSilo"          -> DeleteVirtualSilo(tx, db)
    [] tx.fn = "AddVThingVSilo"             -> AddVThingVSilo(tx, db)
    [] tx.fn = "DeleteVThingVSilo"          -> DeleteVThingVSilo(tx, db)

(***************************************************************************)
(* The keys a call passes to GetPrivateData, which become its read set.    *)
(***************************************************************************)
ReadsOnCreateOnly(tx) ==
  CASE tx.fn = "CreateThingVisor"   -> {ThingVisorKey(tx.tv)}
    [] tx.fn = "AddFlavour"         -> {FlavourKey(tx.flavour)}
    [] tx.fn = "AddVirtualSilo"     -> {VSiloKey(tx.vSilo)}
    [] OTHER                        -> {}

Reads(tx) ==
  CASE tx.fn \in {"CreateThingVisor", "UpdateThingVisorPartial",
                  "StopThingVisor", "AddVThingToThingVisor",
                  "DeleteVThingFromThingVisor"}
         -> {ThingVisorKey(tx.tv)}
    [] tx.fn \in {"AddFlavour", "UpdateFlavour", "DeleteFlavour"}
         -> {FlavourKey(tx.flavour)}
    [] tx.fn \in {"AddVirtualSilo", "UpdateVirtualSilo"}
         -> {VSiloKey(tx.vSilo)}
    [] OTHER -> {}

(***************************************************************************)
(* The shape of a well-formed ledger: each collection holds its own kind   *)
(* of record.                                                              *)
(***************************************************************************)
Values == ThingVisorRecord \cup Record \cup Details \cup {Nil}

ValuesOf(k) ==
  CASE k[1] = "collectionThingVisors"                   -> ThingVisorRecord \cup {Nil}
    [] k[1] \in {"collectionFlavours", "collectionvSilos"} -> Record \cup {Nil}
    [] OTHER                                            -> Details \cup {Nil}

LedgerType(db) ==
  /\ DOMAIN db = Keys
  /\ \A k \in Keys : db[k] \in ValuesOf(k)
==============================================================================
