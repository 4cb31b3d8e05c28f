---------------------------- MODULE Chaincode_proofs ----------------------------
(***************************************************************************)
(* What the functions of the contract read and write, for every call and   *)
(* every ledger: the facts the proofs about the ledger and about the       *)
(* transaction monitor rest on.                                            *)
(***************************************************************************)
EXTENDS Chaincode, TLAPS

(***************************************************************************)
(* Simulate calls the function that the request names.                     *)
(***************************************************************************)
LEMMA Dispatch ==
  ASSUME NEW tx, NEW d
  PROVE  /\ tx.fn = "CreateThingVisor" => Simulate(tx, d) = CreateThingVisor(tx, d)
         /\ tx.fn = "UpdateThingVisor" => Simulate(tx, d) = UpdateThingVisor(tx, d)
         /\ tx.fn = "UpdateThingVisorPartial" => Simulate(tx, d) = UpdateThingVisorPartial(tx, d)
         /\ tx.fn = "DeleteThingVisor" => Simulate(tx, d) = DeleteThingVisor(tx, d)
         /\ tx.fn = "StopThingVisor" => Simulate(tx, d) = StopThingVisor(tx, d)
         /\ tx.fn = "AddVThingToThingVisor" => Simulate(tx, d) = AddVThingToThingVisor(tx, d)
         /\ tx.fn = "UpdateVThingOfThingVisor" => Simulate(tx, d) = UpdateVThingOfThingVisor(tx, d)
         /\ tx.fn = "DeleteVThingFromThingVisor" => Simulate(tx, d) = DeleteVThingFromThingVisor(tx, d)
         /\ tx.fn = "AddFlavour" => Simulate(tx, d) = AddFlavour(tx, d)
         /\ tx.fn = "UpdateFlavour" => Simulate(tx, d) = UpdateFlavour(tx, d)
         /\ tx.fn = "DeleteFlavour" => Simulate(tx, d) = DeleteFlavour(tx, d)
         /\ tx.fn = "AddVirtualSilo" => Simulate(tx, d) = AddVirtualSilo(tx, d)
         /\ tx.fn = "UpdateVirtualSilo" => Simulate(tx, d) = UpdateVirtualSilo(tx, d)
         /\ tx.fn = "DeleteVirtualSilo" => Simulate(tx, d) = DeleteVirtualSilo(tx, d)
         /\ tx.fn = "AddVThingVSilo" => Simulate(tx, d) = AddVThingVSilo(tx, d)
         /\ tx.fn = "DeleteVThingVSilo" => Simulate(tx, d) = DeleteVThingVSilo(tx, d)
  BY DEF Simulate

(***************************************************************************)
(* A chaincode function depends on the ledger only through the keys it     *)
(* passes to GetPrivateData, so the read set the peer records is enough to *)
(* repeat its decision.                                                    *)
(***************************************************************************)
LEMMA SimulateLocal ==
  ASSUME NEW tx \in Calls, NEW d, NEW e,
         \A k \in Reads(tx) : d[k] = e[k]
  PROVE  Simulate(tx, d) = Simulate(tx, e)
<1>1. CASE tx.fn \in {"CreateThingVisor", "UpdateThingVisorPartial",
                      "StopThingVisor", "AddVThingToThingVisor",
                      "DeleteVThingFromThingVisor"}
  <2>1. d[ThingVisorKey(tx.tv)] = e[ThingVisorKey(tx.tv)]
    BY <1>1 DEF Reads
  <2>2. IsRunning(tx.tv, d) <=> IsRunning(tx.tv, e)
    BY <2>1 DEF IsRunning
  <2>3. CASE tx.fn \in {"CreateThingVisor", "UpdateThingVisorPartial"}
    BY <2>1, <2>3, Dispatch DEF CreateThingVisor, UpdateThingVisorPartial
  <2>4. CASE tx.fn = "StopThingVisor"
    BY <2>1, <2>2, <2>4, Dispatch DEF StopThingVisor
  <2>5. CASE tx.fn = "AddVThingToThingVisor"
    BY <2>2, <2>5, Dispatch DEF AddVThingToThingVisor
  <2>6. CASE tx.fn = "DeleteVThingFromThingVisor"
    BY <2>2, <2>6, Dispatch DEF DeleteVThingFromThingVisor
  <2>7. QED
    BY <1>1, <2>3, <2>4, <2>5, <2>6
<1>2. CASE tx.fn \in {"AddFlavour", "UpdateFlavour", "DeleteFlavour"}
  <2>1. d[FlavourKey(tx.flavour)] = e[FlavourKey(tx.flavour)]
    BY <1>2 DEF Reads
  <2>2. QED
    BY <1>2, <2>1, Dispatch DEF AddFlavour, UpdateFlavour, DeleteFlavour
<1>3. CASE tx.fn \in {"AddVirtualSilo", "UpdateVirtualSilo"}
  <2>1. d[VSiloKey(tx.vSilo)] = e[VSiloKey(tx.vSilo)]
    BY <1>3 DEF Reads
  <2>2. QED
    BY <1>3, <2>1, Dispatch DEF AddVirtualSilo, UpdateVirtualSilo
<1>4. CASE tx.fn \in {"UpdateThingVisor", "DeleteThingVisor",
                      "UpdateVThingOfThingVisor", "DeleteVirtualSilo",
                      "AddVThingVSilo", "DeleteVThingVSilo"}
  BY <1>4, Dispatch
     DEF UpdateThingVisor, DeleteThingVisor, UpdateVThingOfThingVisor,
         DeleteVirtualSilo, AddVThingVSilo, DeleteVThingVSilo
<1>5. QED
  BY <1>1, <1>2, <1>3, <1>4
     DEF Calls, ThingVisorCalls, VThingCalls, FlavourCalls, VSiloCalls

(***************************************************************************)
(* The arguments each call carries.                                        *)
(***************************************************************************)
LEMMA CallArguments ==
  ASSUME NEW tx \in Calls
  PROVE  /\ \/ tx.fn \in {"CreateThingVisor", "UpdateThingVisor"}
            \/ tx.fn = "UpdateThingVisorPartial"
            \/ tx.fn = "DeleteThingVisor"
            \/ tx.fn = "StopThingVisor"
            \/ tx.fn \in {"AddVThingToThingVisor", "UpdateVThingOfThingVisor"}
            \/ tx.fn = "DeleteVThingFromThingVisor"
            \/ tx.fn \in {"AddFlavour", "UpdateFlavour", "DeleteFlavour"}
            \/ tx.fn \in {"AddVirtualSilo", "UpdateVirtualSilo"}
            \/ tx.fn = "DeleteVirtualSilo"
            \/ tx.fn \in {"AddVThingVSilo", "DeleteVThingVSilo"}
         /\ tx.fn \in {"CreateThingVisor", "UpdateThingVisor"} =>
              tx.tv \in ThingVisors /\ tx.rec \in ThingVisorRecord
         /\ tx.fn = "UpdateThingVisorPartial" =>
              /\ tx.tv \in ThingVisors
              /\ tx.tvDescription \in Texts /\ tx.params \in Texts
         /\ tx.fn = "DeleteThingVisor" => tx.tv \in ThingVisors
         /\ tx.fn = "StopThingVisor" => tx.tv \in ThingVisors
         /\ tx.fn = "AddVThingToThingVisor" =>
              /\ tx.tv \in ThingVisors
              /\ tx.vThing \in VThings /\ tx.details \in Details
         /\ tx.fn = "UpdateVThingOfThingVisor" =>
              tx.vThing \in VThings /\ tx.details \in Details
         /\ tx.fn = "DeleteVThingFromThingVisor" =>
              tx.tv \in ThingVisors /\ tx.vThing \in VThings
         /\ tx.fn \in {"AddFlavour", "UpdateFlavour", "DeleteFlavour"} =>
              tx.flavour \in Flavours
         /\ tx.fn \in {"AddVirtualSilo", "UpdateVirtualSilo", "DeleteVirtualSilo",
                       "AddVThingVSilo", "DeleteVThingVSilo"} => tx.vSilo \in VSilos
         /\ tx.fn \in {"UpdateFlavour", "UpdateVirtualSilo"} => tx.rec \in Record
         /\ tx.fn = "DeleteVirtualSilo" => tx.vThings \subseteq VThings
         /\ tx.fn = "AddVThingVSilo" => tx.vThing \in VThings /\ tx.details \in Details
         /\ tx.fn = "DeleteVThingVSilo" => tx.vThing \in VThings
  BY DEF Calls, ThingVisorCalls, VThingCalls, FlavourCalls, VSiloCalls

(***************************************************************************)
(* The collection of each kind of key.                                     *)
(***************************************************************************)
LEMMA KeyTypes ==
  /\ \A t \in ThingVisors :
       /\ ThingVisorKey(t) \in Keys
       /\ ValuesOf(ThingVisorKey(t)) = ThingVisorRecord \cup {Nil}
  /\ \A v \in VThings :
       /\ VThingTVKey(v) \in Keys
       /\ ValuesOf(VThingTVKey(v)) = Details \cup {Nil}
  /\ \A f \in Flavours :
       /\ FlavourKey(f) \in Keys
       /\ ValuesOf(FlavourKey(f)) = Record \cup {Nil}
  /\ \A s \in VSilos :
       /\ VSiloKey(s) \in Keys
       /\ ValuesOf(VSiloKey(s)) = Record \cup {Nil}
  /\ \A s \in VSilos, v \in VThings :
       /\ VThingVSiloKey(s, v) \in Keys
       /\ ValuesOf(VThingVSiloKey(s, v)) = Details \cup {Nil}
  BY DEF Keys, ValuesOf, ThingVisorKey, VThingTVKey, FlavourKey, VSiloKey,
         VThingVSiloKey

(***************************************************************************)
(* Every collection may lack a key, and no collection holds anything else  *)
(* than the values of the ledger.                                          *)
(***************************************************************************)
LEMMA NilEverywhere == \A k \in Keys : Nil \in ValuesOf(k) /\ ValuesOf(k) \subseteq Values
  BY DEF ValuesOf, Values

(***************************************************************************)
(* The read set of a call consists of keys of the ledger.                  *)
(***************************************************************************)
LEMMA ReadsAreKeys == \A tx \in Calls : Reads(tx) \subseteq Keys
  BY KeyTypes, CallArguments DEF Reads

(***************************************************************************)
(* What a write set may hold: keys of the ledger, each with a value of its *)
(* collection.                                                             *)
(***************************************************************************)
WriteType(w) ==
  /\ DOMAIN w \subseteq Keys
  /\ \A k \in DOMAIN w : w[k] \in ValuesOf(k)

(***************************************************************************)
(* Writing a value of its own collection to a key is well typed.           *)
(***************************************************************************)
LEMMA PutTyped ==
  ASSUME NEW k \in Keys, NEW r \in ValuesOf(k)
  PROVE  WriteType(Put(k, r))
  BY DEF Put, WriteType

(***************************************************************************)
(* Deleting keys is well typed.                                            *)
(***************************************************************************)
LEMMA DelTyped ==
  ASSUME NEW ks \in SUBSET Keys
  PROVE  WriteType(Del(ks))
  BY NilEverywhere DEF Del, WriteType

(***************************************************************************)
(* Well-typed writes keep a well-typed ledger well typed.                  *)
(***************************************************************************)
LEMMA ApplyTyped ==
  ASSUME NEW d, LedgerType(d), NEW w, WriteType(w)
  PROVE  LedgerType(Apply(w, d))
  BY DEF LedgerType, WriteType, Apply

(***************************************************************************)
(* Every chaincode function, run on a well-typed ledger, returns well-     *)
(* typed writes.                                                           *)
(***************************************************************************)
LEMMA SimulateTyped ==
  ASSUME NEW tx \in Calls, NEW d, LedgerType(d), NEW w \in Simulate(tx, d)
  PROVE  WriteType(w)
<1> USE Dispatch, CallArguments, KeyTypes, PutTyped, DelTyped
<1> DEFINE new == [status |-> STATUS_PENDING, details |-> NoDetails]
<1>0. new \in Record /\ STATUS_STOPPING \in Status
  BY ChaincodeAssumption DEF Record, Status
<1>1. CASE tx.fn \in {"CreateThingVisor", "UpdateThingVisor"}
  <2>1. w = Put(ThingVisorKey(tx.tv), tx.rec)
    BY <1>1 DEF CreateThingVisor, UpdateThingVisor
  <2>2. QED
    BY <1>1, <2>1
<1>2. CASE tx.fn = "UpdateThingVisorPartial"
  <2> DEFINE old == d[ThingVisorKey(tx.tv)]
             upd == [old EXCEPT
                       !.tvDescription = IF tx.tvDescription = "" THEN @ ELSE tx.tvDescription,
                       !.params = IF tx.params = "" THEN @ ELSE tx.params]
  <2>1. old # Nil /\ w = Put(ThingVisorKey(tx.tv), upd)
    BY <1>2 DEF UpdateThingVisorPartial
  <2>2. old \in ThingVisorRecord
    BY <1>2, <2>1 DEF LedgerType
  <2>3. upd \in ThingVisorRecord
    BY <1>2, <2>2 DEF ThingVisorRecord
  <2>4. QED
    BY <1>2, <2>1, <2>3
<1>3. CASE tx.fn = "StopThingVisor"
  <2> DEFINE old == d[ThingVisorKey(tx.tv)]
  <2>1. /\ old # Nil
        /\ w = Put(ThingVisorKey(tx.tv), [old EXCEPT !.status = STATUS_STOPPING])
    BY <1>3 DEF StopThingVisor, IsRunning
  <2>2. old \in ThingVisorRecord
    BY <1>3, <2>1 DEF LedgerType
  <2>3. [old EXCEPT !.status = STATUS_STOPPING] \in ThingVisorRecord
    BY <1>0, <2>2 DEF ThingVisorRecord
  <2>4. QED
    BY <1>3, <2>1, <2>3
<1>4. CASE tx.fn = "DeleteThingVisor"
  <2>1. w = Del({ThingVisorKey(tx.tv)})
    BY <1>4 DEF DeleteThingVisor
  <2>2. QED
    BY <1>4, <2>1
<1>5. CASE tx.fn \in {"AddVThingToThingVisor", "UpdateVThingOfThingVisor"}
  <2>1. w = Put(VThingTVKey(tx.vThing), tx.details)
    BY <1>5 DEF AddVThingToThingVisor, UpdateVThingOfThingVisor
  <2>2. QED
    BY <1>5, <2>1
<1>6. CASE tx.fn = "DeleteVThingFromThingVisor"
  <2>1. w = Del({VThingTVKey(tx.vThing)})
    BY <1>6 DEF DeleteVThingFromThingVisor
  <2>2. QED
    BY <1>6, <2>1
<1>7. CASE tx.fn \in {"AddFlavour", "UpdateFlavour", "DeleteFlavour"}
  <2>1. CASE tx.fn = "AddFlavour"
    BY <1>0, <2>1 DEF AddFlavour
  <2>2. CASE tx.fn = "UpdateFlavour"
    BY <2>2 DEF UpdateFlavour
  <2>3. CASE tx.fn = "DeleteFlavour"
    <3>1. w = Del({FlavourKey(tx.flavour)})
      BY <2>3 DEF DeleteFlavour
    <3>2. {FlavourKey(tx.flavour)} \in SUBSET Keys
      BY <2>3
    <3>3. QED
      BY <3>1, <3>2
  <2>4. QED
    BY <1>7, <2>1, <2>2, <2>3
<1>8. CASE tx.fn \in {"AddVirtualSilo", "UpdateVirtualSilo"}
  <2>1. CASE tx.fn = "AddVirtualSilo"
    BY <1>0, <2>1 DEF AddVirtualSilo
  <2>2. CASE tx.fn = "UpdateVirtualSilo"
    BY <2>2 DEF UpdateVirtualSilo
  <2>3. QED
    BY <1>8, <2>1, <2>2
<1>9. CASE tx.fn = "DeleteVirtualSilo"
  <2> DEFINE ks == {VThingVSiloKey(tx.vSilo, v) : v \in tx.vThings} \cup {VSiloKey(tx.vSilo)}
  <2>1. w = Del(ks)
    BY <1>9 DEF DeleteVirtualSilo
  <2>2. ks \subseteq Keys
    BY <1>9
  <2>3. QED
    BY <2>1, <2>2
<1>10. CASE tx.fn \in {"AddVThingVSilo", "DeleteVThingVSilo"}
  <2>1. CASE tx.fn = "AddVThingVSilo"
    BY <2>1 DEF AddVThingVSilo
  <2>2. CASE tx.fn = "DeleteVThingVSilo"
    <3>1. w = Del({VThingVSiloKey(tx.vSilo, tx.vThing)})
      BY <2>2 DEF DeleteVThingVSilo
    <3>2. {VThingVSiloKey(tx.vSilo, tx.vThing)} \in SUBSET Keys
      BY <2>2
    <3>3. QED
      BY <3>1, <3>2
  <2>3. QED
    BY <1>10, <2>1, <2>2
<1>11. QED
  BY <1>1, <1>2, <1>3, <1>4, <1>5, <1>6, <1>7, <1>8, <1>9, <1>10
=================================================================================
