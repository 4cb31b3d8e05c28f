---------------------------- MODULE Ledger_proofs ----------------------------
(***************************************************************************)
(* The ledger of Ledger.tla, for every set of requests, every number of    *)
(* transactions in flight and every bound on the height: its invariants,   *)
(* and that it implements the atomic registry of Registry.tla.             *)
(***************************************************************************)
EXTENDS Ledger, Chaincode_proofs

(***************************************************************************)
(* The inductive invariant.  Next to the types and to the meaning of a     *)
(* version it remembers that the writes in flight were decided on what the *)
(* chaincode saw; only through "seen" can a commit know, versions being    *)
(* equal, that the decision still stands.                                  *)
(***************************************************************************)
DecidedOnSeen ==
  \A s \in Slots :
    flight[s] # Free => flight[s].writes \in Simulate(flight[s].tx, flight[s].seen)

IInv == TypeOK /\ VersionsIdentifyValues /\ DecidedOnSeen

(***************************************************************************)
(* A transaction that passes validation has decided on the current ledger. *)
(***************************************************************************)
LEMMA ValidMeansDecided ==
  ASSUME IInv, NEW s \in Slots, flight[s] # Free, Valid(s)
  PROVE  flight[s].writes \in Simulate(flight[s].tx, db)
<1> DEFINE tx == flight[s].tx
<1>1. tx \in Calls
  BY LedgerAssumption DEF IInv, TypeOK, FlightType
<1>2. \A k \in Reads(tx) : db[k] = flight[s].seen[k]
  BY DEF IInv, VersionsIdentifyValues, Valid
<1>3. Simulate(tx, db) = Simulate(tx, flight[s].seen)
  BY <1>1, <1>2, SimulateLocal
<1>4. QED
  BY <1>3 DEF IInv, DecidedOnSeen

(***************************************************************************)
(* The inductive invariant implies that valid transactions are current.    *)
(***************************************************************************)
LEMMA InvImpliesCurrent == IInv => ValidMeansCurrent
  BY ValidMeansDecided DEF ValidMeansCurrent

(***************************************************************************)
(* An empty ledger with nothing in flight satisfies the invariant.         *)
(***************************************************************************)
LEMMA InitInv == Init => IInv
<1> SUFFICES ASSUME Init PROVE IInv
  OBVIOUS
<1>1. LedgerType(db)
  BY NilEverywhere DEF Init, LedgerType
<1>2. QED
  BY <1>1, LedgerAssumption
     DEF Init, IInv, TypeOK, VersionsIdentifyValues, DecidedOnSeen

(***************************************************************************)
(* Endorsing records the versions, the values seen and the decision that   *)
(* was made on them, so the invariant holds of the new flight too.         *)
(***************************************************************************)
LEMMA EndorseInv ==
  ASSUME IInv, NEW s \in Slots, NEW tx \in Requests, Endorse(s, tx)
  PROVE  IInv'
<1> PICK w \in Simulate(tx, db) :
      flight' = [flight EXCEPT ![s] = Endorsed(tx, w)]
  BY DEF Endorse
<1>0. UNCHANGED <<db, ver, height>>
  BY DEF Endorse
<1>1. tx \in Calls /\ Reads(tx) \subseteq Keys
  BY LedgerAssumption, ReadsAreKeys
<1>2. /\ flight'[s] = Endorsed(tx, w)
      /\ DOMAIN flight' = Slots
      /\ \A r \in Slots \ {s} : flight'[r] = flight[r]
  BY DEF IInv, TypeOK
<1>3. FlightType(Endorsed(tx, w))
  <2>1. WriteType(w)
    BY <1>1, SimulateTyped DEF IInv, TypeOK
  <2>2. \A k \in Reads(tx) : ver[k] \in Nat /\ db[k] \in Values
    BY <1>1, NilEverywhere, LedgerAssumption DEF IInv, TypeOK, LedgerType
  <2>3. QED
    BY <2>1, <2>2 DEF FlightType, Endorsed, WriteType
<1>4. TypeOK'
  BY <1>0, <1>2, <1>3 DEF IInv, TypeOK, LedgerType, FlightType
<1>5. VersionsIdentifyValues'
  BY <1>0, <1>1, <1>2 DEF IInv, VersionsIdentifyValues, Endorsed
<1>6. DecidedOnSeen'
  <2>1. Simulate(tx, db) = Simulate(tx, [k \in Reads(tx) |-> db[k]])
    BY <1>1, SimulateLocal
  <2>2. QED
    BY <1>2, <2>1 DEF IInv, DecidedOnSeen, Endorsed
<1>7. QED
  BY <1>4, <1>5, <1>6 DEF IInv

(***************************************************************************)
(* A commit raises the height, gives the new height to what it writes and  *)
(* 0 to what it deletes, so no version in flight can match a new value.    *)
(***************************************************************************)
LEMMA CommitInv ==
  ASSUME IInv, NEW s \in Slots, Commit(s)
  PROVE  IInv'
<1> DEFINE w == flight[s].writes
<1>0. /\ flight[s] # Free /\ Valid(s) /\ height < MaxHeight
      /\ db' = Apply(w, db) /\ ver' = VersionAfter(w) /\ height' = height + 1
      /\ flight' = [flight EXCEPT ![s] = Free]
  BY DEF Commit
<1>1. /\ flight'[s] = Free
      /\ DOMAIN flight' = Slots
      /\ \A r \in Slots \ {s} : flight'[r] = flight[r]
  BY <1>0 DEF IInv, TypeOK
<1>2. WriteType(w)
  BY <1>0, ValidMeansDecided, SimulateTyped, LedgerAssumption
     DEF IInv, TypeOK, FlightType
<1>3. TypeOK'
  <2>1. LedgerType(db')
    BY <1>0, <1>2, ApplyTyped DEF IInv, TypeOK
  <2>2. height' \in 0..MaxHeight /\ ver' \in [Keys -> 0..MaxHeight]
    BY <1>0, LedgerAssumption DEF IInv, TypeOK, VersionAfter
  <2>3. QED
    BY <1>1, <2>1, <2>2 DEF IInv, TypeOK, FlightType
<1>4. VersionsIdentifyValues'
  <2>1. ASSUME NEW k \in Keys
        PROVE  ver'[k] <= height' /\ (ver'[k] = 0 <=> db'[k] = Nil)
    BY <1>0, LedgerAssumption
       DEF IInv, TypeOK, LedgerType, VersionsIdentifyValues, VersionAfter, Apply
  <2>2. ASSUME NEW r \in Slots, flight'[r] # Free,
               NEW k \in Reads(flight'[r].tx)
        PROVE  /\ flight'[r].ver[k] <= height'
               /\ flight'[r].ver[k] = 0 <=> flight'[r].seen[k] = Nil
               /\ ver'[k] = flight'[r].ver[k] => db'[k] = flight'[r].seen[k]
    <3> DEFINE f == flight[r]
    <3>1. flight'[r] = f /\ f # Free /\ FlightType(f)
      BY <1>1, <2>2 DEF IInv, TypeOK
    <3>2. k \in Keys /\ k \in Reads(f.tx)
      BY <2>2, <3>1, ReadsAreKeys, LedgerAssumption DEF FlightType
    <3>3. /\ f.ver[k] \in Nat /\ f.ver[k] <= height /\ height \in Nat
          /\ f.ver[k] = 0 <=> f.seen[k] = Nil
          /\ ver[k] = f.ver[k] => db[k] = f.seen[k]
      BY <3>1, <3>2, LedgerAssumption DEF IInv, TypeOK, FlightType, VersionsIdentifyValues
    <3>4. CASE k \notin DOMAIN w
      BY <1>0, <3>1, <3>2, <3>3, <3>4
         DEF IInv, TypeOK, LedgerType, VersionAfter, Apply
    <3>5. CASE k \in DOMAIN w /\ w[k] = Nil
      BY <1>0, <3>1, <3>2, <3>3, <3>5
         DEF IInv, TypeOK, LedgerType, VersionAfter, Apply
    <3>6. CASE k \in DOMAIN w /\ w[k] # Nil
      BY <1>0, <3>1, <3>2, <3>3, <3>6
         DEF IInv, TypeOK, LedgerType, VersionAfter, Apply
    <3>7. QED
      BY <3>4, <3>5, <3>6
  <2>3. QED
    BY <2>1, <2>2 DEF VersionsIdentifyValues
<1>5. DecidedOnSeen'
  BY <1>1 DEF IInv, DecidedOnSeen
<1>6. QED
  BY <1>3, <1>4, <1>5 DEF IInv

(***************************************************************************)
(* Dropping a transaction only frees its slot.                             *)
(***************************************************************************)
LEMMA DiscardInv ==
  ASSUME IInv, NEW s \in Slots, Discard(s)
  PROVE  IInv'
<1>1. /\ flight'[s] = Free
      /\ DOMAIN flight' = Slots
      /\ \A r \in Slots \ {s} : flight'[r] = flight[r]
      /\ UNCHANGED <<db, ver, height>>
  BY DEF Discard, IInv, TypeOK
<1>2. QED
  BY <1>1 DEF IInv, TypeOK, LedgerType, FlightType, VersionsIdentifyValues, DecidedOnSeen

(***************************************************************************)
(* Every step preserves the invariant.                                     *)
(***************************************************************************)
LEMMA StepInv == IInv /\ [Next]_vars => IInv'
<1> SUFFICES ASSUME IInv, [Next]_vars PROVE IInv'
  OBVIOUS
<1>1. CASE UNCHANGED vars
  BY <1>1 DEF vars, IInv, TypeOK, LedgerType, FlightType,
              VersionsIdentifyValues, DecidedOnSeen
<1>2. CASE Next
  BY <1>2, EndorseInv, CommitInv, DiscardInv DEF Next
<1>3. QED
  BY <1>1, <1>2

(***************************************************************************)
(* The collections, versions and in-flight transactions always have their  *)
(* shape, and the version of a key identifies its value: reading the       *)
(* version again at commit is as good as reading the value again.          *)
(***************************************************************************)
THEOREM LedgerInvariant == Spec => []IInv
  BY InitInv, StepInv, PTL DEF Spec

(***************************************************************************)
(* Collections, versions, height and flights always have their type.       *)
(***************************************************************************)
THEOREM TypeCorrect == Spec => []TypeOK
<1>1. IInv => TypeOK
  BY DEF IInv
<1>2. QED
  BY <1>1, LedgerInvariant, PTL

(***************************************************************************)
(* Version 0 is absence, no version is from the future, and an unchanged   *)
(* version means an unchanged value, in every reachable state.             *)
(***************************************************************************)
THEOREM VersionsAreFaithful == Spec => []VersionsIdentifyValues
<1>1. IInv => VersionsIdentifyValues
  BY DEF IInv
<1>2. QED
  BY <1>1, LedgerInvariant, PTL

(***************************************************************************)
(* Every transaction that would pass validation now carries the writes its *)
(* function would produce on the ledger as it is now.                      *)
(***************************************************************************)
THEOREM CommitsAreCurrent == Spec => []ValidMeansCurrent
  BY InvImpliesCurrent, LedgerInvariant, PTL

(***************************************************************************)
(* The chaincode seen through the registry is the chaincode: the instance  *)
(* substitutes every constant by itself.                                   *)
(***************************************************************************)
LEMMA SameChaincode ==
  ASSUME NEW tx, NEW d, NEW w
  PROVE  /\ Atomic!Simulate(tx, d) = Simulate(tx, d)
         /\ Atomic!Apply(w, d) = Apply(w, d)
         /\ Atomic!Keys = Keys
  BY DEF Atomic!Simulate, Simulate, Atomic!Apply, Apply, Atomic!Keys, Keys,
         Atomic!CreateThingVisor, CreateThingVisor, Atomic!UpdateThingVisor, UpdateThingVisor,
         Atomic!UpdateThingVisorPartial, UpdateThingVisorPartial,
         Atomic!DeleteThingVisor, DeleteThingVisor, Atomic!StopThingVisor, StopThingVisor,
         Atomic!AddVThingToThingVisor, AddVThingToThingVisor,
         Atomic!UpdateVThingOfThingVisor, UpdateVThingOfThingVisor,
         Atomic!DeleteVThingFromThingVisor, DeleteVThingFromThingVisor,
         Atomic!AddFlavour, AddFlavour, Atomic!UpdateFlavour, UpdateFlavour,
         Atomic!DeleteFlavour, DeleteFlavour, Atomic!AddVirtualSilo, AddVirtualSilo,
         Atomic!UpdateVirtualSilo, UpdateVirtualSilo, Atomic!DeleteVirtualSilo, DeleteVirtualSilo,
         Atomic!AddVThingVSilo, AddVThingVSilo, Atomic!DeleteVThingVSilo, DeleteVThingVSilo,
         Atomic!IsRunning, IsRunning, Atomic!Put, Put, Atomic!Del, Del,
         Atomic!ThingVisorKey, ThingVisorKey, Atomic!VThingTVKey, VThingTVKey,
         Atomic!FlavourKey, FlavourKey, Atomic!VSiloKey, VSiloKey,
         Atomic!VThingVSiloKey, VThingVSiloKey, Atomic!STATUS_PENDING, STATUS_PENDING,
         Atomic!STATUS_RUNNING, STATUS_RUNNING, Atomic!STATUS_STOPPING, STATUS_STOPPING

(***************************************************************************)
(* A commit is one accepted call of the registry.                          *)
(***************************************************************************)
LEMMA CommitIsInvoke ==
  ASSUME IInv, NEW s \in Slots, Commit(s)
  PROVE  Atomic!Next
<1> DEFINE tx == flight[s].tx
<1>1. /\ tx \in Requests
      /\ flight[s].writes \in Simulate(tx, db)
      /\ db' = Apply(flight[s].writes, db)
  BY ValidMeansDecided DEF Commit, IInv, TypeOK, FlightType
<1>2. Atomic!Invoke(tx)
  BY <1>1, SameChaincode DEF Atomic!Invoke
<1>3. QED
  BY <1>1, <1>2 DEF Atomic!Next

(***************************************************************************)
(* The ledger implements the registry: a commit applies one accepted call  *)
(* of the contract to the collections as they are at that moment, every    *)
(* other step is a stutter.                                                *)
(***************************************************************************)
THEOREM LedgerIsSerialisable == Spec => Serialisable
<1>1. Init => Atomic!Init
  BY SameChaincode DEF Init, Atomic!Init
<1>2. IInv /\ [Next]_vars => [Atomic!Next]_db
  <2>1. CASE UNCHANGED vars
    BY <2>1 DEF vars
  <2>2. ASSUME IInv, NEW s \in Slots, NEW tx \in Requests, Endorse(s, tx)
        PROVE  UNCHANGED db
    BY <2>2 DEF Endorse
  <2>3. ASSUME IInv, NEW s \in Slots, Discard(s)
        PROVE  UNCHANGED db
    BY <2>3 DEF Discard
  <2>4. QED
    BY <2>1, <2>2, <2>3, CommitIsInvoke DEF Next
<1>3. QED
  BY <1>1, <1>2, LedgerInvariant, PTL DEF Spec, Serialisable, Atomic!Spec

(***************************************************************************)
(* What a commit can have done to the ledger, seen from one key.           *)
(***************************************************************************)
LEMMA CommitWrites ==
  ASSUME IInv, [Next]_vars
  PROVE  \/ UNCHANGED db
         \/ \E s \in Slots, tx \in Requests :
              \E w \in Simulate(tx, db) :
                /\ flight[s] # Free /\ flight[s].tx = tx
                /\ db' = Apply(w, db)
<1>1. CASE UNCHANGED vars
  BY <1>1 DEF vars
<1>2. ASSUME NEW s \in Slots, Commit(s)
      PROVE  \E tx \in Requests :
               \E w \in Simulate(tx, db) :
                 /\ flight[s] # Free /\ flight[s].tx = tx
                 /\ db' = Apply(w, db)
  BY <1>2, ValidMeansDecided DEF Commit, IInv, TypeOK, FlightType
<1>3. ASSUME NEW s \in Slots, (\E tx \in Requests : Endorse(s, tx)) \/ Discard(s)
      PROVE  UNCHANGED db
  BY <1>3 DEF Endorse, Discard
<1>4. QED
  BY <1>1, <1>2, <1>3 DEF Next

(***************************************************************************)
(* The keys a write set touches, and the value it puts there.              *)
(***************************************************************************)
LEMMA WriteDomains ==
  /\ \A k, r : DOMAIN Put(k, r) = {k} /\ Put(k, r)[k] = r
  /\ \A ks : DOMAIN Del(ks) = ks
  BY DEF Put, Del

(***************************************************************************)
(* ThingVisor keys are in a collection of their own, one per ThingVisor.   *)
(***************************************************************************)
LEMMA KeysDiffer ==
  /\ \A t, v : ThingVisorKey(t) # VThingTVKey(v)
  /\ \A t, f : ThingVisorKey(t) # FlavourKey(f)
  /\ \A t, s : ThingVisorKey(t) # VSiloKey(s)
  /\ \A t, s, v : ThingVisorKey(t) # VThingVSiloKey(s, v)
  /\ \A t, u : ThingVisorKey(t) = ThingVisorKey(u) => t = u
  BY DEF ThingVisorKey, VThingTVKey, FlavourKey, VSiloKey, VThingVSiloKey

(***************************************************************************)
(* A call that leaves a ThingVisor stopping found it running or stopping.  *)
(***************************************************************************)
LEMMA StopsOnlyRunning ==
  ASSUME NEW tx \in Requests, NEW d, LedgerType(d), NEW w \in Simulate(tx, d),
         NEW t \in ThingVisors, ThingVisorKey(t) \in DOMAIN w,
         w[ThingVisorKey(t)] # Nil,
         w[ThingVisorKey(t)].status = STATUS_STOPPING
  PROVE  HasStatus(t, d, STATUS_RUNNING) \/ HasStatus(t, d, STATUS_STOPPING)
<1> DEFINE k == ThingVisorKey(t)
<1>0. tx \in Calls
  BY LedgerAssumption
<1>1. CASE tx.fn \in {"CreateThingVisor", "UpdateThingVisor"}
  <2>1. w = Put(ThingVisorKey(tx.tv), tx.rec)
    BY <1>1, Dispatch DEF CreateThingVisor, UpdateThingVisor
  <2>2. w[k] = tx.rec
    BY <2>1 DEF Put
  <2>3. QED
    BY <1>1, <2>2, ControllerAssumption
       DEF STATUS_PENDING, STATUS_RUNNING, STATUS_STOPPING
<1>2. CASE tx.fn = "UpdateThingVisorPartial"
  <2> DEFINE old == d[ThingVisorKey(tx.tv)]
             upd == [old EXCEPT
                       !.tvDescription = IF tx.tvDescription = "" THEN @ ELSE tx.tvDescription,
                       !.params = IF tx.params = "" THEN @ ELSE tx.params]
  <2>1. old # Nil /\ w = Put(ThingVisorKey(tx.tv), upd)
    BY <1>2, Dispatch DEF UpdateThingVisorPartial
  <2>2. old \in ThingVisorRecord
    BY <1>0, <1>2, <2>1, CallArguments, KeyTypes DEF LedgerType
  <2>3. upd.status = old.status
    BY <2>2 DEF ThingVisorRecord
  <2>4. k = ThingVisorKey(tx.tv) /\ w[k] = upd
    BY <2>1 DEF Put
  <2>5. QED
    BY <2>1, <2>3, <2>4 DEF HasStatus
<1>3. CASE tx.fn = "StopThingVisor"
  <2>1. IsRunning(tx.tv, d) /\ DOMAIN w = {ThingVisorKey(tx.tv)}
    <3>1. /\ IsRunning(tx.tv, d)
          /\ w = Put(ThingVisorKey(tx.tv),
                     [d[ThingVisorKey(tx.tv)] EXCEPT !.status = STATUS_STOPPING])
      BY <1>3, Dispatch DEF StopThingVisor
    <3>2. QED
      BY <3>1, WriteDomains
  <2>2. QED
    BY <2>1 DEF IsRunning, HasStatus
<1>4. CASE tx.fn = "DeleteThingVisor"
  BY <1>4, Dispatch DEF DeleteThingVisor, Del
<1>5. CASE tx.fn \in {"AddVThingToThingVisor", "UpdateVThingOfThingVisor",
                      "DeleteVThingFromThingVisor"}
  <2>1. DOMAIN w = {VThingTVKey(tx.vThing)}
    BY <1>5, Dispatch
       DEF AddVThingToThingVisor, UpdateVThingOfThingVisor,
           DeleteVThingFromThingVisor, Put, Del
  <2>2. QED
    BY <2>1, KeysDiffer
<1>6. CASE tx.fn \in {"AddFlavour", "UpdateFlavour", "DeleteFlavour"}
  <2>1. DOMAIN w = {FlavourKey(tx.flavour)}
    <3>1. w = Del({FlavourKey(tx.flavour)}) \/ \E r : w = Put(FlavourKey(tx.flavour), r)
      BY <1>6, Dispatch DEF AddFlavour, UpdateFlavour, DeleteFlavour
    <3>2. QED
      BY <3>1, WriteDomains
  <2>2. QED
    BY <2>1, KeysDiffer
<1>7. CASE tx.fn \in {"AddVirtualSilo", "UpdateVirtualSilo"}
  <2>1. DOMAIN w = {VSiloKey(tx.vSilo)}
    BY <1>7, Dispatch DEF AddVirtualSilo, UpdateVirtualSilo, Put
  <2>2. QED
    BY <2>1, KeysDiffer
<1>8. CASE tx.fn = "DeleteVirtualSilo"
  <2>1. DOMAIN w = {VThingVSiloKey(tx.vSilo, v) : v \in tx.vThings} \cup {VSiloKey(tx.vSilo)}
    BY <1>8, Dispatch, WriteDomains DEF DeleteVirtualSilo
  <2>2. QED
    BY <2>1, KeysDiffer
<1>9. CASE tx.fn \in {"AddVThingVSilo", "DeleteVThingVSilo"}
  <2>1. DOMAIN w = {VThingVSiloKey(tx.vSilo, tx.vThing)}
    <3>1. \/ w = Del({VThingVSiloKey(tx.vSilo, tx.vThing)})
          \/ \E r : w = Put(VThingVSiloKey(tx.vSilo, tx.vThing), r)
      BY <1>9, Dispatch DEF AddVThingVSilo, DeleteVThingVSilo
    <3>2. QED
      BY <3>1, WriteDomains
  <2>2. QED
    BY <2>1, KeysDiffer
<1>10. QED
  BY <1>0, <1>1, <1>2, <1>3, <1>4, <1>5, <1>6, <1>7, <1>8, <1>9, CallArguments

(***************************************************************************)
(* StopThingVisor is the only road to "stopping" and starts from           *)
(* "running", whatever else commits between its endorsement and its block. *)
(***************************************************************************)
THEOREM StopsAreOfRunning == Spec => StoppingOnlyFromRunning
<1> DEFINE A == \A t \in ThingVisors :
                  HasStatus(t, db', STATUS_STOPPING) =>
                    HasStatus(t, db, STATUS_RUNNING) \/ HasStatus(t, db, STATUS_STOPPING)
<1>1. IInv /\ [Next]_vars => [A]_vars
  <2> SUFFICES ASSUME IInv, [Next]_vars, NEW t \in ThingVisors,
                      HasStatus(t, db', STATUS_STOPPING)
               PROVE  HasStatus(t, db, STATUS_RUNNING) \/ HasStatus(t, db, STATUS_STOPPING)
    OBVIOUS
  <2>1. CASE UNCHANGED db
    BY <2>1 DEF HasStatus
  <2>2. ASSUME NEW tx \in Requests, NEW w \in Simulate(tx, db), db' = Apply(w, db)
        PROVE  HasStatus(t, db, STATUS_RUNNING) \/ HasStatus(t, db, STATUS_STOPPING)
    <3> DEFINE k == ThingVisorKey(t)
    <3>1. k \in Keys /\ DOMAIN db = Keys /\ LedgerType(db)
      BY KeyTypes DEF IInv, TypeOK, LedgerType
    <3>2. CASE k \in DOMAIN w
      <4>1. db'[k] = w[k]
        BY <2>2, <3>1, <3>2 DEF Apply
      <4>2. QED
        BY <3>1, <3>2, <4>1, StopsOnlyRunning DEF HasStatus
    <3>3. CASE k \notin DOMAIN w
      <4>1. db'[k] = db[k]
        BY <2>2, <3>1, <3>3 DEF Apply
      <4>2. QED
        BY <4>1 DEF HasStatus
    <3>4. QED
      BY <3>2, <3>3
  <2>3. QED
    BY <2>1, <2>2, CommitWrites
<1>2. QED
  BY <1>1, LedgerInvariant, PTL DEF Spec, StoppingOnlyFromRunning

(***************************************************************************)
(* A vThing is added only to a ThingVisor that is running at that moment.  *)
(***************************************************************************)
THEOREM VThingsJoinRunning == Spec => VThingNeedsRunning
<1> DEFINE A == \A s \in Slots :
                  /\ flight[s] # Free
                  /\ flight[s].tx.fn = "AddVThingToThingVisor"
                  /\ db' # db
                  /\ flight'[s] = Free
                  => IsRunning(flight[s].tx.tv, db)
<1>1. IInv /\ [Next]_vars => [A]_vars
  <2> SUFFICES ASSUME IInv, Next, NEW s \in Slots,
                      flight[s] # Free,
                      flight[s].tx.fn = "AddVThingToThingVisor",
                      db' # db, flight'[s] = Free
               PROVE  IsRunning(flight[s].tx.tv, db)
    BY DEF vars
  <2>1. PICK r \in Slots : Commit(r)
    BY DEF Next, Endorse, Discard
  <2>2. r = s
    BY <2>1 DEF Commit, IInv, TypeOK
  <2>3. Simulate(flight[s].tx, db) # {}
    BY <2>1, <2>2, ValidMeansDecided DEF Commit
  <2>4. QED
    BY <2>3, Dispatch DEF AddVThingToThingVisor
<1>2. QED
  BY <1>1, LedgerInvariant, PTL DEF Spec, VThingNeedsRunning

(***************************************************************************)
(* The keys of flavours and silos are in collections of their own.         *)
(***************************************************************************)
LEMMA OrderedKeysDiffer ==
  ASSUME NEW k \in OrderedKeys
  PROVE  /\ k \in Keys
         /\ \A t : k # ThingVisorKey(t)
         /\ \A v : k # VThingTVKey(v)
         /\ \A s, v : k # VThingVSiloKey(s, v)
  BY DEF OrderedKeys, Keys, ThingVisorKey, VThingTVKey, FlavourKey, VSiloKey,
         VThingVSiloKey

(***************************************************************************)
(* Which keys each call touches, and what it must have found there.        *)
(***************************************************************************)
LEMMA Touched ==
  ASSUME NEW tx \in Calls, NEW d, NEW w \in Simulate(tx, d)
  PROVE  /\ tx.fn \in {"CreateThingVisor", "UpdateThingVisor",
                       "UpdateThingVisorPartial", "StopThingVisor"} =>
              DOMAIN w = {ThingVisorKey(tx.tv)}
         /\ tx.fn \in {"AddVThingToThingVisor", "UpdateVThingOfThingVisor"} =>
              DOMAIN w = {VThingTVKey(tx.vThing)}
         /\ tx.fn = "AddVThingVSilo" =>
              DOMAIN w = {VThingVSiloKey(tx.vSilo, tx.vThing)}
         /\ tx.fn \in {"DeleteThingVisor", "DeleteVThingFromThingVisor",
                       "DeleteFlavour", "DeleteVirtualSilo",
                       "DeleteVThingVSilo"} =>
              \A k \in DOMAIN w : w[k] = Nil
         /\ tx.fn \in {"AddFlavour", "AddVirtualSilo"} =>
              \A k \in DOMAIN w :
                w[k] = [status |-> STATUS_PENDING, details |-> NoDetails]
         /\ tx.fn = "UpdateFlavour" =>
              /\ DOMAIN w = {FlavourKey(tx.flavour)}
              /\ d[FlavourKey(tx.flavour)] # Nil
         /\ tx.fn = "UpdateVirtualSilo" =>
              /\ DOMAIN w = {VSiloKey(tx.vSilo)}
              /\ d[VSiloKey(tx.vSilo)] # Nil
<1>1. ASSUME tx.fn \in {"CreateThingVisor", "UpdateThingVisor",
                        "UpdateThingVisorPartial", "StopThingVisor"}
      PROVE  DOMAIN w = {ThingVisorKey(tx.tv)}
  <2>1. \E r : w = Put(ThingVisorKey(tx.tv), r)
    <3>1. CASE tx.fn \in {"CreateThingVisor", "UpdateThingVisor"}
      BY <3>1, Dispatch DEF CreateThingVisor, UpdateThingVisor
    <3>2. CASE tx.fn = "UpdateThingVisorPartial"
      <4>1. w \in UpdateThingVisorPartial(tx, d)
        BY <3>2, Dispatch
      <4>2. QED
        BY <4>1 DEF UpdateThingVisorPartial
    <3>3. CASE tx.fn = "StopThingVisor"
      <4>1. w \in StopThingVisor(tx, d)
        BY <3>3, Dispatch
      <4>2. QED
        BY <4>1 DEF StopThingVisor
    <3>4. QED
      BY <1>1, <3>1, <3>2, <3>3
  <2>2. QED
    BY <2>1, WriteDomains
<1>2. ASSUME tx.fn \in {"AddVThingToThingVisor", "UpdateVThingOfThingVisor"}
      PROVE  DOMAIN w = {VThingTVKey(tx.vThing)}
  BY <1>2, Dispatch DEF AddVThingToThingVisor, UpdateVThingOfThingVisor, Put
<1>3. ASSUME tx.fn = "AddVThingVSilo"
      PROVE  DOMAIN w = {VThingVSiloKey(tx.vSilo, tx.vThing)}
  <2>1. w \in AddVThingVSilo(tx, d)
    BY <1>3, Dispatch
  <2>2. QED
    BY <2>1, WriteDomains DEF AddVThingVSilo
<1>4. ASSUME tx.fn \in {"DeleteThingVisor", "DeleteVThingFromThingVisor",
                        "DeleteFlavour", "DeleteVirtualSilo",
                        "DeleteVThingVSilo"}
      PROVE  \A k \in DOMAIN w : w[k] = Nil
  <2>1. \E ks : w = Del(ks)
    <3>1. CASE tx.fn = "DeleteThingVisor"
      BY <3>1, Dispatch DEF DeleteThingVisor
    <3>2. CASE tx.fn = "DeleteVThingFromThingVisor"
      BY <3>2, Dispatch DEF DeleteVThingFromThingVisor
    <3>3. CASE tx.fn = "DeleteFlavour"
      BY <3>3, Dispatch DEF DeleteFlavour
    <3>4. CASE tx.fn \in {"DeleteVirtualSilo", "DeleteVThingVSilo"}
      BY <3>4, Dispatch DEF DeleteVirtualSilo, DeleteVThingVSilo
    <3>5. QED
      BY <1>4, <3>1, <3>2, <3>3, <3>4
  <2>2. QED
    BY <2>1 DEF Del
<1>5. ASSUME tx.fn \in {"AddFlavour", "AddVirtualSilo"}
      PROVE  \A k \in DOMAIN w :
               w[k] = [status |-> STATUS_PENDING, details |-> NoDetails]
  <2> DEFINE new == [status |-> STATUS_PENDING, details |-> NoDetails]
  <2>1. \E k : w = Put(k, new)
    BY <1>5, Dispatch DEF AddFlavour, AddVirtualSilo
  <2>2. QED
    BY <2>1 DEF Put
<1>6. ASSUME tx.fn = "UpdateFlavour"
      PROVE  /\ DOMAIN w = {FlavourKey(tx.flavour)}
             /\ d[FlavourKey(tx.flavour)] # Nil
  <2>1. w \in UpdateFlavour(tx, d)
    BY <1>6, Dispatch
  <2>2. d[FlavourKey(tx.flavour)] # Nil /\ w = Put(FlavourKey(tx.flavour), tx.rec)
    BY <2>1 DEF UpdateFlavour
  <2>3. QED
    BY <2>2, WriteDomains
<1>7. ASSUME tx.fn = "UpdateVirtualSilo"
      PROVE  /\ DOMAIN w = {VSiloKey(tx.vSilo)}
             /\ d[VSiloKey(tx.vSilo)] # Nil
  <2>1. w \in UpdateVirtualSilo(tx, d)
    BY <1>7, Dispatch
  <2>2. d[VSiloKey(tx.vSilo)] # Nil /\ w = Put(VSiloKey(tx.vSilo), tx.rec)
    BY <2>1 DEF UpdateVirtualSilo
  <2>3. QED
    BY <2>2, WriteDomains
<1>8. QED
  BY <1>1, <1>2, <1>3, <1>4, <1>5, <1>6, <1>7

(***************************************************************************)
(* A call writes to an absent flavour or silo only the pending record of   *)
(* AddFlavour or AddVirtualSilo, or a deletion: the updates find the       *)
(* record missing and fail.                                                *)
(***************************************************************************)
LEMMA AddsPending ==
  ASSUME NEW tx \in Requests, NEW d, NEW w \in Simulate(tx, d),
         NEW k \in OrderedKeys, k \in DOMAIN w, d[k] = Nil
  PROVE  w[k] \in {Nil, [status |-> STATUS_PENDING, details |-> NoDetails]}
<1>1. tx \in Calls
  BY LedgerAssumption
<1>2. /\ k # ThingVisorKey(tx.tv)
      /\ k # VThingTVKey(tx.vThing)
      /\ k # VThingVSiloKey(tx.vSilo, tx.vThing)
  BY OrderedKeysDiffer
<1>3. CASE DOMAIN w \in {{ThingVisorKey(tx.tv)}, {VThingTVKey(tx.vThing)},
                         {VThingVSiloKey(tx.vSilo, tx.vThing)}}
  BY <1>2, <1>3
<1>4. CASE \/ \A i \in DOMAIN w : w[i] = Nil
           \/ \A i \in DOMAIN w :
                w[i] = [status |-> STATUS_PENDING, details |-> NoDetails]
  BY <1>4
<1>5. CASE \E i : DOMAIN w = {i} /\ d[i] # Nil
  BY <1>5
<1>6. \/ tx.fn \in {"CreateThingVisor", "UpdateThingVisor",
                     "UpdateThingVisorPartial", "StopThingVisor"}
      \/ tx.fn \in {"AddVThingToThingVisor", "UpdateVThingOfThingVisor"}
      \/ tx.fn = "AddVThingVSilo"
      \/ tx.fn \in {"DeleteThingVisor", "DeleteVThingFromThingVisor",
                     "DeleteFlavour", "DeleteVirtualSilo", "DeleteVThingVSilo"}
      \/ tx.fn \in {"AddFlavour", "AddVirtualSilo"}
      \/ tx.fn = "UpdateFlavour"
      \/ tx.fn = "UpdateVirtualSilo"
  BY <1>1, CallArguments
<1>7. QED
  BY <1>1, <1>3, <1>4, <1>5, <1>6, Touched

(***************************************************************************)
(* No late update of a background job brings a deleted flavour or silo     *)
(* back: an absent one reappears only as the pending record of its Add.    *)
(***************************************************************************)
THEOREM NothingIsResurrected == Spec => BornPending
<1> DEFINE new == {Nil, [status |-> STATUS_PENDING, details |-> NoDetails]}
           A == \A k \in OrderedKeys : db[k] = Nil => db'[k] \in new
<1>1. IInv /\ [Next]_vars => [A]_vars
  <2> SUFFICES ASSUME IInv, [Next]_vars, NEW k \in OrderedKeys, db[k] = Nil
               PROVE  db'[k] \in new
    OBVIOUS
  <2>1. CASE UNCHANGED db
    BY <2>1
  <2>2. ASSUME NEW tx \in Requests, NEW w \in Simulate(tx, db), db' = Apply(w, db)
        PROVE  db'[k] \in new
    <3>1. k \in DOMAIN db
      BY OrderedKeysDiffer DEF IInv, TypeOK, LedgerType
    <3>2. CASE k \in DOMAIN w
      <4>1. db'[k] = w[k]
        BY <2>2, <3>1, <3>2 DEF Apply
      <4>2. QED
        BY <3>2, <4>1, AddsPending
    <3>3. CASE k \notin DOMAIN w
      BY <2>2, <3>1, <3>3 DEF Apply
    <3>4. QED
      BY <3>2, <3>3
  <2>3. QED
    BY <2>1, <2>2, CommitWrites
<1>2. QED
  BY <1>1, LedgerInvariant, PTL DEF Spec, BornPending
=============================================================================
