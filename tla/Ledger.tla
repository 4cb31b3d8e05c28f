-------------------------------- MODULE Ledger --------------------------------
(***************************************************************************)
(* How a call of the contract really reaches the shared state.  A peer     *)
(* first endorses it: the chaincode runs against the current collections   *)
(* and the peer records the versions of the keys it read and the writes it *)
(* made.  The transaction is ordered later, and when its block is          *)
(* committed its writes are applied only if every key it read still has    *)
(* the version it had at endorsement; otherwise submitTransaction throws.  *)
(* Between the two steps any other transaction may commit.                 *)
(*                                                                         *)
(* A call that only writes (UpdateThingVisor, DeleteThingVisor,            *)
(* AddVThingVSilo, ...) has an empty read set and is always valid.         *)
(***************************************************************************)
EXTENDS Chaincode

CONSTANTS
  Requests,     \* the calls clients may make
  Slots,        \* transactions that can be in flight at the same time
  MaxHeight     \* bound: blocks committed

ASSUME LedgerAssumption ==
  /\ Requests \subseteq Calls
  /\ MaxHeight \in Nat

\* No caller hands UpdateThingVisor a record that is already stopping: the
\* controller only ever builds "pending" and "running" entries.
ASSUME ControllerAssumption ==
  \A tx \in Requests :
    tx.fn \in {"CreateThingVisor", "UpdateThingVisor"}
      => tx.rec.status \in {STATUS_PENDING, STATUS_RUNNING}

VARIABLES
  db,       \* the private data collections
  ver,      \* height at which each key was last written, 0 when it is absent
  height,   \* height of the last block with a valid transaction
  flight    \* transaction in each slot: endorsed, not yet committed

vars == <<db, ver, height, flight>>

Free == [tx |-> Nil]

(***************************************************************************)
(* A transaction in flight.  "seen" is what the chaincode was given for    *)
(* the keys it read; validation looks at the versions only.                *)
(***************************************************************************)
Endorsed(tx, w) ==
  [tx     |-> tx,
   ver    |-> [k \in Reads(tx) |-> ver[k]],
   seen   |-> [k \in Reads(tx) |-> db[k]],
   writes |-> w]

Init ==
  /\ db = [k \in Keys |-> Nil]
  /\ ver = [k \in Keys |-> 0]
  /\ height = 0
  /\ flight = [s \in Slots |-> Free]

Endorse(s, tx) ==
  /\ flight[s] = Free
  /\ \E w \in Simulate(tx, db) :
       flight' = [flight EXCEPT ![s] = Endorsed(tx, w)]
  /\ UNCHANGED <<db, ver, height>>

AlwaysValid(s) == TRUE

Valid(s) ==
  \A k \in Reads(flight[s].tx) : ver[k] = flight[s].ver[k]

SameVersionAfter(w) == [k \in Keys |-> IF k \in DOMAIN w /\ w[k] = Nil THEN 0
                                       ELSE IF k \in DOMAIN w /\ ver[k] = 0
                                            THEN height + 1 ELSE ver[k]]

VersionAfter(w) ==
  [k \in Keys |-> IF k \notin DOMAIN w THEN ver[k]
                  ELSE IF w[k] = Nil THEN 0 ELSE height + 1]

Commit(s) ==
  /\ flight[s] # Free
  /\ Valid(s)
  /\ height < MaxHeight
  /\ db' = Apply(flight[s].writes, db)
  /\ ver' = VersionAfter(flight[s].writes)
  /\ height' = height + 1
  /\ flight' = [flight EXCEPT ![s] = Free]

\* The block marks it MVCC_READ_CONFLICT, or it never reaches a block because
\* the submitting controller died or the orderer was unreachable.
Discard(s) ==
  /\ flight[s] # Free
  /\ flight' = [flight EXCEPT ![s] = Free]
  /\ UNCHANGED <<db, ver, height>>

Next ==
  \E s \in Slots : \/ \E tx \in Requests : Endorse(s, tx)
                   \/ Commit(s)
                   \/ Discard(s)

Spec == Init /\ [][Next]_vars

(***************************************************************************)
(* Type invariant: collections, versions and flights have their shape.     *)
(***************************************************************************)
FlightType(f) ==
  /\ f.tx \in Requests
  /\ f.ver \in [Reads(f.tx) -> Nat]
  /\ f.seen \in [Reads(f.tx) -> Values]
  /\ DOMAIN f.writes \subseteq Keys

TypeOK ==
  /\ LedgerType(db)
  /\ ver \in [Keys -> 0..MaxHeight]
  /\ height \in 0..MaxHeight
  /\ DOMAIN flight = Slots
  /\ \A s \in Slots : flight[s] = Free \/ FlightType(flight[s])

(***************************************************************************)
(* A version number identifies a value: version 0 is exactly absence, no   *)
(* version is from the future, and as long as a key still has the version  *)
(* a transaction read, it still has the value the chaincode was shown.     *)
(* This is what makes the version check of a commit sufficient.            *)
(***************************************************************************)
VersionsIdentifyValues ==
  /\ \A k \in Keys : ver[k] <= height /\ (ver[k] = 0 <=> db[k] = Nil)
  /\ \A s \in Slots : flight[s] # Free =>
       \A k \in Reads(flight[s].tx) :
         /\ flight[s].ver[k] <= height
         /\ flight[s].ver[k] = 0 <=> flight[s].seen[k] = Nil
         /\ ver[k] = flight[s].ver[k] => db[k] = flight[s].seen[k]

(***************************************************************************)
(* A transaction that would be committed now carries exactly the writes    *)
(* its function would produce if it ran on the current ledger: whatever    *)
(* was committed since its endorsement did not touch its decision.         *)
(***************************************************************************)
ValidMeansCurrent ==
  \A s \in Slots :
    flight[s] # Free /\ Valid(s) => flight[s].writes \in Simulate(flight[s].tx, db)

(***************************************************************************)
(* The ledger implements the registry: a commit is one accepted call,      *)
(* everything else leaves the registry as it was.                          *)
(***************************************************************************)
Atomic == INSTANCE Registry WITH db <- db, Requests <- Requests

Serialisable == Atomic!Spec

(***************************************************************************)
(* StopThingVisor (assetTransfer.go:242-272) is the only road to           *)
(* "stopping", and it starts from "running": a stop that was endorsed      *)
(* against a running ThingVisor is not applied to one that has been        *)
(* deleted, re-created or set back to pending in the meantime.             *)
(***************************************************************************)
HasStatus(t, d, st) ==
  d[ThingVisorKey(t)] # Nil /\ d[ThingVisorKey(t)].status = st

StoppingOnlyFromRunning ==
  [][\A t \in ThingVisors :
       HasStatus(t, db', STATUS_STOPPING) =>
         HasStatus(t, db, STATUS_RUNNING) \/ HasStatus(t, db, STATUS_STOPPING)]_vars

(***************************************************************************)
(* A vThing is registered by AddVThingToThingVisor only while its          *)
(* ThingVisor is running at the moment of the commit, not merely when the  *)
(* callback polled ThingVisorRunning or when the peer endorsed the call.   *)
(***************************************************************************)
VThingNeedsRunning ==
  [][\A s \in Slots :
       /\ flight[s] # Free
       /\ flight[s].tx.fn = "AddVThingToThingVisor"
       /\ db' # db
       /\ flight'[s] = Free
       => IsRunning(flight[s].tx.tv, db)]_vars

(***************************************************************************)
(* A flavour or Virtual Silo that is absent can only (re)appear as the     *)
(* pending record of AddFlavour or AddVirtualSilo: the late update of a    *)
(* background job never brings a deleted one back.                         *)
(***************************************************************************)
OrderedKeys == {FlavourKey(f) : f \in Flavours} \cup {VSiloKey(s) : s \in VSilos}

BornPending ==
  [][\A k \in OrderedKeys :
       db[k] = Nil =>
         db'[k] \in {Nil, [status |-> STATUS_PENDING, details |-> NoDetails]}]_vars
===============================================================================
