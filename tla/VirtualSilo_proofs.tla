---------------------------- MODULE VirtualSilo_proofs ----------------------------
(***************************************************************************)
(* Theorems about module VirtualSiloLifecycle, for any requests,           *)
(* callbacks, sessions and faults.                                         *)
(***************************************************************************)
EXTENDS VirtualSiloLifecycle, Controller_proofs

(***************************************************************************)
(* The details a record may name apart from the request that created its   *)
(* Deployment are told apart from each other and from the requests.        *)
(***************************************************************************)
LEMMA DetailFacts ==
  /\ Yaml \in Details /\ NoYaml \in Details /\ NoDetails \in Details
  /\ NoDeployment \in Details /\ Requests \subseteq Details
  /\ Yaml \notin Requests \cup {NoDetails, NoDeployment}
  /\ NoYaml \notin Requests \cup {NoDetails, NoDeployment}
  /\ NoDeployment \notin Requests /\ NoDetails \notin Requests
  /\ NoDeployment # NoDetails
  /\ {STATUS_PENDING, STATUS_RUNNING, "ready", "error"} \subseteq Status
  BY ChaincodeAssumption, ProcessAssumption, SiloAssumption
  DEF ChaincodeAssumption, ProcessAssumption, SiloAssumption, Status,
      STATUS_PENDING, STATUS_RUNNING

(***************************************************************************)
(* The requests this module is about, and the one vThing of those that     *)
(* attach or detach.                                                       *)
(***************************************************************************)
LEMMA RequestFacts ==
  /\ \A r \in Requests : Kind[r] \in {"create", "destroy", "forceDestroy", "attach",
                                      "detach", "addFlavour", "deleteFlavour"}
  /\ \A r \in Requests : Target[r] \in SUBSET VThings
  /\ \A r \in Requests : Kind[r] \in {"attach", "detach"}
                           => \E v \in VThings : Target[r] = {v}
  /\ Creations = {r \in Requests : Kind[r] = "create"}
  /\ Queued = {r \in Requests : Kind[r] \in {"create", "addFlavour"}}
  BY SiloAssumption DEF SiloAssumption, Creations, Queued

\* The silo, the flavour and the attachments have keys of their own.
LEMMA SiloKeys ==
  /\ VSiloKey(vSilo) \in Keys /\ FlavourKey(flavour) \in Keys
  /\ \A v \in VThings : VThingVSiloKey(vSilo, v) \in Keys
  /\ VSiloKey(vSilo) # FlavourKey(flavour)
  /\ \A v \in VThings : /\ VThingVSiloKey(vSilo, v) # VSiloKey(vSilo)
                        /\ VThingVSiloKey(vSilo, v) # FlavourKey(flavour)
  /\ \A v, w \in VThings : VThingVSiloKey(vSilo, v) = VThingVSiloKey(vSilo, w) => v = w
<1>1. vSilo \in VSilos /\ flavour \in Flavours
  BY SiloAssumption DEF SiloAssumption
<1>2. QED
  BY <1>1, KeyTypes DEF VSiloKey, FlavourKey, VThingVSiloKey

\* What the ledger has of the silo, the flavour and the attachments has their
\* types.
LEMMA RecordTypes ==
  ASSUME LedgerType(db)
  PROVE  /\ Silo \in Record \cup {Nil} /\ Flavour \in Record \cup {Nil}
         /\ Attached \subseteq VThings
<1>1. vSilo \in VSilos /\ flavour \in Flavours
  BY SiloAssumption DEF SiloAssumption
<1>2. QED
  BY <1>1, KeyTypes DEF LedgerType, Silo, Flavour, Attached

\* The fields of a record are what it was made of.
LEMMA RecordFields ==
  ASSUME NEW st \in Status, NEW d \in Details
  PROVE  LET rec == [status |-> st, details |-> d]
         IN  rec \in Record /\ rec # Nil /\ rec.status = st /\ rec.details = d
<1> DEFINE rec == [status |-> st, details |-> d]
<1>1. rec \in Record /\ rec.status = st /\ rec.details = d
  BY DEF Record
<1>2. rec # Nil
  BY <1>1, ChaincodeAssumption DEF ChaincodeAssumption
<1>3. QED
  BY <1>1, <1>2

-------------------------------------------------------------------------------
(***************************************************************************)
(* What the calls of the contract do to the silo, its attachments and its  *)
(* flavour.                                                                *)
(***************************************************************************)
SameView == Silo' = Silo /\ Flavour' = Flavour /\ Attached' = Attached

FlavourWritten(st) ==
  /\ Flavour' # Nil /\ Flavour'.status = st
  /\ Silo' = Silo /\ Attached' = Attached

FlavourDeleted ==
  Flavour # Nil /\ Flavour' = Nil /\ Silo' = Silo /\ Attached' = Attached

SiloWritten(st, details) ==
  /\ Silo' # Nil /\ Silo'.status = st /\ Silo'.details = details
  /\ Flavour' = Flavour /\ Attached' = Attached

SiloDropped(vs) == Silo' = Nil /\ Flavour' = Flavour /\ Attached' = Attached \ vs

VThingAttached(v) ==
  Silo' = Silo /\ Flavour' = Flavour /\ Attached' = Attached \cup {v}

VThingDetached(v) ==
  Silo' = Silo /\ Flavour' = Flavour /\ Attached' = Attached \ {v}

\* The same ledger has the same silo, flavour and attachments.
LEMMA SameLedger == db' = db => SameView
  BY DEF SameView, Silo, Flavour, Attached

\* A committed write changes the keys it names and no other.
LEMMA ApplyWrites ==
  ASSUME LedgerType(db), NEW w, db' = Apply(w, db)
  PROVE  \A k \in Keys : db'[k] = IF k \in DOMAIN w THEN w[k] ELSE db[k]
  BY DEF LedgerType, Apply

\* Writing the flavour writes neither the silo nor an attachment.
LEMMA PutFlavour ==
  ASSUME LedgerType(db), NEW rec, db' = Apply(Put(FlavourKey(flavour), rec), db)
  PROVE  Flavour' = rec /\ Silo' = Silo /\ Attached' = Attached
<1>1. \A k \in Keys : db'[k] = IF k = FlavourKey(flavour) THEN rec ELSE db[k]
  BY ApplyWrites DEF Put
<1>2. QED
  BY <1>1, SiloKeys DEF Flavour, Silo, Attached

\* Writing the silo writes neither the flavour nor an attachment.
LEMMA PutSilo ==
  ASSUME LedgerType(db), NEW rec, db' = Apply(Put(VSiloKey(vSilo), rec), db)
  PROVE  Silo' = rec /\ Flavour' = Flavour /\ Attached' = Attached
<1>1. \A k \in Keys : db'[k] = IF k = VSiloKey(vSilo) THEN rec ELSE db[k]
  BY ApplyWrites DEF Put
<1>2. QED
  BY <1>1, SiloKeys DEF Flavour, Silo, Attached

\* Writing an attachment writes that one only.
LEMMA PutAttachment ==
  ASSUME LedgerType(db), NEW v \in VThings, NEW rec,
         db' = Apply(Put(VThingVSiloKey(vSilo, v), rec), db)
  PROVE  /\ Silo' = Silo /\ Flavour' = Flavour
         /\ Attached' = IF rec = Nil THEN Attached \ {v} ELSE Attached \cup {v}
<1>1. \A k \in Keys : db'[k] = IF k = VThingVSiloKey(vSilo, v) THEN rec ELSE db[k]
  BY ApplyWrites DEF Put
<1>2. Silo' = Silo /\ Flavour' = Flavour
  BY <1>1, SiloKeys DEF Flavour, Silo
<1>3. \A u \in VThings : db'[VThingVSiloKey(vSilo, u)]
                           = IF u = v THEN rec ELSE db[VThingVSiloKey(vSilo, u)]
  BY <1>1, SiloKeys
<1>4. QED
  BY <1>2, <1>3 DEF Attached

\* Adding a flavour needs that there is none, and leaves a pending one.
LEMMA AddFlavourDoes ==
  ASSUME LedgerType(db)
  PROVE  /\ AddFlavourCall \in Calls
         /\ Committed(AddFlavourCall) => Flavour = Nil /\ FlavourWritten(STATUS_PENDING)
         /\ Simulate(AddFlavourCall, db) = {} => Flavour # Nil
<1> DEFINE new == [status |-> STATUS_PENDING, details |-> NoDetails]
<1>1. Simulate(AddFlavourCall, db) =
        IF Flavour = Nil THEN {Put(FlavourKey(flavour), new)} ELSE {}
  BY Dispatch DEF AddFlavourCall, AddFlavour, Flavour
<1>2. new # Nil /\ new.status = STATUS_PENDING
  BY RecordFields, DetailFacts
<1>3. AddFlavourCall \in Calls
  BY SiloAssumption DEF SiloAssumption, AddFlavourCall, Calls, FlavourCalls
<1> HIDE DEF new
<1>4. QED
  BY <1>1, <1>2, <1>3, PutFlavour DEF Committed, FlavourWritten

\* Deleting a flavour needs one and takes it away.
LEMMA DeleteFlavourDoes ==
  ASSUME LedgerType(db)
  PROVE  /\ DeleteFlavourCall \in Calls
         /\ Committed(DeleteFlavourCall) => FlavourDeleted
         /\ Simulate(DeleteFlavourCall, db) = {} => Flavour = Nil
<1>1. Simulate(DeleteFlavourCall, db) =
        IF Flavour = Nil THEN {} ELSE {Put(FlavourKey(flavour), Nil)}
  BY Dispatch DEF DeleteFlavourCall, DeleteFlavour, Flavour, Del, Put
<1>2. DeleteFlavourCall \in Calls
  BY SiloAssumption DEF SiloAssumption, DeleteFlavourCall, Calls, FlavourCalls
<1>3. QED
  BY <1>1, <1>2, PutFlavour DEF Committed, FlavourDeleted

\* Writing how a flavour stands needs one.
LEMMA FlavourCallDoes ==
  ASSUME LedgerType(db), NEW st \in {"ready", "error"}
  PROVE  /\ FlavourCall(st) \in Calls
         /\ Committed(FlavourCall(st)) => Flavour # Nil /\ FlavourWritten(st)
         /\ Simulate(FlavourCall(st), db) = {} => Flavour = Nil
<1> DEFINE new == [status |-> st, details |-> Yaml]
<1>1. Simulate(FlavourCall(st), db) =
        IF Flavour = Nil THEN {} ELSE {Put(FlavourKey(flavour), new)}
  BY Dispatch DEF FlavourCall, UpdateFlavour, Flavour
<1>2. new # Nil /\ new.status = st /\ new \in Record
  BY RecordFields, DetailFacts
<1>3. FlavourCall(st) \in Calls
  BY <1>2, SiloAssumption DEF SiloAssumption, FlavourCall, Calls, FlavourCalls
<1> HIDE DEF new
<1>4. QED
  BY <1>1, <1>2, <1>3, PutFlavour DEF Committed, FlavourWritten

\* Creating a silo needs that there is none, and leaves a pending one with no
\* details.
LEMMA AddSiloDoes ==
  ASSUME LedgerType(db)
  PROVE  /\ AddSiloCall \in Calls
         /\ Committed(AddSiloCall) => Silo = Nil /\ SiloWritten(STATUS_PENDING, NoDetails)
         /\ Simulate(AddSiloCall, db) = {} => Silo # Nil
<1> DEFINE new == [status |-> STATUS_PENDING, details |-> NoDetails]
<1>1. Simulate(AddSiloCall, db) =
        IF Silo = Nil THEN {Put(VSiloKey(vSilo), new)} ELSE {}
  BY Dispatch DEF AddSiloCall, AddVirtualSilo, Silo
<1>2. new # Nil /\ new.status = STATUS_PENDING /\ new.details = NoDetails
  BY RecordFields, DetailFacts
<1>3. AddSiloCall \in Calls
  BY SiloAssumption DEF SiloAssumption, AddSiloCall, Calls, VSiloCalls
<1> HIDE DEF new
<1>4. QED
  BY <1>1, <1>2, <1>3, PutSilo DEF Committed, SiloWritten

\* Writing how a silo stands needs one.
LEMMA SiloCallDoes ==
  ASSUME LedgerType(db), NEW st \in {STATUS_PENDING, STATUS_RUNNING},
         NEW d \in Details
  PROVE  /\ SiloCall(st, d) \in Calls
         /\ Committed(SiloCall(st, d)) => Silo # Nil /\ SiloWritten(st, d)
         /\ Simulate(SiloCall(st, d), db) = {} <=> Silo = Nil
<1> DEFINE new == [status |-> st, details |-> d]
<1>1. Simulate(SiloCall(st, d), db) =
        IF Silo = Nil THEN {} ELSE {Put(VSiloKey(vSilo), new)}
  BY Dispatch DEF SiloCall, UpdateVirtualSilo, Silo
<1>2. new # Nil /\ new.status = st /\ new.details = d /\ new \in Record
  BY RecordFields, DetailFacts
<1>3. SiloCall(st, d) \in Calls
  BY <1>2, SiloAssumption DEF SiloAssumption, SiloCall, Calls, VSiloCalls
<1> HIDE DEF new
<1>4. QED
  BY <1>1, <1>2, <1>3, PutSilo DEF Committed, SiloWritten

\* Dropping the silo takes it and the attachments listed away, and is never
\* refused.
LEMMA DropDoes ==
  ASSUME LedgerType(db), NEW vs \in SUBSET VThings
  PROVE  /\ DropCall(vs) \in Calls
         /\ Committed(DropCall(vs)) => SiloDropped(vs)
         /\ Simulate(DropCall(vs), db) # {}
<1> DEFINE ks == {VThingVSiloKey(vSilo, v) : v \in vs} \cup {VSiloKey(vSilo)}
<1>1. Simulate(DropCall(vs), db) = {Del(ks)}
  BY Dispatch DEF DropCall, DeleteVirtualSilo
<1>2. DropCall(vs) \in Calls
  BY SiloAssumption DEF SiloAssumption, DropCall, Calls, VSiloCalls
<1>3. ASSUME db' = Apply(Del(ks), db)
      PROVE  SiloDropped(vs)
  <2>1. \A k \in Keys : db'[k] = IF k \in ks THEN Nil ELSE db[k]
    BY <1>3, ApplyWrites DEF Del
  <2>2. /\ VSiloKey(vSilo) \in ks /\ FlavourKey(flavour) \notin ks
        /\ \A u \in VThings : VThingVSiloKey(vSilo, u) \in ks <=> u \in vs
    BY SiloKeys
  <2> HIDE DEF ks
  <2>3. Silo' = Nil /\ Flavour' = Flavour
    BY <2>1, <2>2, SiloKeys DEF Silo, Flavour
  <2>4. \A u \in VThings : db'[VThingVSiloKey(vSilo, u)]
          = IF u \in vs THEN Nil ELSE db[VThingVSiloKey(vSilo, u)]
    BY <2>1, <2>2, SiloKeys
  <2>5. QED
    BY <2>3, <2>4 DEF SiloDropped, Attached
<1>4. QED
  BY <1>1, <1>2, <1>3 DEF Committed

\* Attaching writes the attachment and is never refused, whether or not there
\* is a silo.
LEMMA AttachDoes ==
  ASSUME LedgerType(db), NEW v \in VThings
  PROVE  /\ AttachCall(v) \in Calls
         /\ Committed(AttachCall(v)) => VThingAttached(v)
         /\ Simulate(AttachCall(v), db) # {}
<1>1. Simulate(AttachCall(v), db) = {Put(VThingVSiloKey(vSilo, v), NoDetails)}
  BY Dispatch DEF AttachCall, AddVThingVSilo
<1>2. NoDetails # Nil /\ AttachCall(v) \in Calls
  BY SiloAssumption, ChaincodeAssumption
  DEF SiloAssumption, ChaincodeAssumption, AttachCall, Calls, VSiloCalls
<1>3. QED
  BY <1>1, <1>2, PutAttachment DEF Committed, VThingAttached

\* Detaching takes the attachment away and is never refused.
LEMMA DetachDoes ==
  ASSUME LedgerType(db), NEW v \in VThings
  PROVE  /\ DetachCall(v) \in Calls
         /\ Committed(DetachCall(v)) => VThingDetached(v)
         /\ Simulate(DetachCall(v), db) # {}
<1>1. Simulate(DetachCall(v), db) = {Put(VThingVSiloKey(vSilo, v), Nil)}
  BY Dispatch DEF DetachCall, DeleteVThingVSilo, Del, Put
<1>2. DetachCall(v) \in Calls
  BY SiloAssumption DEF SiloAssumption, DetachCall, Calls, VSiloCalls
<1>3. QED
  BY <1>1, <1>2, PutAttachment DEF Committed, VThingDetached

-------------------------------------------------------------------------------
(***************************************************************************)
(* Where each request, job and callback may stand, and what it then has in *)
(* hand.  The type invariant needs it: what the next call carries depends  *)
(* on the steps before.                                                    *)
(***************************************************************************)
RequestLabels(kind) ==
  {"new", "ok", "failed"}
    \cup (CASE kind = "addFlavour"    -> {"addFlavour", "enqueue"}
            [] kind = "deleteFlavour" -> {"deleteFlavour"}
            [] kind = "create"        -> {"getFlavour", "create", "enqueue"}
            [] kind = "destroy"       -> {"get", "publish"}
            [] kind = "forceDestroy"  -> {"get", "k8s", "list", "drop", "cleanup"}
            [] kind = "attach"        -> {"getSilo", "check", "publish", "submit"}
            [] kind = "detach"        -> {"check", "submit", "publish"}
            [] OTHER                  -> {})

JobLabels(kind) ==
  {"none", "ok", "failed"}
    \cup (CASE kind = "create"     -> {"waiting", "pending", "subscribe", "service",
                                       "deploy", "running"}
            [] kind = "addFlavour" -> {"waiting", "flavour", "flavourError"}
            [] OTHER               -> {})

HandlerLabels ==
  {"idle", "restore", "restored", "get", "k8s", "list", "drop", "cleanup"}

\* Its job has not been queued.
Before == {"new", "addFlavour", "getFlavour", "create", "enqueue"}

Lists == [vThings : SUBSET VThings]

\* What it holds is a record, and what it holds is a list of vThings.
HoldsRecord == {"create", "k8s", "list"}
HoldsList   == {"drop", "restored"}

\* The handler of a creation and its job carry the flavour it has read.
RequestsPlaced ==
  \A r \in Requests :
    /\ pc[r] \in RequestLabels(Kind[r])
    /\ Kind[r] = "create" /\ pc[r] = "enqueue" => seen[r] \in Record

JobsPlaced ==
  \A r \in Queued :
    /\ pc[Job(r)] \in JobLabels(Kind[r])
    /\ pc[r] \in Before => pc[Job(r)] = "none"
    /\ Kind[r] = "create" /\ pc[Job(r)] \notin Ended \cup {"none"}
         => seen[Job(r)] \in Record

AttemptsLeft == \A j \in Jobs : pc[j] \notin Ended => attempts[j] < MaxAttempts

HandlersPlaced == \A h \in Handlers : pc[h] \in HandlerLabels

HandsFull ==
  \A a \in Actors : /\ seen[a] \in Record \cup Lists \cup {Nil}
                    /\ pc[a] \in HoldsRecord => seen[a] \in Record
                    /\ pc[a] \in HoldsList => seen[a] \in Lists

Places ==
  RequestsPlaced /\ JobsPlaced /\ AttemptsLeft /\ HandlersPlaced /\ HandsFull

\* Where a step may take an actor.
Fits(a, l, what) ==
  /\ a \in Requests =>
       /\ l \in RequestLabels(Kind[a])
       /\ l \in Before => pc[a] \in Before
       /\ Kind[a] = "create" /\ l = "enqueue" => what \in Record
  /\ \A r \in Queued :
       a = Job(r) => /\ l \in JobLabels(Kind[r]) /\ pc[a] # "none"
                     /\ Kind[r] = "create" => what \in Record
  /\ a \in Handlers => l \in HandlerLabels \cup Ended
  /\ what \in Record \cup Lists \cup {Nil}
  /\ l \in HoldsRecord => what \in Record
  /\ l \in HoldsList => what \in Lists

(***************************************************************************)
(* A step that takes its actor where it may go keeps all in place.         *)
(***************************************************************************)
LEMMA MovedPlaces ==
  ASSUME Places, NEW a \in Actors, NEW l, NEW what,
         Moved(a, l, what), Fits(a, l, what), AttemptsLeft'
  PROVE  Places'
<1> USE ActorFacts DEF Places, Moved, Fits
<1>1. RequestsPlaced'
  BY DEF RequestsPlaced, Ended
<1>2. JobsPlaced'
  <2> SUFFICES ASSUME NEW r \in Queued
               PROVE  /\ pc'[Job(r)] \in JobLabels(Kind[r])
                      /\ pc'[r] \in Before => pc'[Job(r)] = "none"
                      /\ Kind[r] = "create" /\ pc'[Job(r)] \notin Ended \cup {"none"}
                           => seen'[Job(r)] \in Record
    BY DEF JobsPlaced
  <2>1. CASE a = Job(r)
    BY <2>1 DEF JobsPlaced, Ended
  <2>2. CASE a # Job(r)
    BY <2>2 DEF JobsPlaced
  <2>3. QED
    BY <2>1, <2>2
<1>3. HandlersPlaced'
  BY DEF HandlersPlaced, HandlerLabels
<1>4. HandsFull'
  BY DEF HandsFull, HoldsRecord, HoldsList, Ended
<1>5. QED
  BY <1>1, <1>2, <1>3, <1>4

-------------------------------------------------------------------------------
(***************************************************************************)
(* The type invariant with the places, and what it says of one label.      *)
(***************************************************************************)
Commands == [cmd : {"addVThing", "deleteVThing", "destroyVSilo", "restoreVThings"},
             vThings : SUBSET VThings]
Reports  == {"restoreVThingsAck", "destroyVSiloAck"}
Pods     == [st : {"none", "up", "deaf"},
             data : SUBSET VThings, control : SUBSET VThings]

RestTyped ==
  /\ attempts \in [Jobs -> 0..MaxAttempts]
  /\ callback \in BOOLEAN /\ subscribed \in BOOLEAN /\ identity \in BOOLEAN
  /\ doomed \in BOOLEAN /\ service \in BOOLEAN
  /\ toPod \in Seq(Commands) /\ toCtl \in Seq(Reports)
  /\ deployment \in Creations \cup {NoDeployment}
  /\ pod \in [Creations -> Pods]

TypeInv == /\ LedgerType(db) /\ Stands /\ Places /\ RestTyped
           /\ session \in Sessions

\* The type invariant of the runs follows from the inductive one.
LEMMA TypeInvTypes == TypeInv => TypeOK
<1> SUFFICES ASSUME TypeInv
             PROVE  pc \in [Actors -> Labels]
                    /\ seen \in [Actors -> Record \cup Lists \cup {Nil}]
  BY DEF TypeInv, TypeOK, RestTyped, Commands, Reports, Pods, Lists
<1>1. \A r \in Requests : pc[r] \in Labels
  BY DEF TypeInv, Places, RequestsPlaced, RequestLabels, Labels, Ended, Tearing
<1>2. \A r \in Queued : pc[Job(r)] \in Labels
  BY DEF TypeInv, Places, JobsPlaced, JobLabels, Labels, Ended
<1>3. \A h \in Handlers : pc[h] \in Labels
  BY DEF TypeInv, Places, HandlersPlaced, HandlerLabels, Labels, Ended, Tearing
<1>4. \A a \in Actors : pc[a] \in Labels
  BY <1>1, <1>2, <1>3, ActorFacts DEF Actors
<1>5. QED
  BY <1>4 DEF TypeInv, Stands, Places, HandsFull

\* Where a request stands tells what kind of request it is.
LEMMA WhoStands ==
  ASSUME TypeInv
  PROVE  /\ \A r \in Requests :
              /\ pc[r] = "addFlavour" => Kind[r] = "addFlavour"
              /\ pc[r] = "deleteFlavour" => Kind[r] = "deleteFlavour"
              /\ pc[r] \in {"getFlavour", "create"} => Kind[r] = "create"
              /\ pc[r] = "enqueue" => Kind[r] \in {"create", "addFlavour"}
              /\ pc[r] = "get" => Kind[r] \in {"destroy", "forceDestroy"}
              /\ pc[r] = "publish" => Kind[r] \in {"destroy", "attach", "detach"}
              /\ pc[r] \in {"k8s", "list", "drop", "cleanup"} => Kind[r] = "forceDestroy"
              /\ pc[r] = "getSilo" => Kind[r] = "attach"
              /\ pc[r] \in {"check", "submit"} => Kind[r] \in {"attach", "detach"}
         /\ \A r \in Queued :
              /\ pc[Job(r)] \in {"pending", "subscribe", "service", "deploy",
                                 "running"} => Kind[r] = "create"
              /\ pc[Job(r)] = "waiting" => Kind[r] \in {"create", "addFlavour"}
              /\ pc[Job(r)] \in {"flavour", "flavourError"} => Kind[r] = "addFlavour"
              /\ pc[Job(r)] \notin {"get", "k8s", "list", "drop", "cleanup", "publish",
                                    "restore", "restored", "check", "submit"}
         /\ \A a \in Actors : pc[a] \in {"get", "k8s", "list", "drop", "cleanup"} =>
              a \in Handlers \/ a \in Requests
<1>1. \A r \in Requests : pc[r] \in RequestLabels(Kind[r])
  BY DEF TypeInv, Places, RequestsPlaced
<1>2. \A r \in Queued : pc[Job(r)] \in JobLabels(Kind[r])
  BY DEF TypeInv, Places, JobsPlaced
<1>3. \A r \in Requests :
        /\ pc[r] = "addFlavour" => Kind[r] = "addFlavour"
        /\ pc[r] = "deleteFlavour" => Kind[r] = "deleteFlavour"
        /\ pc[r] \in {"getFlavour", "create"} => Kind[r] = "create"
        /\ pc[r] = "enqueue" => Kind[r] \in {"create", "addFlavour"}
        /\ pc[r] = "get" => Kind[r] \in {"destroy", "forceDestroy"}
        /\ pc[r] = "publish" => Kind[r] \in {"destroy", "attach", "detach"}
        /\ pc[r] \in {"k8s", "list", "drop", "cleanup"} => Kind[r] = "forceDestroy"
        /\ pc[r] = "getSilo" => Kind[r] = "attach"
        /\ pc[r] \in {"check", "submit"} => Kind[r] \in {"attach", "detach"}
  BY <1>1 DEF RequestLabels
<1>4. \A r \in Queued :
        /\ pc[Job(r)] \in {"pending", "subscribe", "service", "deploy", "running"}
             => Kind[r] = "create"
        /\ pc[Job(r)] = "waiting" => Kind[r] \in {"create", "addFlavour"}
        /\ pc[Job(r)] \in {"flavour", "flavourError"} => Kind[r] = "addFlavour"
        /\ pc[Job(r)] \notin {"get", "k8s", "list", "drop", "cleanup", "publish",
                              "restore", "restored", "check", "submit"}
  BY <1>2 DEF JobLabels
<1>5. QED
  BY <1>3, <1>4, ActorFacts DEF Actors

\* A step that takes one actor to a place that fits it and keeps the types of
\* the rest keeps the type invariant.
LEMMA StepTyped ==
  ASSUME TypeInv, NEW a \in Actors, NEW l, NEW what,
         Moved(a, l, what), Stands', Fits(a, l, what), UNCHANGED session,
         AttemptsLeft', RestTyped', LedgerType(db')
  PROVE  TypeInv'
  BY MovedPlaces DEF TypeInv

\* A step that counts no attempt leaves every job that goes on with an attempt
\* left.
LEMMA KeptAttempts ==
  ASSUME TypeInv, NEW a \in Actors, NEW l, NEW what, Moved(a, l, what),
         attempts' = attempts, a \in Jobs => pc[a] \notin Ended
  PROVE  AttemptsLeft'
  BY ActorFacts DEF AttemptsLeft, TypeInv, Places, Moved, Ended

-------------------------------------------------------------------------------
(***************************************************************************)
(* A step that submits a transaction: the call commits, is refused, or     *)
(* throws and may have committed.                                          *)
(***************************************************************************)
Submitted(a, ok, err, Done, Refused) ==
  \/ Moved(a, ok, seen[a]) /\ Done
  \/ Moved(a, err, seen[a]) /\ SameView /\ Refused
  \/ Moved(a, err, seen[a]) /\ "submit" \in faults' /\ (SameView \/ Done)

KeptRest == UNCHANGED <<rest, pod, session>>

\* What stays the same keeps its types.
LEMMA KeptRestTyped == TypeInv /\ KeptRest => RestTyped'
  BY DEF TypeInv, RestTyped, KeptRest, rest, ctlVars, netVars, clusterVars

\* A transaction commits, is refused, or fails with an error of its own, and
\* moves its actor.
LEMMA SubmitDoes ==
  ASSUME TypeInv, NEW a \in Actors, NEW tx \in Calls, NEW ok, NEW err,
         Submit(a, tx, ok, err), KeptRest,
         a \in Jobs => pc[a] \notin Ended,
         Fits(a, ok, seen[a]), Fits(a, err, seen[a])
  PROVE  Submitted(a, ok, err, Committed(tx), Simulate(tx, db) = {}) /\ TypeInv'
<1>1. Stands /\ LedgerType(db)
  BY DEF TypeInv
<1>2. LedgerType(db')
  <2>1. Committed(tx) => LedgerType(db')
    BY <1>1, CommitTyped
  <2>2. db' = db => LedgerType(db')
    BY <1>1
  <2>3. QED
    BY <1>1, <2>1, <2>2, SubmitMoves
<1>3. Submitted(a, ok, err, Committed(tx), Simulate(tx, db) = {}) /\ Stands'
  BY <1>1, SubmitMoves, SameLedger DEF Submitted
<1>4. (Moved(a, ok, seen[a]) \/ Moved(a, err, seen[a])) /\ attempts' = attempts
  BY <1>3 DEF Submitted, KeptRest, rest
<1>5. RestTyped' /\ session' = session
  BY KeptRestTyped DEF KeptRest
<1>6. AttemptsLeft'
  BY <1>4, KeptAttempts
<1>7. QED
  BY <1>2, <1>3, <1>4, <1>5, <1>6, StepTyped

\* A step that moves one actor and leaves the ledger and the rest alone.
LEMMA GoTyped ==
  ASSUME TypeInv, NEW a \in Actors, NEW l, NEW what, GoSeeing(a, l, what),
         db' = db, session' = session, attempts' = attempts, RestTyped',
         a \in Jobs => pc[a] \notin Ended, Fits(a, l, what)
  PROVE  Moved(a, l, what) /\ SameView /\ TypeInv'
<1>1. Moved(a, l, what) /\ Stands'
  BY GoSeeingMoves DEF TypeInv
<1>2. LedgerType(db')
  BY DEF TypeInv
<1>3. QED
  BY <1>1, <1>2, SameLedger, KeptAttempts, StepTyped

-------------------------------------------------------------------------------
(***************************************************************************)
(* What each step does, in terms of single actors, the fields of the       *)
(* records and the messages under way.  Every invariant below is shown to  *)
(* be kept by going through these.                                         *)
(***************************************************************************)
KeptCtl     == UNCHANGED <<callback, subscribed, identity, doomed>>
KeptNet     == UNCHANGED <<toPod, toCtl, lost>>
KeptCluster == UNCHANGED <<deployment, service>>
KeptAll     == KeptCtl /\ KeptNet /\ KeptCluster /\ pod' = pod
KeptPlaces  == UNCHANGED <<pc, seen>>

DidAccept(r) ==
  /\ pc[r] = "new" /\ r \in session.requests /\ identity
  /\ Moved(r, FirstOf(Kind[r]), seen[r])
  /\ SameView /\ KeptAll

DidAdd(r) ==
  /\ pc[r] = "addFlavour" /\ Kind[r] = "addFlavour" /\ KeptAll
  /\ Submitted(r, "enqueue", "failed",
               Flavour = Nil /\ FlavourWritten(STATUS_PENDING), Flavour # Nil)

DidDelete(r) ==
  /\ pc[r] = "deleteFlavour" /\ Kind[r] = "deleteFlavour" /\ KeptAll
  /\ Submitted(r, "ok", "failed", FlavourDeleted, Flavour = Nil)

DidGetFlavour(r) ==
  /\ pc[r] = "getFlavour" /\ Kind[r] = "create"
  /\ \/ Flavour = Nil /\ Moved(r, "failed", seen[r])
     \/ Flavour # Nil /\ Moved(r, "create", Flavour)
  /\ SameView /\ KeptAll

DidCreate(r) ==
  /\ pc[r] = "create" /\ Kind[r] = "create" /\ KeptAll
  /\ Submitted(r, "enqueue", "failed",
               Silo = Nil /\ SiloWritten(STATUS_PENDING, NoDetails), Silo # Nil)

DidEnqueue(r) ==
  /\ pc[r] = "enqueue" /\ r \in Queued
  /\ SameView /\ KeptAll
  /\ \/ Moved(r, "failed", seen[r]) /\ "enqueue" \in faults'
     \/ /\ pc[Job(r)] = "none"
        /\ pc'[r] = "ok" /\ pc'[Job(r)] = "waiting"
        /\ seen'[r] = Nil /\ seen'[Job(r)] = seen[r]
        /\ \A b \in Actors \ {r, Job(r)} : pc'[b] = pc[b] /\ seen'[b] = seen[b]

DidGetSilo(r) ==
  /\ pc[r] = "getSilo" /\ Kind[r] = "attach"
  /\ \/ ~Is(STATUS_RUNNING) /\ Moved(r, "failed", seen[r])
     \/ Is(STATUS_RUNNING) /\ Moved(r, "check", Silo)
  /\ SameView /\ KeptAll

DidCheck(r) ==
  /\ pc[r] = "check"
  /\ \/ Kind[r] = "attach" /\ ~(Target[r] \subseteq Attached) /\ Moved(r, "publish", seen[r])
     \/ Kind[r] = "detach" /\ Target[r] \subseteq Attached /\ Moved(r, "submit", seen[r])
     \/ Kind[r] \in {"attach", "detach"} /\ Moved(r, "failed", seen[r])
  /\ SameView /\ KeptAll

DidSubmit(r) ==
  /\ pc[r] = "submit" /\ KeptAll
  /\ \E v \in VThings :
       /\ Target[r] = {v}
       /\ \/ Kind[r] = "attach" /\ Submitted(r, "ok", "failed", VThingAttached(v), FALSE)
          \/ Kind[r] = "detach" /\ Submitted(r, "publish", "failed", VThingDetached(v), FALSE)

DidPublish(r) ==
  /\ pc[r] = "publish" /\ Kind[r] \in {"destroy", "attach", "detach"}
  /\ Moved(r, IF Kind[r] = "attach" THEN "submit" ELSE "ok", seen[r])
  /\ \E m \in Commands :
       /\ m.vThings = Target[r]
       /\ m.cmd = CASE Kind[r] = "destroy" -> "destroyVSilo"
                    [] Kind[r] = "attach"  -> "addVThing"
                    [] Kind[r] = "detach"  -> "deleteVThing"
       /\ toPod' = Append(toPod, m)
  /\ SameView /\ KeptCtl /\ UNCHANGED <<toCtl, lost>> /\ KeptCluster /\ pod' = pod

DidBegin(r) ==
  /\ pc[Job(r)] = "waiting"
  /\ Moved(Job(r), IF Kind[r] = "create" THEN "pending" ELSE "flavour", seen[Job(r)])
  /\ SameView /\ KeptAll

DidPending(r) ==
  /\ pc[Job(r)] = "pending" /\ Kind[r] = "create" /\ KeptAll
  /\ \/ /\ Moved(Job(r), "subscribe", seen[Job(r)]) /\ identity
        /\ Silo # Nil /\ SiloWritten(STATUS_PENDING, NoDeployment)
     \/ /\ \E l \in {"waiting", "failed"} : Moved(Job(r), l, seen[Job(r)])
        /\ \/ SameView /\ (~identity \/ Silo = Nil)
           \/ /\ SameView \/ (Silo # Nil /\ SiloWritten(STATUS_PENDING, NoDeployment))
              /\ "submit" \in faults'

DidSubscribe(r) ==
  /\ pc[Job(r)] = "subscribe" /\ Kind[r] = "create"
  /\ Moved(Job(r), "service", seen[Job(r)])
  /\ callback' /\ subscribed' /\ UNCHANGED <<identity, doomed>>
  /\ SameView /\ KeptNet /\ KeptCluster /\ pod' = pod

DidWithoutYaml(r) ==
  /\ pc[Job(r)] = "service" /\ Kind[r] = "create" /\ ~HasYaml(r)
  /\ Moved(Job(r), "running", seen[Job(r)])
  /\ SameView /\ KeptAll

DidService(r) ==
  /\ pc[Job(r)] = "service" /\ Kind[r] = "create" /\ HasYaml(r)
  /\ \/ /\ Moved(Job(r), "deploy", seen[Job(r)])
        /\ ~(HasService /\ service) /\ service' = HasService
     \/ /\ Moved(Job(r), "ok", seen[Job(r)]) /\ service' = service
        /\ (HasService /\ service) \/ "k8s" \in faults'
  /\ deployment' = deployment
  /\ SameView /\ KeptCtl /\ KeptNet /\ pod' = pod

DidDeploy(r) ==
  /\ pc[Job(r)] = "deploy" /\ Kind[r] = "create"
  /\ \/ /\ Moved(Job(r), "running", seen[Job(r)])
        /\ deployment = NoDeployment /\ deployment' = r
     \/ /\ Moved(Job(r), "ok", seen[Job(r)]) /\ deployment' = deployment
        /\ deployment # NoDeployment \/ "k8s" \in faults'
  /\ service' = service
  /\ SameView /\ KeptCtl /\ KeptNet /\ pod' = pod

DidRunning(r) ==
  /\ pc[Job(r)] = "running" /\ Kind[r] = "create" /\ KeptAll
  /\ Submitted(Job(r), "ok", "ok",
               /\ Silo # Nil
               /\ SiloWritten(STATUS_RUNNING, IF HasYaml(r) THEN r ELSE NoYaml),
               Silo = Nil)

DidFlavour(r) ==
  /\ pc[Job(r)] = "flavour" /\ Kind[r] = "addFlavour" /\ KeptAll
  /\ \/ /\ \E l \in {"waiting", "failed"} : Moved(Job(r), l, seen[Job(r)])
        /\ SameView /\ ~identity
     \/ /\ identity
        /\ Submitted(Job(r), "ok", "flavourError",
                     Flavour # Nil /\ FlavourWritten("ready"), Flavour = Nil)

DidFlavourError(r) ==
  /\ pc[Job(r)] = "flavourError" /\ Kind[r] = "addFlavour" /\ KeptAll
  /\ Submitted(Job(r), "ok", "ok", Flavour # Nil /\ FlavourWritten("error"), Flavour = Nil)

\* Requests and callbacks.
Caller(a, kinds) == a \in Handlers \/ (a \in Requests /\ Kind[a] \in kinds)

AfterGet(a) == IF a \in Requests /\ Kind[a] = "destroy" THEN "publish" ELSE "k8s"

DidGet(a) ==
  /\ pc[a] = "get" /\ Caller(a, {"destroy", "forceDestroy"})
  /\ \/ Silo = Nil /\ Moved(a, "failed", seen[a])
     \/ Silo # Nil /\ Moved(a, AfterGet(a), Silo)
  /\ SameView /\ KeptAll

DidDeleteOnKubernetes(a) ==
  /\ pc[a] = "k8s" /\ Caller(a, {"forceDestroy"}) /\ seen[a] \in Record
  /\ \/ /\ Moved(a, "list", seen[a]) /\ ~Deployed(seen[a])
        /\ deployment' = deployment
     \/ /\ Moved(a, "list", seen[a]) /\ Deployed(seen[a])
        /\ deployment # NoDeployment /\ seen[a].details # NoYaml
        /\ deployment' = NoDeployment
     \/ /\ Moved(a, "failed", seen[a]) /\ deployment' = deployment
        /\ \/ Deployed(seen[a]) /\ (deployment = NoDeployment \/ seen[a].details = NoYaml)
           \/ "k8s" \in faults'
  /\ service' = service
  /\ SameView /\ KeptCtl /\ KeptNet /\ pod' = pod

DidList(a) ==
  /\ pc[a] = "list" /\ Caller(a, {"forceDestroy"}) /\ seen[a] \in Record
  /\ Moved(a, "drop", [vThings |-> Attached])
  /\ UNCHANGED <<callback, subscribed, identity>>
  /\ SameView /\ KeptNet /\ KeptCluster /\ pod' = pod

DidDrop(a) ==
  /\ pc[a] = "drop" /\ Caller(a, {"forceDestroy"}) /\ seen[a] \in Lists /\ KeptAll
  /\ Submitted(a, "cleanup", "failed", SiloDropped(seen[a].vThings), FALSE)

DidForget(a) ==
  /\ pc[a] = "cleanup" /\ Caller(a, {"forceDestroy"})
  /\ Moved(a, "ok", seen[a])
  /\ ~callback' /\ ~subscribed' /\ identity' = identity
  /\ SameView /\ KeptNet /\ KeptCluster /\ pod' = pod

DidRestore(h) ==
  /\ pc[h] = "restore" /\ Moved(h, "restored", [vThings |-> Attached])
  /\ SameView /\ KeptAll

DidPublishRestore(h) ==
  /\ pc[h] = "restored" /\ seen[h] \in Lists /\ Moved(h, "ok", seen[h])
  /\ \E m \in Commands : /\ m.cmd = "restoreVThings" /\ m.vThings = seen[h].vThings
                         /\ toPod' = Append(toPod, m)
  /\ SameView /\ KeptCtl /\ UNCHANGED <<toCtl, lost>> /\ KeptCluster /\ pod' = pod

DidLogin ==
  /\ KeptPlaces /\ SameView /\ UNCHANGED <<callback, subscribed, doomed>>
  /\ identity' /\ KeptNet /\ KeptCluster /\ pod' = pod

DidReceive ==
  /\ toCtl # <<>> /\ toCtl' = Tail(toCtl) /\ Head(toCtl) \in Reports
  /\ \/ /\ subscribed /\ callback /\ identity /\ lost' = lost
        /\ \E h \in Handlers :
             /\ pc[h] = "idle"
             /\ Moved(h, IF Head(toCtl) = "restoreVThingsAck" THEN "restore" ELSE "get",
                      seen[h])
     \/ /\ ~(subscribed /\ callback /\ identity) /\ KeptPlaces
        /\ lost' = lost \cup {Head(toCtl)}
  /\ SameView /\ KeptCtl /\ toPod' = toPod /\ KeptCluster /\ pod' = pod

SomeUp == \E a \in Creations : pod[a].st = "up"

\* What a message does to a program that listens, and to no other.
Takes(a, m) ==
  /\ pod'[a].st = IF pod[a].st = "up" /\ m.cmd = "destroyVSilo" THEN "deaf"
                  ELSE pod[a].st
  /\ pod'[a].data =
       IF pod[a].st # "up" THEN pod[a].data
       ELSE CASE m.cmd \in {"addVThing", "restoreVThings"} -> pod[a].data \cup m.vThings
              [] m.cmd = "deleteVThing" -> pod[a].data \ m.vThings
              [] OTHER -> pod[a].data

DidPodsReceive ==
  /\ toPod # <<>> /\ toPod' = Tail(toPod) /\ Head(toPod) \in Commands
  /\ \A a \in Creations : Takes(a, Head(toPod))
  /\ \E acks \in Seq(Reports) :
       /\ toCtl' = toCtl \o acks /\ Elems(acks) \subseteq {"destroyVSiloAck"}
       /\ Head(toPod).cmd = "destroyVSilo" /\ SomeUp => "destroyVSiloAck" \in Elems(acks)
       /\ Head(toPod).cmd # "destroyVSilo" => toCtl' = toCtl
  /\ SomeUp \/ Head(toPod).cmd \in lost'
  /\ KeptPlaces /\ SameView /\ KeptCtl /\ KeptCluster

DidPodStarts ==
  /\ \E a \in Creations :
       /\ deployment = a /\ pod[a].st = "none" /\ pod'[a].st = "up"
       /\ pod'[a].data = pod[a].data
       /\ \A b \in Creations : b # a => pod'[b] = pod[b]
  /\ toCtl' = Append(toCtl, "restoreVThingsAck")
  /\ KeptPlaces /\ SameView /\ KeptCtl /\ UNCHANGED <<toPod, lost>> /\ KeptCluster

\* A pod stops or is restarted, or nothing happens to it.
PodGoesOn(b) ==
  \/ pod'[b] = pod[b]
  \/ /\ pod'[b].st = "none" /\ pod'[b].data = {}
     /\ deployment # b \/ "pod" \in faults'

DidPod ==
  /\ \A b \in Creations : PodGoesOn(b)
  /\ KeptPlaces /\ SameView /\ KeptCtl /\ KeptNet /\ KeptCluster

DidLose ==
  /\ \/ /\ toPod # <<>> /\ toPod' = Tail(toPod) /\ Head(toPod).cmd \in lost'
        /\ toCtl' = toCtl
     \/ /\ toCtl # <<>> /\ toCtl' = Tail(toCtl) /\ Head(toCtl) \in lost'
        /\ toPod' = toPod
  /\ "loss" \in faults'
  /\ KeptPlaces /\ SameView /\ KeptCtl /\ KeptCluster /\ pod' = pod

DidRestart ==
  /\ \A r \in Requests : /\ pc'[r] = IF AtRest(r) THEN pc[r] ELSE "failed"
                         /\ seen'[r] = Nil
  /\ \A j \in Jobs : /\ pc'[j] = IF AtRest(j) THEN pc[j] ELSE "waiting"
                     /\ seen'[j] = seen[j]
  /\ \A h \in Handlers : pc'[h] = "idle" /\ seen'[h] = Nil
  /\ ~callback' /\ ~identity' /\ ~doomed' /\ subscribed' = subscribed
  /\ \/ toCtl' = toCtl
     \/ toCtl' = <<>> /\ Elems(toCtl) \subseteq lost'
  /\ toPod' = toPod
  /\ SameView /\ KeptCluster /\ pod' = pod
  /\ Interrupted \subseteq races'

RequestDid(r) ==
  \/ DidAccept(r) \/ DidAdd(r) \/ DidDelete(r) \/ DidGetFlavour(r) \/ DidCreate(r)
  \/ DidEnqueue(r) \/ DidGetSilo(r) \/ DidCheck(r) \/ DidSubmit(r) \/ DidPublish(r)

JobDid(r) ==
  \/ DidBegin(r) \/ DidPending(r) \/ DidSubscribe(r) \/ DidWithoutYaml(r)
  \/ DidService(r) \/ DidDeploy(r) \/ DidRunning(r) \/ DidFlavour(r)
  \/ DidFlavourError(r)

CallerDid(a) ==
  \/ DidGet(a) \/ DidDeleteOnKubernetes(a) \/ DidList(a) \/ DidDrop(a) \/ DidForget(a)

HandlerDid(h) == DidRestore(h) \/ DidPublishRestore(h)

OtherDid ==
  DidLogin \/ DidReceive \/ DidPodsReceive \/ DidPodStarts \/ DidPod \/ DidLose

DidStep ==
  \/ OtherDid
  \/ \E r \in Requests : RequestDid(r)
  \/ \E r \in Queued : JobDid(r)
  \/ \E a \in Actors : CallerDid(a)
  \/ \E h \in Handlers : HandlerDid(h)

Happened == DidStep \/ DidRestart
-------------------------------------------------------------------------------
(***************************************************************************)
(* Each action of the specification does that, and keeps the type          *)
(* invariant: the handlers of requests first.                              *)
(***************************************************************************)
LEMMA KeptByGoing ==
  KeptRest /\ UNCHANGED <<db, faults>> => KeptAll /\ SameView
  BY SameLedger DEF KeptRest, rest, ctlVars, netVars, clusterVars, KeptAll, KeptCtl,
     KeptNet, KeptCluster

\* What the first steps of the handlers do.
LEMMA HandlesDoes ==
  ASSUME TypeInv, NEW r \in Requests, UNCHANGED <<pod, session>>
  PROVE  /\ Accept(r) => DidAccept(r) /\ TypeInv'
         /\ Add(r) => DidAdd(r) /\ TypeInv'
         /\ Delete(r) => DidDelete(r) /\ TypeInv'
         /\ GetFlavour(r) => DidGetFlavour(r) /\ TypeInv'
         /\ Create(r) => DidCreate(r) /\ TypeInv'
<1>0. /\ r \in Actors /\ r \notin Jobs /\ r \notin Handlers /\ LedgerType(db)
      /\ \A q \in Queued : r # Job(q)
      /\ seen[r] \in Record \cup Lists \cup {Nil}
      /\ UNCHANGED rest => KeptRest
      /\ KeptRest => RestTyped' /\ KeptAll /\ attempts' = attempts
  BY ActorFacts, KeptRestTyped
  DEF TypeInv, Places, HandsFull, KeptRest, rest, ctlVars, netVars, clusterVars,
      KeptAll, KeptCtl, KeptNet, KeptCluster
<1>1. ASSUME Accept(r)
      PROVE  DidAccept(r) /\ TypeInv'
  <2>1. /\ pc[r] = "new" /\ r \in session.requests /\ identity
        /\ GoSeeing(r, FirstOf(Kind[r]), seen[r]) /\ db' = db /\ KeptRest
    BY <1>1, <1>0 DEF Accept, Start, Goto
  <2>2. Fits(r, FirstOf(Kind[r]), seen[r])
    BY <1>0, <2>1, RequestFacts
    DEF Fits, FirstOf, RequestLabels, Before, HoldsRecord, HoldsList
  <2>3. QED
    BY <1>0, <2>1, <2>2, GoTyped DEF DidAccept
<1>2. ASSUME Add(r)
      PROVE  DidAdd(r) /\ TypeInv'
  <2>1. pc[r] = "addFlavour" /\ Submit(r, AddFlavourCall, "enqueue", "failed") /\ KeptRest
    BY <1>0, <1>2 DEF Add
  <2>2. Kind[r] = "addFlavour"
    BY <2>1, WhoStands
  <2>3. Fits(r, "enqueue", seen[r]) /\ Fits(r, "failed", seen[r])
    BY <1>0, <2>1, <2>2 DEF Fits, RequestLabels, Before, HoldsRecord, HoldsList
  <2>4. /\ Submitted(r, "enqueue", "failed", Committed(AddFlavourCall),
                     Simulate(AddFlavourCall, db) = {})
        /\ TypeInv'
    BY <1>0, <2>1, <2>3, SubmitDoes, AddFlavourDoes
  <2>5. QED
    BY <1>0, <2>1, <2>2, <2>4, AddFlavourDoes DEF DidAdd, Submitted
<1>3. ASSUME Delete(r)
      PROVE  DidDelete(r) /\ TypeInv'
  <2>1. /\ pc[r] = "deleteFlavour" /\ Submit(r, DeleteFlavourCall, "ok", "failed")
        /\ KeptRest
    BY <1>0, <1>3 DEF Delete
  <2>2. Kind[r] = "deleteFlavour"
    BY <2>1, WhoStands
  <2>3. Fits(r, "ok", seen[r]) /\ Fits(r, "failed", seen[r])
    BY <1>0, <2>1, <2>2 DEF Fits, RequestLabels, Before, HoldsRecord, HoldsList
  <2>4. /\ Submitted(r, "ok", "failed", Committed(DeleteFlavourCall),
                     Simulate(DeleteFlavourCall, db) = {})
        /\ TypeInv'
    BY <1>0, <2>1, <2>3, SubmitDoes, DeleteFlavourDoes
  <2>5. QED
    BY <1>0, <2>1, <2>2, <2>4, DeleteFlavourDoes DEF DidDelete, Submitted
<1>4. ASSUME GetFlavour(r)
      PROVE  DidGetFlavour(r) /\ TypeInv'
  <2>1. /\ pc[r] = "getFlavour" /\ db' = db /\ KeptRest
        /\ IF Flavour = Nil THEN GoSeeing(r, "failed", seen[r])
           ELSE GoSeeing(r, "create", Flavour)
    BY <1>0, <1>4 DEF GetFlavour, Read, Goto
  <2>2. Kind[r] = "create" /\ (Flavour # Nil => Flavour \in Record)
    BY <1>0, <2>1, WhoStands, RecordTypes
  <2>3. /\ Fits(r, "failed", seen[r])
        /\ Flavour # Nil => Fits(r, "create", Flavour)
    BY <1>0, <2>1, <2>2 DEF Fits, RequestLabels, Before, HoldsRecord, HoldsList
  <2>4. QED
    BY <1>0, <2>1, <2>2, <2>3, GoTyped DEF DidGetFlavour
<1>5. ASSUME Create(r)
      PROVE  DidCreate(r) /\ TypeInv'
  <2>1. pc[r] = "create" /\ Submit(r, AddSiloCall, "enqueue", "failed") /\ KeptRest
    BY <1>0, <1>5 DEF Create
  <2>2. Kind[r] = "create" /\ seen[r] \in Record
    BY <1>0, <2>1, WhoStands DEF TypeInv, Places, HandsFull, HoldsRecord
  <2>3. Fits(r, "enqueue", seen[r]) /\ Fits(r, "failed", seen[r])
    BY <1>0, <2>1, <2>2 DEF Fits, RequestLabels, Before, HoldsRecord, HoldsList
  <2>4. /\ Submitted(r, "enqueue", "failed", Committed(AddSiloCall),
                     Simulate(AddSiloCall, db) = {})
        /\ TypeInv'
    BY <1>0, <2>1, <2>3, SubmitDoes, AddSiloDoes
  <2>5. QED
    BY <1>0, <2>1, <2>2, <2>4, AddSiloDoes DEF DidCreate, Submitted
<1>6. QED
  BY <1>1, <1>2, <1>3, <1>4, <1>5

\* What the handlers of attaching and detaching do with the ledger.
LEMMA ChangesDoes ==
  ASSUME TypeInv, NEW r \in Requests, UNCHANGED <<pod, session>>
  PROVE  /\ GetSilo(r) => DidGetSilo(r) /\ TypeInv'
         /\ Check(r) => DidCheck(r) /\ TypeInv'
         /\ SubmitAttachment(r) => DidSubmit(r) /\ TypeInv'
<1>0. /\ r \in Actors /\ r \notin Jobs /\ r \notin Handlers /\ LedgerType(db)
      /\ \A q \in Queued : r # Job(q)
      /\ seen[r] \in Record \cup Lists \cup {Nil}
      /\ UNCHANGED rest => KeptRest
      /\ KeptRest => RestTyped' /\ KeptAll /\ attempts' = attempts
  BY ActorFacts, KeptRestTyped
  DEF TypeInv, Places, HandsFull, KeptRest, rest, ctlVars, netVars, clusterVars,
      KeptAll, KeptCtl, KeptNet, KeptCluster
<1>1. ASSUME GetSilo(r)
      PROVE  DidGetSilo(r) /\ TypeInv'
  <2>0. pc[r] = "getSilo" /\ db' = db /\ KeptRest
    BY <1>0, <1>1 DEF GetSilo, Read
  <2>1. IF Is(STATUS_RUNNING) THEN GoSeeing(r, "check", Silo)
        ELSE GoSeeing(r, "failed", seen[r])
    BY <1>1 DEF GetSilo, Read, Goto, Is
  <2>2. Kind[r] = "attach" /\ (Is(STATUS_RUNNING) => Silo \in Record)
    BY <1>0, <2>0, WhoStands, RecordTypes DEF Is
  <2>3. /\ Fits(r, "failed", seen[r])
        /\ Is(STATUS_RUNNING) => Fits(r, "check", Silo)
    BY <1>0, <2>0, <2>2 DEF Fits, RequestLabels, Before, HoldsRecord, HoldsList
  <2>4. QED
    BY <1>0, <2>0, <2>1, <2>2, <2>3, GoTyped DEF DidGetSilo
<1>2. ASSUME Check(r)
      PROVE  DidCheck(r) /\ TypeInv'
  <2>0. pc[r] = "check" /\ db' = db /\ KeptRest
    BY <1>0, <1>2 DEF Check
  <2>1. Kind[r] \in {"attach", "detach"}
    BY <2>0, WhoStands
  <2> DEFINE attached == Target[r] \subseteq Attached
             l == CASE Kind[r] = "attach" /\ ~attached -> "publish"
                    [] Kind[r] = "detach" /\ attached  -> "submit"
                    [] OTHER                           -> "failed"
  <2>2. GoSeeing(r, l, seen[r])
    BY <1>2 DEF Check, Goto
  <2>3. /\ Kind[r] = "attach" /\ ~attached => l = "publish"
        /\ Kind[r] = "detach" /\ attached => l = "submit"
        /\ Kind[r] = "attach" /\ attached => l = "failed"
        /\ Kind[r] = "detach" /\ ~attached => l = "failed"
    BY <2>1
  <2> HIDE DEF l, attached
  <2>4. Fits(r, l, seen[r])
    BY <1>0, <2>0, <2>1, <2>3
    DEF Fits, RequestLabels, Before, HoldsRecord, HoldsList
  <2>5. Moved(r, l, seen[r]) /\ SameView /\ TypeInv'
    BY <1>0, <2>0, <2>2, <2>4, GoTyped
  <2>6. QED
    BY <1>0, <2>0, <2>1, <2>3, <2>5 DEF DidCheck, attached
<1>3. ASSUME SubmitAttachment(r)
      PROVE  DidSubmit(r) /\ TypeInv'
  <2>0. pc[r] = "submit" /\ KeptRest
    BY <1>0, <1>3 DEF SubmitAttachment
  <2>1. Kind[r] \in {"attach", "detach"}
    BY <2>0, WhoStands
  <2>2. PICK v \in VThings : Target[r] = {v}
    BY <2>1, RequestFacts
  <2>3. IF Kind[r] = "attach" THEN Submit(r, AttachCall(v), "ok", "failed")
        ELSE Submit(r, DetachCall(v), "publish", "failed")
    BY <1>3, <2>2 DEF SubmitAttachment
  <2>4. /\ Fits(r, "failed", seen[r]) /\ Fits(r, "ok", seen[r])
        /\ Kind[r] = "detach" => Fits(r, "publish", seen[r])
    BY <1>0, <2>0, <2>1 DEF Fits, RequestLabels, Before, HoldsRecord, HoldsList
  <2>5. CASE Kind[r] = "attach"
    <3>1. /\ Submitted(r, "ok", "failed", Committed(AttachCall(v)),
                       Simulate(AttachCall(v), db) = {})
          /\ TypeInv'
      BY <1>0, <2>0, <2>3, <2>4, <2>5, SubmitDoes, AttachDoes
    <3>2. QED
      BY <1>0, <2>0, <2>2, <2>5, <3>1, AttachDoes DEF DidSubmit, Submitted
  <2>6. CASE Kind[r] = "detach"
    <3>1. /\ Submitted(r, "publish", "failed", Committed(DetachCall(v)),
                       Simulate(DetachCall(v), db) = {})
          /\ TypeInv'
      BY <1>0, <2>0, <2>3, <2>4, <2>6, SubmitDoes, DetachDoes
    <3>2. QED
      BY <1>0, <2>0, <2>2, <2>6, <3>1, DetachDoes DEF DidSubmit, Submitted
  <2>7. QED
    BY <2>1, <2>5, <2>6
<1>4. QED
  BY <1>1, <1>2, <1>3

(***************************************************************************)
(* What is published on the program's topic.                               *)
(***************************************************************************)
LEMMA PublishingTyped ==
  ASSUME TypeInv, NEW a \in Actors, NEW m \in Commands, NEW l,
         a \notin Jobs, Fits(a, l, seen[a]), UNCHANGED <<pod, session>>,
         PublishTo(a, m, l)
  PROVE  /\ Moved(a, l, seen[a]) /\ SameView /\ TypeInv'
         /\ toPod' = Append(toPod, m)
         /\ KeptCtl /\ UNCHANGED <<toCtl, lost>> /\ KeptCluster
<1>1. /\ GoSeeing(a, l, seen[a]) /\ db' = db /\ attempts' = attempts
      /\ toPod' = Append(toPod, m)
      /\ KeptCtl /\ UNCHANGED <<toCtl, lost>> /\ KeptCluster
  BY DEF PublishTo, Goto, ctlVars, clusterVars, KeptCtl, KeptCluster
<1>2. toPod' \in Seq(Commands)
  BY <1>1, QueueTypes DEF TypeInv, RestTyped
<1>3. RestTyped'
  BY <1>1, <1>2 DEF TypeInv, RestTyped, KeptCtl, KeptCluster
<1>4. QED
  BY <1>1, <1>3, GoTyped

\* What publishing a command does.
LEMMA PublishDoes ==
  ASSUME TypeInv, NEW r \in Requests, UNCHANGED <<pod, session>>, Publish(r)
  PROVE  DidPublish(r) /\ TypeInv'
<1> DEFINE m == Message(r)
           l == IF Kind[r] = "attach" THEN "submit" ELSE "ok"
<1>1. pc[r] = "publish" /\ PublishTo(r, m, l)
  BY DEF Publish
<1>2. Kind[r] \in {"destroy", "attach", "detach"} /\ Target[r] \in SUBSET VThings
  BY <1>1, WhoStands, RequestFacts
<1>3. /\ m \in Commands /\ m.vThings = Target[r]
      /\ m.cmd = CASE Kind[r] = "destroy" -> "destroyVSilo"
                   [] Kind[r] = "attach"  -> "addVThing"
                   [] Kind[r] = "detach"  -> "deleteVThing"
  BY <1>2 DEF Message, Commands
<1>4. Fits(r, l, seen[r])
  BY <1>1, <1>2, ActorFacts
  DEF Fits, RequestLabels, Before, HoldsRecord, HoldsList, TypeInv, Places, HandsFull
<1> HIDE DEF m, l
<1>5. /\ Moved(r, l, seen[r]) /\ SameView /\ TypeInv' /\ toPod' = Append(toPod, m)
      /\ KeptCtl /\ UNCHANGED <<toCtl, lost>> /\ KeptCluster
  BY <1>1, <1>3, <1>4, PublishingTyped, ActorFacts
<1>6. QED
  BY <1>1, <1>2, <1>3, <1>5 DEF DidPublish, l

(***************************************************************************)
(* Queuing a job moves the request and its job.                            *)
(***************************************************************************)
LEMMA EnqueueDoes ==
  ASSUME TypeInv, NEW r \in Requests, UNCHANGED <<pod, session>>, EnqueueJob(r)
  PROVE  DidEnqueue(r) /\ TypeInv'
<1>1. /\ pc[r] = "enqueue" /\ db' = db /\ KeptRest /\ SameView /\ LedgerType(db')
      /\ \/ /\ pc' = [pc EXCEPT ![Job(r)] = "waiting", ![r] = "ok"]
            /\ seen' = [seen EXCEPT ![Job(r)] = seen[r], ![r] = Nil]
         \/ Fault("enqueue") /\ GoSeeing(r, "failed", seen[r])
  BY SameLedger DEF EnqueueJob, Enqueue, Goto, KeptRest, TypeInv
<1>2. RestTyped' /\ KeptAll /\ attempts' = attempts
  BY <1>1, KeptRestTyped DEF KeptRest, rest, ctlVars, netVars, clusterVars,
     KeptAll, KeptCtl, KeptNet, KeptCluster
<1>3. /\ r \in Queued /\ Job(r) # r /\ r \in Actors /\ Job(r) \in Actors
      /\ Job(r) \in Jobs /\ r \notin Jobs /\ \A q \in Queued : r # Job(q)
      /\ r \notin Handlers /\ Job(r) \notin Handlers /\ Job(r) \notin Requests
  BY <1>1, WhoStands, RequestFacts, ActorFacts
<1>4. pc[Job(r)] = "none"
  BY <1>1, <1>3 DEF TypeInv, Places, JobsPlaced, Before
<1>5. CASE Fault("enqueue") /\ GoSeeing(r, "failed", seen[r])
  <2>1. Fits(r, "failed", seen[r])
    BY <1>3 DEF Fits, RequestLabels, Before, HoldsRecord, HoldsList, TypeInv, Places,
       HandsFull
  <2>2. Moved(r, "failed", seen[r]) /\ TypeInv'
    BY <1>1, <1>2, <1>3, <1>5, <2>1, GoTyped DEF KeptRest
  <2>3. QED
    BY <1>1, <1>2, <1>3, <1>5, <2>2, FaultStays DEF DidEnqueue
<1>6. CASE /\ pc' = [pc EXCEPT ![Job(r)] = "waiting", ![r] = "ok"]
           /\ seen' = [seen EXCEPT ![Job(r)] = seen[r], ![r] = Nil]
  <2>1. /\ pc'[r] = "ok" /\ pc'[Job(r)] = "waiting"
        /\ seen'[r] = Nil /\ seen'[Job(r)] = seen[r]
        /\ \A b \in Actors \ {r, Job(r)} : pc'[b] = pc[b] /\ seen'[b] = seen[b]
        /\ Stands'
    BY <1>3, <1>6 DEF TypeInv, Stands
  <2>2. RequestsPlaced'
    BY <1>3, <2>1, ActorFacts DEF TypeInv, Places, RequestsPlaced, RequestLabels
  <2>3. JobsPlaced'
    <3> SUFFICES ASSUME NEW q \in Queued
                 PROVE  /\ pc'[Job(q)] \in JobLabels(Kind[q])
                        /\ pc'[q] \in Before => pc'[Job(q)] = "none"
                        /\ Kind[q] = "create" /\ pc'[Job(q)] \notin Ended \cup {"none"}
                             => seen'[Job(q)] \in Record
      BY DEF JobsPlaced
    <3>1. CASE q = r
      <4>1. Kind[r] = "create" => seen[r] \in Record
        BY <1>1 DEF TypeInv, Places, RequestsPlaced
      <4>2. Kind[r] \in {"create", "addFlavour"}
        BY <1>3, RequestFacts
      <4>3. QED
        BY <2>1, <3>1, <4>1, <4>2 DEF JobLabels, Before
    <3>2. CASE q # r
      <4>1. /\ q \in Requests /\ q \in Actors /\ Job(q) \in Actors
            /\ Job(q) \notin {r, Job(r)} /\ q \notin {r, Job(r)}
        BY <1>3, <3>2, ActorFacts
      <4>2. QED
        BY <2>1, <4>1 DEF TypeInv, Places, JobsPlaced
    <3>3. QED
      BY <3>1, <3>2
  <2>4. AttemptsLeft'
    BY <1>2, <1>3, <1>4, <2>1, ActorFacts DEF AttemptsLeft, TypeInv, Places, Ended
  <2>5. HandlersPlaced'
    BY <1>3, <2>1, ActorFacts DEF HandlersPlaced, TypeInv, Places
  <2>6. HandsFull'
    BY <1>3, <2>1 DEF HandsFull, TypeInv, Places, HoldsRecord, HoldsList
  <2>7. TypeInv'
    BY <1>1, <1>2, <2>1, <2>2, <2>3, <2>4, <2>5, <2>6 DEF TypeInv, Places, KeptRest
  <2>8. QED
    BY <1>1, <1>2, <1>3, <1>4, <2>1, <2>7 DEF DidEnqueue
<1>7. QED
  BY <1>1, <1>5, <1>6

-------------------------------------------------------------------------------
(***************************************************************************)
(* The jobs.                                                               *)
(***************************************************************************)
LEMMA RetryDoes ==
  ASSUME TypeInv, NEW r \in Queued, pc[Job(r)] \notin Ended \cup {"none"}, Retry(Job(r)),
         UNCHANGED <<ctlVars, netVars, clusterVars, pod, session>>, LedgerType(db')
  PROVE  /\ \E l \in {"waiting", "failed"} : Moved(Job(r), l, seen[Job(r)])
         /\ TypeInv'
<1> DEFINE j == Job(r)
           l == IF attempts[j] + 1 < MaxAttempts THEN "waiting" ELSE "failed"
<1>1. /\ j \in Actors /\ j \in Jobs /\ j \notin Handlers /\ j \notin Requests
      /\ \A q \in Queued : j = Job(q) => q = r
      /\ Kind[r] \in {"create", "addFlavour"}
  BY ActorFacts, RequestFacts
<1>2. Moved(j, l, seen[j]) /\ Stands'
  BY <1>1, GotoMoves DEF Retry, TypeInv
<1>3. /\ attempts \in [Jobs -> 0..MaxAttempts] /\ MaxAttempts \in Nat
      /\ attempts[j] < MaxAttempts
      /\ attempts' = [attempts EXCEPT ![j] = @ + 1]
  BY <1>1, ProcessAssumption
  DEF TypeInv, RestTyped, Places, AttemptsLeft, Retry, ProcessAssumption
<1>4. attempts' \in [Jobs -> 0..MaxAttempts]
  <2> HIDE DEF j
  <2>1. attempts[j] \in 0..MaxAttempts /\ attempts[j] + 1 \in 0..MaxAttempts
    BY <1>1, <1>3
  <2>2. QED
    BY <1>1, <1>3, <2>1
<1>5. AttemptsLeft'
  BY <1>1, <1>2, <1>3, ActorFacts DEF AttemptsLeft, TypeInv, Places, Moved, Ended
<1>6. Fits(j, l, seen[j])
  <2>1. Kind[r] = "create" => seen[j] \in Record
    BY DEF TypeInv, Places, JobsPlaced
  <2>2. l \in {"waiting", "failed"}
    OBVIOUS
  <2> HIDE DEF l
  <2>3. QED
    BY <1>1, <2>1, <2>2
    DEF Fits, JobLabels, Before, HoldsRecord, HoldsList, TypeInv, Places, HandsFull
<1>7. RestTyped'
  BY <1>4 DEF RestTyped, TypeInv, ctlVars, netVars, clusterVars
<1>8. TypeInv'
  BY <1>1, <1>2, <1>5, <1>6, <1>7, StepTyped
<1>9. QED
  BY <1>2, <1>8

\* Where a job may go, and that its kind of request is known.
LEMMA JobFits ==
  ASSUME TypeInv, NEW r \in Queued, pc[Job(r)] # "none"
  PROVE  /\ Job(r) \in Actors /\ Job(r) \in Jobs /\ Job(r) \notin Handlers
         /\ Kind[r] \in {"create", "addFlavour"} /\ r \in Requests
         /\ Kind[r] = "create" /\ pc[Job(r)] \notin Ended =>
              /\ seen[Job(r)] \in Record
              /\ \A l \in {"waiting", "pending", "subscribe", "service", "deploy",
                           "running", "ok", "failed"} : Fits(Job(r), l, seen[Job(r)])
         /\ Kind[r] = "addFlavour" =>
              \A l \in {"waiting", "flavour", "flavourError", "ok", "failed"} :
                Fits(Job(r), l, seen[Job(r)])
<1>1. /\ Job(r) \in Actors /\ Job(r) \in Jobs /\ Job(r) \notin Handlers
      /\ Job(r) \notin Requests /\ r \in Requests
      /\ \A q \in Queued : Job(r) = Job(q) => q = r
      /\ Kind[r] \in {"create", "addFlavour"}
  BY ActorFacts, RequestFacts
<1>2. /\ Kind[r] = "create" /\ pc[Job(r)] \notin Ended => seen[Job(r)] \in Record
      /\ seen[Job(r)] \in Record \cup Lists \cup {Nil}
  BY <1>1 DEF TypeInv, Places, JobsPlaced, HandsFull
<1>3. QED
  BY <1>1, <1>2 DEF Fits, JobLabels, HoldsRecord, HoldsList

\* What the steps of a job on Kubernetes and at the broker do.
LEMMA JobsDo ==
  ASSUME TypeInv, NEW r \in Queued, UNCHANGED <<pod, session>>
  PROVE  /\ BeginJob(r) => DidBegin(r) /\ TypeInv'
         /\ Subscribe(r) => DidSubscribe(r) /\ TypeInv'
         /\ WithoutYaml(r) => DidWithoutYaml(r) /\ TypeInv'
         /\ CreateService(r) /\ HasYaml(r) => DidService(r) /\ TypeInv'
         /\ CreateDeployment(r) => DidDeploy(r) /\ TypeInv'
<1> USE DEF KeptAll, KeptCtl, KeptNet, KeptCluster, ctlVars, netVars, clusterVars
<1>1. ASSUME BeginJob(r)
      PROVE  DidBegin(r) /\ TypeInv'
  <2> DEFINE l == IF Kind[r] = "create" THEN "pending" ELSE "flavour"
  <2>1. /\ pc[Job(r)] = "waiting" /\ GoSeeing(Job(r), l, seen[Job(r)])
        /\ db' = db /\ KeptAll /\ attempts' = attempts
    BY <1>1 DEF BeginJob, StartJob, Goto, rest
  <2>2. RestTyped'
    BY <2>1 DEF RestTyped, TypeInv
  <2>3. Fits(Job(r), l, seen[Job(r)])
    BY <2>1, JobFits DEF Ended
  <2> HIDE DEF l
  <2>4. Moved(Job(r), l, seen[Job(r)]) /\ SameView /\ TypeInv'
    BY <2>1, <2>2, <2>3, JobFits, GoTyped DEF Ended
  <2>5. QED
    BY <2>1, <2>4 DEF DidBegin, l
<1>2. ASSUME Subscribe(r)
      PROVE  DidSubscribe(r) /\ TypeInv'
  <2>1. /\ pc[Job(r)] = "subscribe" /\ GoSeeing(Job(r), "service", seen[Job(r)])
        /\ db' = db /\ KeptNet /\ KeptCluster /\ attempts' = attempts
        /\ callback' = TRUE /\ subscribed' = TRUE /\ UNCHANGED <<identity, doomed>>
    BY <1>2 DEF Subscribe, Goto
  <2>2. RestTyped' /\ Kind[r] = "create"
    BY <2>1, WhoStands DEF RestTyped, TypeInv
  <2>3. Moved(Job(r), "service", seen[Job(r)]) /\ SameView /\ TypeInv'
    BY <2>1, <2>2, JobFits, GoTyped DEF Ended
  <2>4. QED
    BY <2>1, <2>2, <2>3 DEF DidSubscribe
<1>3. ASSUME WithoutYaml(r)
      PROVE  DidWithoutYaml(r) /\ TypeInv'
  <2>1. /\ pc[Job(r)] = "service" /\ GoSeeing(Job(r), "running", seen[Job(r)])
        /\ db' = db /\ KeptAll /\ attempts' = attempts /\ ~HasYaml(r)
    BY <1>3 DEF WithoutYaml, Goto, rest
  <2>2. RestTyped' /\ Kind[r] = "create"
    BY <2>1, WhoStands DEF RestTyped, TypeInv
  <2>3. Moved(Job(r), "running", seen[Job(r)]) /\ SameView /\ TypeInv'
    BY <2>1, <2>2, JobFits, GoTyped DEF Ended
  <2>4. QED
    BY <2>1, <2>2, <2>3 DEF DidWithoutYaml
<1>4. ASSUME CreateService(r), HasYaml(r)
      PROVE  DidService(r) /\ TypeInv'
  <2>1. /\ pc[Job(r)] = "service" /\ db' = db /\ attempts' = attempts
        /\ deployment' = deployment /\ KeptCtl /\ KeptNet
        /\ \/ /\ ~(HasService /\ service) /\ service' = HasService
              /\ GoSeeing(Job(r), "deploy", seen[Job(r)])
           \/ /\ GoSeeing(Job(r), "ok", seen[Job(r)]) /\ service' = service
              /\ (HasService /\ service) \/ "k8s" \in faults'
    BY <1>4, FaultStays DEF CreateService, Goto
  <2>2. Kind[r] = "create" /\ service' \in BOOLEAN
    <3>1. HasService \in BOOLEAN /\ service \in BOOLEAN
      BY ProcessAssumption DEF TypeInv, RestTyped, ProcessAssumption, HasService
    <3>2. QED
      BY <2>1, <3>1, WhoStands
  <2>3. RestTyped'
    BY <2>1, <2>2 DEF RestTyped, TypeInv
  <2>4. /\ GoSeeing(Job(r), "deploy", seen[Job(r)]) =>
             Moved(Job(r), "deploy", seen[Job(r)]) /\ SameView /\ TypeInv'
        /\ GoSeeing(Job(r), "ok", seen[Job(r)]) =>
             Moved(Job(r), "ok", seen[Job(r)]) /\ SameView /\ TypeInv'
    BY <2>1, <2>2, <2>3, JobFits, GoTyped DEF Ended
  <2>5. QED
    BY <1>4, <2>1, <2>2, <2>4 DEF DidService
<1>5. ASSUME CreateDeployment(r)
      PROVE  DidDeploy(r) /\ TypeInv'
  <2>1. /\ pc[Job(r)] = "deploy" /\ db' = db /\ attempts' = attempts
        /\ service' = service /\ KeptCtl /\ KeptNet
        /\ \/ /\ deployment = NoDeployment /\ deployment' = r
              /\ GoSeeing(Job(r), "running", seen[Job(r)])
           \/ /\ GoSeeing(Job(r), "ok", seen[Job(r)]) /\ deployment' = deployment
              /\ deployment # NoDeployment \/ "k8s" \in faults'
    BY <1>5, FaultStays DEF CreateDeployment, Goto
  <2>2. Kind[r] = "create" /\ r \in Creations
    BY <2>1, WhoStands, RequestFacts, JobFits
  <2>3. RestTyped'
    BY <2>1, <2>2 DEF RestTyped, TypeInv
  <2>4. /\ GoSeeing(Job(r), "running", seen[Job(r)]) =>
             Moved(Job(r), "running", seen[Job(r)]) /\ SameView /\ TypeInv'
        /\ GoSeeing(Job(r), "ok", seen[Job(r)]) =>
             Moved(Job(r), "ok", seen[Job(r)]) /\ SameView /\ TypeInv'
    BY <2>1, <2>2, <2>3, JobFits, GoTyped DEF Ended
  <2>5. QED
    BY <2>1, <2>2, <2>4 DEF DidDeploy
<1>6. QED
  BY <1>1, <1>2, <1>3, <1>4, <1>5
\* What the steps of a job that write to the ledger do.
LEMMA JobsWrite ==
  ASSUME TypeInv, NEW r \in Queued, UNCHANGED <<pod, session>>
  PROVE  /\ WritePending(r, SiloCall(STATUS_PENDING, NoDeployment))
              => DidPending(r) /\ TypeInv'
         /\ WriteRunning(r, SiloCall(STATUS_RUNNING, IF HasYaml(r) THEN r ELSE NoYaml))
              => DidRunning(r) /\ TypeInv'
         /\ WriteFlavour(r) => DidFlavour(r) /\ TypeInv'
         /\ WriteFlavourError(r) => DidFlavourError(r) /\ TypeInv'
<1> USE DEF KeptAll, KeptCtl, KeptNet, KeptCluster, ctlVars, netVars, clusterVars
<1>0. LedgerType(db) /\ Stands /\ Job(r) \in Actors /\ r \in Requests
  BY ActorFacts DEF TypeInv
<1>1. ASSUME WritePending(r, SiloCall(STATUS_PENDING, NoDeployment))
      PROVE  DidPending(r) /\ TypeInv'
  <2> DEFINE tx == SiloCall(STATUS_PENDING, NoDeployment)
             done == Silo # Nil /\ SiloWritten(STATUS_PENDING, NoDeployment)
  <2>1. /\ tx \in Calls /\ (Committed(tx) => done)
        /\ Simulate(tx, db) = {} <=> Silo = Nil
    BY <1>0, SiloCallDoes, DetailFacts
  <2> HIDE DEF tx, done
  <2>2. /\ pc[Job(r)] = "pending" /\ KeptAll
        /\ \/ (~identity \/ Silo = Nil) /\ Retry(Job(r)) /\ db' = db
           \/ /\ identity /\ Committed(tx) /\ attempts' = attempts
              /\ GoSeeing(Job(r), "subscribe", seen[Job(r)])
           \/ /\ "submit" \in faults' /\ (db' = db \/ Committed(tx)) /\ Retry(Job(r))
    BY <1>1, <2>1, FaultStays DEF WritePending, tx, Committed, Goto
  <2>3. Kind[r] = "create" /\ pc[Job(r)] \notin Ended \cup {"none"}
    BY <2>2, WhoStands DEF Ended
  <2>4. LedgerType(db')
    BY <1>0, <2>1, <2>2, CommitTyped
  <2>5. CASE /\ identity /\ Committed(tx) /\ attempts' = attempts
             /\ GoSeeing(Job(r), "subscribe", seen[Job(r)])
    <3>1. Moved(Job(r), "subscribe", seen[Job(r)]) /\ Stands'
      BY <1>0, <2>5, GoSeeingMoves
    <3>2. Fits(Job(r), "subscribe", seen[Job(r)])
      BY <2>3, JobFits DEF Ended
    <3>3. RestTyped' /\ AttemptsLeft'
      BY <1>0, <2>2, <2>3, <2>5, <3>1, KeptAttempts DEF RestTyped, TypeInv
    <3>4. TypeInv'
      BY <1>0, <2>4, <3>1, <3>2, <3>3, StepTyped
    <3>5. QED
      BY <2>1, <2>2, <2>3, <2>5, <3>1, <3>4 DEF DidPending, done
  <2>6. CASE Retry(Job(r))
    <3>1. TypeInv' /\ \E l \in {"waiting", "failed"} : Moved(Job(r), l, seen[Job(r)])
      BY <2>2, <2>3, <2>4, <2>6, RetryDoes
    <3>2. \/ SameView /\ (~identity \/ Silo = Nil)
          \/ (SameView \/ done) /\ "submit" \in faults'
          \/ Moved(Job(r), "subscribe", seen[Job(r)]) /\ identity /\ done
      BY <1>0, <2>1, <2>2, SameLedger, GoSeeingMoves
    <3>3. QED
      BY <2>2, <2>3, <3>1, <3>2 DEF DidPending, done
  <2>7. QED
    BY <2>2, <2>5, <2>6
<1>2. ASSUME WriteRunning(r, SiloCall(STATUS_RUNNING, IF HasYaml(r) THEN r ELSE NoYaml))
      PROVE  DidRunning(r) /\ TypeInv'
  <2> DEFINE d == IF HasYaml(r) THEN r ELSE NoYaml
             tx == SiloCall(STATUS_RUNNING, d)
             done == Silo # Nil /\ SiloWritten(STATUS_RUNNING, d)
  <2>1. d \in Details
    BY <1>0, DetailFacts
  <2>2. pc[Job(r)] = "running" /\ Submit(Job(r), tx, "ok", "ok") /\ KeptRest
    BY <1>2 DEF WriteRunning, KeptRest
  <2>3. Kind[r] = "create"
    BY <2>2, WhoStands
  <2> HIDE DEF d
  <2>4. /\ tx \in Calls /\ (Committed(tx) => done)
        /\ Simulate(tx, db) = {} => Silo = Nil
    BY <1>0, <2>1, SiloCallDoes
  <2> HIDE DEF tx, done
  <2>5. Submitted(Job(r), "ok", "ok", Committed(tx), Simulate(tx, db) = {}) /\ TypeInv'
    BY <1>0, <2>2, <2>3, <2>4, SubmitDoes, JobFits DEF Ended
  <2>6. KeptAll
    BY <2>2 DEF KeptRest, rest
  <2>7. Submitted(Job(r), "ok", "ok", done, Silo = Nil)
    BY <2>4, <2>5 DEF Submitted
  <2>8. QED
    BY <2>2, <2>3, <2>5, <2>6, <2>7 DEF DidRunning, done, d
<1>3. ASSUME WriteFlavour(r)
      PROVE  DidFlavour(r) /\ TypeInv'
  <2> DEFINE tx == FlavourCall("ready")
             done == Flavour # Nil /\ FlavourWritten("ready")
  <2>1. /\ tx \in Calls /\ (Committed(tx) => done)
        /\ Simulate(tx, db) = {} => Flavour = Nil
    BY <1>0, FlavourCallDoes
  <2> HIDE DEF tx, done
  <2>2. /\ pc[Job(r)] = "flavour" /\ KeptAll
        /\ \/ ~identity /\ Retry(Job(r)) /\ db' = db
           \/ identity /\ Submit(Job(r), tx, "ok", "flavourError") /\ attempts' = attempts
    BY <1>3 DEF WriteFlavour, tx
  <2>3. Kind[r] = "addFlavour" /\ pc[Job(r)] \notin Ended \cup {"none"}
    BY <2>2, WhoStands DEF Ended
  <2>4. CASE ~identity /\ Retry(Job(r)) /\ db' = db
    <3>1. TypeInv' /\ \E l \in {"waiting", "failed"} : Moved(Job(r), l, seen[Job(r)])
      BY <1>0, <2>2, <2>3, <2>4, RetryDoes
    <3>2. QED
      BY <2>2, <2>3, <2>4, <3>1, SameLedger DEF DidFlavour
  <2>5. CASE identity /\ Submit(Job(r), tx, "ok", "flavourError") /\ attempts' = attempts
    <3>1. KeptRest
      BY <2>2, <2>5 DEF KeptRest, rest
    <3>2. /\ Submitted(Job(r), "ok", "flavourError", Committed(tx), Simulate(tx, db) = {})
          /\ TypeInv'
      BY <1>0, <2>1, <2>3, <2>5, <3>1, SubmitDoes, JobFits DEF Ended
    <3>3. Submitted(Job(r), "ok", "flavourError", done, Flavour = Nil)
      BY <2>1, <3>2 DEF Submitted
    <3>4. QED
      BY <2>2, <2>3, <2>5, <3>2, <3>3 DEF DidFlavour, done
  <2>6. QED
    BY <2>2, <2>4, <2>5
<1>4. ASSUME WriteFlavourError(r)
      PROVE  DidFlavourError(r) /\ TypeInv'
  <2> DEFINE tx == FlavourCall("error")
             done == Flavour # Nil /\ FlavourWritten("error")
  <2>1. /\ tx \in Calls /\ (Committed(tx) => done)
        /\ Simulate(tx, db) = {} => Flavour = Nil
    BY <1>0, FlavourCallDoes
  <2> HIDE DEF tx, done
  <2>2. pc[Job(r)] = "flavourError" /\ Submit(Job(r), tx, "ok", "ok") /\ KeptRest
    BY <1>4 DEF WriteFlavourError, tx, KeptRest
  <2>3. Kind[r] = "addFlavour"
    BY <2>2, WhoStands
  <2>4. Submitted(Job(r), "ok", "ok", Committed(tx), Simulate(tx, db) = {}) /\ TypeInv'
    BY <1>0, <2>1, <2>2, <2>3, SubmitDoes, JobFits DEF Ended
  <2>5. KeptAll /\ Submitted(Job(r), "ok", "ok", done, Flavour = Nil)
    BY <2>1, <2>2, <2>4 DEF Submitted, KeptRest, rest
  <2>6. QED
    BY <2>2, <2>3, <2>4, <2>5 DEF DidFlavourError, done
<1>5. QED
  BY <1>1, <1>2, <1>3, <1>4

(***************************************************************************)
(* Destroying a silo, by a request or by a callback.                       *)
(***************************************************************************)
\* Where a caller may go, and that it is no job.
LEMMA CallerFits ==
  ASSUME TypeInv, NEW a \in Actors, pc[a] \in {"get", "k8s", "list", "drop", "cleanup"}
  PROVE  /\ a \notin Jobs /\ (a \in Handlers \/ a \in Requests)
         /\ Caller(a, {"destroy", "forceDestroy"})
         /\ pc[a] # "get" => Caller(a, {"forceDestroy"})
         /\ pc[a] \in {"k8s", "list"} => seen[a] \in Record
         /\ pc[a] = "drop" => seen[a] \in Lists
         /\ \A l \in {"failed", "ok"} : Fits(a, l, seen[a])
         /\ \A rec \in Record : pc[a] = "get" => Fits(a, AfterGet(a), rec)
         /\ pc[a] = "k8s" => Fits(a, "list", seen[a])
         /\ \A rec \in Lists : pc[a] = "list" => Fits(a, "drop", rec)
         /\ pc[a] = "drop" => Fits(a, "cleanup", seen[a])
<1>1. a \in Handlers \/ a \in Requests
  BY WhoStands
<1>2. /\ a \in Requests /\ pc[a] = "get" => Kind[a] \in {"destroy", "forceDestroy"}
      /\ a \in Requests /\ pc[a] # "get" => Kind[a] = "forceDestroy"
  BY WhoStands
<1>3. /\ a \notin Jobs /\ \A r \in Queued : a # Job(r)
      /\ ~(a \in Requests /\ a \in Handlers)
  BY <1>1, ActorFacts
<1>4. /\ seen[a] \in Record \cup Lists \cup {Nil}
      /\ pc[a] \in {"k8s", "list"} => seen[a] \in Record
      /\ pc[a] = "drop" => seen[a] \in Lists
  BY DEF TypeInv, Places, HandsFull, HoldsRecord, HoldsList
<1>5. CASE a \in Handlers
  BY <1>3, <1>4, <1>5
  DEF Caller, Fits, AfterGet, HandlerLabels, Ended, HoldsRecord, HoldsList
<1>6. CASE a \in Requests
  BY <1>2, <1>3, <1>4, <1>6
  DEF Caller, Fits, AfterGet, RequestLabels, Before, HoldsRecord, HoldsList
<1>7. QED
  BY <1>1, <1>5, <1>6

\* What each step of a destruction does, of a request or of the callback.
LEMMA CallersDo ==
  ASSUME TypeInv, NEW a \in Actors, UNCHANGED <<pod, session>>
  PROVE  /\ Get(a) => DidGet(a) /\ TypeInv'
         /\ DeleteOnKubernetes(a) => DidDeleteOnKubernetes(a) /\ TypeInv'
         /\ List(a) => DidList(a) /\ TypeInv'
         /\ Drop(a) => DidDrop(a) /\ TypeInv'
         /\ Forget(a) => DidForget(a) /\ TypeInv'
<1> USE DEF KeptAll, KeptCtl, KeptNet, KeptCluster, ctlVars, netVars, clusterVars
<1>1. ASSUME Get(a)
      PROVE  DidGet(a) /\ TypeInv'
  <2>1. /\ pc[a] = "get" /\ db' = db /\ KeptRest
        /\ IF Silo = Nil THEN GoSeeing(a, "failed", seen[a])
           ELSE GoSeeing(a, AfterGet(a), Silo)
    BY <1>1 DEF Get, Read, Goto, AfterGet, KeptRest
  <2>2. /\ Silo # Nil => Silo \in Record
        /\ RestTyped' /\ KeptAll /\ attempts' = attempts
    BY <2>1, RecordTypes, KeptRestTyped DEF TypeInv, KeptRest, rest
  <2>3. QED
    BY <2>1, <2>2, CallerFits, GoTyped DEF DidGet
<1>2. ASSUME DeleteOnKubernetes(a)
      PROVE  DidDeleteOnKubernetes(a) /\ TypeInv'
  <2>1. /\ pc[a] = "k8s" /\ db' = db /\ attempts' = attempts /\ service' = service
        /\ KeptCtl /\ KeptNet
        /\ \/ /\ GoSeeing(a, "list", seen[a]) /\ ~Deployed(seen[a])
              /\ deployment' = deployment
           \/ /\ GoSeeing(a, "list", seen[a]) /\ Deployed(seen[a])
              /\ deployment # NoDeployment /\ seen[a].details # NoYaml
              /\ deployment' = NoDeployment
           \/ /\ GoSeeing(a, "failed", seen[a]) /\ deployment' = deployment
              /\ \/ /\ Deployed(seen[a])
                    /\ deployment = NoDeployment \/ seen[a].details = NoYaml
                 \/ "k8s" \in faults'
    BY <1>2, FaultStays DEF DeleteOnKubernetes, DeleteDeployment, Goto
  <2>2. RestTyped'
    BY <2>1 DEF TypeInv, RestTyped
  <2>3. /\ GoSeeing(a, "list", seen[a]) =>
             Moved(a, "list", seen[a]) /\ SameView /\ TypeInv'
        /\ GoSeeing(a, "failed", seen[a]) =>
             Moved(a, "failed", seen[a]) /\ SameView /\ TypeInv'
    BY <2>1, <2>2, CallerFits, GoTyped
  <2>4. Caller(a, {"forceDestroy"}) /\ seen[a] \in Record
    BY <2>1, CallerFits
  <2>5. QED
    BY <2>1, <2>3, <2>4 DEF DidDeleteOnKubernetes
<1>3. ASSUME List(a)
      PROVE  DidList(a) /\ TypeInv'
  <2> DEFINE vs == [vThings |-> Attached]
  <2>1. HasService \in BOOLEAN
    BY ProcessAssumption DEF TypeInv, ProcessAssumption, HasService
  <2>2. doomed' \in BOOLEAN
    BY <1>3, <2>1 DEF List, TypeInv, RestTyped
  <2>3. /\ pc[a] = "list" /\ GoSeeing(a, "drop", vs) /\ db' = db /\ attempts' = attempts
        /\ UNCHANGED <<callback, subscribed, identity>> /\ KeptNet /\ KeptCluster
    BY <1>3 DEF List
  <2>4. RestTyped'
    BY <2>2, <2>3 DEF TypeInv, RestTyped
  <2>5. vs \in Lists
    BY RecordTypes DEF TypeInv, Lists
  <2>6. Moved(a, "drop", vs) /\ SameView /\ TypeInv'
    BY <2>3, <2>4, <2>5, CallerFits, GoTyped
  <2>7. QED
    BY <2>3, <2>6, CallerFits DEF DidList
<1>4. ASSUME Drop(a)
      PROVE  DidDrop(a) /\ TypeInv'
  <2>1. /\ pc[a] = "drop" /\ Submit(a, DropCall(seen[a].vThings), "cleanup", "failed")
        /\ KeptRest
    BY <1>4 DEF Drop, KeptRest
  <2>2. seen[a] \in Lists /\ seen[a].vThings \in SUBSET VThings
    BY <2>1, CallerFits DEF Lists
  <2> DEFINE tx == DropCall(seen[a].vThings)
  <2>3. /\ tx \in Calls /\ (Committed(tx) => SiloDropped(seen[a].vThings))
        /\ Simulate(tx, db) # {}
    BY <2>2, DropDoes DEF TypeInv
  <2> HIDE DEF tx
  <2>4. Submitted(a, "cleanup", "failed", Committed(tx), Simulate(tx, db) = {}) /\ TypeInv'
    BY <2>1, <2>3, CallerFits, SubmitDoes DEF tx
  <2>5. Submitted(a, "cleanup", "failed", SiloDropped(seen[a].vThings), FALSE)
    BY <2>3, <2>4 DEF Submitted
  <2>6. KeptAll
    BY <2>1 DEF KeptRest, rest
  <2>7. QED
    BY <2>1, <2>2, <2>4, <2>5, <2>6, CallerFits DEF DidDrop
<1>5. ASSUME Forget(a)
      PROVE  DidForget(a) /\ TypeInv'
  <2>1. /\ pc[a] = "cleanup" /\ GoSeeing(a, "ok", seen[a]) /\ db' = db
        /\ attempts' = attempts /\ callback' = FALSE /\ subscribed' = FALSE
        /\ UNCHANGED <<identity, doomed>> /\ KeptNet /\ KeptCluster
    BY <1>5 DEF Forget, Cleanup, Goto
  <2>2. RestTyped'
    BY <2>1 DEF TypeInv, RestTyped
  <2>3. Moved(a, "ok", seen[a]) /\ SameView /\ TypeInv'
    BY <2>1, <2>2, CallerFits, GoTyped
  <2>4. QED
    BY <2>1, <2>3, CallerFits DEF DidForget
<1>6. QED
  BY <1>1, <1>2, <1>3, <1>4, <1>5

(***************************************************************************)
(* The restoreVThingsAck callback.                                         *)
(***************************************************************************)
LEMMA HandlerFits ==
  ASSUME TypeInv, NEW h \in Handlers
  PROVE  /\ h \in Actors /\ h \notin Jobs
         /\ \A l \in {"restore", "get", "ok"} : Fits(h, l, seen[h])
         /\ \A rec \in Lists : Fits(h, "restored", rec)
         /\ pc[h] = "restored" => seen[h] \in Lists
  BY ActorFacts
  DEF Fits, HandlerLabels, Ended, HoldsRecord, HoldsList, TypeInv, Places, HandsFull

\* What the callback does that restores the vThings.
LEMMA HandlersDo ==
  ASSUME TypeInv, NEW h \in Handlers, UNCHANGED <<pod, session>>
  PROVE  /\ Restore(h) => DidRestore(h) /\ TypeInv'
         /\ PublishRestore(h) => DidPublishRestore(h) /\ TypeInv'
<1>1. ASSUME Restore(h)
      PROVE  DidRestore(h) /\ TypeInv'
  <2> DEFINE vs == [vThings |-> Attached]
  <2>1. /\ pc[h] = "restore" /\ GoSeeing(h, "restored", vs) /\ db' = db /\ KeptRest
    BY <1>1 DEF Restore, KeptRest
  <2>2. RestTyped' /\ KeptAll /\ attempts' = attempts
    BY <2>1, KeptRestTyped
    DEF KeptRest, rest, KeptAll, KeptCtl, KeptNet, KeptCluster, ctlVars, netVars, clusterVars
  <2>3. vs \in Lists
    BY RecordTypes DEF TypeInv, Lists
  <2>4. Moved(h, "restored", vs) /\ SameView /\ TypeInv'
    BY <2>1, <2>2, <2>3, HandlerFits, GoTyped
  <2>5. QED
    BY <2>1, <2>2, <2>4 DEF DidRestore
<1>2. ASSUME PublishRestore(h)
      PROVE  DidPublishRestore(h) /\ TypeInv'
  <2> DEFINE m == [cmd |-> "restoreVThings", vThings |-> seen[h].vThings]
  <2>1. pc[h] = "restored" /\ PublishTo(h, m, "ok")
    BY <1>2 DEF PublishRestore
  <2>2. seen[h] \in Lists
    BY <2>1, HandlerFits
  <2>3. m \in Commands /\ m.cmd = "restoreVThings" /\ m.vThings = seen[h].vThings
    BY <2>2 DEF Commands, Lists
  <2> HIDE DEF m
  <2>4. /\ Moved(h, "ok", seen[h]) /\ SameView /\ TypeInv' /\ toPod' = Append(toPod, m)
        /\ KeptCtl /\ UNCHANGED <<toCtl, lost>> /\ KeptCluster
    BY <2>1, <2>3, HandlerFits, PublishingTyped
  <2>5. QED
    BY <2>1, <2>2, <2>3, <2>4 DEF DidPublishRestore
<1>3. QED
  BY <1>1, <1>2

(***************************************************************************)
(* Messages, the programs in the pods, and faults.                         *)
(***************************************************************************)
LEMMA StillTyped ==
  ASSUME TypeInv, UNCHANGED <<db, pc, seen, attempts, session>>, RestTyped'
  PROVE  TypeInv'
  BY DEF TypeInv, Stands, Places, RequestsPlaced, JobsPlaced, AttemptsLeft,
      HandlersPlaced, HandsFull

\* What receiving a report does.
LEMMA ReceiveDoes ==
  ASSUME TypeInv, Receive, UNCHANGED <<pod, session>>
  PROVE  DidReceive /\ TypeInv'
<1> USE DEF KeptPlaces, KeptCtl, KeptCluster, ctlVars, clusterVars
<1>1. /\ Head(toCtl) \in Reports /\ toCtl' \in Seq(Reports) /\ toCtl # <<>>
      /\ toCtl' = Tail(toCtl) /\ db' = db /\ attempts' = attempts /\ toPod' = toPod
      /\ KeptCtl /\ KeptCluster /\ SameView
  BY QueueTypes, SameLedger DEF Receive, TypeInv, RestTyped
<1>2. RestTyped'
  BY <1>1 DEF TypeInv, RestTyped
<1>3. CASE subscribed /\ callback /\ identity
  <2>1. PICK h \in Handlers : /\ pc[h] = "idle" /\ Goto(h, FirstStep(Head(toCtl)))
                              /\ lost' = lost
    BY <1>3 DEF Receive
  <2> DEFINE l == IF Head(toCtl) = "restoreVThingsAck" THEN "restore" ELSE "get"
  <2>2. GoSeeing(h, l, seen[h])
    BY <1>1, <2>1 DEF Goto, FirstStep, Reports
  <2>3. Moved(h, l, seen[h]) /\ TypeInv'
    BY <1>1, <1>2, <2>2, HandlerFits, GoTyped
  <2>4. QED
    BY <1>1, <1>3, <2>1, <2>3 DEF DidReceive
<1>4. CASE ~(subscribed /\ callback /\ identity)
  <2>1. KeptPlaces /\ lost' = lost \cup {Head(toCtl)}
    BY <1>4 DEF Receive
  <2>2. QED
    BY <1>1, <1>2, <1>4, <2>1, StillTyped DEF DidReceive
<1>5. QED
  BY <1>3, <1>4

\* What the programs do with the first command.
LEMMA PodsReceiveDoes ==
  ASSUME TypeInv, PodsReceive, UNCHANGED session
  PROVE  DidPodsReceive /\ TypeInv'
<1> DEFINE m    == Head(toPod)
           up   == {a \in Creations : pod[a].st = "up"}
           n    == Cardinality(up)
           acks == [i \in 1..n |-> "destroyVSiloAck"]
           now(a) == IF a \notin up THEN pod[a]
                     ELSE CASE m.cmd \in {"addVThing", "restoreVThings"}
                                 -> OnAdd(pod[a], m.vThings)
                            [] m.cmd = "deleteVThing" -> OnDelete(pod[a], m.vThings)
                            [] m.cmd = "destroyVSilo" -> OnDestroy(pod[a])
<1>1. /\ pod \in [Creations -> Pods] /\ toCtl \in Seq(Reports) /\ toPod \in Seq(Commands)
      /\ Creations \subseteq Requests
  BY ActorFacts DEF TypeInv, RestTyped
<1>2. toPod # <<>> /\ m \in Commands /\ Tail(toPod) \in Seq(Commands)
  BY <1>1, QueueTypes DEF PodsReceive
<1>3. /\ toPod' = Tail(toPod)
      /\ lost' = IF up = {} THEN lost \cup {m.cmd} ELSE lost
      /\ pod' = [a \in Creations |-> now(a)]
      /\ toCtl' = IF m.cmd = "destroyVSilo" THEN toCtl \o acks ELSE toCtl
      /\ UNCHANGED <<db, procVars, ctlVars, deployment, service, faults>>
  BY DEF PodsReceive
<1>4. ASSUME NEW a \in Creations
      PROVE  now(a) \in Pods /\ Takes(a, m)
  <2>0. m.vThings \in SUBSET VThings
        /\ m.cmd \in {"addVThing", "deleteVThing", "destroyVSilo", "restoreVThings"}
    BY <1>2 DEF Commands
  <2>1. pod[a] \in Pods /\ (a \in up <=> pod[a].st = "up") /\ pod'[a] = now(a)
    BY <1>1, <1>3
  <2>2. CASE a \notin up
    BY <2>1, <2>2 DEF Takes
  <2>3. CASE a \in up /\ m.cmd \in {"addVThing", "restoreVThings"}
    <3>1. now(a) = OnAdd(pod[a], m.vThings)
      BY <2>3
    <3>2. /\ OnAdd(pod[a], m.vThings) \in Pods
          /\ OnAdd(pod[a], m.vThings).st = pod[a].st
          /\ OnAdd(pod[a], m.vThings).data = pod[a].data \cup m.vThings
      BY <2>0, <2>1 DEF OnAdd, Pods
    <3> HIDE DEF m, up, now
    <3>3. QED
      BY <2>1, <2>3, <3>1, <3>2 DEF Takes
  <2>4. CASE a \in up /\ m.cmd = "deleteVThing"
    <3>1. now(a) = OnDelete(pod[a], m.vThings)
      BY <2>4
    <3>2. /\ OnDelete(pod[a], m.vThings) \in Pods
          /\ OnDelete(pod[a], m.vThings).st = pod[a].st
          /\ OnDelete(pod[a], m.vThings).data = pod[a].data \ m.vThings
      BY <2>0, <2>1 DEF OnDelete, Pods
    <3> HIDE DEF m, up, now
    <3>3. QED
      BY <2>1, <2>4, <3>1, <3>2 DEF Takes
  <2>5. CASE a \in up /\ m.cmd = "destroyVSilo"
    <3>1. now(a) = OnDestroy(pod[a])
      BY <2>5
    <3>2. /\ OnDestroy(pod[a]) \in Pods
          /\ OnDestroy(pod[a]).st = "deaf" /\ OnDestroy(pod[a]).data = pod[a].data
      BY <2>0, <2>1 DEF OnDestroy, Pods
    <3> HIDE DEF m, up, now
    <3>3. QED
      BY <2>1, <2>5, <3>1, <3>2 DEF Takes
  <2>6. QED
    BY <2>0, <2>2, <2>3, <2>4, <2>5
<1>5. pod' \in [Creations -> Pods] /\ \A a \in Creations : Takes(a, m)
  <2> HIDE DEF now
  <2>1. QED
    BY <1>3, <1>4
<1>6. IsFiniteSet(up) /\ (SomeUp <=> up # {})
  BY <1>1, FS_Subset, ActorAssumption DEF ActorAssumption, SomeUp
<1> HIDE DEF m, up, now
<1>7. n \in Nat /\ (n = 0 <=> up = {})
  BY <1>6, FS_CardinalityType, FS_EmptySet
<1>8. acks \in Seq(Reports) /\ Len(acks) = n
  <2>0. n \in Nat
    BY <1>7
  <2> HIDE DEF n
  <2>1. acks \in [1..n -> Reports]
    BY <2>0 DEF Reports
  <2>2. acks \in Seq(Reports)
    BY <2>0, <2>1, SeqDef
  <2>3. DOMAIN acks = 1..n /\ DOMAIN acks = 1..Len(acks) /\ Len(acks) \in Nat
    BY <2>1, <2>2, LenProperties
  <2>4. QED
    BY <2>0, <2>2, <2>3
<1>9. /\ Elems(acks) \subseteq {"destroyVSiloAck"}
      /\ SomeUp => "destroyVSiloAck" \in Elems(acks)
  <2>1. \A i \in 1..n : acks[i] = "destroyVSiloAck"
    OBVIOUS
  <2>2. SomeUp => 1 \in 1..n
    <3>1. n \in Nat /\ (SomeUp => n # 0)
      BY <1>6, <1>7
    <3> HIDE DEF n
    <3>2. QED
      BY <3>1
  <2> HIDE DEF acks, n
  <2>3. QED
    BY <1>8, <2>1, <2>2 DEF Elems
<1> HIDE DEF acks
<1>10. toCtl' \in Seq(Reports)
  <2>1. toCtl \o acks \in Seq(Reports)
    BY <1>1, <1>8, QueueTypes
  <2>2. QED
    BY <1>1, <1>3, <2>1
<1>11. RestTyped' /\ UNCHANGED <<db, pc, seen, attempts>>
  BY <1>2, <1>3, <1>5, <1>10 DEF TypeInv, RestTyped, procVars, ctlVars
<1>12. TypeInv'
  BY <1>11, StillTyped
<1>13. \E s \in Seq(Reports) :
         /\ toCtl' = toCtl \o s /\ Elems(s) \subseteq {"destroyVSiloAck"}
         /\ m.cmd = "destroyVSilo" /\ SomeUp => "destroyVSiloAck" \in Elems(s)
         /\ m.cmd # "destroyVSilo" => toCtl' = toCtl
  <2>1. CASE m.cmd = "destroyVSilo"
    BY <1>3, <1>8, <1>9, <2>1
  <2>2. CASE m.cmd # "destroyVSilo"
    <3>1. /\ <<>> \in Seq(Reports) /\ Elems(<<>>) = {} /\ toCtl = toCtl \o <<>>
      BY <1>1, QueueElems, QueueTypes, ConcatEmptySeq
    <3>2. QED
      BY <1>3, <2>2, <3>1
  <2>3. QED
    BY <2>1, <2>2
<1>14. SomeUp \/ m.cmd \in lost'
  BY <1>3, <1>6
<1>15. KeptPlaces /\ SameView /\ KeptCtl /\ KeptCluster
  BY <1>3, SameLedger DEF KeptPlaces, KeptCtl, KeptCluster, procVars, ctlVars
<1>16. QED
  BY <1>2, <1>3, <1>5, <1>12, <1>13, <1>14, <1>15 DEF DidPodsReceive, m

\* What pods do: they start, and may stop or be restarted.
LEMMA PodsDo ==
  ASSUME TypeInv, UNCHANGED session
  PROVE  /\ (\E a \in Creations : PodStarts(a)) => DidPodStarts /\ TypeInv'
         /\ (\E a \in Creations : PodStops(a) \/ PodRestarts(a)) => DidPod /\ TypeInv'
         /\ UNCHANGED vars => DidPod /\ TypeInv'
<1> USE DEF KeptPlaces, KeptCtl, KeptNet, KeptCluster, procVars, ctlVars, netVars, clusterVars
<1>0. /\ pod \in [Creations -> Pods] /\ toCtl \in Seq(Reports)
      /\ "restoreVThingsAck" \in Reports
      /\ NoPod \in Pods /\ NoPod.st = "none" /\ NoPod.data = {}
      /\ \A p \in Pods : /\ [p EXCEPT !.st = "up"] \in Pods
                         /\ [p EXCEPT !.st = "up"].st = "up"
                         /\ [p EXCEPT !.st = "up"].data = p.data
  BY DEF TypeInv, RestTyped, Reports, NoPod, Pods
<1>1. ASSUME NEW a \in Creations, PodStarts(a)
      PROVE  DidPodStarts /\ TypeInv'
  <2>1. /\ deployment = a /\ pod[a].st = "none"
        /\ toCtl' = Append(toCtl, "restoreVThingsAck")
        /\ pod' = [pod EXCEPT ![a] = [pod[a] EXCEPT !.st = "up"]]
        /\ UNCHANGED <<db, pc, seen, attempts>>
        /\ KeptCtl /\ UNCHANGED <<toPod, lost>> /\ KeptCluster
    BY <1>1 DEF PodStarts
  <2>2. /\ pod' \in [Creations -> Pods] /\ pod'[a].st = "up" /\ pod'[a].data = pod[a].data
        /\ \A b \in Creations : b # a => pod'[b] = pod[b]
    BY <1>0, <2>1
  <2>3. toCtl' \in Seq(Reports)
    BY <1>0, <2>1, QueueTypes
  <2>4. RestTyped'
    BY <2>1, <2>2, <2>3 DEF TypeInv, RestTyped
  <2>5. QED
    BY <2>1, <2>2, <2>4, StillTyped, SameLedger DEF DidPodStarts
<1>2. ASSUME NEW a \in Creations, PodStops(a) \/ PodRestarts(a)
      PROVE  DidPod /\ TypeInv'
  <2>1. /\ pod' = [pod EXCEPT ![a] = NoPod] /\ (deployment # a \/ "pod" \in faults')
        /\ UNCHANGED <<db, pc, seen, attempts>> /\ KeptCtl /\ KeptNet /\ KeptCluster
    BY <1>2, FaultStays DEF PodStops, PodRestarts
  <2>2. pod' \in [Creations -> Pods] /\ \A b \in Creations : PodGoesOn(b)
    BY <1>0, <2>1 DEF PodGoesOn
  <2>3. RestTyped'
    BY <2>1, <2>2 DEF TypeInv, RestTyped
  <2>4. QED
    BY <2>1, <2>2, <2>3, StillTyped, SameLedger DEF DidPod
<1>3. ASSUME UNCHANGED vars
      PROVE  DidPod /\ TypeInv'
  <2>1. RestTyped'
    BY <1>3 DEF vars, controllerVars, TypeInv, RestTyped
  <2>2. QED
    BY <1>3, <2>1, StillTyped, SameLedger DEF vars, controllerVars, DidPod, PodGoesOn
<1>4. QED
  BY <1>1, <1>2, <1>3

\* The login of the administrator brings its identity.
LEMMA LoginDoes ==
  ASSUME TypeInv, Login, UNCHANGED <<pod, session>>
  PROVE  DidLogin /\ TypeInv'
<1>1. RestTyped' /\ UNCHANGED <<db, pc, seen, attempts>>
  BY DEF Login, TypeInv, RestTyped, procVars, netVars, clusterVars
<1>2. DidLogin
  BY SameLedger DEF Login, DidLogin, KeptPlaces, KeptNet, KeptCluster, procVars, netVars,
     clusterVars
<1>3. QED
  BY <1>1, <1>2, StillTyped

\* What the loss of a message does.
LEMMA LoseDoes ==
  ASSUME TypeInv, Lose, UNCHANGED <<pod, session>>
  PROVE  DidLose /\ TypeInv'
<1>1. /\ toPod # <<>> => Tail(toPod) \in Seq(Commands)
      /\ toCtl # <<>> => Tail(toCtl) \in Seq(Reports)
  BY QueueTypes DEF TypeInv, RestTyped
<1>2. RestTyped' /\ UNCHANGED <<db, pc, seen, attempts>>
  BY <1>1 DEF Lose, TypeInv, RestTyped, procVars, ctlVars, clusterVars
<1>3. DidLose
  BY SameLedger, FaultStays
  DEF Lose, DidLose, KeptPlaces, KeptCtl, KeptCluster, procVars, ctlVars, clusterVars
<1>4. QED
  BY <1>2, <1>3, StillTyped

\* What a restart does.
LEMMA RestartDoes ==
  ASSUME TypeInv, Restart, UNCHANGED <<pod, session>>, Interrupted \subseteq races'
  PROVE  DidRestart /\ TypeInv'
<1>0. Stands
  BY DEF TypeInv
<1>1. /\ \A r \in Requests : /\ pc'[r] = IF AtRest(r) THEN pc[r] ELSE "failed"
                             /\ seen'[r] = Nil
      /\ \A j \in Jobs : /\ pc'[j] = IF AtRest(j) THEN pc[j] ELSE "waiting"
                         /\ seen'[j] = seen[j]
      /\ \A h \in Handlers : pc'[h] = "idle" /\ seen'[h] = Nil
      /\ Stands' /\ db' = db
  BY <1>0, RestartMoves
<1>2. /\ callback' = FALSE /\ identity' = FALSE /\ doomed' = FALSE
      /\ UNCHANGED <<attempts, subscribed, toPod, deployment, service>>
      /\ toCtl' = toCtl \/ toCtl' = <<>>
  BY DEF Restart, clusterVars
<1>3. toCtl' = toCtl \/ (toCtl' = <<>> /\ Elems(toCtl) \subseteq lost')
  <2>1. /\ Len(toCtl) \in Nat /\ Len(<<>>) = 0
    BY EmptySeq, LenProperties DEF TypeInv, RestTyped
  <2>2. lost' = lost \cup {toCtl[i] : i \in 1..(Len(toCtl) - Len(toCtl'))}
    BY DEF Restart
  <2>3. CASE toCtl' = <<>>
    <3>1. Len(toCtl) - Len(toCtl') = Len(toCtl)
      BY <2>1, <2>3
    <3>2. QED
      BY <2>2, <2>3, <3>1 DEF Elems
  <2>4. QED
    BY <1>2, <2>3
<1> USE ActorFacts DEF TypeInv, Places
<1>4. RestTyped'
  <2>1. toCtl \in Seq(Reports) /\ <<>> \in Seq(Reports)
    BY QueueTypes DEF RestTyped
  <2>2. toCtl' \in Seq(Reports)
    BY ONLY <1>2, <2>1
  <2>3. QED
    BY <1>2, <2>2 DEF RestTyped
<1>5. RequestsPlaced'
  BY <1>1 DEF RequestsPlaced, RequestLabels, AtRest, Ended
<1>6. JobsPlaced'
  <2>1. \A r \in Queued : pc'[r] \in Before => pc[r] \in Before
    BY <1>1 DEF Before
  <2>2. \A r \in Queued : pc[Job(r)] \in JobLabels(Kind[r])
                            => pc'[Job(r)] \in JobLabels(Kind[r])
    BY <1>1, RequestFacts DEF JobLabels, AtRest, Ended
  <2>3. QED
    BY <1>1, <2>1, <2>2 DEF JobsPlaced, AtRest, Ended
<1>7. HandlersPlaced'
  BY <1>1 DEF HandlersPlaced, HandlerLabels
<1>8. HandsFull'
  <2>1. \A r \in Requests : seen'[r] = Nil /\ pc'[r] \notin HoldsRecord \cup HoldsList
    BY <1>1 DEF AtRest, Ended, HoldsRecord, HoldsList
  <2>2. \A h \in Handlers : seen'[h] = Nil /\ pc'[h] \notin HoldsRecord \cup HoldsList
    BY <1>1 DEF HoldsRecord, HoldsList
  <2>3. \A j \in Jobs : seen'[j] = seen[j] /\ pc'[j] \notin HoldsRecord \cup HoldsList
    BY <1>1 DEF AtRest, Ended, HoldsRecord, HoldsList
  <2>4. QED
    BY <2>1, <2>2, <2>3 DEF HandsFull, Actors
<1>9. AttemptsLeft'
  BY <1>1, <1>2 DEF AttemptsLeft, AtRest, Ended
<1>10. DidRestart
  BY <1>1, <1>2, <1>3, SameLedger DEF DidRestart, KeptCluster
<1>11. LedgerType(db') /\ session' \in Sessions
  BY <1>1
<1>12. QED
  BY <1>1, <1>4, <1>5, <1>6, <1>7, <1>8, <1>9, <1>10, <1>11

-------------------------------------------------------------------------------
(***************************************************************************)
(* The type invariant of the life of a silo.                               *)
(***************************************************************************)
LEMMA InitTyped == Init => TypeInv
<1> SUFFICES ASSUME Init PROVE TypeInv
  OBVIOUS
<1> USE ActorFacts DEF Init, InitWith
<1>1. LedgerType(db)
  <2> DEFINE vs == {VThingTVKey(v) : v \in VThings}
             f  == FlavourKey(flavour)
             yes == \A r \in session.requests : Kind[r] # "addFlavour"
             rec == [status |-> "ready", details |-> Yaml]
  <2>1. db = [k \in Keys |-> CASE k \in vs -> NoDetails
                               [] k = f /\ yes -> rec
                               [] OTHER -> Nil]
    OBVIOUS
  <2>2. f \notin vs /\ rec \in Record
    BY KeyTypes, SiloAssumption, RecordFields, DetailFacts
    DEF SiloAssumption, FlavourKey, VThingTVKey
  <2>3. /\ vs \subseteq Keys /\ f \in Keys
        /\ \A k \in vs : NoDetails \in ValuesOf(k)
        /\ rec \in ValuesOf(f)
    BY <2>2, KeyTypes, SiloAssumption, DetailFacts DEF SiloAssumption
  <2> HIDE DEF vs, f, rec, yes
  <2>4. DOMAIN db = Keys
    BY <2>1
  <2>5. ASSUME NEW k \in Keys
        PROVE  db[k] \in ValuesOf(k)
    <3>1. CASE k \in vs
      BY <2>1, <2>3, <3>1
    <3>2. CASE k \notin vs /\ k = f /\ yes
      BY <2>1, <2>3, <3>2
    <3>3. CASE k \notin vs /\ ~(k = f /\ yes)
      BY <2>1, <3>3, NilEverywhere
    <3>4. QED
      BY <3>1, <3>2, <3>3
  <2>6. QED
    BY <2>4, <2>5 DEF LedgerType
<1>2. Stands
  BY DEF Stands
<1>3. RestTyped
  <2>1. <<>> \in Seq(Commands) /\ <<>> \in Seq(Reports)
    BY EmptySeq
  <2>2. NoPod \in Pods
    BY DEF NoPod, Pods
  <2>3. 0 \in 0..MaxAttempts
    BY ProcessAssumption DEF ProcessAssumption
  <2>4. QED
    BY <2>1, <2>2, <2>3 DEF RestTyped
<1>4. /\ \A r \in Requests : pc[r] = "new"
      /\ \A j \in Jobs : pc[j] = "none" /\ attempts[j] = 0
      /\ \A h \in Handlers : pc[h] = "idle"
      /\ \A a \in Actors : seen[a] = Nil
  OBVIOUS
<1>5. RequestsPlaced /\ JobsPlaced /\ HandlersPlaced
  BY <1>4 DEF RequestsPlaced, RequestLabels, JobsPlaced, JobLabels, HandlersPlaced,
      HandlerLabels
<1>6. AttemptsLeft
  BY <1>4, ProcessAssumption DEF AttemptsLeft, ProcessAssumption
<1>7. HandsFull
  BY <1>4 DEF HandsFull, HoldsRecord, HoldsList, Actors
<1>8. QED
  BY <1>1, <1>2, <1>3, <1>5, <1>6, <1>7 DEF TypeInv, Places

\* Every step does one of the above and keeps the type invariant.
LEMMA NextDoes == TypeInv /\ [Next]_vars => Happened /\ TypeInv'
<1> SUFFICES ASSUME TypeInv, [Next]_vars PROVE Happened /\ TypeInv'
  OBVIOUS
<1>1. CASE UNCHANGED vars
  BY <1>1, PodsDo DEF Happened, DidStep, OtherDid, vars, controllerVars
<1>2. CASE Next
  <2>0. UNCHANGED session
    BY <1>2 DEF Next
  <2>1. CASE ControllerStep /\ UNCHANGED pod
    <3> USE <2>0, <2>1 DEF Happened, DidStep
    <3>1. CASE Login
      BY <3>1, LoginDoes DEF OtherDid
    <3>2. ASSUME NEW r \in Requests,
                 \/ Add(r) \/ Delete(r) \/ GetFlavour(r) \/ Create(r) \/ EnqueueJob(r)
                 \/ Publish(r) \/ GetSilo(r) \/ Check(r) \/ SubmitAttachment(r)
          PROVE  RequestDid(r) /\ TypeInv'
      BY <3>2, HandlesDoes, ChangesDoes, EnqueueDoes, PublishDoes DEF RequestDid
    <3>3. ASSUME NEW r \in Queued,
                 \/ BeginJob(r) \/ CreateVirtualSiloOnKubernetes(r)
                 \/ CreateFlavourOnKubernetes(r)
          PROVE  JobDid(r) /\ TypeInv'
      BY <3>3, JobsDo, JobsWrite
      DEF JobDid, CreateVirtualSiloOnKubernetes, CreateFlavourOnKubernetes
    <3>4. ASSUME NEW a \in Actors,
                 Get(a) \/ DeleteOnKubernetes(a) \/ List(a) \/ Drop(a) \/ Forget(a)
          PROVE  CallerDid(a) /\ TypeInv'
      BY <3>4, CallersDo DEF CallerDid
    <3>5. ASSUME NEW h \in Handlers, Restore(h) \/ PublishRestore(h)
          PROVE  HandlerDid(h) /\ TypeInv'
      BY <3>5, HandlersDo DEF HandlerDid
    <3>6. CASE Receive
      BY <3>6, ReceiveDoes DEF OtherDid
    <3>7. QED
      BY <2>1, <3>1, <3>2, <3>3, <3>4, <3>5, <3>6 DEF ControllerStep
  <2>2. CASE PodStep \/ \E a \in Creations : PodRestarts(a)
    BY <2>0, <2>2, PodsReceiveDoes, PodsDo DEF PodStep, Happened, DidStep, OtherDid
  <2>3. CASE Lose /\ UNCHANGED pod
    BY <2>0, <2>3, LoseDoes DEF Happened, DidStep, OtherDid
  <2>4. ASSUME NEW r \in Requests, Accept(r), UNCHANGED pod
        PROVE  Happened /\ TypeInv'
    BY <2>0, <2>4, HandlesDoes DEF Happened, DidStep, RequestDid
  <2>5. CASE Restart /\ UNCHANGED pod /\ races' = races \cup Interrupted
    BY <2>0, <2>5, RestartDoes DEF Happened
  <2>6. QED
    BY <1>2, <2>1, <2>2, <2>3, <2>4, <2>5 DEF Next, Step
<1>3. QED
  BY <1>1, <1>2

\* Records, messages, pods and the places of the actors keep their shape, and
\* no job is attempted more than MaxAttempts times (submitJobAttempts).
THEOREM SiloTyped == Spec => []TypeOK
<1>1. TypeInv /\ [Next]_vars => TypeInv'
  BY NextDoes
<1>2. Spec => []TypeInv
  BY <1>1, InitTyped, PTL DEF Spec
<1>3. QED
  BY <1>2, TypeInvTypes, PTL

-------------------------------------------------------------------------------
(***************************************************************************)
(* The windows.  Every one that is open is in the history: a step records  *)
(* those it opens, and a restart opens none.                               *)
(***************************************************************************)
WindowsSeen == Windows \subseteq races

\* The history only grows.
Recorded ==
  /\ faults \subseteq faults' /\ races \subseteq races' /\ lost \subseteq lost'
  /\ session' = session

\* What counts as a destruction under way.
Deleters == {a \in Actors : pc[a] \in Tearing \/ (pc[a] = "get" /\ a \in Handlers)}
Destroys == {i \in 1..Len(toPod) : toPod[i].cmd = "destroyVSilo"}
Acks     == {i \in 1..Len(toCtl) : toCtl[i] = "destroyVSiloAck"}

Counted ==
  /\ Deletes = Cardinality(Deleters) + Cardinality(Destroys) + Cardinality(Acks)
  /\ IsFiniteSet(Deleters) /\ IsFiniteSet(Destroys) /\ IsFiniteSet(Acks)
  /\ Cardinality(Deleters) \in Nat /\ Cardinality(Destroys) \in Nat
  /\ Cardinality(Acks) \in Nat

\* The destructions under way are those who destroy, the commands that say so
\* and their acknowledgements.
LEMMA DeletesCounted == TypeInv => Counted
<1> SUFFICES ASSUME TypeInv PROVE Counted
  OBVIOUS
<1>1. IsFiniteSet(Deleters)
  BY ActorsFinite, FS_Subset DEF Deleters
<1>2. Len(toPod) \in Nat /\ Len(toCtl) \in Nat
  BY LenProperties DEF TypeInv, RestTyped
<1>3. IsFiniteSet(Destroys) /\ IsFiniteSet(Acks)
  <2>1. IsFiniteSet(1..Len(toPod)) /\ IsFiniteSet(1..Len(toCtl))
    BY <1>2, FS_Interval
  <2>2. QED
    BY <2>1, FS_Subset DEF Destroys, Acks
<1>4. QED
  BY <1>1, <1>3, FS_CardinalityType DEF Counted, Deletes, Deleters, Destroys, Acks

\* Two of anything that counts are two destructions.
LEMMA TwoDeletes ==
  ASSUME TypeInv, ~(Deletes > 1)
  PROVE  /\ \A a, b \in Deleters : a = b
         /\ Deleters # {} => Destroys = {} /\ Acks = {}
         /\ Destroys # {} => Acks = {}
<1>1. \A S : IsFiniteSet(S) /\ Cardinality(S) \in Nat /\ S # {} => Cardinality(S) >= 1
  BY FS_EmptySet
<1>2. /\ Deleters # {} => Destroys = {} /\ Acks = {}
      /\ Destroys # {} => Acks = {}
  BY <1>1, DeletesCounted DEF Counted
<1>3. ASSUME NEW a \in Deleters, NEW b \in Deleters, a # b
      PROVE  FALSE
  <2>1. /\ IsFiniteSet({a}) /\ Cardinality({a}) = 1 /\ {a} \subseteq Deleters /\ {a} # Deleters
    BY <1>3, FS_Singleton
  <2>2. Cardinality({a}) < Cardinality(Deleters)
    BY <2>1, DeletesCounted, FS_Subset DEF Counted
  <2>3. QED
    BY <2>1, <2>2, DeletesCounted DEF Counted
<1>4. QED
  BY <1>2, <1>3

OneDeleter == \A a, b \in Deleters : a = b

\* When no more than one destruction is counted, one actor at most makes it.
LEMMA OneDeleterAtMost == TypeInv /\ ~(Deletes > 1) => OneDeleter
  BY TwoDeletes DEF OneDeleter

\* None of these counts if nothing is being destroyed.
LEMMA NoDeletes ==
  ASSUME TypeInv, ~(Deletes > 0)
  PROVE  Deleters = {} /\ Destroys = {} /\ Acks = {}
<1>1. Cardinality(Deleters) = 0 /\ Cardinality(Destroys) = 0 /\ Cardinality(Acks) = 0
  BY DeletesCounted DEF Counted
<1>2. QED
  BY <1>1, DeletesCounted, FS_EmptySet DEF Counted

\* A window that is open after a restart was open before it.
LEMMA RestartOpensNothing ==
  ASSUME TypeInv, TypeInv', DidRestart
  PROVE  Windows' \subseteq Windows
<1> USE ActorFacts DEF DidRestart, KeptCluster
<1>1. \A r \in Requests : pc'[r] \in Ended \cup {"new", "none", "idle"}
  BY DEF AtRest, Ended
<1>2. \A j \in Jobs : pc'[j] \in Ended \cup {"none", "waiting", "new", "idle"}
  BY DEF AtRest, Ended
<1>3. /\ \A a \in Actors : pc'[a] \notin Tearing
      /\ \A a \in Handlers : pc'[a] = "idle"
      /\ \A r \in Requests : pc'[r] \notin {"check", "publish", "submit", "create",
                                            "enqueue", "deleteFlavour"}
      /\ \A r \in Creations : pc'[Job(r)] # "service"
  BY <1>1, <1>2 DEF Ended, Tearing, Actors
<1>4. ~(Deletes > 1) => ~(Deletes > 1)'
  <2>1. Deleters' = {}
    BY <1>1, <1>2, <1>3 DEF Deleters
  <2>2. Destroys' = Destroys /\ (Acks' = Acks \/ Acks' = {})
    <3>1. Destroys' = Destroys
      BY DEF Destroys
    <3>2. Len(<<>>) = 0
      BY EmptySeq
    <3>3. QED
      BY <3>1, <3>2 DEF Acks
  <2>3. Counted /\ Counted'
    BY DeletesCounted, PTL
  <2>4. Cardinality({}) = 0
    BY FS_EmptySet
  <2>5. /\ Cardinality(Deleters') = 0 /\ Cardinality(Destroys') = Cardinality(Destroys)
        /\ Cardinality(Acks') = Cardinality(Acks) \/ Cardinality(Acks') = 0
    BY <2>1, <2>2, <2>4
  <2>6. /\ Deletes = Cardinality(Deleters) + Cardinality(Destroys) + Cardinality(Acks)
        /\ Cardinality(Deleters) \in Nat /\ Cardinality(Destroys) \in Nat
        /\ Cardinality(Acks) \in Nat
        /\ Deletes' = Cardinality(Deleters') + Cardinality(Destroys') + Cardinality(Acks')
    BY <2>3 DEF Counted
  <2>7. QED
    BY ONLY <2>5, <2>6
<1>5. /\ ~(\E a \in Actors : pc'[a] \in Tearing)
      /\ \A k : Busy(k)' = {}
      /\ ~Restoring' /\ ~FromPendingFlavour'
      /\ ~(\E r \in Requests : pc'[r] = "deleteFlavour")
      /\ ~(\E r \in Creations : pc'[Job(r)] = "service")
  BY <1>3 DEF Busy, Restoring, FromPendingFlavour
<1>6. QED
  BY <1>4, <1>5 DEF Windows, Labelled

Grows == faults \subseteq faults' /\ lost \subseteq lost'

\* No step takes a fault or a loss out of the history.
LEMMA HistoryGrows ==
  ASSUME \/ Step \/ Lose \/ \E r \in Requests : Accept(r)
         \/ \E a \in Creations : PodRestarts(a)
  PROVE  Grows
<1> USE DEF Grows, rest, netVars
<1>1. \A a, tx, ok, err : Submit(a, tx, ok, err) => faults \subseteq faults'
  BY DEF Submit, Fault
<1>2. ASSUME NEW r \in Requests,
             \/ Add(r) \/ Delete(r) \/ GetFlavour(r) \/ Create(r) \/ EnqueueJob(r)
             \/ Publish(r) \/ GetSilo(r) \/ Check(r) \/ Accept(r)
      PROVE  Grows
  BY <1>1, <1>2, FaultStays
  DEF Add, Delete, GetFlavour, Create, EnqueueJob, Enqueue, Publish, PublishTo, GetSilo,
      Check, Accept, Start, Read
<1>3. ASSUME NEW r \in Requests, SubmitAttachment(r)
      PROVE  Grows
  BY <1>1, <1>3 DEF SubmitAttachment
<1>4. ASSUME NEW r \in Queued,
             \/ BeginJob(r) \/ CreateVirtualSiloOnKubernetes(r)
             \/ CreateFlavourOnKubernetes(r)
      PROVE  Grows
  BY <1>1, <1>4, FaultStays
  DEF BeginJob, StartJob, CreateVirtualSiloOnKubernetes, WritePending, Subscribe,
      WithoutYaml, CreateService, CreateDeployment, WriteRunning,
      CreateFlavourOnKubernetes, WriteFlavour, WriteFlavourError
<1>5. ASSUME NEW a \in Actors,
             Get(a) \/ DeleteOnKubernetes(a) \/ List(a) \/ Drop(a) \/ Forget(a)
      PROVE  Grows
  BY <1>1, <1>5, FaultStays
  DEF Get, Read, DeleteOnKubernetes, DeleteDeployment, List, Drop, Forget, Cleanup
<1>6. ASSUME NEW h \in Handlers, Restore(h) \/ PublishRestore(h)
      PROVE  Grows
  BY <1>6 DEF Restore, PublishRestore, PublishTo
<1>7. CASE Login \/ Receive \/ Lose
  BY <1>7, FaultStays DEF Login, Receive, Lose
<1>8. CASE PodStep \/ \E a \in Creations : PodRestarts(a)
  BY <1>8, FaultStays DEF PodStep, PodsReceive, PodStarts, PodStops, PodRestarts
<1>9. QED
  BY <1>2, <1>3, <1>4, <1>5, <1>6, <1>7, <1>8 DEF Step, ControllerStep

Inv == TypeInv /\ WindowsSeen

\* Nothing is under way at first, so no window is open.
LEMMA InitInv == Init => Inv
<1> SUFFICES ASSUME Init PROVE Windows = {}
  BY InitTyped DEF Inv, WindowsSeen
<1>1. TypeInv
  BY InitTyped
<1>2. /\ \A r \in Requests : pc[r] = "new"
      /\ \A j \in Jobs : pc[j] = "none"
      /\ \A h \in Handlers : pc[h] = "idle"
      /\ toPod = <<>> /\ toCtl = <<>> /\ service = FALSE
  BY ActorFacts DEF Init, InitWith
<1>3. /\ ~(\E a \in Actors : pc[a] \in Tearing)
      /\ \A k : Busy(k) = {}
      /\ ~Restoring /\ ~FromPendingFlavour
      /\ ~(\E r \in Requests : pc[r] = "deleteFlavour")
  <2>1. ~(\E a \in Actors : pc[a] \in Tearing)
    BY <1>2 DEF Tearing, Actors
  <2>2. \A k : Busy(k) = {}
    BY <1>2 DEF Busy
  <2>3. ~Restoring /\ ~FromPendingFlavour /\ ~(\E r \in Requests : pc[r] = "deleteFlavour")
    BY <1>2, ActorFacts DEF Restoring, FromPendingFlavour
  <2>4. QED
    BY <2>1, <2>2, <2>3
<1>4. ~(Deletes > 1)
  <2>1. Deleters = {}
    BY <1>2 DEF Deleters, Actors, Tearing
  <2>2. Len(toPod) = 0 /\ Len(toCtl) = 0
    BY <1>2, EmptySeq
  <2>3. Destroys = {} /\ Acks = {}
    BY <2>2 DEF Destroys, Acks
  <2>4. Cardinality({}) = 0
    BY FS_EmptySet
  <2>5. QED
    BY <1>1, <2>1, <2>3, <2>4, DeletesCounted DEF Counted
<1>5. QED
  BY <1>2, <1>3, <1>4 DEF Windows, Labelled

\* The steps of the specification, as the invariants below see them.
LEMMA StepDoes ==
  ASSUME Inv, [Next]_vars
  PROVE  Inv' /\ TypeInv /\ TypeInv' /\ Recorded /\ Happened
<1>0. TypeInv /\ TypeInv' /\ Happened /\ session' = session
  BY NextDoes DEF Inv, Next, vars, controllerVars
<1>1. CASE UNCHANGED vars
  <2>1. UNCHANGED Windows /\ UNCHANGED <<races, faults, lost>>
    BY <1>1
    DEF vars, controllerVars, Windows, Creating, AddingFlavour, Deletes, Connecting,
        Restoring, FromPendingFlavour, Busy, AtRest
  <2>2. QED
    BY <1>0, <2>1 DEF Inv, WindowsSeen, Recorded
<1>2. CASE Restart /\ UNCHANGED pod /\ races' = races \cup Interrupted
  <2>1. DidRestart
    BY <1>0, <1>2, RestartDoes
  <2>2. faults \subseteq faults' /\ lost \subseteq lost'
    BY <1>2 DEF Restart, Fault
  <2>3. QED
    BY <1>0, <1>2, <2>1, <2>2, RestartOpensNothing DEF Inv, WindowsSeen, Recorded
<1>3. CASE /\ \/ Step
              \/ (Lose \/ \E r \in Requests : Accept(r)) /\ UNCHANGED pod
              \/ \E a \in Creations : PodRestarts(a)
           /\ races' = races \cup Windows'
  <2>1. WindowsSeen' /\ races \subseteq races'
    BY <1>3 DEF WindowsSeen
  <2>2. QED
    BY <1>0, <1>3, <2>1, HistoryGrows DEF Inv, Recorded, Grows
<1>4. QED
  BY <1>1, <1>2, <1>3 DEF Next

-------------------------------------------------------------------------------
(***************************************************************************)
(* Who changes what: the ledger, the Deployment, the callback and the      *)
(* place of an actor.  Everything else leaves it alone.                    *)
(***************************************************************************)
LEMMA LedgerChanges ==
  ASSUME Happened
  PROVE  \/ SameView
         \/ \E r \in Requests : /\ DidAdd(r) /\ Kind[r] = "addFlavour" /\ Flavour = Nil
                                /\ FlavourWritten(STATUS_PENDING)
         \/ \E r \in Requests : DidDelete(r) /\ FlavourDeleted
         \/ \E r \in Queued : DidFlavour(r) /\ FlavourWritten("ready")
         \/ \E r \in Queued : DidFlavourError(r) /\ FlavourWritten("error")
         \/ \E r \in Creations : /\ DidCreate(r) /\ Silo = Nil
                                /\ SiloWritten(STATUS_PENDING, NoDetails)
         \/ \E r \in Creations : /\ DidPending(r) /\ Silo # Nil
                                /\ SiloWritten(STATUS_PENDING, NoDeployment)
         \/ \E r \in Creations : /\ DidRunning(r) /\ Silo # Nil
                                /\ SiloWritten(STATUS_RUNNING,
                                               IF HasYaml(r) THEN r ELSE NoYaml)
         \/ \E a \in Actors : DidDrop(a) /\ SiloDropped(seen[a].vThings)
         \/ \E r \in Requests, v \in VThings :
              /\ DidSubmit(r) /\ Kind[r] = "attach" /\ Target[r] = {v}
              /\ VThingAttached(v)
         \/ \E r \in Requests, v \in VThings :
              /\ DidSubmit(r) /\ Kind[r] = "detach" /\ Target[r] = {v}
              /\ VThingDetached(v)
<1>1. CASE OtherDid \/ DidRestart
  BY <1>1
  DEF OtherDid, DidLogin, DidReceive, DidPodsReceive, DidPodStarts, DidPod, DidLose,
      DidRestart
<1>2. ASSUME NEW r \in Requests,
             \/ DidAccept(r) \/ DidGetFlavour(r) \/ DidEnqueue(r) \/ DidGetSilo(r)
             \/ DidCheck(r) \/ DidPublish(r)
      PROVE  SameView
  BY <1>2 DEF DidAccept, DidGetFlavour, DidEnqueue, DidGetSilo, DidCheck, DidPublish
<1>3. ASSUME NEW r \in Queued,
             \/ DidBegin(r) \/ DidSubscribe(r) \/ DidWithoutYaml(r) \/ DidService(r)
             \/ DidDeploy(r)
      PROVE  SameView
  BY <1>3 DEF DidBegin, DidSubscribe, DidWithoutYaml, DidService, DidDeploy
<1>4. ASSUME NEW a \in Actors,
             DidGet(a) \/ DidDeleteOnKubernetes(a) \/ DidList(a) \/ DidForget(a)
      PROVE  SameView
  BY <1>4 DEF DidGet, DidDeleteOnKubernetes, DidList, DidForget
<1>5. ASSUME NEW h \in Handlers, HandlerDid(h)
      PROVE  SameView
  BY <1>5 DEF HandlerDid, DidRestore, DidPublishRestore
<1>6. ASSUME NEW r \in Requests, DidAdd(r) \/ DidDelete(r) \/ DidCreate(r)
      PROVE  \/ SameView
             \/ /\ DidAdd(r) /\ Kind[r] = "addFlavour" /\ Flavour = Nil
                /\ FlavourWritten(STATUS_PENDING)
             \/ DidDelete(r) /\ FlavourDeleted
             \/ /\ r \in Creations /\ DidCreate(r) /\ Silo = Nil
                /\ SiloWritten(STATUS_PENDING, NoDetails)
  BY <1>6, RequestFacts DEF DidAdd, DidDelete, DidCreate, Submitted
<1>7. ASSUME NEW r \in Queued,
             DidPending(r) \/ DidRunning(r) \/ DidFlavour(r) \/ DidFlavourError(r)
      PROVE  \/ SameView
             \/ DidFlavour(r) /\ FlavourWritten("ready")
             \/ DidFlavourError(r) /\ FlavourWritten("error")
             \/ /\ r \in Creations /\ DidPending(r) /\ Silo # Nil
                /\ SiloWritten(STATUS_PENDING, NoDeployment)
             \/ /\ r \in Creations /\ DidRunning(r) /\ Silo # Nil
                /\ SiloWritten(STATUS_RUNNING, IF HasYaml(r) THEN r ELSE NoYaml)
  BY <1>7, RequestFacts, ActorFacts
  DEF DidPending, DidRunning, DidFlavour, DidFlavourError, Submitted
<1>8. ASSUME NEW a \in Actors, DidDrop(a)
      PROVE  SameView \/ SiloDropped(seen[a].vThings)
  BY <1>8 DEF DidDrop, Submitted
<1>9. ASSUME NEW r \in Requests, DidSubmit(r)
      PROVE  \/ SameView
             \/ \E v \in VThings : /\ Kind[r] = "attach" /\ Target[r] = {v}
                                   /\ VThingAttached(v)
             \/ \E v \in VThings : /\ Kind[r] = "detach" /\ Target[r] = {v}
                                   /\ VThingDetached(v)
  BY <1>9 DEF DidSubmit, Submitted
<1>10. QED
  BY <1>1, <1>2, <1>3, <1>4, <1>5, <1>6, <1>7, <1>8, <1>9
  DEF Happened, DidStep, RequestDid, JobDid, CallerDid, HandlerDid

\* A Deployment appears when a creation's job makes it, and goes when a
\* destruction that read its name deletes it.
LEMMA DeploymentChanges ==
  ASSUME Happened
  PROVE  \/ deployment' = deployment
         \/ \E r \in Creations : /\ DidDeploy(r) /\ pc[Job(r)] = "deploy"
                                /\ pc'[Job(r)] = "running"
                                /\ deployment = NoDeployment /\ deployment' = r
         \/ \E a \in Actors : /\ DidDeleteOnKubernetes(a) /\ pc[a] = "k8s"
                             /\ Deployed(seen[a]) /\ seen[a].details # NoYaml
                             /\ pc'[a] = "list" /\ deployment # NoDeployment
                             /\ deployment' = NoDeployment
<1> USE DEF KeptAll, KeptCluster
<1>1. CASE OtherDid \/ DidRestart
  BY <1>1
  DEF OtherDid, DidLogin, DidReceive, DidPodsReceive, DidPodStarts, DidPod, DidLose,
      DidRestart
<1>2. ASSUME NEW r \in Requests, RequestDid(r)
      PROVE  deployment' = deployment
  BY <1>2
  DEF RequestDid, DidAccept, DidAdd, DidDelete, DidGetFlavour, DidCreate, DidEnqueue,
      DidGetSilo, DidCheck, DidSubmit, DidPublish
<1>3. ASSUME NEW r \in Queued, JobDid(r)
      PROVE  \/ deployment' = deployment
             \/ /\ r \in Creations /\ DidDeploy(r) /\ pc[Job(r)] = "deploy"
                /\ pc'[Job(r)] = "running" /\ deployment = NoDeployment /\ deployment' = r
  BY <1>3, RequestFacts, ActorFacts
  DEF JobDid, DidBegin, DidPending, DidSubscribe, DidWithoutYaml, DidService, DidDeploy,
      DidRunning, DidFlavour, DidFlavourError, Moved, Ended
<1>4. ASSUME NEW a \in Actors, CallerDid(a)
      PROVE  \/ deployment' = deployment
             \/ /\ DidDeleteOnKubernetes(a) /\ pc[a] = "k8s" /\ Deployed(seen[a])
                /\ seen[a].details # NoYaml /\ pc'[a] = "list"
                /\ deployment # NoDeployment /\ deployment' = NoDeployment
  BY <1>4
  DEF CallerDid, DidGet, DidDeleteOnKubernetes, DidList, DidDrop, DidForget, Moved, Ended
<1>5. ASSUME NEW h \in Handlers, HandlerDid(h)
      PROVE  deployment' = deployment
  BY <1>5 DEF HandlerDid, DidRestore, DidPublishRestore
<1>6. QED
  BY <1>1, <1>2, <1>3, <1>4, <1>5 DEF Happened, DidStep

\* The callback comes with a creation's job and goes with a destruction or a
\* restart.
LEMMA CallbackChanges ==
  ASSUME Happened
  PROVE  \/ callback' = callback /\ subscribed' = subscribed
         \/ \E r \in Creations : /\ DidSubscribe(r) /\ pc[Job(r)] = "subscribe"
                                /\ callback' /\ subscribed'
         \/ \E a \in Actors : /\ DidForget(a) /\ pc[a] = "cleanup"
                             /\ ~callback' /\ ~subscribed'
         \/ DidRestart /\ ~callback' /\ subscribed' = subscribed
<1> USE DEF KeptAll, KeptCtl
<1>1. CASE OtherDid
  BY <1>1
  DEF OtherDid, DidLogin, DidReceive, DidPodsReceive, DidPodStarts, DidPod, DidLose
<1>2. ASSUME NEW r \in Requests, RequestDid(r)
      PROVE  callback' = callback /\ subscribed' = subscribed
  BY <1>2
  DEF RequestDid, DidAccept, DidAdd, DidDelete, DidGetFlavour, DidCreate, DidEnqueue,
      DidGetSilo, DidCheck, DidSubmit, DidPublish
<1>3. ASSUME NEW r \in Queued, JobDid(r)
      PROVE  \/ callback' = callback /\ subscribed' = subscribed
             \/ /\ r \in Creations /\ DidSubscribe(r) /\ pc[Job(r)] = "subscribe"
                /\ callback' /\ subscribed'
  BY <1>3, RequestFacts, ActorFacts
  DEF JobDid, DidBegin, DidPending, DidSubscribe, DidWithoutYaml, DidService, DidDeploy,
      DidRunning, DidFlavour, DidFlavourError
<1>4. ASSUME NEW a \in Actors, CallerDid(a)
      PROVE  \/ callback' = callback /\ subscribed' = subscribed
             \/ DidForget(a) /\ pc[a] = "cleanup" /\ ~callback' /\ ~subscribed'
  BY <1>4 DEF CallerDid, DidGet, DidDeleteOnKubernetes, DidList, DidDrop, DidForget
<1>5. ASSUME NEW h \in Handlers, HandlerDid(h)
      PROVE  callback' = callback /\ subscribed' = subscribed
  BY <1>5 DEF HandlerDid, DidRestore, DidPublishRestore
<1>6. QED
  BY <1>1, <1>2, <1>3, <1>4, <1>5 DEF Happened, DidStep, DidRestart

\* Only a restart takes the identity out of the wallet.
LEMMA IdentityStays ==
  ASSUME Happened, identity
  PROVE  identity' \/ DidRestart
<1> USE DEF KeptAll, KeptCtl
<1>1. CASE OtherDid
  BY <1>1
  DEF OtherDid, DidLogin, DidReceive, DidPodsReceive, DidPodStarts, DidPod, DidLose
<1>2. ASSUME NEW r \in Requests, RequestDid(r)
      PROVE  identity'
  BY <1>2
  DEF RequestDid, DidAccept, DidAdd, DidDelete, DidGetFlavour, DidCreate, DidEnqueue,
      DidGetSilo, DidCheck, DidSubmit, DidPublish
<1>3. ASSUME NEW r \in Queued, JobDid(r)
      PROVE  identity'
  BY <1>3
  DEF JobDid, DidBegin, DidPending, DidSubscribe, DidWithoutYaml, DidService, DidDeploy,
      DidRunning, DidFlavour, DidFlavourError
<1>4. ASSUME NEW a \in Actors, CallerDid(a)
      PROVE  identity'
  BY <1>4 DEF CallerDid, DidGet, DidDeleteOnKubernetes, DidList, DidDrop, DidForget
<1>5. ASSUME NEW h \in Handlers, HandlerDid(h)
      PROVE  identity'
  BY <1>5 DEF HandlerDid, DidRestore, DidPublishRestore
<1>6. QED
  BY <1>1, <1>2, <1>3, <1>4, <1>5 DEF Happened, DidStep

\* Every step but a restart and the queuing of a job moves one actor at most.
Still(a) == pc'[a] = pc[a] /\ seen'[a] = seen[a]

\* Where one actor moves, every other one stays.
LEMMA MovedStill ==
  ASSUME NEW a \in Actors, NEW b \in Actors, b # a,
         \/ \E l, what : Moved(a, l, what)
         \/ \E ok, err, Done, Refused : Submitted(a, ok, err, Done, Refused)
  PROVE  Still(b)
  BY DEF Moved, Submitted, Still

\* A step of a request moves the request, and its job when it queues it.
LEMMA RequestDidMove ==
  ASSUME NEW r \in Requests, RequestDid(r)
  PROVE  \/ \E l, what : Moved(r, l, what)
         \/ /\ DidEnqueue(r) /\ r \in Queued
            /\ \A b \in Actors : b # r /\ b # Job(r) => Still(b)
<1>1. CASE DidAccept(r) \/ DidGetFlavour(r) \/ DidGetSilo(r) \/ DidCheck(r) \/ DidPublish(r)
  BY <1>1 DEF DidAccept, DidGetFlavour, DidGetSilo, DidCheck, DidPublish
<1>2. CASE DidAdd(r) \/ DidDelete(r) \/ DidCreate(r) \/ DidSubmit(r)
  BY <1>2 DEF DidAdd, DidDelete, DidCreate, DidSubmit, Submitted
<1>3. CASE DidEnqueue(r)
  BY <1>3 DEF DidEnqueue, Still
<1>4. QED
  BY <1>1, <1>2, <1>3 DEF RequestDid

\* A step of a job moves that job.
LEMMA JobDidMove ==
  ASSUME NEW r \in Queued, JobDid(r)
  PROVE  \E l, what : Moved(Job(r), l, what)
<1>1. CASE DidBegin(r) \/ DidSubscribe(r) \/ DidWithoutYaml(r) \/ DidService(r) \/ DidDeploy(r)
  BY <1>1 DEF DidBegin, DidSubscribe, DidWithoutYaml, DidService, DidDeploy
<1>2. CASE DidPending(r) \/ DidRunning(r) \/ DidFlavour(r) \/ DidFlavourError(r)
  BY <1>2 DEF DidPending, DidRunning, DidFlavour, DidFlavourError, Submitted
<1>3. QED
  BY <1>1, <1>2 DEF JobDid

\* A step of a destruction moves the request or the callback that makes it.
LEMMA CallerDidMove ==
  ASSUME NEW a \in Actors, CallerDid(a)
  PROVE  \E l, what : Moved(a, l, what)
  BY DEF CallerDid, DidGet, DidDeleteOnKubernetes, DidList, DidDrop, DidForget, Submitted

\* A step of the restoring callback moves that callback.
LEMMA HandlerDidMove ==
  ASSUME NEW h \in Handlers, HandlerDid(h)
  PROVE  \E l, what : Moved(h, l, what)
  BY DEF HandlerDid, DidRestore, DidPublishRestore

\* Whoever has moved has done it, has received a message or was restarted.
LEMMA Moves ==
  ASSUME Happened, NEW b \in Actors
  PROVE  \/ Still(b)
         \/ b \in Requests /\ RequestDid(b)
         \/ \E r \in Queued : b = Job(r) /\ (JobDid(r) \/ DidEnqueue(r))
         \/ CallerDid(b)
         \/ b \in Handlers /\ (HandlerDid(b) \/ DidReceive)
         \/ DidRestart
<1>1. CASE DidLogin \/ DidPodsReceive \/ DidPodStarts \/ DidPod \/ DidLose
  BY <1>1 DEF DidLogin, DidPodsReceive, DidPodStarts, DidPod, DidLose, KeptPlaces, Still
<1>2. CASE DidReceive
  BY <1>2, ActorFacts, MovedStill DEF DidReceive, KeptPlaces, Still
<1>3. ASSUME NEW r \in Requests, RequestDid(r)
      PROVE  \/ Still(b) \/ b = r
             \/ r \in Queued /\ b = Job(r) /\ DidEnqueue(r)
  BY <1>3, RequestDidMove, MovedStill, ActorFacts
<1>4. ASSUME NEW r \in Queued, JobDid(r)
      PROVE  Still(b) \/ b = Job(r)
  BY <1>4, JobDidMove, MovedStill, ActorFacts
<1>5. ASSUME NEW a \in Actors, CallerDid(a)
      PROVE  Still(b) \/ b = a
  BY <1>5, CallerDidMove, MovedStill
<1>6. ASSUME NEW h \in Handlers, HandlerDid(h)
      PROVE  Still(b) \/ b = h
  BY <1>6, HandlerDidMove, MovedStill, ActorFacts
<1>7. QED
  BY <1>1, <1>2, <1>3, <1>4, <1>5, <1>6 DEF Happened, DidStep, OtherDid

\* A request and a job only do what a request and a job can do.
LEMMA RequestMoves ==
  ASSUME Happened, NEW r \in Requests
  PROVE  Still(r) \/ RequestDid(r) \/ CallerDid(r) \/ DidRestart
<1>1. r \in Actors /\ r \notin Handlers /\ \A q \in Queued : r # Job(q)
  BY ActorFacts
<1>2. QED
  BY <1>1, Moves

\* Whose steps move a job, and none moves one that has ended.
LEMMA JobMoves ==
  ASSUME Happened, NEW r \in Queued
  PROVE  /\ Still(Job(r)) \/ JobDid(r) \/ DidEnqueue(r) \/ DidRestart
         /\ JobDid(r) => pc[Job(r)] \notin Ended \cup {"none"}
         /\ ~CallerDid(Job(r))
<1>1. /\ Job(r) \in Actors /\ Job(r) \notin Handlers /\ Job(r) \notin Requests
      /\ \A q \in Queued : Job(r) = Job(q) => q = r
  BY ActorFacts
<1>2. ~CallerDid(Job(r))
  BY <1>1
  DEF CallerDid, DidGet, DidDeleteOnKubernetes, DidList, DidDrop, DidForget, Caller
<1>3. JobDid(r) => pc[Job(r)] \notin Ended \cup {"none"}
  BY DEF JobDid, DidBegin, DidPending, DidSubscribe, DidWithoutYaml, DidService, DidDeploy,
     DidRunning, DidFlavour, DidFlavourError, Ended
<1>4. QED
  BY <1>1, <1>2, <1>3, Moves

-------------------------------------------------------------------------------
(***************************************************************************)
(* The flavour.  While it is not ready, the job that will make it so is on *)
(* its way.                                                                *)
(***************************************************************************)
Adding(r) == Kind[r] = "addFlavour" /\ (pc[r] = "enqueue" \/ ~AtRest(Job(r)))

FlavourCauses == {"enqueue", "submit", "flavourDeletedDuringAdd", "flavourInterrupted"}

UnreadyIsAdded == Flavour # Nil /\ Flavour.status # "ready" => AddingFlavour
AddedIsThere   == AddingFlavour => Flavour # Nil /\ identity
AdderHasIdentity == \A r \in Requests : pc[r] = "addFlavour" => identity
NoFlavourError   == \A r \in Queued : pc[Job(r)] # "flavourError"

FlavourBody == UnreadyIsAdded /\ AddedIsThere /\ AdderHasIdentity /\ NoFlavourError

\* A flavour is being added when some request adds it.
LEMMA AddingIsSome == AddingFlavour <=> \E r \in Requests : Adding(r)
  BY DEF AddingFlavour, Adding

\* An addition begins with its record and ends with its job.
LEMMA AddingMoves ==
  ASSUME TypeInv, TypeInv', Happened, ~DidRestart,
         NEW r \in Requests, Kind[r] = "addFlavour"
  PROVE  \/ Adding(r)' <=> Adding(r)
         \/ DidAdd(r) /\ pc'[r] = "enqueue" /\ Flavour = Nil /\ Flavour' # Nil
         \/ DidEnqueue(r) /\ "enqueue" \in faults'
         \/ DidFlavour(r) \/ DidFlavourError(r)
<1>0. /\ r \in Queued /\ r \in Actors /\ Job(r) \in Actors /\ r # Job(r) /\ r \notin Handlers
      /\ Job(r) \notin Handlers
  BY ActorFacts, RequestFacts
<1>1. CASE DidEnqueue(r)
  BY <1>0, <1>1 DEF DidEnqueue, Adding, AtRest, Ended
<1>2. CASE JobDid(r)
  <2>1. DidBegin(r) \/ DidFlavour(r) \/ DidFlavourError(r)
    BY <1>2
    DEF JobDid, DidPending, DidSubscribe, DidWithoutYaml, DidService, DidDeploy, DidRunning
  <2>2. CASE DidBegin(r)
    BY <1>0, <2>2 DEF DidBegin, Moved, Adding, AtRest, Ended
  <2>3. QED
    BY <2>1, <2>2
<1>3. CASE Still(Job(r)) /\ ~DidEnqueue(r)
  <2>1. ~CallerDid(r)
    BY <1>0
    DEF CallerDid, DidGet, DidDeleteOnKubernetes, DidList, DidDrop, DidForget, Caller
  <2>2. CASE Still(r)
    BY <1>3, <2>2 DEF Still, Adding, AtRest
  <2>3. CASE DidAccept(r)
    BY <1>0, <1>3, <2>3 DEF DidAccept, Moved, FirstOf, Still, Adding, AtRest, Ended
  <2>4. CASE DidAdd(r)
    BY <1>0, <1>3, <2>4
    DEF DidAdd, Submitted, Moved, FlavourWritten, Still, Adding, AtRest, Ended
  <2>5. RequestDid(r) => DidAccept(r) \/ DidAdd(r)
    BY <1>3 DEF RequestDid, DidDelete, DidGetFlavour, DidCreate, DidGetSilo, DidCheck,
       DidSubmit, DidPublish
  <2>6. QED
    BY <2>1, <2>2, <2>3, <2>4, <2>5, RequestMoves
<1>4. QED
  BY <1>0, <1>1, <1>2, <1>3, JobMoves

\* Every step keeps that a flavour that is not ready is being added, and one
\* being added is there.
LEMMA FlavourStep ==
  ASSUME Inv, [Next]_vars, Without(FlavourCauses)', FlavourBody
  PROVE  FlavourBody'
<1>0. Inv' /\ TypeInv /\ TypeInv' /\ Recorded /\ Happened
  BY StepDoes
<1>1. /\ "enqueue" \notin faults' /\ "submit" \notin faults'
      /\ "flavourInterrupted" \notin races' /\ "flavourDeletedDuringAdd" \notin races
  BY <1>0 DEF Without, FlavourCauses, Recorded
<1>2. AddingFlavour => \A r \in Requests : pc[r] # "deleteFlavour"
  BY <1>1 DEF Inv, WindowsSeen, Windows, Labelled
<1>3. CASE DidRestart
  <2>1. ~AddingFlavour
    BY <1>1, <1>3 DEF DidRestart, Interrupted, Labelled
  <2>2. ASSUME NEW r \in Requests, Kind[r] = "addFlavour"
        PROVE  ~Adding(r)'
    <3>1. ~Adding(r) /\ Job(r) \in Jobs
      BY <2>1, <2>2, AddingIsSome, ActorFacts, RequestFacts
    <3>2. QED
      BY <1>3, <2>2, <3>1 DEF DidRestart, Adding, AtRest, Ended
  <2>3. ~AddingFlavour'
    BY <2>2 DEF AddingFlavour, Adding
  <2>4. NoFlavourError'
    BY <1>3, ActorFacts DEF DidRestart, FlavourBody, NoFlavourError
  <2>5. AdderHasIdentity'
    BY <1>3 DEF DidRestart, AdderHasIdentity, AtRest, Ended
  <2>6. UnreadyIsAdded'
    BY <1>3, <2>1 DEF DidRestart, SameView, FlavourBody, UnreadyIsAdded
  <2>7. QED
    BY <2>3, <2>4, <2>5, <2>6 DEF FlavourBody, AddedIsThere
<1>4. CASE ~DidRestart
  <2>1. NoFlavourError'
    <3> SUFFICES ASSUME NEW r \in Queued PROVE pc'[Job(r)] # "flavourError"
      BY DEF NoFlavourError
    <3>1. pc[Job(r)] # "flavourError" /\ Job(r) \in Actors /\ Job(r) \notin Handlers
      BY ActorFacts DEF FlavourBody, NoFlavourError
    <3>2. CASE DidFlavour(r)
      <4>1. AddingFlavour
        BY <3>2, ActorFacts DEF DidFlavour, AddingFlavour, AtRest, Ended
      <4>2. identity /\ Flavour # Nil
        BY <4>1 DEF FlavourBody, AddedIsThere
      <4>3. QED
        BY <1>1, <3>1, <3>2, <4>2 DEF DidFlavour, Submitted, Moved
    <3>3. CASE JobDid(r) /\ ~DidFlavour(r)
      BY <3>1, <3>3
      DEF JobDid, DidBegin, DidPending, DidSubscribe, DidWithoutYaml, DidService, DidDeploy,
          DidRunning, DidFlavourError, Submitted, Moved
    <3>4. CASE DidEnqueue(r)
      BY <3>1, <3>4, ActorFacts, <1>1 DEF DidEnqueue
    <3>5. QED
      BY <1>0, <1>4, <3>1, <3>2, <3>3, <3>4, JobMoves DEF Still
  <2>2. ASSUME NEW r \in Requests, Adding(r), ~Adding(r)'
        PROVE  DidFlavour(r) /\ pc'[Job(r)] # "flavourError" /\ FlavourWritten("ready")
    <3>0. Kind[r] = "addFlavour" /\ AddingFlavour /\ r \in Queued
      BY <2>2, RequestFacts, AddingIsSome DEF Adding
    <3>00. Job(r) \in Actors /\ Job(r) \notin Handlers /\ pc[Job(r)] # "flavourError"
      BY <3>0, ActorFacts DEF FlavourBody, NoFlavourError
    <3>1. DidFlavour(r)
      <4>1. ~DidFlavourError(r)
        BY <3>00 DEF DidFlavourError
      <4>2. ~(pc[r] = "addFlavour" /\ DidAdd(r) /\ Flavour = Nil)
        BY <3>0 DEF FlavourBody, AddedIsThere
      <4>3. QED
        BY <1>0, <1>1, <1>4, <2>2, <3>0, <4>1, <4>2, AddingMoves DEF DidAdd
    <3>2. identity /\ Flavour # Nil
      BY <3>0 DEF FlavourBody, AddedIsThere
    <3>3. pc'[Job(r)] # "flavourError"
      BY <2>1, <3>0 DEF NoFlavourError
    <3>4. QED
      BY <1>1, <3>1, <3>2, <3>3, <3>00 DEF DidFlavour, Submitted, Moved
  <2>3. ASSUME NEW r \in Requests, ~Adding(r), Adding(r)'
        PROVE  DidAdd(r) /\ Flavour' # Nil /\ identity'
    <3>0. Kind[r] = "addFlavour" /\ r \in Queued
      BY <2>3, RequestFacts DEF Adding
    <3>1. DidAdd(r) /\ Flavour' # Nil
      <4>1. ~DidFlavour(r) /\ ~DidFlavourError(r)
        BY <2>3, <3>0 DEF DidFlavour, DidFlavourError, Adding, AtRest, Ended
      <4>2. QED
        BY <1>0, <1>1, <1>4, <2>3, <3>0, <4>1, AddingMoves
    <3>2. identity /\ identity' = identity
      BY <3>1 DEF DidAdd, KeptAll, KeptCtl, FlavourBody, AdderHasIdentity
    <3>3. QED
      BY <3>1, <3>2
  <2>4. AddedIsThere'
    <3> SUFFICES ASSUME AddingFlavour' PROVE Flavour' # Nil /\ identity'
      BY DEF AddedIsThere
    <3>1. PICK r \in Requests : Adding(r)'
      BY DEF AddingFlavour, Adding
    <3>2. CASE ~AddingFlavour
      BY <2>3, <3>1, <3>2, AddingIsSome
    <3>3. CASE AddingFlavour
      <4>1. Flavour # Nil /\ identity
        BY <3>3 DEF FlavourBody, AddedIsThere
      <4>2. identity'
        BY <1>0, <1>4, <4>1, IdentityStays
      <4>3. ~(\E q \in Requests : DidDelete(q))
        BY <1>2, <3>3 DEF DidDelete
      <4>4. Flavour' # Nil
        BY <1>0, <4>1, <4>3, LedgerChanges
        DEF SameView, FlavourWritten, SiloWritten, SiloDropped, VThingAttached, VThingDetached
      <4>5. QED
        BY <4>2, <4>4
    <3>4. QED
      BY <3>2, <3>3
  <2>5. AdderHasIdentity'
    <3> SUFFICES ASSUME NEW r \in Requests, pc'[r] = "addFlavour" PROVE identity'
      BY DEF AdderHasIdentity
    <3>0. r \in Actors /\ r \notin Handlers
      BY ActorFacts
    <3>1. CASE Still(r)
      BY <1>0, <1>4, <3>1, IdentityStays DEF Still, FlavourBody, AdderHasIdentity
    <3>2. CASE DidAccept(r)
      BY <3>2 DEF DidAccept, KeptAll, KeptCtl
    <3>3. CASE RequestDid(r) /\ ~DidAccept(r)
      BY <3>0, <3>3
      DEF RequestDid, DidAdd, DidDelete, DidGetFlavour, DidCreate, DidEnqueue, DidGetSilo,
          DidCheck, DidSubmit, DidPublish, Submitted, Moved
    <3>4. CASE CallerDid(r)
      BY <3>0, <3>4
      DEF CallerDid, DidGet, AfterGet, DidDeleteOnKubernetes, DidList, DidDrop, DidForget,
          Submitted, Moved
    <3>5. QED
      BY <1>0, <1>4, <3>1, <3>2, <3>3, <3>4, RequestMoves
  <2>6. UnreadyIsAdded'
    <3> SUFFICES ASSUME Flavour' # Nil, Flavour'.status # "ready" PROVE AddingFlavour'
      BY DEF UnreadyIsAdded
    <3>1. CASE Flavour' = Flavour
      <4>1. AddingFlavour
        BY <3>1 DEF FlavourBody, UnreadyIsAdded
      <4>2. PICK r \in Requests : Adding(r)
        BY <4>1, AddingIsSome
      <4>3. Adding(r)'
        BY <2>2, <4>2 DEF FlavourWritten
      <4>4. QED
        BY <4>3 DEF AddingFlavour, Adding
    <3>2. ASSUME NEW r \in Requests, DidAdd(r), Flavour = Nil
          PROVE  Flavour' = Flavour \/ AddingFlavour'
      BY <1>1, <3>2, ActorFacts
      DEF DidAdd, Submitted, SameView, Moved, AddingFlavour, Ended
    <3>3. ASSUME NEW r \in Queued, DidFlavourError(r)
          PROVE  FALSE
      BY <3>3 DEF DidFlavourError, FlavourBody, NoFlavourError
    <3>4. QED
      BY <1>0, <3>1, <3>2, <3>3, LedgerChanges
      DEF SameView, FlavourWritten, FlavourDeleted, SiloWritten, SiloDropped,
          VThingAttached, VThingDetached
  <2>7. QED
    BY <2>1, <2>4, <2>5, <2>6 DEF FlavourBody
<1>5. QED
  BY <1>3, <1>4

\* A flavour that has been added becomes ready: the job that writes it is
\* queued, has the identity it needs and finds the record.
THEOREM FlavoursGetReady == Spec => []FlavourGetsReady
<1> DEFINE I == Inv /\ (Without(FlavourCauses) => FlavourBody)
<1>1. Init => I
  <2> SUFFICES ASSUME Init PROVE FlavourBody
    BY InitInv
  <2>1. /\ \A r \in Requests : pc[r] = "new"
        /\ \A j \in Jobs : pc[j] = "none"
    BY ActorFacts DEF Init, InitWith
  <2>2. ~AddingFlavour
    BY <2>1, ActorFacts, RequestFacts DEF AddingFlavour, AtRest
  <2>3. Flavour # Nil => Flavour.status = "ready"
    <3>1. FlavourKey(flavour) \notin {VThingTVKey(v) : v \in VThings}
      BY KeyTypes, SiloAssumption DEF FlavourKey, VThingTVKey, SiloAssumption
    <3>2. FlavourKey(flavour) \in Keys
      BY SiloKeys
    <3>3. Flavour = [status |-> "ready", details |-> Yaml] \/ Flavour = Nil
      BY <3>1, <3>2 DEF Init, InitWith, Flavour
    <3>4. QED
      BY <3>3
  <2>4. QED
    BY <2>1, <2>2, <2>3, ActorFacts
    DEF FlavourBody, UnreadyIsAdded, AddedIsThere, AdderHasIdentity, NoFlavourError
<1>2. I /\ [Next]_vars => I'
  BY StepDoes, FlavourStep, WithoutBefore DEF Recorded
<1>3. I => FlavourGetsReady
  <2> SUFFICES ASSUME FlavourBody, Settled, Flavour # Nil PROVE Flavour.status = "ready"
    BY DEF FlavourGetsReady, FlavourCauses
  <2>1. ~AddingFlavour
    BY RequestFacts, ActorFacts DEF Settled, AddingFlavour, AtRest, Ended
  <2>2. QED
    BY <2>1 DEF FlavourBody, UnreadyIsAdded
<1>4. QED
  BY <1>1, <1>2, <1>3, PTL DEF Spec

-------------------------------------------------------------------------------
(***************************************************************************)
(* Creations and destructions, kept apart: one creation at a time, which   *)
(* has its record; a Deployment is that of the creation under way or the   *)
(* one the record names; who destroys has read the record as it is.        *)
(***************************************************************************)
CreatingOf(r) == pc[r] = "enqueue" \/ pc[Job(r)] \notin Ended \cup {"none"}

Torn == \E a \in Actors : pc[a] \in Tearing

CreationCauses == {"deleteDuringCreate", "submit", "createInterrupted"}

CreatorHasRecord == \A r \in Creations : CreatingOf(r) => Silo # Nil
OneCreator == \A r, q \in Creations : CreatingOf(r) /\ CreatingOf(q) => r = q
WhoDeployed ==
  deployment # NoDeployment =>
    \/ pc[Job(deployment)] = "running"
    \/ pc[Job(deployment)] \in Ended /\ Silo # Nil /\ Silo.details = deployment
DeployedLast ==
  \A r \in Creations : CreatingOf(r) =>
    /\ pc[Job(r)] # "running" => deployment = NoDeployment
    /\ pc[Job(r)] = "running" => deployment = IF HasYaml(r) THEN r ELSE NoDeployment
DeploysYaml == \A r \in Creations : pc[Job(r)] = "deploy" => HasYaml(r)
SawSilo ==
  \A a \in Actors : pc[a] = "k8s" => Silo = Nil \/ seen[a].details = Silo.details
TornDown ==
  \A a \in Actors : pc[a] \in {"list", "drop", "cleanup"} => deployment = NoDeployment
Forgotten == \A a \in Actors : pc[a] = "cleanup" => Silo = Nil
PodsCreated ==
  \A a \in Creations : pod[a].st # "none" => pc[Job(a)] \in Ended \cup {"running"}

CreationBody ==
  /\ CreatorHasRecord /\ OneCreator /\ WhoDeployed /\ DeployedLast /\ DeploysYaml
  /\ SawSilo /\ TornDown /\ Forgotten /\ PodsCreated

\* In a settled state no silo is being created.
LEMMA SettledCreations == TypeInv /\ Settled => \A r \in Creations : ~CreatingOf(r)
  BY ActorFacts, RequestFacts
  DEF TypeInv, Places, JobsPlaced, JobLabels, Settled, AtRest, CreatingOf, Ended

\* A silo is being created when some request creates it.
LEMMA CreatingIsSome == Creating <=> \E r \in Creations : CreatingOf(r)
  BY DEF Creating, CreatingOf

\* A creation and a destruction under way at the same time are in the history.
Apart == \A r \in Creations, a \in Actors : CreatingOf(r) => pc[a] \notin Tearing

\* No transaction failed, no creation met a destruction, none was interrupted.
Undisturbed ==
  "submit" \notin faults /\ "deleteDuringCreate" \notin races /\ "createInterrupted" \notin races

\* While nothing is disturbed, creations and destructions are apart.
LEMMA NeverMeet == Inv /\ Undisturbed => Apart
  BY CreatingIsSome DEF Apart, Undisturbed, Inv, WindowsSeen, Windows, Labelled

\* What is undisturbed after a step was so before it.
LEMMA UndisturbedBefore == Recorded /\ Undisturbed' => Undisturbed
  BY DEF Recorded, Undisturbed

\* A behaviour without the causes of disturbed creations is undisturbed.
LEMMA WithoutIsUndisturbed == Without(CreationCauses) => Undisturbed
  BY DEF Without, CreationCauses, Undisturbed

\* A creation begins with its record, and ends where its job ends.
LEMMA CreatorMoves ==
  ASSUME TypeInv, TypeInv', Happened, ~DidRestart, NEW r \in Creations
  PROVE  \/ CreatingOf(r)' <=> CreatingOf(r)
         \/ /\ DidCreate(r) /\ pc'[r] = "enqueue" /\ ~CreatingOf(r)
            /\ pc'[Job(r)] = "none"
            /\ Silo = Nil /\ SiloWritten(STATUS_PENDING, NoDetails)
         \/ DidEnqueue(r) /\ "enqueue" \in faults' /\ ~CreatingOf(r)'
         \/ /\ DidPending(r) \/ DidService(r) \/ DidDeploy(r) \/ DidRunning(r)
            /\ pc'[Job(r)] \in Ended /\ CreatingOf(r) /\ ~CreatingOf(r)'
<1>0. /\ r \in Queued /\ r \in Requests /\ r \in Actors /\ Job(r) \in Actors /\ r # Job(r)
      /\ r \notin Handlers /\ Job(r) \notin Handlers /\ Kind[r] = "create"
  BY ActorFacts, RequestFacts
<1>01. pc[r] \in Before => pc[Job(r)] = "none"
  BY <1>0 DEF TypeInv, Places, JobsPlaced
<1>1. CASE DidEnqueue(r)
  <2>1. \/ pc'[r] = "failed" /\ pc'[Job(r)] = pc[Job(r)] /\ "enqueue" \in faults'
        \/ pc'[Job(r)] = "waiting"
    BY <1>0, <1>1 DEF DidEnqueue, Moved, Ended
  <2>2. pc[r] = "enqueue" /\ pc[Job(r)] = "none"
    BY <1>1, <1>01 DEF DidEnqueue, Before
  <2>3. QED
    BY <1>1, <2>1, <2>2 DEF CreatingOf, Ended
<1>2. CASE JobDid(r)
  <2>1. DidBegin(r) \/ DidPending(r) \/ DidSubscribe(r) \/ DidWithoutYaml(r)
          \/ DidService(r) \/ DidDeploy(r) \/ DidRunning(r)
    BY <1>0, <1>2 DEF JobDid, DidFlavour, DidFlavourError
  <2>2. CASE DidBegin(r) \/ DidSubscribe(r) \/ DidWithoutYaml(r)
    BY <1>0, <2>2
    DEF DidBegin, DidSubscribe, DidWithoutYaml, Moved, CreatingOf, Ended
  <2>3. CASE DidPending(r) \/ DidService(r) \/ DidDeploy(r) \/ DidRunning(r)
    <3>1. pc'[r] = pc[r]
      BY <1>0, <1>2, JobDidMove DEF Moved
    <3>2. pc[Job(r)] \notin Ended \cup {"none"}
      BY <2>3 DEF DidPending, DidService, DidDeploy, DidRunning, Ended
    <3>3. pc[r] # "enqueue"
      BY <3>2, <1>01 DEF Before
    <3>4. pc'[Job(r)] # "none"
      BY <1>0, <2>3
      DEF DidPending, DidService, DidDeploy, DidRunning, Submitted, Moved, Ended
    <3>5. QED
      BY <2>3, <3>1, <3>2, <3>3, <3>4 DEF CreatingOf
  <2>4. QED
    BY <2>1, <2>2, <2>3
<1>3. CASE Still(Job(r)) /\ ~DidEnqueue(r)
  <2>1. ~CallerDid(r)
    BY <1>0
    DEF CallerDid, DidGet, DidDeleteOnKubernetes, DidList, DidDrop, DidForget, Caller
  <2>2. CASE Still(r)
    BY <1>3, <2>2 DEF Still, CreatingOf
  <2>3. CASE DidAccept(r) \/ DidGetFlavour(r)
    BY <1>0, <1>3, <2>3
    DEF DidAccept, DidGetFlavour, Moved, FirstOf, Still, CreatingOf, Ended
  <2>4. CASE DidCreate(r)
    <3>1. pc[r] = "create" /\ pc[Job(r)] = "none" /\ pc'[Job(r)] = "none"
      BY <1>3, <1>01, <2>4 DEF DidCreate, Before, Still
    <3>2. \/ pc'[r] = "enqueue" /\ Silo = Nil /\ SiloWritten(STATUS_PENDING, NoDetails)
          \/ pc'[r] = "failed"
      BY <1>0, <2>4 DEF DidCreate, Submitted, Moved, Ended
    <3>3. QED
      BY <2>4, <3>1, <3>2 DEF CreatingOf
  <2>5. RequestDid(r) => DidAccept(r) \/ DidGetFlavour(r) \/ DidCreate(r)
    BY <1>0, <1>3
    DEF RequestDid, DidAdd, DidDelete, DidGetSilo, DidCheck, DidSubmit, DidPublish
  <2>6. QED
    BY <1>0, <2>1, <2>2, <2>3, <2>4, <2>5, RequestMoves
<1>4. QED
  BY <1>0, <1>1, <1>2, <1>3, JobMoves

\* The job of a creation keeps the flavour it was given.
LEMMA JobKeeps ==
  ASSUME Happened, NEW r \in Creations, pc'[Job(r)] \notin Ended \cup {"none", "waiting"}
  PROVE  seen'[Job(r)] = seen[Job(r)] /\ (HasYaml(r)' <=> HasYaml(r))
<1>0. /\ r \in Queued /\ r \in Actors /\ Job(r) \in Actors /\ Job(r) \in Jobs
      /\ Job(r) \notin Handlers /\ Kind[r] = "create"
  BY ActorFacts, RequestFacts
<1>1. CASE Still(Job(r))
  BY <1>1 DEF Still, HasYaml
<1>2. CASE JobDid(r)
  <2>1. PICK l : Moved(Job(r), l, seen[Job(r)])
    BY <1>0, <1>2
    DEF JobDid, DidBegin, DidPending, DidSubscribe, DidWithoutYaml, DidService, DidDeploy,
        DidRunning, DidFlavour, DidFlavourError, Submitted
  <2>2. QED
    BY <1>0, <2>1 DEF Moved, HasYaml
<1>3. CASE DidEnqueue(r)
  BY <1>0, <1>3 DEF DidEnqueue, Moved, HasYaml
<1>4. CASE DidRestart
  BY <1>0, <1>4 DEF DidRestart, HasYaml
<1>5. QED
  BY <1>0, <1>1, <1>2, <1>3, <1>4, JobMoves

\* How one comes to the last steps of a destruction.
LEMMA TearMoves ==
  ASSUME Happened, NEW a \in Actors, pc'[a] \in Tearing
  PROVE  /\ \/ Still(a)
            \/ DidGet(a) /\ pc'[a] = "k8s" /\ Silo # Nil /\ seen'[a] = Silo
            \/ DidDeleteOnKubernetes(a) /\ pc'[a] = "list"
            \/ DidList(a) /\ pc'[a] = "drop" /\ seen'[a].vThings = Attached
            \/ DidDrop(a) /\ pc'[a] = "cleanup"
         /\ ~DidRestart
<1>1. ~DidRestart
  BY ActorFacts DEF DidRestart, Tearing, Actors, AtRest, Ended
<1>2. ASSUME CallerDid(a)
      PROVE  \/ DidGet(a) /\ pc'[a] = "k8s" /\ Silo # Nil /\ seen'[a] = Silo
             \/ DidDeleteOnKubernetes(a) /\ pc'[a] = "list"
             \/ DidList(a) /\ pc'[a] = "drop" /\ seen'[a].vThings = Attached
             \/ DidDrop(a) /\ pc'[a] = "cleanup"
  BY <1>2
  DEF CallerDid, DidGet, AfterGet, DidDeleteOnKubernetes, DidList, DidDrop, DidForget,
      Submitted, Moved, Tearing, Ended
<1>3. ASSUME a \in Requests PROVE ~RequestDid(a)
  <2>1. a \in Actors /\ a \notin Handlers
    BY <1>3, ActorFacts
  <2>2. QED
    BY <2>1
    DEF RequestDid, DidAccept, FirstOf, DidAdd, DidDelete, DidGetFlavour, DidCreate,
        DidEnqueue, DidGetSilo, DidCheck, DidSubmit, DidPublish, Submitted, Moved, Tearing,
        Ended
<1>4. ASSUME NEW r \in Queued, a = Job(r) PROVE ~JobDid(r) /\ (DidEnqueue(r) => Still(a))
  <2>1. Job(r) \in Actors /\ Job(r) \notin Handlers /\ r \in Actors /\ r # Job(r)
    BY ActorFacts
  <2>2. ~JobDid(r)
    BY <1>4, <2>1
    DEF JobDid, DidBegin, DidPending, DidSubscribe, DidWithoutYaml, DidService, DidDeploy,
        DidRunning, DidFlavour, DidFlavourError, Submitted, Moved, Tearing, Ended
  <2>3. ~DidEnqueue(r) \/ Still(a)
    BY <1>4, <2>1 DEF DidEnqueue, Moved, Tearing, Still, Ended
  <2>4. QED
    BY <1>4, <2>2, <2>3
<1>5. ASSUME a \in Handlers, HandlerDid(a) \/ DidReceive PROVE Still(a)
  BY <1>5 DEF HandlerDid, DidRestore, DidPublishRestore, DidReceive, Moved, KeptPlaces,
     Still, Tearing, Ended
<1>6. QED
  BY <1>1, <1>2, <1>3, <1>4, <1>5, Moves

\* A pod is there because it was, or because its Deployment is.
LEMMA PodMoves ==
  ASSUME Happened, NEW a \in Creations, pod'[a].st # "none"
  PROVE  pod[a].st # "none" \/ deployment = a
<1>1. CASE OtherDid
  BY <1>1
  DEF OtherDid, DidLogin, DidReceive, DidPodsReceive, Takes, DidPodStarts, DidPod,
      PodGoesOn, DidLose, KeptAll
<1>2. CASE ~OtherDid
  BY <1>2
  DEF Happened, DidStep, DidRestart, RequestDid, DidAccept, DidAdd, DidDelete,
      DidGetFlavour, DidCreate, DidEnqueue, DidGetSilo, DidCheck, DidSubmit, DidPublish,
      JobDid, DidBegin, DidPending, DidSubscribe, DidWithoutYaml, DidService, DidDeploy,
      DidRunning, DidFlavour, DidFlavourError, CallerDid, DidGet, DidDeleteOnKubernetes,
      DidList, DidDrop, DidForget, HandlerDid, DidRestore, DidPublishRestore, KeptAll
<1>3. QED
  BY <1>1, <1>2

\* A restart that interrupts no creation finds none and leaves none.
LEMMA CreationsRestart ==
  ASSUME DidRestart, "createInterrupted" \notin races'
  PROVE  \A r \in Creations : /\ ~CreatingOf(r) /\ ~CreatingOf(r)'
                             /\ pc[Job(r)] \in Ended \cup {"none"}
                             /\ pc'[Job(r)] = pc[Job(r)]
<1>1. \A r \in Creations : ~CreatingOf(r)
  BY CreatingIsSome DEF DidRestart, Interrupted, Labelled
<1>2. \A r \in Creations : /\ pc[Job(r)] \in Ended \cup {"none"}
                           /\ pc'[Job(r)] = pc[Job(r)] /\ pc'[r] # "enqueue"
  <2>1. \A r \in Creations : pc[Job(r)] \in Ended \cup {"none"} /\ Job(r) \in Jobs /\ r \in Requests
    BY <1>1, ActorFacts DEF CreatingOf
  <2>2. QED
    BY <2>1 DEF DidRestart, AtRest, Ended
<1>3. QED
  BY <1>1, <1>2 DEF CreatingOf

\* A restart that interrupts no creation keeps what is said of creations.
LEMMA CreationRestart ==
  ASSUME TypeInv, DidRestart, "createInterrupted" \notin races', CreationBody
  PROVE  CreationBody'
<1>2. \A r \in Creations : /\ pc[Job(r)] \in Ended \cup {"none"}
                           /\ pc'[Job(r)] = pc[Job(r)]
  BY CreationsRestart
<1>3. \A r \in Creations : ~CreatingOf(r)'
  BY CreationsRestart
<1>4. \A a \in Actors : pc'[a] \notin Tearing
  BY ActorFacts DEF DidRestart, Tearing, Actors, AtRest, Ended
<1>5. UNCHANGED <<Silo, deployment, pod>> /\ deployment \in Creations \cup {NoDeployment}
  BY DEF DidRestart, SameView, KeptCluster, TypeInv, RestTyped
<1>6. CreatorHasRecord' /\ OneCreator' /\ DeployedLast'
  BY <1>3 DEF CreatorHasRecord, OneCreator, DeployedLast
<1>7. DeploysYaml' /\ PodsCreated'
  BY <1>2, <1>5 DEF DeploysYaml, PodsCreated, CreationBody, Ended
<1>8. WhoDeployed'
  BY <1>2, <1>5 DEF WhoDeployed, CreationBody, Ended
<1>9. SawSilo' /\ TornDown' /\ Forgotten'
  BY <1>4 DEF SawSilo, TornDown, Forgotten, Tearing
<1>10. QED
  BY <1>3, <1>6, <1>7, <1>8, <1>9 DEF CreationBody

\* What a step does to the record while a creation is under way, if nothing
\* destroys it and no transaction fails.
LEMMA CreationStep ==
  ASSUME Inv, [Next]_vars, Undisturbed', CreationBody
  PROVE  CreationBody'
<1>0. Inv' /\ TypeInv /\ TypeInv' /\ Recorded /\ Happened
  BY StepDoes
<1>1. /\ "submit" \notin faults' /\ "createInterrupted" \notin races'
      /\ "deleteDuringCreate" \notin races /\ "deleteDuringCreate" \notin races'
  BY <1>0 DEF Undisturbed, Recorded
<1>2. /\ \A r \in Creations, a \in Actors : CreatingOf(r) => pc[a] \notin Tearing
      /\ \A r \in Creations, a \in Actors : CreatingOf(r)' => pc'[a] \notin Tearing
  <2>1. Apart
    BY <1>0, NeverMeet, UndisturbedBefore
  <2>2. Inv' /\ Undisturbed' => Apart'
    BY NeverMeet, PTL
  <2>3. Apart'
    BY <1>0, <2>2
  <2>4. QED
    BY <2>1, <2>3 DEF Apart
<1>3. CASE DidRestart
  BY <1>0, <1>1, <1>3, CreationRestart
<1>4. CASE ~DidRestart
  <2>0. \A r \in Creations : /\ r \in Queued /\ r \in Requests /\ r \in Actors
                             /\ Job(r) \in Actors /\ Job(r) \notin Handlers
    BY ActorFacts
  <2>1. ASSUME NEW r \in Creations, DidRunning(r)
        PROVE  /\ SiloWritten(STATUS_RUNNING, IF HasYaml(r) THEN r ELSE NoYaml)
               /\ pc'[Job(r)] = "ok" /\ pc[Job(r)] = "running" /\ CreatingOf(r)
    <3>1. CreatingOf(r) /\ pc[Job(r)] = "running"
      BY <2>1 DEF DidRunning, CreatingOf, Ended
    <3>2. Silo # Nil
      BY <3>1 DEF CreationBody, CreatorHasRecord
    <3>3. QED
      BY <1>1, <2>0, <2>1, <3>1, <3>2 DEF DidRunning, Submitted, Moved
  <2>2. ASSUME NEW r \in Creations, CreatingOf(r)'
        PROVE  \/ CreatingOf(r)
               \/ /\ DidCreate(r) /\ pc'[Job(r)] = "none" /\ Silo = Nil
                  /\ SiloWritten(STATUS_PENDING, NoDetails)
    BY <1>0, <1>4, <2>2, CreatorMoves
  \* The record changes in these ways only.
  <2>3. \/ Silo' = Silo
        \/ /\ Silo = Nil /\ Silo' # Nil
           /\ \E r \in Creations : DidCreate(r)
        \/ /\ Silo # Nil /\ Silo' # Nil
           /\ \E r \in Creations : CreatingOf(r) /\ (DidPending(r) \/ DidRunning(r))
        \/ /\ Silo' = Nil
           /\ \E a \in Actors : pc[a] = "drop" /\ DidDrop(a)
    <3>1. \A r \in Creations : DidPending(r) \/ DidRunning(r) => CreatingOf(r)
      BY DEF DidPending, DidRunning, CreatingOf, Ended
    <3>2. QED
      BY <1>0, <3>1, LedgerChanges
      DEF SameView, FlavourWritten, FlavourDeleted, SiloWritten, SiloDropped,
          VThingAttached, VThingDetached, DidDrop
  <2>4. ASSUME NEW r \in Creations, CreatingOf(r)
        PROVE  Silo' # Nil
    <3>1. Silo # Nil
      BY <2>4 DEF CreationBody, CreatorHasRecord
    <3>2. ~(\E a \in Actors : pc[a] = "drop")
      BY <1>2, <2>4 DEF Tearing
    <3>3. QED
      BY <2>3, <3>1, <3>2
  <2>5. CreatorHasRecord'
    BY <2>2, <2>4 DEF CreatorHasRecord, SiloWritten
  <2>6. OneCreator'
    <3> SUFFICES ASSUME NEW r \in Creations, NEW q \in Creations,
                        CreatingOf(r)', CreatingOf(q)'
                 PROVE  r = q
      BY DEF OneCreator
    <3>1. CASE CreatingOf(r) /\ CreatingOf(q)
      BY <3>1 DEF CreationBody, OneCreator
    <3>2. CASE Silo # Nil
      BY <2>2, <3>1, <3>2
    <3>3. CASE Silo = Nil
      <4>1. DidCreate(r) /\ DidCreate(q)
        BY <2>2, <3>3 DEF CreationBody, CreatorHasRecord
      <4>2. pc'[r] = pc[r] => ~CreatingOf(r)'
        <5>1. ~CreatingOf(r) /\ pc[r] = "create" /\ pc'[Job(r)] = "none"
          BY <2>2, <3>3, <4>1 DEF CreationBody, CreatorHasRecord, DidCreate
        <5>2. QED
          BY <5>1 DEF CreatingOf
      <4>3. r # q => pc'[r] = pc[r]
        BY <2>0, <4>1 DEF DidCreate, Submitted, Moved
      <4>4. QED
        BY <4>2, <4>3
    <3>4. QED
      BY <3>2, <3>3
  <2>7. DeploysYaml'
    <3> SUFFICES ASSUME NEW r \in Creations, pc'[Job(r)] = "deploy"
                 PROVE  HasYaml(r)'
      BY DEF DeploysYaml
    <3>1. HasYaml(r)' <=> HasYaml(r)
      BY <1>0, JobKeeps DEF Ended
    <3>2. CASE Still(Job(r))
      BY <3>1, <3>2 DEF Still, CreationBody, DeploysYaml
    <3>3. CASE DidEnqueue(r)
      BY <2>0, <3>1, <3>3 DEF DidEnqueue, Moved, CreationBody, DeploysYaml
    <3>4. CASE JobDid(r)
      <4>1. DidService(r)
        BY <2>0, <3>4
        DEF JobDid, DidBegin, DidPending, DidSubscribe, DidWithoutYaml, DidDeploy,
            DidRunning, DidFlavour, DidFlavourError, Submitted, Moved
      <4>2. QED
        BY <3>1, <4>1 DEF DidService
    <3>5. QED
      BY <1>0, <1>4, <2>0, <3>2, <3>3, <3>4, JobMoves
  <2>8. WhoDeployed'
    <3> SUFFICES ASSUME deployment' # NoDeployment
                 PROVE  \/ pc'[Job(deployment')] = "running"
                        \/ /\ pc'[Job(deployment')] \in Ended
                           /\ Silo' # Nil /\ Silo'.details = deployment'
      BY DEF WhoDeployed
    <3>1. CASE deployment' # deployment
      BY <1>0, <3>1, DeploymentChanges
    <3>2. CASE deployment' = deployment
      <4> DEFINE d == deployment
      <4>1. d \in Creations
        BY <1>0, <3>2 DEF TypeInv, RestTyped
      <4>2. \A r \in Creations : CreatingOf(r) => r = d /\ pc[Job(d)] = "running"
        BY <3>2 DEF CreationBody, DeployedLast
      <4>3. \A a \in Actors : pc[a] # "drop"
        BY <3>2 DEF CreationBody, TornDown
      <4>4. CASE DidRunning(d)
        <5>1. HasYaml(d)
          BY <2>1, <3>2, <4>1, <4>4 DEF CreationBody, DeployedLast
        <5>2. QED
          BY <2>1, <3>2, <4>1, <4>4, <5>1 DEF SiloWritten, Ended
      <4>5. CASE ~DidRunning(d)
        <5>1. pc'[Job(d)] = pc[Job(d)]
          <6>1. pc[Job(d)] \in Ended \cup {"running"}
            BY <3>2 DEF CreationBody, WhoDeployed
          <6>2. ~DidEnqueue(d) \/ Still(Job(d))
            BY <2>0, <4>1, <6>1 DEF DidEnqueue, Moved, Still, Ended
          <6>3. ~JobDid(d)
            BY <4>5, <6>1
            DEF JobDid, DidBegin, DidPending, DidSubscribe, DidWithoutYaml, DidService,
                DidDeploy, DidFlavour, DidFlavourError, Ended
          <6>4. QED
            BY <1>0, <1>4, <2>0, <4>1, <6>2, <6>3, JobMoves DEF Still
        <5>2. ASSUME pc[Job(d)] \in Ended, Silo # Nil, Silo.details = d
              PROVE  Silo' = Silo
          <6>1. \A r \in Creations : ~CreatingOf(r)
            BY <4>2, <5>2 DEF Ended
          <6>2. QED
            BY <2>3, <4>3, <5>2, <6>1
        <5>3. QED
          BY <3>2, <5>1, <5>2 DEF CreationBody, WhoDeployed
      <4>6. QED
        BY <4>4, <4>5
    <3>3. QED
      BY <3>1, <3>2
  <2>9. ASSUME Silo = Nil, NEW r \in Creations, DidCreate(r)
        PROVE  deployment = NoDeployment /\ deployment' = NoDeployment
    <3>1. deployment = NoDeployment
      <4>1. deployment \in Creations \cup {NoDeployment}
        BY <1>0 DEF TypeInv, RestTyped
      <4>2. pc[Job(deployment)] = "running" => CreatingOf(deployment)
        BY DEF CreatingOf, Ended
      <4>3. QED
        BY <2>9, <4>1, <4>2 DEF CreationBody, WhoDeployed, CreatorHasRecord
    <3>2. deployment' = deployment
      BY <2>9 DEF DidCreate, KeptAll, KeptCluster
    <3>3. QED
      BY <3>1, <3>2
  <2>10. DeployedLast'
    <3> SUFFICES ASSUME NEW r \in Creations, CreatingOf(r)'
                 PROVE  /\ pc'[Job(r)] # "running" => deployment' = NoDeployment
                        /\ pc'[Job(r)] = "running"
                             => deployment' = IF HasYaml(r)' THEN r ELSE NoDeployment
      BY DEF DeployedLast
    <3>1. CASE ~CreatingOf(r)
      BY <2>2, <2>9, <3>1
    <3>2. CASE CreatingOf(r)
      <4>1. \A a \in Actors : pc[a] # "k8s"
        BY <1>2, <3>2 DEF Tearing
      <4>2. \/ deployment' = deployment
            \/ /\ DidDeploy(r) /\ pc[Job(r)] = "deploy" /\ pc'[Job(r)] = "running"
               /\ deployment' = r
        <5>1. \A q \in Creations : pc[Job(q)] = "deploy" => q = r
          BY <3>2 DEF CreationBody, OneCreator, CreatingOf, Ended
        <5>2. QED
          BY <1>0, <4>1, <5>1, DeploymentChanges
      <4>3. CASE pc[Job(r)] = "deploy" /\ pc'[Job(r)] = "running" /\ deployment' = r
        BY <1>0, <4>3, JobKeeps DEF Ended, CreationBody, DeploysYaml
      <4>4. CASE deployment' = deployment /\ pc'[Job(r)] = "running"
        <5>1. HasYaml(r)' <=> HasYaml(r)
          BY <1>0, <4>4, JobKeeps DEF Ended
        <5>2. CASE pc[Job(r)] = "running"
          BY <3>2, <4>4, <5>1, <5>2 DEF CreationBody, DeployedLast
        <5>3. CASE pc[Job(r)] # "running"
          <6>1. deployment = NoDeployment
            BY <3>2, <5>3 DEF CreationBody, DeployedLast
          <6>2. CASE JobDid(r)
            <7>1. DidWithoutYaml(r) \/ (DidDeploy(r) /\ deployment' = r)
              BY <2>0, <4>4, <5>3, <6>2
              DEF JobDid, DidBegin, DidPending, DidSubscribe, DidService, DidDeploy,
                  DidRunning, DidFlavour, DidFlavourError, Submitted, Moved
            <7>2. r # NoDeployment
              BY ActorFacts
            <7>3. QED
              BY <4>4, <5>1, <6>1, <7>1, <7>2 DEF DidWithoutYaml
          <6>3. CASE DidEnqueue(r)
            BY <2>0, <4>4, <5>3, <6>3 DEF DidEnqueue, Moved
          <6>4. QED
            BY <1>0, <1>4, <2>0, <4>4, <5>3, <6>2, <6>3, JobMoves DEF Still
        <5>4. QED
          BY <5>2, <5>3
      <4>5. CASE deployment' = deployment /\ pc'[Job(r)] # "running"
        <5>1. CASE pc[Job(r)] # "running"
          BY <3>2, <4>5, <5>1 DEF CreationBody, DeployedLast
        <5>2. CASE pc[Job(r)] = "running"
          <6>1. JobDid(r) => DidRunning(r)
            BY <5>2
            DEF JobDid, DidBegin, DidPending, DidSubscribe, DidWithoutYaml, DidService,
                DidDeploy, DidFlavour, DidFlavourError
          <6>2. ~DidRunning(r)
            <7>1. pc[r] # "enqueue" /\ Kind[r] = "create"
              BY <1>0, <2>0, <5>2, RequestFacts DEF TypeInv, Places, JobsPlaced, Before
            <7>2. DidRunning(r) => pc'[r] = pc[r] /\ pc'[Job(r)] = "ok"
              <8>1. Job(r) # r
                BY <2>0, ActorFacts
              <8>2. QED
                BY <2>0, <2>1, <8>1 DEF DidRunning, Submitted, Moved
            <7>3. QED
              BY <7>1, <7>2 DEF CreatingOf, Ended
          <6>3. ~DidEnqueue(r) \/ Still(Job(r))
            BY <2>0, <5>2 DEF DidEnqueue, Moved, Still
          <6>4. QED
            BY <1>0, <1>4, <2>0, <4>5, <5>2, <6>1, <6>2, <6>3, JobMoves DEF Still
        <5>3. QED
          BY <5>1, <5>2
      <4>6. QED
        BY <4>2, <4>3, <4>4, <4>5
    <3>3. QED
      BY <3>1, <3>2
  \* The record is not written while a destruction works with it.
  <2>11. ASSUME NEW a \in Actors, pc[a] \in Tearing, pc'[a] \in Tearing
         PROVE  Silo' = Silo \/ Silo' = Nil
    <3>1. \A r \in Creations : ~CreatingOf(r) /\ ~CreatingOf(r)'
      BY <1>2, <2>11
    <3>2. ASSUME NEW r \in Creations, DidCreate(r), Silo = Nil
          PROVE  Silo' = Silo
      <4>1. pc'[r] # "enqueue"
        BY <3>1 DEF CreatingOf
      <4>2. QED
        BY <1>1, <2>0, <3>2, <4>1 DEF DidCreate, Submitted, Moved, SameView, Ended
    <3>3. QED
      BY <2>3, <3>1, <3>2
  <2>12. SawSilo'
    <3> SUFFICES ASSUME NEW a \in Actors, pc'[a] = "k8s"
                 PROVE  Silo' = Nil \/ seen'[a].details = Silo'.details
      BY DEF SawSilo
    <3>1. CASE Still(a)
      <4>1. Silo = Nil \/ seen[a].details = Silo.details
        BY <3>1 DEF Still, CreationBody, SawSilo
      <4>2. Silo' = Silo \/ Silo' = Nil
        BY <2>11, <3>1 DEF Still, Tearing
      <4>3. QED
        BY <3>1, <4>1, <4>2 DEF Still
    <3>2. CASE DidGet(a) /\ seen'[a] = Silo
      BY <3>2 DEF DidGet, SameView
    <3>3. QED
      BY <1>0, <3>1, <3>2, TearMoves DEF Tearing
  <2>13. TornDown'
    <3> SUFFICES ASSUME NEW a \in Actors, pc'[a] \in {"list", "drop", "cleanup"}
                 PROVE  deployment' = NoDeployment
      BY DEF TornDown
    <3>1. pc[a] \in Tearing
      BY <1>0, TearMoves
      DEF Still, DidDeleteOnKubernetes, DidList, DidDrop, DidGet, Tearing
    <3>2. \A r \in Creations : ~CreatingOf(r)
      BY <1>2, <3>1
    <3>3. deployment' = deployment \/ deployment' = NoDeployment
      BY <1>0, <3>2, DeploymentChanges DEF CreatingOf, Ended
    <3>4. CASE pc[a] # "k8s"
      BY <3>1, <3>3, <3>4 DEF CreationBody, TornDown, Tearing
    <3>5. CASE pc[a] = "k8s"
      <4>1. DidDeleteOnKubernetes(a) /\ pc'[a] = "list"
        BY <1>0, <3>5, TearMoves DEF Still, DidList, DidDrop, DidGet, Tearing
      <4>2. deployment' = NoDeployment \/ ~Deployed(seen[a])
        BY <2>0, <4>1 DEF DidDeleteOnKubernetes, Moved, Ended
      <4>3. ASSUME deployment # NoDeployment PROVE Deployed(seen[a])
        <5>1. deployment \in Creations
          BY <1>0, <4>3 DEF TypeInv, RestTyped
        <5>2. Silo # Nil /\ Silo.details = deployment
          BY <3>2, <4>3, <5>1 DEF CreationBody, WhoDeployed, CreatingOf, Ended
        <5>3. seen[a].details = deployment
          BY <3>5, <5>2 DEF CreationBody, SawSilo
        <5>4. QED
          BY <5>1, <5>3, ActorFacts DEF Deployed
      <4>4. QED
        BY <3>3, <4>2, <4>3
    <3>6. QED
      BY <3>4, <3>5
  <2>14. Forgotten'
    <3> SUFFICES ASSUME NEW a \in Actors, pc'[a] = "cleanup"
                 PROVE  Silo' = Nil
      BY DEF Forgotten
    <3>1. CASE Still(a)
      BY <2>11, <3>1 DEF Still, Tearing, CreationBody, Forgotten
    <3>2. CASE DidDrop(a)
      BY <1>1, <3>2 DEF DidDrop, Submitted, Moved, SiloDropped, Ended
    <3>3. QED
      BY <1>0, <3>1, <3>2, TearMoves DEF Tearing
  <2>15. PodsCreated'
    <3> SUFFICES ASSUME NEW a \in Creations, pod'[a].st # "none"
                 PROVE  pc'[Job(a)] \in Ended \cup {"running"}
      BY DEF PodsCreated
    <3>1. pc[Job(a)] \in Ended \cup {"running"}
      <4>1. CASE pod[a].st # "none"
        BY <4>1 DEF CreationBody, PodsCreated
      <4>2. CASE deployment = a
        BY <4>2, ActorFacts DEF CreationBody, WhoDeployed
      <4>3. QED
        BY <1>0, <4>1, <4>2, PodMoves
    <3>2. CASE JobDid(a)
      <4>1. DidRunning(a)
        BY <3>1, <3>2
        DEF JobDid, DidBegin, DidPending, DidSubscribe, DidWithoutYaml, DidService,
            DidDeploy, DidFlavour, DidFlavourError, Ended
      <4>2. QED
        BY <2>1, <4>1 DEF Ended
    <3>3. CASE DidEnqueue(a)
      BY <2>0, <3>1, <3>3 DEF DidEnqueue, Moved, Ended
    <3>4. QED
      BY <1>0, <1>4, <2>0, <3>1, <3>2, <3>3, JobMoves DEF Still
  <2>16. QED
    BY <2>5, <2>6, <2>7, <2>8, <2>10, <2>12, <2>13, <2>14, <2>15 DEF CreationBody
<1>5. QED
  BY <1>3, <1>4

\* Whatever the requests, creations and destructions are kept apart.
CreationInv == Inv /\ (Undisturbed => CreationBody)

\* No creation is under way and there is no Deployment at first.
LEMMA InitCreation == Init => CreationInv
<1> SUFFICES ASSUME Init PROVE CreationBody
  BY InitInv DEF CreationInv
<1>1. /\ \A r \in Requests : pc[r] = "new"
      /\ \A j \in Jobs : pc[j] = "none"
      /\ \A h \in Handlers : pc[h] = "idle"
      /\ deployment = NoDeployment /\ \A a \in Creations : pod[a].st = "none"
  BY ActorFacts DEF Init, InitWith, NoPod
<1>2. \A r \in Creations : pc[r] = "new" /\ pc[Job(r)] = "none" /\ ~CreatingOf(r)
  BY <1>1, ActorFacts DEF CreatingOf
<1>3. \A a \in Actors : pc[a] \notin Tearing
  BY <1>1 DEF Actors, Tearing
<1>4. QED
  BY <1>1, <1>2, <1>3
  DEF CreationBody, CreatorHasRecord, OneCreator, WhoDeployed, DeployedLast, DeploysYaml,
      SawSilo, TornDown, Forgotten, PodsCreated, Tearing

\* Every step keeps what is said of creations.
LEMMA CreationKept == CreationInv /\ [Next]_vars => CreationInv'
  BY StepDoes, CreationStep, UndisturbedBefore DEF CreationInv

-------------------------------------------------------------------------------
(***************************************************************************)
(* A silo is "pending" while its creation is under way, and no longer: the *)
(* creation has the identity it needs, finds the record and no Deployment, *)
(* and so it ends with writing "running".                                  *)
(***************************************************************************)
PendingCauses == CreationCauses \cup {"enqueue", "k8s", "leftoverService"}

PendingHasCreator == Is(STATUS_PENDING) => \E r \in Creations : CreatingOf(r)

CreatorHasIdentity ==
  \A r \in Creations : pc[r] \in {"getFlavour", "create"} \/ CreatingOf(r) => identity

\* Every step keeps that who creates has the administrator's identity, unless
\* a restart interrupts it.
LEMMA IdentityStep ==
  ASSUME Inv, [Next]_vars, Without({"createInterrupted"})', CreatorHasIdentity
  PROVE  CreatorHasIdentity'
<1>0. Inv' /\ TypeInv /\ TypeInv' /\ Recorded /\ Happened
  BY StepDoes
<1>1. CASE DidRestart
  <2>1. \A r \in Creations : ~CreatingOf(r)'
    BY <1>1, CreationsRestart DEF Without
  <2>2. \A r \in Creations : pc'[r] \notin {"getFlavour", "create"}
    BY <1>1, ActorFacts DEF DidRestart, AtRest, Ended
  <2>3. QED
    BY <2>1, <2>2 DEF CreatorHasIdentity
<1>2. CASE ~DidRestart
  <2> SUFFICES ASSUME NEW r \in Creations,
                      pc'[r] \in {"getFlavour", "create"} \/ CreatingOf(r)'
               PROVE  identity'
    BY DEF CreatorHasIdentity
  <2>0. r \in Requests /\ r \in Actors /\ r \notin Handlers
    BY ActorFacts
  <2>1. identity \/ DidAccept(r)
    <3>1. CASE CreatingOf(r) \/ pc[r] \in {"getFlavour", "create"}
      BY <3>1 DEF CreatorHasIdentity
    <3>2. CASE CreatingOf(r)' /\ ~CreatingOf(r)
      BY <1>0, <1>2, <3>2, CreatorMoves DEF DidCreate, CreatorHasIdentity
    <3>3. CASE pc'[r] \in {"getFlavour", "create"} /\ pc[r] \notin {"getFlavour", "create"}
      <4>1. ~Still(r) /\ ~CallerDid(r)
        BY <2>0, <3>3
        DEF Still, CallerDid, DidGet, AfterGet, DidDeleteOnKubernetes, DidList, DidDrop,
            DidForget, Submitted, Moved
      <4>2. RequestDid(r) => DidAccept(r)
        BY <2>0, <3>3
        DEF RequestDid, DidAdd, DidDelete, DidGetFlavour, DidCreate, DidEnqueue,
            DidGetSilo, DidCheck, DidSubmit, DidPublish, Submitted, Moved
      <4>3. QED
        BY <1>0, <1>2, <2>0, <4>1, <4>2, RequestMoves
    <3>4. QED
      BY <3>1, <3>2, <3>3
  <2>2. QED
    BY <1>0, <1>2, <2>1, IdentityStays DEF DidAccept
<1>3. QED
  BY <1>1, <1>2

IdentityInv == Without({"createInterrupted"}) => CreatorHasIdentity

\* A creation ends with the record "running" if nothing is in its way.
LEMMA CreationEnds ==
  ASSUME Inv, TypeInv, TypeInv', Recorded, Happened, ~DidRestart,
         Without(PendingCauses)', CreationBody, CreatorHasIdentity,
         NEW r \in Creations, CreatingOf(r), ~CreatingOf(r)'
  PROVE  DidRunning(r) /\ SiloWritten(STATUS_RUNNING, IF HasYaml(r) THEN r ELSE NoYaml)
<1>0. /\ r \in Queued /\ Job(r) \in Actors /\ Job(r) \notin Handlers
  BY ActorFacts
<1>1. /\ "submit" \notin faults' /\ "enqueue" \notin faults' /\ "k8s" \notin faults'
      /\ "leftoverService" \notin races
  BY DEF Without, PendingCauses, CreationCauses, Recorded
<1>2. Silo # Nil /\ identity
  BY DEF CreationBody, CreatorHasRecord, CreatorHasIdentity
<1>3. CASE DidPending(r) /\ pc'[Job(r)] \in Ended
  BY <1>0, <1>1, <1>2, <1>3 DEF DidPending, Moved, Ended
<1>4. CASE DidService(r) /\ pc'[Job(r)] \in Ended
  <2>1. ~service
    BY <1>1, <1>4 DEF DidService, Inv, WindowsSeen, Windows, Labelled
  <2>2. QED
    BY <1>0, <1>1, <1>4, <2>1 DEF DidService, Moved, Ended
<1>5. CASE DidDeploy(r) /\ pc'[Job(r)] \in Ended
  <2>1. deployment = NoDeployment
    BY <1>5 DEF DidDeploy, CreationBody, DeployedLast
  <2>2. QED
    BY <1>0, <1>1, <1>5, <2>1 DEF DidDeploy, Moved, Ended
<1>6. CASE DidRunning(r)
  BY <1>0, <1>1, <1>2, <1>6 DEF DidRunning, Submitted, Moved
<1>7. QED
  BY <1>1, <1>3, <1>4, <1>5, <1>6, CreatorMoves

\* Every step keeps that a pending silo is being created.
LEMMA PendingStep ==
  ASSUME CreationInv, IdentityInv, [Next]_vars, Without(PendingCauses)', PendingHasCreator
  PROVE  PendingHasCreator'
<1>0. Inv /\ Inv' /\ TypeInv /\ TypeInv' /\ Recorded /\ Happened
  BY StepDoes DEF CreationInv
<1>1. Without(PendingCauses)
  BY <1>0, WithoutBefore DEF Recorded
<1>2. CreationBody /\ CreatorHasIdentity /\ "createInterrupted" \notin races'
  BY <1>1, <1>0
  DEF CreationInv, Undisturbed, IdentityInv, Without, PendingCauses, CreationCauses
<1> SUFFICES ASSUME Silo' # Nil, Silo'.status = STATUS_PENDING
             PROVE  \E r \in Creations : CreatingOf(r)'
  BY DEF PendingHasCreator, Is
<1>3. CASE DidRestart
  BY <1>2, <1>3, CreationsRestart DEF PendingHasCreator, DidRestart, SameView, Is
<1>4. CASE ~DidRestart
  <2>0. \A st, d : SiloWritten(STATUS_RUNNING, d) => FALSE
    BY DEF SiloWritten, STATUS_RUNNING, STATUS_PENDING
  <2>1. \A r \in Creations : CreatingOf(r) => CreatingOf(r)'
    BY <1>0, <1>2, <1>4, <2>0, CreationEnds
  <2>2. CASE Silo' = Silo
    BY <2>1, <2>2 DEF PendingHasCreator, Is
  <2>3. ASSUME NEW r \in Creations, DidCreate(r), Silo = Nil
        PROVE  CreatingOf(r)'
    <3>1. r \in Actors /\ r \notin Handlers
      BY ActorFacts
    <3>2. "submit" \notin faults' /\ ~SameView
      BY <1>0, <2>3 DEF Without, PendingCauses, CreationCauses, SameView
    <3>3. QED
      BY <2>3, <3>1, <3>2 DEF DidCreate, Submitted, Moved, Ended, CreatingOf
  <2>4. CASE \E r \in Creations : DidPending(r)
    BY <2>1, <2>4 DEF DidPending, CreatingOf, Ended
  <2>5. QED
    BY <1>0, <2>0, <2>2, <2>3, <2>4, LedgerChanges
    DEF SameView, FlavourWritten, FlavourDeleted, SiloWritten, SiloDropped,
        VThingAttached, VThingDetached
<1>5. QED
  BY <1>3, <1>4

PendingInv ==
  CreationInv /\ IdentityInv /\ (Without(PendingCauses) => PendingHasCreator)

\* There is no silo at first.
LEMMA SiloIsNew == Init => Silo = Nil
<1> SUFFICES ASSUME Init PROVE Silo = Nil
  OBVIOUS
<1>1. /\ VSiloKey(vSilo) \in Keys /\ VSiloKey(vSilo) # FlavourKey(flavour)
      /\ VSiloKey(vSilo) \notin {VThingTVKey(v) : v \in VThings}
  BY SiloKeys, KeyTypes, SiloAssumption DEF VSiloKey, VThingTVKey, SiloAssumption
<1>2. QED
  BY <1>1 DEF Init, InitWith, Silo

\* The invariant about pending silos holds at first.
LEMMA InitPending == Init => PendingInv
<1> SUFFICES ASSUME Init PROVE CreatorHasIdentity /\ PendingHasCreator
  BY InitCreation DEF PendingInv, IdentityInv
<1>1. \A r \in Creations : pc[r] = "new" /\ pc[Job(r)] = "none"
  BY ActorFacts DEF Init, InitWith
<1>2. QED
  BY <1>1, SiloIsNew DEF CreatorHasIdentity, PendingHasCreator, CreatingOf, Is

\* Every step keeps the invariant about pending silos.
LEMMA PendingKept == PendingInv /\ [Next]_vars => PendingInv'
<1> SUFFICES ASSUME PendingInv, [Next]_vars PROVE PendingInv'
  OBVIOUS
<1>1. CreationInv' /\ Recorded
  BY CreationKept, StepDoes DEF PendingInv, CreationInv
<1>2. \A causes : Without(causes)' => Without(causes)
  BY <1>1, WithoutBefore DEF Recorded
<1>3. IdentityInv'
  BY <1>2, IdentityStep DEF PendingInv, CreationInv, IdentityInv
<1>4. QED
  BY <1>1, <1>2, <1>3, PendingStep DEF PendingInv

\* Nothing but these causes keeps a silo "pending" once all is settled: the job
\* that would write "running" has not been queued, was interrupted or has failed
\* at a call that threw.
THEOREM PendingSiloExplained == Spec => []PendingSiloIsExplained
<1>1. PendingInv => PendingSiloIsExplained
  <2> SUFFICES ASSUME PendingHasCreator, TypeInv, Settled, Is(STATUS_PENDING)
               PROVE  FALSE
    BY DEF PendingInv, CreationInv, Inv, PendingSiloIsExplained, PendingCauses,
       CreationCauses
  <2>1. QED
    BY SettledCreations DEF PendingHasCreator
<1>2. QED
  BY <1>1, InitPending, PendingKept, PTL DEF Spec

-------------------------------------------------------------------------------
(***************************************************************************)
(* What a silo leaves behind.  Whoever forgets the callback has dropped    *)
(* the record, and with it all that was attached.                          *)
(***************************************************************************)
GoneCauses == CreationCauses \cup {"attachDuringDelete", "deleteInterrupted"}

Cleaning == \E a \in Actors : pc[a] = "cleanup"

HeardWhileThere == callback \/ subscribed => Silo # Nil \/ Cleaning
AttachesToSilo  == \A r \in Busy("attach") : Silo # Nil
NothingAttached == Silo = Nil => Attached = {}
ListedAll == \A a \in Actors : pc[a] = "drop" => Attached \subseteq seen[a].vThings

GoneBody == HeardWhileThere /\ AttachesToSilo /\ NothingAttached /\ ListedAll

\* How one comes to attach.
LEMMA AttachMoves ==
  ASSUME Happened, NEW r \in Requests, Kind[r] = "attach",
         pc'[r] \in {"check", "publish", "submit"}
  PROVE  /\ \/ Still(r)
            \/ DidGetSilo(r) /\ Is(STATUS_RUNNING) /\ pc'[r] = "check"
            \/ /\ DidCheck(r) /\ pc[r] = "check" /\ pc'[r] = "publish"
               /\ ~(Target[r] \subseteq Attached)
            \/ DidPublish(r) /\ pc[r] = "publish" /\ pc'[r] = "submit"
         /\ ~DidRestart
<1>0. r \in Actors /\ r \notin Handlers
  BY ActorFacts
<1>1. ~DidRestart
  BY DEF DidRestart, AtRest, Ended
<1>2. ~CallerDid(r)
  BY <1>0
  DEF CallerDid, DidGet, DidDeleteOnKubernetes, DidList, DidDrop, DidForget, Caller
<1>3. CASE RequestDid(r)
  <2>1. DidGetSilo(r) \/ DidCheck(r) \/ DidPublish(r)
    BY <1>0, <1>3
    DEF RequestDid, DidAccept, FirstOf, DidAdd, DidDelete, DidGetFlavour, DidCreate,
        DidEnqueue, DidSubmit, Submitted, Moved
  <2>2. CASE DidGetSilo(r)
    BY <1>0, <1>1, <2>2 DEF DidGetSilo, Moved, Ended
  <2>3. CASE DidCheck(r)
    BY <1>0, <1>1, <2>3 DEF DidCheck, Moved, Ended
  <2>4. CASE DidPublish(r)
    BY <1>0, <1>1, <2>4 DEF DidPublish, Moved, Ended
  <2>5. QED
    BY <2>1, <2>2, <2>3, <2>4
<1>4. QED
  BY <1>1, <1>2, <1>3, RequestMoves

\* Every step keeps that nothing stays of a silo that is gone.
LEMMA GoneStep ==
  ASSUME CreationInv, [Next]_vars, Without(GoneCauses)', GoneBody
  PROVE  GoneBody'
<1>0. Inv /\ Inv' /\ TypeInv /\ TypeInv' /\ Recorded /\ Happened /\ CreationBody
  <2>1. Inv /\ Inv' /\ TypeInv /\ TypeInv' /\ Recorded /\ Happened
    BY StepDoes DEF CreationInv
  <2>2. Undisturbed
    BY <2>1, WithoutBefore DEF Recorded, Without, GoneCauses, CreationCauses, Undisturbed
  <2>3. QED
    BY <2>1, <2>2 DEF CreationInv
<1>1. /\ "submit" \notin faults'
      /\ "attachDuringDelete" \notin races /\ "deleteInterrupted" \notin races'
  BY <1>0 DEF Without, GoneCauses, CreationCauses, Recorded
<1>2. \A r \in Busy("attach"), a \in Actors : pc[a] \notin Tearing
  <2>1. ~(Busy("attach") # {} /\ \E a \in Actors : pc[a] \in Tearing)
    BY <1>0, <1>1 DEF Inv, WindowsSeen, Windows, Labelled
  <2>2. QED
    BY <2>1
<1>3. \A a \in Actors : DidDrop(a) => pc[a] = "drop" /\ pc[a] \in Tearing
  BY DEF DidDrop, Tearing
<1>4. AttachesToSilo'
  <2> SUFFICES ASSUME NEW r \in Requests, Kind[r] = "attach",
                      pc'[r] \in {"check", "publish", "submit"}
               PROVE  Silo' # Nil
    BY DEF AttachesToSilo, Busy
  <2>1. CASE DidGetSilo(r) /\ Is(STATUS_RUNNING)
    BY <2>1 DEF DidGetSilo, SameView, Is
  <2>2. CASE r \in Busy("attach")
    <3>1. Silo # Nil /\ \A a \in Actors : ~DidDrop(a)
      BY <1>2, <1>3, <2>2 DEF GoneBody, AttachesToSilo
    <3>2. QED
      BY <1>0, <3>1, LedgerChanges
      DEF SameView, FlavourWritten, FlavourDeleted, SiloWritten, SiloDropped,
          VThingAttached, VThingDetached
  <2>3. QED
    BY <1>0, <2>1, <2>2, AttachMoves DEF Busy, Still
<1>5. NothingAttached'
  <2> SUFFICES ASSUME Silo' = Nil PROVE Attached' = {}
    BY DEF NothingAttached
  <2>1. ASSUME NEW a \in Actors, DidDrop(a), SiloDropped(seen[a].vThings)
        PROVE  Attached' = {}
    BY <1>3, <2>1 DEF SiloDropped, GoneBody, ListedAll
  <2>2. ASSUME NEW r \in Requests, DidSubmit(r), Kind[r] = "attach"
        PROVE  Silo # Nil
    BY <2>2 DEF DidSubmit, Busy, GoneBody, AttachesToSilo
  <2>3. QED
    BY <1>0, <2>1, <2>2, LedgerChanges
    DEF SameView, FlavourWritten, FlavourDeleted, SiloWritten, VThingAttached,
        VThingDetached, GoneBody, NothingAttached
<1>6. ListedAll'
  <2> SUFFICES ASSUME NEW a \in Actors, pc'[a] = "drop"
               PROVE  Attached' \subseteq seen'[a].vThings
    BY DEF ListedAll
  <2>1. CASE DidList(a) /\ seen'[a].vThings = Attached
    BY <2>1 DEF DidList, SameView
  <2>2. CASE Still(a)
    <3>1. pc[a] \in Tearing /\ Attached \subseteq seen[a].vThings
      BY <2>2 DEF Still, Tearing, GoneBody, ListedAll
    <3>2. ASSUME NEW r \in Requests, DidSubmit(r) PROVE Kind[r] # "attach"
      BY <1>2, <3>1, <3>2 DEF DidSubmit, Busy
    <3>3. Attached' \subseteq Attached
      BY <1>0, <3>2, LedgerChanges
      DEF SameView, FlavourWritten, FlavourDeleted, SiloWritten, SiloDropped,
          VThingDetached
    <3>4. QED
      BY <2>2, <3>1, <3>3 DEF Still
  <2>3. QED
    BY <1>0, <2>1, <2>2, TearMoves DEF Tearing
<1>7. HeardWhileThere'
  <2> SUFFICES ASSUME callback' \/ subscribed' PROVE Silo' # Nil \/ Cleaning'
    BY DEF HeardWhileThere
  <2>1. ASSUME NEW r \in Creations, DidSubscribe(r)
        PROVE  Silo' # Nil
    <3>1. CreatingOf(r) /\ Silo' = Silo
      BY <2>1 DEF DidSubscribe, SameView, CreatingOf, Ended
    <3>2. QED
      BY <1>0, <3>1 DEF CreationBody, CreatorHasRecord
  <2>2. CASE DidRestart
    <3>1. ~Cleaning
      <4>1. ~(Deletes > 0)
        BY <1>1, <2>2 DEF DidRestart, Interrupted, Labelled
      <4>2. QED
        BY <1>0, <4>1, NoDeletes DEF Deleters, Cleaning, Tearing
    <3>2. subscribed /\ Silo' = Silo
      BY <2>2 DEF DidRestart, SameView
    <3>3. QED
      BY <3>1, <3>2 DEF GoneBody, HeardWhileThere
  <2>3. CASE callback' = callback /\ subscribed' = subscribed /\ ~DidRestart
    <3>1. Silo # Nil \/ Cleaning
      BY <2>3 DEF GoneBody, HeardWhileThere
    <3>2. CASE Silo # Nil
      <4>1. ASSUME NEW a \in Actors, DidDrop(a), SiloDropped(seen[a].vThings)
            PROVE  Silo' = Silo \/ pc'[a] = "cleanup"
        BY <1>1, <4>1 DEF DidDrop, Submitted, Moved, Ended, SameView
      <4>2. QED
        BY <1>0, <3>2, <4>1, LedgerChanges
        DEF SameView, FlavourWritten, FlavourDeleted, SiloWritten, VThingAttached,
            VThingDetached, Cleaning
    <3>3. ASSUME NEW a \in Actors, pc[a] = "cleanup"
          PROVE  pc'[a] = "cleanup"
      <4>1. ~DidForget(a)
        BY <2>3 DEF DidForget
      <4>2. CASE CallerDid(a)
        BY <3>3, <4>1, <4>2 DEF CallerDid, DidGet, DidDeleteOnKubernetes, DidList, DidDrop
      <4>3. CASE a \in Requests /\ RequestDid(a)
        BY <3>3, <4>3
        DEF RequestDid, DidAccept, DidAdd, DidDelete, DidGetFlavour, DidCreate, DidEnqueue,
            DidGetSilo, DidCheck, DidSubmit, DidPublish
      <4>4. CASE \E r \in Queued : a = Job(r)
        BY <1>0, <3>3, <4>4, ActorFacts, RequestFacts
        DEF TypeInv, Places, JobsPlaced, JobLabels
      <4>5. CASE a \in Handlers /\ HandlerDid(a)
        BY <3>3, <4>5 DEF HandlerDid, DidRestore, DidPublishRestore
      <4>6. CASE a \in Handlers /\ DidReceive
        BY <3>3, <4>6 DEF DidReceive, Moved, KeptPlaces, Ended
      <4>7. QED
        BY <1>0, <2>3, <3>3, <4>2, <4>3, <4>4, <4>5, <4>6, Moves DEF Still
    <3>4. QED
      BY <3>1, <3>2, <3>3 DEF Cleaning
  <2>4. QED
    BY <1>0, <2>1, <2>2, <2>3, CallbackChanges
<1>8. QED
  BY <1>4, <1>5, <1>6, <1>7 DEF GoneBody

\* Once all is settled, a silo that is not in the ledger has left nothing: its
\* Deployment, its callback, its subscription and its attachments are gone.
THEOREM NothingStays == Spec => []SiloIsGone
<1> DEFINE I == CreationInv /\ (Without(GoneCauses) => GoneBody)
<1>1. Init => I
  <2> SUFFICES ASSUME Init PROVE GoneBody
    BY InitCreation
  <2>1. /\ \A r \in Requests : pc[r] = "new"
        /\ \A j \in Jobs : pc[j] = "none"
        /\ \A h \in Handlers : pc[h] = "idle"
        /\ ~callback /\ ~subscribed
    BY ActorFacts DEF Init, InitWith
  <2>2. Attached = {}
    <3>1. \A v \in VThings :
            /\ VThingVSiloKey(vSilo, v) \in Keys
            /\ VThingVSiloKey(vSilo, v) # FlavourKey(flavour)
            /\ VThingVSiloKey(vSilo, v) \notin {VThingTVKey(u) : u \in VThings}
      BY SiloKeys, KeyTypes, SiloAssumption DEF VThingVSiloKey, VThingTVKey, SiloAssumption
    <3>2. QED
      BY <3>1 DEF Init, InitWith, Attached
  <2>3. QED
    BY <2>1, <2>2
    DEF GoneBody, HeardWhileThere, AttachesToSilo, Busy, NothingAttached, ListedAll, Actors
<1>2. I /\ [Next]_vars => I'
  <2> SUFFICES ASSUME I, [Next]_vars PROVE I'
    OBVIOUS
  <2>1. CreationInv' /\ Recorded
    BY CreationKept, StepDoes DEF CreationInv
  <2>2. Without(GoneCauses)' => Without(GoneCauses)
    BY <2>1, WithoutBefore DEF Recorded
  <2>3. QED
    BY <2>1, <2>2, GoneStep
<1>3. I => SiloIsGone
  <2> SUFFICES ASSUME CreationInv, Without(GoneCauses), GoneBody, Settled, Silo = Nil
               PROVE  deployment = NoDeployment /\ ~callback /\ ~subscribed /\ Attached = {}
    BY DEF SiloIsGone, GoneCauses, CreationCauses
  <2>1. TypeInv /\ CreationBody
    BY DEF CreationInv, Inv, Without, GoneCauses, CreationCauses, Undisturbed
  <2>2. ~Cleaning
    BY DEF Settled, Cleaning, AtRest, Ended
  <2>3. deployment = NoDeployment
    <3>1. deployment \in Creations \cup {NoDeployment}
      BY <2>1 DEF TypeInv, RestTyped
    <3>2. QED
      BY <2>1, <3>1, SettledCreations DEF CreationBody, WhoDeployed, CreatingOf, Ended
  <2>4. QED
    BY <2>2, <2>3 DEF GoneBody, HeardWhileThere, NothingAttached
<1>4. QED
  BY <1>1, <1>2, <1>3, PTL DEF Spec

-------------------------------------------------------------------------------
(***************************************************************************)
(* Silos made from a flavour with YAML files: the job carries them, and    *)
(* the record names no Deployment or that of its creation.                 *)
(***************************************************************************)
JobHasYaml ==
  \A r \in Creations : pc[Job(r)] \notin Ended \cup {"none"} => seen[Job(r)].details = Yaml
NamesCreation ==
  /\ Silo # Nil => Silo.details \in {NoDetails, NoDeployment} \cup Creations
  /\ Is(STATUS_RUNNING) => Silo.details \in Creations

YamlBody == JobHasYaml /\ NamesCreation
YamlInv  == Without({"pendingFlavour"}) => YamlBody

\* The job of a creation has a flavour to deploy.
LEMMA YamlIsThere ==
  ASSUME JobHasYaml, NEW r \in Creations, pc[Job(r)] \notin Ended \cup {"none"}
  PROVE  HasYaml(r)
  BY DetailFacts DEF JobHasYaml, HasYaml

\* A job that has ended has ended for good.
LEMMA EndedStays ==
  ASSUME Happened, NEW r \in Queued, pc[Job(r)] \in Ended
  PROVE  pc'[Job(r)] = pc[Job(r)]
<1>0. Job(r) \in Actors /\ Job(r) \in Jobs /\ r \in Actors /\ r # Job(r) /\ Job(r) \notin Handlers
  BY ActorFacts
<1>1. DidEnqueue(r) => Still(Job(r))
  BY <1>0 DEF DidEnqueue, Moved, Still, Ended
<1>2. DidRestart => pc'[Job(r)] = pc[Job(r)]
  BY <1>0 DEF DidRestart, AtRest, Ended
<1>3. ~JobDid(r)
  BY JobMoves
<1>4. QED
  BY <1>1, <1>2, <1>3, JobMoves DEF Still

\* Every step keeps that jobs have a flavour and records name creations.
LEMMA YamlStep ==
  ASSUME Inv, [Next]_vars, Without({"pendingFlavour"})', YamlBody
  PROVE  YamlBody'
<1>0. Inv' /\ TypeInv /\ TypeInv' /\ Recorded /\ Happened
  BY StepDoes
<1>1. \A r \in Creations : pc[r] = "enqueue" => seen[r].details = Yaml
  <2>1. ~FromPendingFlavour
    BY <1>0 DEF Without, Recorded, Inv, WindowsSeen, Windows, Labelled
  <2>2. QED
    BY <2>1 DEF FromPendingFlavour
<1>2. JobHasYaml'
  <2> SUFFICES ASSUME NEW r \in Creations, pc'[Job(r)] \notin Ended \cup {"none"}
               PROVE  seen'[Job(r)].details = Yaml
    BY DEF JobHasYaml
  <2>0. /\ r \in Queued /\ r \in Actors /\ Job(r) \in Actors /\ Job(r) \in Jobs
        /\ r # Job(r) /\ Job(r) \notin Handlers /\ Kind[r] = "create"
    BY ActorFacts, RequestFacts
  <2>1. CASE Still(Job(r))
    BY <2>1 DEF Still, YamlBody, JobHasYaml
  <2>2. CASE DidEnqueue(r) /\ ~Still(Job(r))
    BY <1>1, <2>0, <2>2 DEF DidEnqueue, Moved, Still
  <2>3. CASE JobDid(r)
    <3>1. seen'[Job(r)] = seen[Job(r)]
      <4>1. PICK l : Moved(Job(r), l, seen[Job(r)])
        BY <2>0, <2>3
        DEF JobDid, DidBegin, DidPending, DidSubscribe, DidWithoutYaml, DidService, DidDeploy,
            DidRunning, DidFlavour, DidFlavourError, Submitted
      <4>2. QED
        BY <2>0, <4>1 DEF Moved
    <3>2. pc[Job(r)] \notin Ended \cup {"none"}
      BY <1>0, <2>0, <2>3, JobMoves
    <3>3. QED
      BY <3>1, <3>2 DEF YamlBody, JobHasYaml
  <2>4. CASE DidRestart
    BY <2>0, <2>4 DEF DidRestart, AtRest, Ended, YamlBody, JobHasYaml
  <2>5. QED
    BY <1>0, <2>0, <2>1, <2>2, <2>3, <2>4, JobMoves
<1>3. NamesCreation'
  <2>1. ASSUME NEW r \in Creations, DidRunning(r)
        PROVE  HasYaml(r)
    BY <2>1, YamlIsThere DEF DidRunning, Ended, YamlBody
  <2>2. STATUS_PENDING # STATUS_RUNNING
    BY DEF STATUS_PENDING, STATUS_RUNNING
  <2>3. QED
    BY <1>0, <2>1, <2>2, LedgerChanges
    DEF SameView, FlavourWritten, FlavourDeleted, SiloWritten, SiloDropped,
        VThingAttached, VThingDetached, NamesCreation, YamlBody, Is
<1>4. QED
  BY <1>2, <1>3 DEF YamlBody

-------------------------------------------------------------------------------
(***************************************************************************)
(* The Deployment the record names.  With one destruction at a time, who   *)
(* is about to delete it holds its name; with several, but no call that    *)
(* throws, whatever removes it removes the record as well.  Where silos    *)
(* have a Service, the first one leaves it behind and no second creation   *)
(* gets as far as a Deployment.                                            *)
(***************************************************************************)
NamedCauses == {"pendingFlavour", "submit", "deleteInterrupted"}
OneCauses   == NamedCauses \cup {"twoDeletes"}
CanCauses   == NamedCauses \cup {"enqueue", "k8s", "createInterrupted"}

Emptying == \E a \in Actors : pc[a] \in {"list", "drop"}

RunsOwn == \A r \in Creations : pc[Job(r)] = "running" => deployment = r
HoldsName ==
  \A a \in Actors : pc[a] = "k8s" /\ Deployed(seen[a]) =>
    /\ seen[a].details \in Creations /\ deployment = seen[a].details
    /\ pc[Job(seen[a].details)] \in Ended
NamedIsThere ==
  Silo # Nil /\ Deployed(Silo) =>
    pc[Job(Silo.details)] \in Ended /\ (deployment = Silo.details \/ Emptying)

OneBody == RunsOwn /\ HoldsName /\ NamedIsThere

\* Still to be deployed.
Coming(r) == CreatingOf(r) /\ pc[Job(r)] # "running"

CanBody ==
  /\ Silo # Nil
  /\ Deployed(Silo) \/ \E r \in Creations : pc[Job(r)] = "running"
  => \/ deployment # NoDeployment
     \/ Emptying
     \/ \E r \in Creations : Coming(r)

\* Creations past their Service, and Deployments a record or a destruction names.
Past     == {r \in Creations : pc[Job(r)] \in {"deploy", "running"}}
Knows(a) == pc[a] = "k8s" /\ Deployed(seen[a])
Named    == (Silo # Nil /\ Deployed(Silo)) \/ \E a \in Actors : Knows(a)

ServiceBody ==
  /\ (Past # {} \/ Named) => service
  /\ \A r, q \in Past : r = q
  /\ Past # {} => ~Named
  /\ RunsOwn
  /\ Silo # Nil /\ Deployed(Silo) => deployment # NoDeployment \/ Emptying

\* Who has listed the vThings drops the record.
LEMMA EmptyingMoves ==
  ASSUME TypeInv, Happened, Emptying, ~DidRestart, "submit" \notin faults'
  PROVE  Emptying' \/ Silo' = Nil
<1> PICK a \in Actors : pc[a] \in {"list", "drop"}
  BY DEF Emptying
<1>1. CASE CallerDid(a)
  <2>1. CASE DidList(a)
    BY <2>1 DEF DidList, Moved, Emptying, Ended
  <2>2. CASE DidDrop(a)
    BY <2>2 DEF DidDrop, Submitted, SiloDropped
  <2>3. QED
    BY <1>1, <2>1, <2>2 DEF CallerDid, DidGet, DidDeleteOnKubernetes, DidForget
<1>2. CASE Still(a)
  BY <1>2 DEF Still, Emptying
<1>3. a \in Requests => ~RequestDid(a)
  BY DEF RequestDid, DidAccept, DidAdd, DidDelete, DidGetFlavour, DidCreate, DidEnqueue,
     DidGetSilo, DidCheck, DidSubmit, DidPublish
<1>4. ~(\E r \in Queued : a = Job(r))
  BY RequestFacts DEF TypeInv, Places, JobsPlaced, JobLabels
<1>5. a \in Handlers /\ (HandlerDid(a) \/ DidReceive) => Still(a)
  BY DEF HandlerDid, DidRestore, DidPublishRestore, DidReceive, Moved, KeptPlaces, Still,
     Ended
<1>6. QED
  BY <1>1, <1>2, <1>3, <1>4, <1>5, Moves

\* A restart that interrupts no destruction finds nobody destroying.
LEMMA TearingRestart ==
  ASSUME TypeInv, DidRestart, "deleteInterrupted" \notin races'
  PROVE  Deleters = {} /\ Destroys = {} /\ Acks = {}
<1>1. ~(Deletes > 0)
  BY DEF DidRestart, Interrupted, Labelled
<1>2. QED
  BY <1>1, NoDeletes

\* While destructions do not overlap, every step keeps that the Deployment a
\* record or a destruction names is there.
LEMMA OneStep ==
  ASSUME Inv, YamlInv, [Next]_vars, Without(OneCauses)', OneBody
  PROVE  OneBody'
<1>0. Inv' /\ TypeInv /\ TypeInv' /\ Recorded /\ Happened
  BY StepDoes
<1>1. /\ "submit" \notin faults' /\ "deleteInterrupted" \notin races'
      /\ "twoDeletes" \notin races /\ "twoDeletes" \notin races'
  BY <1>0 DEF Without, OneCauses, NamedCauses, Recorded
<1>2. YamlBody
  BY <1>0 DEF YamlInv, Without, OneCauses, NamedCauses, Recorded
<1>3. \A r \in Creations : pc[Job(r)] \notin Ended \cup {"none"} => HasYaml(r)
  BY <1>2, YamlIsThere DEF YamlBody
<1>4. /\ \A a, b \in Deleters : a = b
      /\ \A a, b \in Deleters' : a = b
  <2>1. ~(Deletes > 1) /\ ~(Deletes > 1)'
    BY <1>0, <1>1 DEF Inv, WindowsSeen, Windows, Labelled
  <2>2. \A a, b \in Deleters : a = b
    BY <1>0, <2>1, TwoDeletes
  <2>4. TypeInv' /\ ~(Deletes > 1)' => OneDeleter'
    BY OneDeleterAtMost, PTL
  <2>5. QED
    BY <1>0, <2>1, <2>2, <2>4 DEF OneDeleter
<1>5. deployment \in Creations \cup {NoDeployment} /\ NoDeployment \notin Creations
  BY <1>0, ActorFacts DEF TypeInv, RestTyped
<1>6. RunsOwn'
  <2> SUFFICES ASSUME NEW r \in Creations, pc'[Job(r)] = "running"
               PROVE  deployment' = r
    BY DEF RunsOwn
  <2>0. /\ r \in Queued /\ Job(r) \in Jobs /\ Job(r) \in Actors /\ Job(r) \notin Handlers
        /\ r \in Actors /\ Job(r) # r
    BY ActorFacts
  <2>1. CASE pc[Job(r)] = "running"
    <3>1. deployment = r
      BY <2>1 DEF OneBody, RunsOwn
    <3>2. ASSUME NEW a \in Actors, DidDeleteOnKubernetes(a), pc[a] = "k8s", Deployed(seen[a])
          PROVE  FALSE
      BY <2>1, <3>1, <3>2 DEF OneBody, HoldsName, Ended
    <3>3. QED
      BY <1>0, <1>5, <3>1, <3>2, DeploymentChanges
  <2>2. CASE pc[Job(r)] # "running"
    <3>1. ~DidRestart
      BY <2>0, <2>2 DEF DidRestart, AtRest, Ended
    <3>2. ~DidEnqueue(r)
      BY <2>0, <2>2 DEF DidEnqueue, Moved
    <3>3. CASE JobDid(r)
      <4>1. ~DidWithoutYaml(r)
        BY <1>3 DEF DidWithoutYaml, Ended
      <4>2. DidDeploy(r)
        BY <2>0, <2>2, <3>3, <4>1
        DEF JobDid, DidBegin, DidPending, DidSubscribe, DidService, DidRunning, DidFlavour,
            DidFlavourError, Submitted, Moved
      <4>3. QED
        BY <2>0, <4>2 DEF DidDeploy, Moved, Ended
    <3>4. QED
      BY <1>0, <2>0, <2>2, <3>1, <3>2, <3>3, JobMoves DEF Still
  <2>3. QED
    BY <2>1, <2>2
<1>7. HoldsName'
  <2> SUFFICES ASSUME NEW a \in Actors, pc'[a] = "k8s", Deployed(seen'[a])
               PROVE  /\ seen'[a].details \in Creations /\ deployment' = seen'[a].details
                      /\ pc'[Job(seen'[a].details)] \in Ended
    BY DEF HoldsName, Deployed
  <2>1. CASE Still(a)
    <3> DEFINE d == seen[a].details
    <3>1. /\ pc[a] = "k8s" /\ d \in Creations /\ deployment = d /\ pc[Job(d)] \in Ended
          /\ seen'[a] = seen[a]
      BY <2>1 DEF Still, OneBody, HoldsName, Deployed
    <3>2. pc'[Job(d)] \in Ended
      BY <1>0, <3>1, EndedStays, ActorFacts
    <3>3. ASSUME NEW b \in Actors, DidDeleteOnKubernetes(b), pc[b] = "k8s", pc'[b] = "list"
          PROVE  FALSE
      <4>1. a \in Deleters /\ b \in Deleters /\ a # b
        BY <2>1, <3>1, <3>3 DEF Deleters, Tearing, Still
      <4>2. QED
        BY <1>4, <4>1
    <3>4. deployment' = deployment
      BY <1>0, <1>5, <3>1, <3>3, DeploymentChanges
    <3>5. QED
      BY <3>1, <3>2, <3>4
  <2>2. CASE DidGet(a) /\ Silo # Nil /\ seen'[a] = Silo /\ ~Still(a)
    <3>0. Deployed(Silo)
      BY <2>2
    <3>1. Silo.details \in Creations
      BY <1>2, <2>2, <3>0 DEF YamlBody, NamesCreation, Deployed
    <3>2. ~Emptying
      <4> SUFFICES ASSUME NEW b \in Actors, pc[b] \in {"list", "drop"} PROVE FALSE
        BY DEF Emptying
      <4>1. b # a /\ pc[a] = "get"
        BY <2>2 DEF DidGet
      <4>2. pc'[b] = pc[b]
        BY <2>2, <4>1 DEF DidGet, Moved
      <4>3. a \in Deleters' /\ b \in Deleters'
        BY <4>2 DEF Deleters, Tearing
      <4>4. QED
        BY <1>4, <4>1, <4>3
    <3>3. deployment = Silo.details /\ pc[Job(Silo.details)] \in Ended
      BY <2>2, <3>0, <3>2 DEF OneBody, NamedIsThere
    <3>4. pc'[Job(Silo.details)] \in Ended
      BY <1>0, <3>1, <3>3, EndedStays, ActorFacts
    <3>5. deployment' = deployment
      BY <2>2 DEF DidGet, KeptAll, KeptCluster
    <3>6. QED
      BY <2>2, <3>1, <3>3, <3>4, <3>5
  <2>3. QED
    BY <1>0, <2>1, <2>2, TearMoves DEF Tearing
<1>8. NamedIsThere'
  <2> SUFFICES ASSUME Silo' # Nil, Deployed(Silo')
               PROVE  /\ pc'[Job(Silo'.details)] \in Ended
                      /\ deployment' = Silo'.details \/ Emptying'
    BY DEF NamedIsThere, Deployed
  <2>1. CASE Silo' = Silo
    <3> DEFINE d == Silo.details
    <3>0. Deployed(Silo) /\ Silo # Nil
      BY <2>1 DEF Deployed
    <3>1. d \in Creations
      BY <1>2, <3>0 DEF YamlBody, NamesCreation, Deployed
    <3>2. pc[Job(d)] \in Ended /\ (deployment = d \/ Emptying)
      BY <3>0 DEF OneBody, NamedIsThere
    <3>3. pc'[Job(d)] \in Ended
      BY <1>0, <3>1, <3>2, EndedStays, ActorFacts
    <3>4. CASE deployment = d
      <4>1. deployment' = d \/ \E a \in Actors : pc'[a] = "list"
        BY <1>0, <1>5, <3>1, <3>4, DeploymentChanges
      <4>2. QED
        BY <2>1, <3>3, <4>1 DEF Emptying
    <3>5. CASE Emptying
      <4>1. ~DidRestart
        BY <1>0, <1>1, <3>5, TearingRestart DEF Emptying, Deleters, Tearing
      <4>2. QED
        BY <1>0, <1>1, <2>1, <3>3, <3>5, <4>1, EmptyingMoves
    <3>6. QED
      BY <3>2, <3>4, <3>5
  <2>2. ASSUME NEW r \in Creations, DidRunning(r),
               SiloWritten(STATUS_RUNNING, IF HasYaml(r) THEN r ELSE NoYaml)
        PROVE  /\ pc'[Job(Silo'.details)] \in Ended /\ deployment' = Silo'.details
    <3>1. Job(r) \in Actors /\ Job(r) \notin Handlers /\ pc[Job(r)] = "running" /\ HasYaml(r)
      BY <1>3, <2>2, ActorFacts DEF DidRunning, Ended
    <3>2. Silo'.details = r /\ deployment = r
      BY <2>2, <3>1 DEF SiloWritten, OneBody, RunsOwn
    <3>3. pc'[Job(r)] \in Ended /\ deployment' = deployment
      BY <2>2, <3>1 DEF DidRunning, Submitted, Moved, KeptAll, KeptCluster, Ended
    <3>4. QED
      BY <3>2, <3>3
  <2>3. QED
    BY <1>0, <2>1, <2>2, LedgerChanges
    DEF SameView, FlavourWritten, FlavourDeleted, SiloWritten, SiloDropped,
        VThingAttached, VThingDetached, Deployed
<1>9. QED
  BY <1>6, <1>7, <1>8 DEF OneBody

\* The job of a creation goes on to the Deployment, or finds one.
LEMMA ComingMoves ==
  ASSUME TypeInv, TypeInv', Recorded, Happened, ~DidRestart, ~HasService,
         Without(CanCauses)',
         CreatorHasIdentity, JobHasYaml, Silo # Nil,
         NEW r \in Creations, Coming(r)
  PROVE  Coming(r)' \/ deployment' # NoDeployment
<1>0. /\ r \in Queued /\ r \in Actors /\ Job(r) \in Actors /\ Job(r) \notin Handlers
      /\ r # NoDeployment /\ Job(r) # r
  BY ActorFacts
<1>1. /\ "submit" \notin faults' /\ "enqueue" \notin faults' /\ "k8s" \notin faults'
  BY DEF Without, CanCauses, NamedCauses, Recorded
<1>2. identity /\ CreatingOf(r) /\ pc[Job(r)] # "running"
  BY DEF CreatorHasIdentity, Coming
<1>3. CASE DidDeploy(r)
  BY <1>0, <1>1, <1>3 DEF DidDeploy, Moved, Ended
<1>4. ~DidWithoutYaml(r)
  BY YamlIsThere DEF DidWithoutYaml, Ended
<1>5. pc'[Job(r)] = "running" => DidDeploy(r)
  <2>1. ~DidEnqueue(r) \/ pc'[Job(r)] # "running"
    BY <1>0, <1>2 DEF DidEnqueue, Moved
  <2>2. JobDid(r) /\ pc'[Job(r)] = "running" => DidDeploy(r)
    BY <1>0, <1>2, <1>4
    DEF JobDid, DidBegin, DidPending, DidSubscribe, DidService, DidRunning, DidFlavour,
        DidFlavourError, Submitted, Moved
  <2>3. QED
    BY <1>0, <1>2, <2>1, <2>2, JobMoves DEF Still
<1>6. CASE CreatingOf(r)'
  BY <1>3, <1>5, <1>6 DEF Coming
<1>7. CASE ~CreatingOf(r)' /\ DidPending(r) /\ pc'[Job(r)] \in Ended
  BY <1>0, <1>1, <1>2, <1>7 DEF DidPending, Moved, Ended
<1>8. CASE ~CreatingOf(r)' /\ DidService(r) /\ pc'[Job(r)] \in Ended
  BY <1>0, <1>1, <1>8 DEF DidService, Moved, Ended
<1>9. ~DidRunning(r)
  BY <1>2 DEF DidRunning
<1>10. QED
  BY <1>1, <1>2, <1>3, <1>6, <1>7, <1>8, <1>9, CreatorMoves

\* Every step keeps that a Deployment named is there, to come or being
\* removed.
LEMMA CanStep ==
  ASSUME Inv, IdentityInv, YamlInv, [Next]_vars, ~HasService, Without(CanCauses)',
         CanBody
  PROVE  CanBody'
<1>0. Inv' /\ TypeInv /\ TypeInv' /\ Recorded /\ Happened
  BY StepDoes
<1>1. /\ "submit" \notin faults' /\ "deleteInterrupted" \notin races'
      /\ "createInterrupted" \notin races'
  BY DEF Without, CanCauses, NamedCauses
<1>2. YamlBody /\ CreatorHasIdentity
  BY <1>0 DEF YamlInv, IdentityInv, Without, CanCauses, NamedCauses, Recorded
<1>3. deployment \in Creations \cup {NoDeployment} /\ NoDeployment \notin Creations
  BY <1>0, ActorFacts DEF TypeInv, RestTyped
<1> SUFFICES ASSUME Silo' # Nil,
                    Deployed(Silo') \/ \E r \in Creations : pc'[Job(r)] = "running"
             PROVE  deployment' # NoDeployment \/ Emptying' \/ \E r \in Creations : Coming(r)'
  BY DEF CanBody, Deployed
<1>4. CASE DidRestart
  <2>1. Silo' = Silo /\ deployment' = deployment
    BY <1>4 DEF DidRestart, SameView, KeptCluster
  <2>2. ~Emptying
    BY <1>0, <1>1, <1>4, TearingRestart DEF Emptying, Deleters, Tearing
  <2>3. \A r \in Creations : ~CreatingOf(r) /\ pc'[Job(r)] = pc[Job(r)]
    BY <1>1, <1>4, CreationsRestart
  <2>4. QED
    BY <2>1, <2>2, <2>3 DEF CanBody, Coming
<1>5. CASE ~DidRestart
  <2>1. ASSUME NEW r \in Creations, DidCreate(r), Silo = Nil
        PROVE  Coming(r)'
    <3>1. r \in Actors /\ r \notin Handlers /\ Job(r) \in Actors /\ Job(r) # r /\ r \in Queued
      BY ActorFacts
    <3>2. pc[r] = "create" /\ pc[Job(r)] = "none"
      BY <1>0, <2>1, <3>1 DEF DidCreate, TypeInv, Places, JobsPlaced, Before
    <3>3. pc'[r] = "enqueue" \/ Silo' = Silo
      BY <1>1, <2>1, <3>1 DEF DidCreate, Submitted, Moved, SameView, Ended
    <3>4. pc'[Job(r)] = "none"
      BY <2>1, <3>1, <3>2 DEF DidCreate, Submitted, Moved
    <3>5. QED
      BY <2>1, <3>3, <3>4 DEF Coming, CreatingOf
  <2>2. CASE /\ Silo # Nil
             /\ Deployed(Silo) \/ \E r \in Creations : pc[Job(r)] = "running"
    <3>1. CASE deployment # NoDeployment
      BY <1>0, <1>3, <3>1, DeploymentChanges DEF Emptying
    <3>2. CASE Emptying
      BY <1>0, <1>1, <1>5, <3>2, EmptyingMoves
    <3>3. CASE \E r \in Creations : Coming(r)
      BY <1>0, <1>2, <1>5, <2>2, <3>3, ComingMoves DEF YamlBody
    <3>4. QED
      BY <2>2, <3>1, <3>2, <3>3 DEF CanBody
  <2>3. CASE Silo = Nil
    BY <1>0, <2>1, <2>3, LedgerChanges
    DEF SameView, FlavourWritten, FlavourDeleted, SiloDropped, VThingAttached, VThingDetached
  <2>4. CASE Silo # Nil /\ ~Deployed(Silo) /\ \A r \in Creations : pc[Job(r)] # "running"
    <3>1. ~Deployed(Silo')
      BY <1>0, <2>4, LedgerChanges
      DEF SameView, FlavourWritten, FlavourDeleted, SiloWritten, SiloDropped,
          VThingAttached, VThingDetached, Deployed, DidRunning
    <3>2. PICK r \in Creations : pc'[Job(r)] = "running"
      BY <3>1
    <3>3. /\ r \in Queued /\ r \in Actors /\ Job(r) \in Actors /\ Job(r) \notin Handlers
          /\ Job(r) # r
      BY ActorFacts
    <3>4. ~DidEnqueue(r)
      BY <2>4, <3>2, <3>3 DEF DidEnqueue, Moved
    <3>5. JobDid(r)
      BY <1>0, <1>5, <2>4, <3>2, <3>3, <3>4, JobMoves DEF Still
    <3>6. ~DidWithoutYaml(r)
      BY <1>2, YamlIsThere DEF DidWithoutYaml, Ended, YamlBody
    <3>7. DidDeploy(r)
      BY <2>4, <3>2, <3>3, <3>5, <3>6
      DEF JobDid, DidBegin, DidPending, DidSubscribe, DidService, DidRunning, DidFlavour,
          DidFlavourError, Submitted, Moved
    <3>8. QED
      BY <1>3, <3>2, <3>3, <3>7 DEF DidDeploy, Moved, Ended
  <2>5. QED
    BY <2>2, <2>3, <2>4
<1>6. QED
  BY <1>4, <1>5

\* A Service appears when the job of a creation makes one.
LEMMA ServiceChanges ==
  ASSUME Happened
  PROVE  service' = service \/ service' = HasService
<1> USE DEF KeptAll, KeptCluster
<1>1. CASE OtherDid \/ DidRestart
  BY <1>1
  DEF OtherDid, DidLogin, DidReceive, DidPodsReceive, DidPodStarts, DidPod, DidLose,
      DidRestart
<1>2. CASE ~OtherDid /\ ~DidRestart
  BY <1>2
  DEF Happened, DidStep, RequestDid, DidAccept, DidAdd, DidDelete,
      DidGetFlavour, DidCreate, DidEnqueue, DidGetSilo, DidCheck, DidSubmit, DidPublish,
      JobDid, DidBegin, DidPending, DidSubscribe, DidWithoutYaml, DidService, DidDeploy,
      DidRunning, DidFlavour, DidFlavourError, CallerDid, DidGet, DidDeleteOnKubernetes,
      DidList, DidDrop, DidForget, HandlerDid, DidRestore, DidPublishRestore
<1>3. QED
  BY <1>1, <1>2

\* Where silos have a Service, every step keeps that one creation at most gets
\* past it, and what this says of the Deployment the record names.
LEMMA ServiceStep ==
  ASSUME Inv, YamlInv, [Next]_vars, HasService, Without(NamedCauses)', ServiceBody
  PROVE  ServiceBody'
<1>0. Inv' /\ TypeInv /\ TypeInv' /\ Recorded /\ Happened
  BY StepDoes
<1>1. "submit" \notin faults' /\ "deleteInterrupted" \notin races'
  BY DEF Without, NamedCauses
<1>2. YamlBody
  BY <1>0 DEF YamlInv, Without, NamedCauses, Recorded
<1>3. \A r \in Creations : pc[Job(r)] \notin Ended \cup {"none"} => HasYaml(r)
  BY <1>2, YamlIsThere DEF YamlBody
<1>4. deployment \in Creations \cup {NoDeployment} /\ NoDeployment \notin Creations
  BY <1>0, ActorFacts DEF TypeInv, RestTyped
<1>5. service => service'
  BY <1>0, ServiceChanges
<1>6. ASSUME NEW r \in Creations, r \in Past'
      PROVE  r \in Past \/ (DidService(r) /\ ~service /\ service' /\ pc'[Job(r)] = "deploy")
  <2>0. /\ r \in Queued /\ Job(r) \in Jobs /\ Job(r) \in Actors /\ Job(r) \notin Handlers
        /\ r \in Actors /\ Job(r) # r
    BY ActorFacts
  <2>1. pc'[Job(r)] \in {"deploy", "running"}
    BY <1>6 DEF Past
  <2>2. ~DidRestart \/ pc'[Job(r)] = pc[Job(r)]
    BY <2>0, <2>1 DEF DidRestart
  <2>3. DidEnqueue(r) => pc'[Job(r)] = pc[Job(r)]
    BY <2>0, <2>1 DEF DidEnqueue, Moved
  <2>4. CASE JobDid(r)
    <3>1. ~DidWithoutYaml(r)
      BY <1>3 DEF DidWithoutYaml, Ended
    <3>2. DidDeploy(r) => r \in Past
      BY DEF DidDeploy, Past
    <3>3. DidService(r) => ~service /\ service' /\ pc'[Job(r)] = "deploy"
      BY <2>0, <2>1 DEF DidService, Moved
    <3>4. QED
      BY <2>0, <2>1, <2>4, <3>1, <3>2, <3>3
      DEF JobDid, DidBegin, DidPending, DidSubscribe, DidRunning, DidFlavour,
          DidFlavourError, Submitted, Moved
  <2>5. CASE pc'[Job(r)] = pc[Job(r)]
    BY <2>1, <2>5 DEF Past
  <2>6. QED
    BY <1>0, <2>0, <2>2, <2>3, <2>4, <2>5, JobMoves DEF Still
<1>7. ASSUME NEW r \in Creations, DidRunning(r)
      PROVE  r \in Past /\ r \notin Past' /\ deployment' = deployment /\ deployment = r
  <2>1. Job(r) \in Actors /\ Job(r) \notin Handlers /\ pc[Job(r)] = "running"
    BY <1>7, ActorFacts DEF DidRunning
  <2>2. pc'[Job(r)] \in Ended
    BY <1>7, <2>1 DEF DidRunning, Submitted, Moved, Ended
  <2>3. QED
    BY <1>7, <2>1, <2>2 DEF Past, Ended, ServiceBody, RunsOwn, DidRunning, KeptAll, KeptCluster
<1>8. Named' => Named \/ \E r \in Creations : DidRunning(r)
  <2>1. CASE Silo' # Nil /\ Deployed(Silo')
    BY <1>0, <2>1, LedgerChanges
    DEF SameView, FlavourWritten, FlavourDeleted, SiloWritten, SiloDropped,
        VThingAttached, VThingDetached, Deployed, Named
  <2>2. ASSUME NEW a \in Actors, pc'[a] = "k8s", Deployed(seen'[a])
        PROVE  Named
    <3>1. CASE Still(a)
      BY <2>2, <3>1 DEF Still, Named, Knows, Deployed
    <3>2. CASE Silo # Nil /\ seen'[a] = Silo
      BY <2>2, <3>2 DEF Named, Deployed
    <3>3. QED
      BY <1>0, <2>2, <3>1, <3>2, TearMoves DEF Tearing
  <2>3. QED
    BY <2>1, <2>2 DEF Named, Knows, Deployed
<1>9. ASSUME NEW r \in Creations, r \in Past'
      PROVE  ~Named' /\ \A q \in Past' : q = r
  <2>1. CASE r \in Past
    <3>1. service /\ ~Named /\ \A q \in Past : q = r
      BY <2>1 DEF ServiceBody
    <3>2. \A q \in Creations : ~DidRunning(q)
      BY <1>7, <1>9, <3>1
    <3>3. \A q \in Past' : q = r
      BY <1>6, <3>1 DEF Past
    <3>4. QED
      BY <1>8, <3>1, <3>2, <3>3
  <2>2. CASE DidService(r) /\ ~service /\ pc'[Job(r)] = "deploy"
    <3>1. Past = {} /\ ~Named
      BY <2>2 DEF ServiceBody
    <3>2. \A q \in Creations : ~DidRunning(q)
      BY <1>7, <3>1
    <3>3. ASSUME NEW q \in Creations, q \in Past' PROVE q = r
      <4>1. DidService(q) /\ pc'[Job(q)] = "deploy"
        BY <1>6, <3>1, <3>3
      <4>2. Job(q) = Job(r)
        BY <2>2, <4>1, ActorFacts DEF DidService, Moved
      <4>3. QED
        BY <4>2, ActorFacts
    <3>4. QED
      BY <1>8, <3>1, <3>2, <3>3 DEF Past
  <2>3. QED
    BY <1>6, <1>9, <2>1, <2>2
<1>10. ((Past # {} \/ Named) => service)'
  <2>1. Past' # {} => service'
    <3> SUFFICES ASSUME NEW r \in Creations, r \in Past' PROVE service'
      BY DEF Past
    <3> QED
      BY <1>5, <1>6 DEF ServiceBody
  <2>2. Named' => service'
    BY <1>5, <1>7, <1>8 DEF ServiceBody
  <2>3. QED
    BY <2>1, <2>2
<1>11. (\A r, q \in Past : r = q)' /\ (Past # {} => ~Named)'
  BY <1>9 DEF Past
<1>12. RunsOwn'
  <2> SUFFICES ASSUME NEW r \in Creations, pc'[Job(r)] = "running"
               PROVE  deployment' = r
    BY DEF RunsOwn
  <2>1. r \in Past' /\ r \in Past
    BY <1>6 DEF Past
  <2>2. CASE pc[Job(r)] = "running"
    <3>1. deployment = r /\ ~Named
      BY <2>1, <2>2 DEF ServiceBody, RunsOwn
    <3>2. \A a \in Actors : ~(pc[a] = "k8s" /\ Deployed(seen[a]))
      BY <3>1 DEF Named, Knows
    <3>3. QED
      BY <1>0, <1>4, <3>1, <3>2, DeploymentChanges
  <2>3. CASE pc[Job(r)] = "deploy"
    <3>0. /\ r \in Queued /\ Job(r) \in Jobs /\ Job(r) \in Actors
          /\ Job(r) \notin Handlers /\ r \in Actors /\ Job(r) # r
      BY ActorFacts
    <3>1. ~DidRestart /\ ~Still(Job(r)) /\ ~DidEnqueue(r)
      BY <2>3, <3>0 DEF DidRestart, AtRest, Ended, Still, DidEnqueue, Moved
    <3>2. DidDeploy(r)
      BY <1>0, <2>3, <3>0, <3>1, JobMoves
      DEF JobDid, DidBegin, DidPending, DidSubscribe, DidWithoutYaml, DidService, DidRunning,
          DidFlavour, DidFlavourError
    <3>3. QED
      BY <3>0, <3>2 DEF DidDeploy, Moved, Ended
  <2>4. QED
    BY <2>1, <2>2, <2>3 DEF Past
<1>13. (Silo # Nil /\ Deployed(Silo) => deployment # NoDeployment \/ Emptying)'
  <2> SUFFICES ASSUME Silo' # Nil, Deployed(Silo')
               PROVE  deployment' # NoDeployment \/ Emptying'
    BY DEF Deployed
  <2>1. CASE Silo' = Silo
    <3>1. deployment # NoDeployment \/ Emptying
      BY <2>1 DEF ServiceBody, Deployed
    <3>2. CASE Emptying
      <4>1. ~DidRestart
        BY <1>0, <1>1, <3>2, TearingRestart DEF Emptying, Deleters, Tearing
      <4>2. QED
        BY <1>0, <1>1, <3>2, <4>1, EmptyingMoves
    <3>3. CASE deployment # NoDeployment
      BY <1>0, <1>4, <3>3, DeploymentChanges DEF Emptying
    <3>4. QED
      BY <3>1, <3>2, <3>3
  <2>2. CASE \E r \in Creations : DidRunning(r)
    BY <1>4, <1>7, <2>2
  <2>3. QED
    BY <1>0, <2>1, <2>2, LedgerChanges
    DEF SameView, FlavourWritten, FlavourDeleted, SiloWritten, SiloDropped,
        VThingAttached, VThingDetached, Deployed
<1>14. QED
  BY <1>10, <1>11, <1>12, <1>13 DEF ServiceBody

\* Once all is settled, the Deployment that the record names is there, so that
\* the silo can be destroyed and its name used again.
THEOREM SilosCanBeDestroyed == Spec => []SiloCanBeDestroyed
<1> DEFINE I == /\ Inv /\ IdentityInv /\ YamlInv
                /\ Without(OneCauses) => OneBody
                /\ HasService /\ Without(NamedCauses) => ServiceBody
                /\ ~HasService /\ Without(CanCauses) => CanBody
<1>1. Init => I
  <2> SUFFICES ASSUME Init PROVE IdentityInv /\ YamlBody /\ OneBody /\ ServiceBody /\ CanBody
    BY InitInv DEF YamlInv
  <2>1. IdentityInv /\ Silo = Nil
    BY InitPending, SiloIsNew DEF PendingInv
  <2>2. /\ \A r \in Creations : pc[Job(r)] = "none"
        /\ \A a \in Actors : pc[a] # "k8s"
    BY ActorFacts DEF Init, InitWith, Actors
  <2>3. QED
    BY <2>1, <2>2
    DEF YamlBody, JobHasYaml, NamesCreation, Is, OneBody, RunsOwn, HoldsName, NamedIsThere,
        ServiceBody, Past, Named, Knows, CanBody
<1>2. I /\ [Next]_vars => I'
  <2> SUFFICES ASSUME I, [Next]_vars PROVE I'
    OBVIOUS
  <2>1. Inv' /\ Recorded
    BY StepDoes
  <2>2. \A causes : Without(causes)' => Without(causes)
    BY <2>1, WithoutBefore DEF Recorded
  <2>3. IdentityInv'
    BY <2>2, IdentityStep DEF IdentityInv
  <2>4. YamlInv'
    BY <2>2, YamlStep DEF YamlInv
  <2>5. HasService' = HasService
    BY <2>1 DEF Recorded, HasService
  <2>6. QED
    BY <2>1, <2>2, <2>3, <2>4, <2>5, OneStep, ServiceStep, CanStep
<1>3. I => SiloCanBeDestroyed
  <2> SUFFICES ASSUME TypeInv, YamlInv, Settled, Silo # Nil, Deployed(Silo),
                      Without(NamedCauses),
                      OneBody \/ ServiceBody \/ CanBody
               PROVE  deployment # NoDeployment /\ Silo.details # NoYaml
    <3>1. Without(NamedCauses) /\ Without({"twoDeletes"}) => Without(OneCauses)
      BY DEF Without, OneCauses
    <3>2. Without(NamedCauses) /\ Without({"enqueue", "k8s", "createInterrupted"})
            => Without(CanCauses)
      BY DEF Without, CanCauses
    <3>3. QED
      BY <3>1, <3>2 DEF SiloCanBeDestroyed, NamedCauses, Inv
  <2>1. Silo.details \in Creations
    BY DEF YamlInv, YamlBody, NamesCreation, Without, NamedCauses, Deployed
  <2>2. ~Emptying
    BY DEF Settled, Emptying, AtRest, Ended
  <2>3. deployment # NoDeployment
    BY <2>1, <2>2, SettledCreations, ActorFacts
    DEF OneBody, NamedIsThere, ServiceBody, CanBody, Coming
  <2>4. QED
    BY <2>1, <2>3, DetailFacts, ActorFacts
<1>4. QED
  BY <1>1, <1>2, <1>3, PTL DEF Spec

-------------------------------------------------------------------------------
(***************************************************************************)
(* A running silo.  Its Deployment and the callback stay until a           *)
(* destruction is about to drop the record; a program that has stopped     *)
(* listening has an acknowledgement under way that destroys the silo.      *)
(***************************************************************************)
ServedCauses ==
  {"deleteDuringCreate", "pendingFlavour", "destroyVSiloAck", "k8s", "submit", "restart"}

RunningIsDeployed ==
  Is(STATUS_RUNNING) => deployment = Silo.details \/ Emptying
RunningIsHeard == Is(STATUS_RUNNING) => callback /\ subscribed
DeployerIsHeard ==
  \A r \in Creations :
    pc[Job(r)] \in {"service", "deploy", "running"} => callback /\ subscribed
DeafIsDestroyed ==
  \A a \in Creations : deployment = a /\ pod[a].st = "deaf" =>
    \/ "destroyVSiloAck" \in Elems(toCtl)
    \/ \E h \in Handlers : pc[h] = "get"
    \/ \E b \in Actors : pc[b] = "k8s"

ServedBody == RunningIsDeployed /\ RunningIsHeard /\ DeployerIsHeard /\ DeafIsDestroyed

\* Only a restart interrupts anything.
RestartSeen == "createInterrupted" \in races => "restart" \in races

\* Every step keeps that an interrupted creation was interrupted by a restart.
LEMMA RestartIsSeen ==
  ASSUME RestartSeen, [Next]_vars
  PROVE  RestartSeen'
<1>1. CASE UNCHANGED vars
  BY <1>1 DEF vars, controllerVars, RestartSeen
<1>2. CASE races' = races \cup Interrupted
  <2>1. "restart" \in Interrupted
    BY DEF Interrupted
  <2>2. QED
    BY <1>2, <2>1 DEF RestartSeen
<1>3. CASE races' = races \cup Windows'
  <2>1. \A open : "createInterrupted" \notin Labelled("deleteDuringCreate", open)
                    \cup Labelled("twoDeletes", open)
                    \cup Labelled("attachDuringDelete", open)
                    \cup Labelled("attachDuringDetach", open)
                    \cup Labelled("changeDuringRestore", open)
                    \cup Labelled("connectDuringDelete", open)
                    \cup Labelled("pendingFlavour", open)
                    \cup Labelled("flavourDeletedDuringAdd", open)
                    \cup Labelled("leftoverService", open)
    BY DEF Labelled
  <2>2. "createInterrupted" \notin Windows'
    BY <2>1 DEF Windows
  <2>3. QED
    BY <1>3, <2>2 DEF RestartSeen
<1>4. QED
  BY <1>1, <1>2, <1>3 DEF Next

\* A program stops listening when it is told to destroy itself.
LEMMA DeafMoves ==
  ASSUME Happened, NEW a \in Creations, pod'[a].st = "deaf"
  PROVE  \/ pod[a].st = "deaf"
         \/ DidPodsReceive /\ Head(toPod).cmd = "destroyVSilo" /\ pod[a].st = "up"
<1>1. CASE OtherDid
  BY <1>1
  DEF OtherDid, DidLogin, DidReceive, DidPodsReceive, Takes, DidPodStarts, DidPod,
      PodGoesOn, DidLose, KeptAll
<1>2. CASE ~OtherDid
  BY <1>2
  DEF Happened, DidStep, DidRestart, RequestDid, DidAccept, DidAdd, DidDelete,
      DidGetFlavour, DidCreate, DidEnqueue, DidGetSilo, DidCheck, DidSubmit, DidPublish,
      JobDid, DidBegin, DidPending, DidSubscribe, DidWithoutYaml, DidService, DidDeploy,
      DidRunning, DidFlavour, DidFlavourError, CallerDid, DidGet, DidDeleteOnKubernetes,
      DidList, DidDrop, DidForget, HandlerDid, DidRestore, DidPublishRestore, KeptAll
<1>3. QED
  BY <1>1, <1>2

\* A report waits until it is received or lost.
LEMMA ReportMoves ==
  ASSUME TypeInv, Happened, ~DidRestart, NEW m \in Reports, m \in Elems(toCtl)
  PROVE  \/ m \in Elems(toCtl')
         \/ DidReceive /\ Head(toCtl) = m
         \/ m \in lost'
<1>0. toCtl \in Seq(Reports)
  BY DEF TypeInv, RestTyped
<1>1. toCtl # <<>> => Elems(toCtl) = {Head(toCtl)} \cup Elems(Tail(toCtl))
  BY <1>0, QueueElems
<1>2. CASE DidReceive \/ DidLose
  BY <1>1, <1>2 DEF DidReceive, DidLose
<1>3. CASE DidPodsReceive
  <2>1. PICK acks \in Seq(Reports) : toCtl' = toCtl \o acks
    BY <1>3 DEF DidPodsReceive
  <2>2. QED
    BY <1>0, <2>1, QueueElems
<1>4. CASE DidPodStarts
  <2>1. Elems(toCtl') = Elems(toCtl) \cup {"restoreVThingsAck"}
    BY <1>0, <1>4, QueueElems DEF DidPodStarts, Reports
  <2>2. QED
    BY <2>1
<1>5. CASE toCtl' = toCtl
  BY <1>5
<1>6. OtherDid => \/ DidReceive \/ DidLose \/ DidPodsReceive \/ DidPodStarts
                  \/ toCtl' = toCtl
  BY DEF OtherDid, DidLogin, DidPod, KeptNet
<1>7. ~OtherDid => toCtl' = toCtl
  BY DEF Happened, DidStep, RequestDid, DidAccept, DidAdd, DidDelete,
      DidGetFlavour, DidCreate, DidEnqueue, DidGetSilo, DidCheck, DidSubmit, DidPublish,
      JobDid, DidBegin, DidPending, DidSubscribe, DidWithoutYaml, DidService, DidDeploy,
      DidRunning, DidFlavour, DidFlavourError, CallerDid, DidGet, DidDeleteOnKubernetes,
      DidList, DidDrop, DidForget, HandlerDid, DidRestore, DidPublishRestore, KeptAll,
      KeptNet
<1>8. QED
  BY <1>2, <1>3, <1>4, <1>5, <1>6, <1>7

\* Who is about to read the record goes on to the Deployment, and who is about
\* to delete that goes on to the record.
LEMMA GetMoves ==
  ASSUME Happened, ~DidRestart, Silo # Nil, NEW h \in Handlers, pc[h] = "get"
  PROVE  pc'[h] \in {"get", "k8s"}
<1>0. h \in Actors /\ h \notin Requests /\ \A r \in Queued : h # Job(r)
  BY ActorFacts
<1>1. CASE CallerDid(h)
  <2>1. DidGet(h)
    BY <1>1 DEF CallerDid, DidDeleteOnKubernetes, DidList, DidDrop, DidForget
  <2>2. QED
    BY <1>0, <2>1 DEF DidGet, AfterGet, Moved, Ended
<1>2. CASE HandlerDid(h)
  BY <1>2 DEF HandlerDid, DidRestore, DidPublishRestore
<1>3. CASE DidReceive
  BY <1>0, <1>3 DEF DidReceive, Moved, KeptPlaces
<1>4. QED
  BY <1>0, <1>1, <1>2, <1>3, Moves DEF Still

\* Who is about to delete on Kubernetes is still, or does so.
LEMMA K8sMoves ==
  ASSUME TypeInv, Happened, ~DidRestart, NEW b \in Actors, pc[b] = "k8s"
  PROVE  pc'[b] = "k8s" \/ DidDeleteOnKubernetes(b)
<1>1. CASE CallerDid(b)
  BY <1>1 DEF CallerDid, DidGet, DidList, DidDrop, DidForget
<1>2. CASE b \in Handlers /\ (HandlerDid(b) \/ DidReceive)
  BY <1>2 DEF HandlerDid, DidRestore, DidPublishRestore, DidReceive, Moved, KeptPlaces
<1>3. b \in Requests => ~RequestDid(b)
  BY DEF RequestDid, DidAccept, DidAdd, DidDelete, DidGetFlavour, DidCreate, DidEnqueue,
     DidGetSilo, DidCheck, DidSubmit, DidPublish
<1>4. ~(\E r \in Queued : b = Job(r))
  BY RequestFacts DEF TypeInv, Places, JobsPlaced, JobLabels
<1>5. QED
  BY <1>1, <1>2, <1>3, <1>4, Moves DEF Still

\* Every step keeps that a running silo has its Deployment and callback, and a
\* program that stopped is being destroyed.
LEMMA ServedStep ==
  ASSUME CreationInv, CreationInv', YamlInv, RestartSeen, RestartSeen', [Next]_vars,
         Without(ServedCauses)', ServedBody
  PROVE  ServedBody'
<1>0. Inv /\ Inv' /\ TypeInv /\ TypeInv' /\ Recorded /\ Happened
  BY StepDoes DEF CreationInv
<1>1. /\ "submit" \notin faults' /\ "k8s" \notin faults' /\ "restart" \notin races'
      /\ "destroyVSiloAck" \notin lost' /\ "deleteDuringCreate" \notin races
  BY <1>0 DEF Without, ServedCauses, Recorded
<1>12. Undisturbed' /\ Undisturbed
  <2>1. Undisturbed'
    BY <1>1 DEF Undisturbed, RestartSeen, Without, ServedCauses
  <2>2. QED
    BY <1>0, <2>1, UndisturbedBefore
<1>13. CreationInv' /\ Undisturbed' => CreationBody'
  BY DEF CreationInv
<1>14. Without({"pendingFlavour"})
  BY <1>0 DEF Recorded, Without, ServedCauses
<1>2. CreationBody /\ CreationBody' /\ YamlBody
  BY <1>12, <1>13, <1>14 DEF CreationInv, YamlInv
<1>3. ~DidRestart
  BY <1>1 DEF DidRestart, Interrupted
<1>4. \A r \in Creations, a \in Actors : CreatingOf(r) => pc[a] \notin Tearing
  BY <1>0, <1>12, NeverMeet DEF Apart
<1>5. deployment \in Creations \cup {NoDeployment} /\ NoDeployment \notin Creations
  BY <1>0, ActorFacts DEF TypeInv, RestTyped
<1>6. ASSUME NEW r \in Creations, DidRunning(r)
      PROVE  HasYaml(r) /\ CreatingOf(r) /\ pc[Job(r)] = "running" /\ deployment = r
  <2>1. CreatingOf(r) /\ pc[Job(r)] = "running"
    BY <1>6 DEF DidRunning, CreatingOf, Ended
  <2>2. HasYaml(r)
    BY <1>2, <2>1, YamlIsThere DEF YamlBody, Ended
  <2>3. QED
    BY <1>2, <2>1, <2>2 DEF CreationBody, DeployedLast
<1>7. Is(STATUS_RUNNING)' =>
        \/ Silo' = Silo /\ Is(STATUS_RUNNING)
        \/ \E r \in Creations : DidRunning(r) /\ Silo'.details = r
  <2>1. STATUS_PENDING # STATUS_RUNNING
    BY DEF STATUS_PENDING, STATUS_RUNNING
  <2>2. QED
    BY <1>0, <1>6, <2>1, LedgerChanges
    DEF SameView, FlavourWritten, FlavourDeleted, SiloWritten, SiloDropped,
        VThingAttached, VThingDetached, Is
<1>8. RunningIsDeployed'
  <2> SUFFICES ASSUME Is(STATUS_RUNNING)' PROVE deployment' = Silo'.details \/ Emptying'
    BY DEF RunningIsDeployed
  <2>1. CASE Silo' = Silo /\ Is(STATUS_RUNNING)
    <3>1. Silo.details \in Creations
      BY <1>2, <2>1 DEF YamlBody, NamesCreation
    <3>2. CASE deployment = Silo.details
      BY <1>0, <1>5, <2>1, <3>1, <3>2, DeploymentChanges DEF Emptying
    <3>3. CASE Emptying
      BY <1>0, <1>1, <1>3, <2>1, <3>3, EmptyingMoves DEF Is
    <3>4. QED
      BY <2>1, <3>2, <3>3 DEF ServedBody, RunningIsDeployed
  <2>2. ASSUME NEW r \in Creations, DidRunning(r), Silo'.details = r
        PROVE  deployment' = Silo'.details
    BY <1>6, <2>2 DEF DidRunning, KeptAll, KeptCluster
  <2>3. QED
    BY <1>7, <2>1, <2>2
<1>9. RunningIsHeard'
  <2> SUFFICES ASSUME Is(STATUS_RUNNING)' PROVE callback' /\ subscribed'
    BY DEF RunningIsHeard
  <2>1. CASE Silo' = Silo /\ Is(STATUS_RUNNING)
    <3>1. callback /\ subscribed
      BY <2>1 DEF ServedBody, RunningIsHeard
    <3>2. \A a \in Actors : pc[a] # "cleanup"
      BY <1>2, <2>1 DEF CreationBody, Forgotten, Is
    <3>3. QED
      BY <1>0, <1>3, <3>1, <3>2, CallbackChanges
  <2>2. ASSUME NEW r \in Creations, DidRunning(r)
        PROVE  callback' /\ subscribed'
    <3>1. callback /\ subscribed
      BY <1>6, <2>2 DEF ServedBody, DeployerIsHeard
    <3>2. QED
      BY <2>2, <3>1 DEF DidRunning, KeptAll, KeptCtl
  <2>3. QED
    BY <1>7, <2>1, <2>2
<1>10. DeployerIsHeard'
  <2> SUFFICES ASSUME NEW r \in Creations,
                      pc'[Job(r)] \in {"service", "deploy", "running"}
               PROVE  callback' /\ subscribed'
    BY DEF DeployerIsHeard
  <2>0. /\ r \in Queued /\ r \in Actors /\ Job(r) \in Actors /\ Job(r) \notin Handlers
        /\ Job(r) # r
    BY ActorFacts
  <2>1. CASE pc[Job(r)] \in {"service", "deploy", "running"}
    <3>1. callback /\ subscribed /\ CreatingOf(r)
      BY <2>1 DEF ServedBody, DeployerIsHeard, CreatingOf, Ended
    <3>2. \A a \in Actors : pc[a] # "cleanup"
      BY <1>4, <3>1 DEF Tearing
    <3>3. QED
      BY <1>0, <1>3, <3>1, <3>2, CallbackChanges
  <2>2. CASE pc[Job(r)] \notin {"service", "deploy", "running"}
    <3>1. ~DidEnqueue(r)
      BY <2>0, <2>2 DEF DidEnqueue, Moved
    <3>2. JobDid(r)
      BY <1>0, <1>3, <2>0, <2>2, <3>1, JobMoves DEF Still
    <3>3. DidSubscribe(r)
      BY <2>0, <2>2, <3>2
      DEF JobDid, DidBegin, DidPending, DidWithoutYaml, DidService, DidDeploy, DidRunning,
          DidFlavour, DidFlavourError, Submitted, Moved
    <3>4. QED
      BY <3>3 DEF DidSubscribe
  <2>3. QED
    BY <2>1, <2>2
<1>11. DeafIsDestroyed'
  <2> SUFFICES ASSUME NEW a \in Creations, deployment' = a, pod'[a].st = "deaf"
               PROVE  \/ "destroyVSiloAck" \in Elems(toCtl')
                      \/ \E h \in Handlers : pc'[h] = "get"
                      \/ \E b \in Actors : pc'[b] = "k8s"
    BY DEF DeafIsDestroyed, Elems
  <2>1. CASE DidPodsReceive /\ Head(toPod).cmd = "destroyVSilo" /\ pod[a].st = "up"
    <3>1. PICK acks \in Seq(Reports) :
            toCtl' = toCtl \o acks /\ "destroyVSiloAck" \in Elems(acks)
      BY <2>1 DEF DidPodsReceive, SomeUp
    <3>2. QED
      BY <1>0, <3>1, QueueElems DEF TypeInv, RestTyped
  <2>2. CASE pod[a].st = "deaf"
    <3>1. deployment = a
      <4>1. pc[Job(a)] # "deploy"
        BY <1>2, <2>2 DEF CreationBody, PodsCreated, Ended
      <4>2. QED
        BY <1>0, <1>5, <4>1, DeploymentChanges
    <3>2. Silo # Nil
      BY <1>2, <1>5, <3>1 DEF CreationBody, WhoDeployed, CreatorHasRecord, CreatingOf, Ended
    <3>3. CASE "destroyVSiloAck" \in Elems(toCtl)
      <4>1. CASE DidReceive /\ Head(toCtl) = "destroyVSiloAck"
        BY <1>1, <4>1, ActorFacts DEF DidReceive, Moved, Ended
      <4>2. QED
        BY <1>0, <1>1, <1>3, <3>3, <4>1, ReportMoves DEF Reports
    <3>4. ASSUME NEW h \in Handlers, pc[h] = "get"
          PROVE  pc'[h] \in {"get", "k8s"} /\ h \in Actors
      BY <1>0, <1>3, <3>2, <3>4, GetMoves, ActorFacts
    <3>5. ASSUME NEW b \in Actors, pc[b] = "k8s"
          PROVE  pc'[b] = "k8s"
      <4>1. /\ Silo.details = a /\ seen[b].details = a
        <5>1. ~CreatingOf(a)
          BY <1>4, <3>5 DEF Tearing
        <5>2. Silo.details = a
          BY <1>2, <1>5, <3>1, <5>1 DEF CreationBody, WhoDeployed, CreatingOf, Ended
        <5>3. QED
          BY <1>2, <3>2, <3>5, <5>2 DEF CreationBody, SawSilo
      <4>2. ~DidDeleteOnKubernetes(b)
        <5>1. Deployed(seen[b]) /\ seen[b].details # NoYaml
          BY <4>1, ActorFacts, DetailFacts DEF Deployed
        <5>2. deployment' # NoDeployment
          BY <1>5
        <5>3. QED
          BY <1>1, <1>5, <3>1, <5>1, <5>2 DEF DidDeleteOnKubernetes
      <4>3. QED
        BY <1>0, <1>3, <3>5, <4>2, K8sMoves
    <3>6. QED
      BY <3>1, <2>2, <3>3, <3>4, <3>5 DEF ServedBody, DeafIsDestroyed
  <2>3. QED
    BY <1>0, <2>1, <2>2, DeafMoves
<1>15. QED
  BY <1>8, <1>9, <1>10, <1>11 DEF ServedBody

\* Once all is settled, the Deployment a running silo names is there, its
\* program listens, and the controller listens to it.
THEOREM ServedWhileRunning == Spec => []RunningSiloIsServed
<1> DEFINE I == /\ CreationInv /\ YamlInv /\ RestartSeen
                /\ Without(ServedCauses) => ServedBody
<1>1. Init => I
  <2> SUFFICES ASSUME Init PROVE YamlBody /\ RestartSeen /\ ServedBody
    BY InitCreation DEF YamlInv
  <2>1. Silo = Nil
    BY SiloIsNew
  <2>2. /\ \A r \in Creations : pc[Job(r)] = "none"
        /\ \A a \in Creations : pod[a].st = "none"
        /\ races = {}
    BY ActorFacts DEF Init, InitWith, NoPod
  <2>3. QED
    BY <2>1, <2>2
    DEF YamlBody, JobHasYaml, NamesCreation, Is, RestartSeen, ServedBody,
        RunningIsDeployed, RunningIsHeard, DeployerIsHeard, DeafIsDestroyed
<1>2. I /\ [Next]_vars => I'
  <2> SUFFICES ASSUME I, [Next]_vars PROVE I'
    OBVIOUS
  <2>1. CreationInv' /\ RestartSeen' /\ Inv
    BY CreationKept, RestartIsSeen DEF CreationInv
  <2>2. Recorded
    BY <2>1, StepDoes
  <2>3. \A causes : Without(causes)' => Without(causes)
    BY <2>2, WithoutBefore DEF Recorded
  <2>4. YamlInv'
    BY <2>1, <2>3, YamlStep DEF YamlInv
  <2>5. QED
    BY <2>1, <2>3, <2>4, ServedStep
<1>3. I => RunningSiloIsServed
  <2> SUFFICES ASSUME TypeInv, YamlInv, Without(ServedCauses), ServedBody, Settled,
                      Is(STATUS_RUNNING)
               PROVE  /\ deployment = Silo.details /\ pod[Silo.details].st = "up"
                      /\ callback /\ subscribed
    BY DEF RunningSiloIsServed, ServedCauses, CreationInv, Inv
  <2>1. Silo.details \in Creations
    BY DEF YamlInv, YamlBody, NamesCreation, Without, ServedCauses
  <2>2. ~Emptying /\ \A a \in Actors : pc[a] \notin {"get", "k8s"}
    BY DEF Settled, Emptying, AtRest, Ended
  <2>3. deployment = Silo.details /\ callback /\ subscribed
    BY <2>2 DEF ServedBody, RunningIsDeployed, RunningIsHeard
  <2>4. pod[Silo.details].st # "none"
    BY <2>1, <2>3 DEF Settled, PodsMatch
  <2>5. pod[Silo.details].st # "deaf"
    <3>1. Elems(toCtl) = {}
      BY EmptySeq DEF Settled, Elems
    <3>2. QED
      BY <2>1, <2>2, <2>3, <3>1, ActorFacts DEF ServedBody, DeafIsDestroyed
  <2>6. QED
    BY <2>1, <2>3, <2>4, <2>5 DEF TypeInv, RestTyped, Pods
<1>4. QED
  BY <1>1, <1>2, <1>3, PTL DEF Spec

-------------------------------------------------------------------------------
(***************************************************************************)
(* What the messages under way make of a program's subscriptions: it will  *)
(* be connected to a vThing if the last message about it says so, or if it *)
(* is connected now and none says otherwise.                               *)
(***************************************************************************)
Connects(m, v)    == m.cmd \in {"addVThing", "restoreVThings"} /\ v \in m.vThings
Disconnects(m, v) == m.cmd = "deleteVThing" /\ v \in m.vThings

WillConnect(s, v) ==
  \E i \in 1..Len(s) :
    /\ Connects(s[i], v)
    /\ \A j \in 1..Len(s) : j > i => ~Disconnects(s[j], v)
WillDisconnect(s, v) == \E i \in 1..Len(s) : Disconnects(s[i], v)

\* The empty queue changes nothing.
LEMMA NothingUnderWay ==
  \A v : ~WillConnect(<<>>, v) /\ ~WillDisconnect(<<>>, v)
  BY EmptySeq DEF WillConnect, WillDisconnect

\* A message that is appended has the last word.
LEMMA MessageAppended ==
  ASSUME NEW s \in Seq(Commands), NEW m \in Commands, NEW v
  PROVE  /\ WillConnect(Append(s, m), v)
              <=> Connects(m, v) \/ (WillConnect(s, v) /\ ~Disconnects(m, v))
         /\ WillDisconnect(Append(s, m), v) <=> Disconnects(m, v) \/ WillDisconnect(s, v)
<1> DEFINE t == Append(s, m)
<1>1. /\ Len(t) = Len(s) + 1 /\ Len(s) \in Nat /\ t[Len(s) + 1] = m
      /\ \A i \in 1..Len(s) : t[i] = s[i]
  BY LenProperties
<1> HIDE DEF t
<1>2. /\ \A i \in 1..Len(t) : i \in 1..Len(s) \/ i = Len(s) + 1
      /\ \A i \in 1..Len(s) : i \in 1..Len(t) /\ Len(s) + 1 > i /\ ~(i > Len(s) + 1)
      /\ Len(s) + 1 \in 1..Len(t) /\ ~(Len(s) + 1 > Len(s) + 1)
  BY <1>1
<1>3. ~(Connects(m, v) /\ Disconnects(m, v))
  BY DEF Connects, Disconnects
<1>4. Connects(m, v) => WillConnect(t, v)
  <2>1. \A j \in 1..Len(t) : ~(j > Len(s) + 1)
    BY <1>2
  <2>2. QED
    BY <1>1, <1>2, <2>1 DEF WillConnect
<1>5. WillConnect(s, v) /\ ~Disconnects(m, v) => WillConnect(t, v)
  <2> SUFFICES ASSUME ~Disconnects(m, v), NEW i \in 1..Len(s), Connects(s[i], v),
                      \A j \in 1..Len(s) : j > i => ~Disconnects(s[j], v)
               PROVE  WillConnect(t, v)
    BY DEF WillConnect
  <2>1. i \in 1..Len(t) /\ Connects(t[i], v)
    BY <1>1, <1>2
  <2>2. \A j \in 1..Len(t) : j > i => ~Disconnects(t[j], v)
    BY <1>1, <1>2
  <2>3. QED
    BY <2>1, <2>2 DEF WillConnect
<1>6. WillConnect(t, v) => Connects(m, v) \/ (WillConnect(s, v) /\ ~Disconnects(m, v))
  <2> SUFFICES ASSUME NEW i \in 1..Len(t), Connects(t[i], v),
                      \A j \in 1..Len(t) : j > i => ~Disconnects(t[j], v),
                      ~Connects(m, v)
               PROVE  WillConnect(s, v) /\ ~Disconnects(m, v)
    BY DEF WillConnect
  <2>1. i \in 1..Len(s) /\ Connects(s[i], v)
    BY <1>1, <1>2
  <2>2. ~Disconnects(m, v)
    BY <1>1, <1>2, <2>1
  <2>3. \A j \in 1..Len(s) : j > i => ~Disconnects(s[j], v)
    BY <1>1, <1>2
  <2>4. QED
    BY <2>1, <2>2, <2>3 DEF WillConnect
<1>7. WillDisconnect(t, v) <=> Disconnects(m, v) \/ WillDisconnect(s, v)
  BY <1>1, <1>2 DEF WillDisconnect
<1>8. QED
  BY <1>4, <1>5, <1>6, <1>7 DEF t

\* The message that is taken counts if none of those that follow disconnects.
LEMMA MessageTaken ==
  ASSUME NEW s \in Seq(Commands), s # <<>>, NEW v
  PROVE  /\ WillConnect(s, v)
              <=> \/ WillConnect(Tail(s), v)
                  \/ Connects(Head(s), v) /\ ~WillDisconnect(Tail(s), v)
         /\ WillDisconnect(s, v)
              <=> Disconnects(Head(s), v) \/ WillDisconnect(Tail(s), v)
<1> DEFINE t == Tail(s)
           n == Len(t)
<1>1. /\ Len(s) = n + 1 /\ n \in Nat /\ s[1] = Head(s)
      /\ \A i \in 1..n : t[i] = s[i + 1]
  BY HeadTailProperties, LenProperties
<1> HIDE DEF t, n
<1>2. /\ \A i \in 1..Len(s) : i = 1 \/ (i - 1 \in 1..n /\ s[i] = t[i - 1] /\ i > 1)
      /\ \A i \in 1..n : i + 1 \in 1..Len(s) /\ i + 1 > 1
      /\ 1 \in 1..Len(s)
  <2>1. \A i \in 1..Len(s) : i = 1 \/ (i - 1 \in 1..n /\ i = (i - 1) + 1 /\ i > 1)
    BY <1>1
  <2>2. \A i \in 1..Len(s) : i - 1 \in 1..n => s[i] = t[i - 1]
    BY <1>1, <2>1
  <2>3. QED
    BY <1>1, <2>1, <2>2
<1>3. WillConnect(t, v) => WillConnect(s, v)
  <2> SUFFICES ASSUME NEW i \in 1..n, Connects(t[i], v),
                      \A j \in 1..n : j > i => ~Disconnects(t[j], v)
               PROVE  WillConnect(s, v)
    BY DEF WillConnect, n
  <2>1. i + 1 \in 1..Len(s) /\ Connects(s[i + 1], v)
    BY <1>1, <1>2
  <2>2. ASSUME NEW j \in 1..Len(s), j > i + 1
        PROVE  ~Disconnects(s[j], v)
    <3>1. j - 1 \in 1..n /\ j - 1 > i /\ s[j] = t[j - 1]
      BY <1>1, <1>2, <2>2
    <3>2. QED
      BY <3>1
  <2>3. QED
    BY <2>1, <2>2 DEF WillConnect
<1>4. Connects(Head(s), v) /\ ~WillDisconnect(t, v) => WillConnect(s, v)
  <2> SUFFICES ASSUME Connects(Head(s), v), \A j \in 1..n : ~Disconnects(t[j], v)
               PROVE  WillConnect(s, v)
    BY DEF WillDisconnect, n
  <2>1. \A j \in 1..Len(s) : j > 1 => ~Disconnects(s[j], v)
    BY <1>2
  <2>2. QED
    BY <1>1, <1>2, <2>1 DEF WillConnect
<1>5. WillConnect(s, v)
        => WillConnect(t, v) \/ (Connects(Head(s), v) /\ ~WillDisconnect(t, v))
  <2> SUFFICES ASSUME NEW i \in 1..Len(s), Connects(s[i], v),
                      \A j \in 1..Len(s) : j > i => ~Disconnects(s[j], v)
               PROVE  WillConnect(t, v) \/ (Connects(Head(s), v) /\ ~WillDisconnect(t, v))
    BY DEF WillConnect
  <2>0. \A j \in 1..n : j + 1 > i => ~Disconnects(t[j], v)
    BY <1>1, <1>2
  <2>1. CASE i = 1
    <3>1. \A j \in 1..n : ~Disconnects(t[j], v)
      BY <1>2, <2>0, <2>1
    <3>2. QED
      BY <1>1, <2>1, <3>1 DEF WillDisconnect, n
  <2>2. CASE i # 1
    <3>1. i - 1 \in 1..n /\ Connects(t[i - 1], v)
      BY <1>2, <2>2
    <3>2. \A j \in 1..n : j > i - 1 => j + 1 > i
      BY <1>1
    <3>3. QED
      BY <2>0, <3>1, <3>2 DEF WillConnect, n
  <2>3. QED
    BY <2>1, <2>2
<1>6. WillDisconnect(s, v) <=> Disconnects(Head(s), v) \/ WillDisconnect(t, v)
  <2>1. ASSUME NEW i \in 1..Len(s), Disconnects(s[i], v)
        PROVE  Disconnects(Head(s), v) \/ WillDisconnect(t, v)
    BY <1>1, <1>2, <2>1 DEF WillDisconnect, n
  <2>2. Disconnects(Head(s), v) => WillDisconnect(s, v)
    BY <1>1, <1>2 DEF WillDisconnect
  <2>3. ASSUME NEW i \in 1..n, Disconnects(t[i], v)
        PROVE  WillDisconnect(s, v)
    BY <1>1, <1>2, <2>3 DEF WillDisconnect
  <2>4. QED
    BY <2>1, <2>2, <2>3 DEF WillDisconnect, n
<1>7. QED
  BY <1>3, <1>4, <1>5, <1>6 DEF t

-------------------------------------------------------------------------------
(***************************************************************************)
(* The program is, or will be, connected to what the ledger says.  Between *)
(* the two an attachment has told the program and not yet the ledger, a    *)
(* detachment the ledger and not yet the program, and a program that has   *)
(* just started waits for all of it.                                       *)
(***************************************************************************)
ConnectCauses ==
  {"attachDuringDetach", "changeDuringRestore", "addVThing", "deleteVThing",
   "restoreVThings", "restoreVThingsAck", "submit", "deleteDuringCreate",
   "connectDuringDelete", "createInterrupted", "changeInterrupted",
   "restoreInterrupted"}

Joins(v)  == WillConnect(toPod, v)
Leaves(v) == WillDisconnect(toPod, v)

Up(a)         == deployment = a /\ pod[a].st = "up"
WillHave(a, v) == Joins(v) \/ (v \in pod[a].data /\ ~Leaves(v))

HasTold(r)    == Kind[r] = "attach" /\ pc[r] = "submit"
HasWritten(r) == Kind[r] = "detach" /\ pc[r] = "publish"
OnTheWay(v)   == \E r \in Requests : v \in Target[r] /\ (HasTold(r) \/ HasWritten(r))

RestoreDue == "restoreVThingsAck" \in Elems(toCtl) \/ Restoring

RestoresAttached ==
  \A h \in Handlers : pc[h] = "restored" => seen[h].vThings = Attached
ToldIsConnected ==
  \A r \in Requests, a \in Creations : HasTold(r) /\ Up(a) =>
    \A v \in Target[r] : WillHave(a, v) \/ RestoreDue
WrittenIsDetached ==
  \A r \in Requests : HasWritten(r) => \A v \in Target[r] : v \notin Attached
SentIsAttached ==
  \A v \in VThings : Joins(v) => v \in Attached \/ OnTheWay(v)
ConnectedIsAttached ==
  \A a \in Creations, v \in VThings :
    Up(a) /\ WillHave(a, v) => v \in Attached \/ OnTheWay(v)
AttachedIsConnected ==
  \A a \in Creations, v \in VThings :
    Up(a) /\ v \in Attached => WillHave(a, v) \/ RestoreDue
NoPodIsEmpty ==
  \A a \in Creations : pod[a].st = "none" => pod[a].data = {}

ConnectBody ==
  /\ RestoresAttached /\ ToldIsConnected /\ WrittenIsDetached
  /\ SentIsAttached /\ ConnectedIsAttached /\ AttachedIsConnected /\ NoPodIsEmpty

\* What all but a few steps do: nobody goes to or from the places between the
\* two, nothing is connected, and no program starts.
SamePlaces ==
  /\ \A r \in Requests : (HasTold(r)' <=> HasTold(r)) /\ (HasWritten(r)' <=> HasWritten(r))
  /\ \A h \in Handlers : pc'[h] = "restored" => pc[h] = "restored" /\ seen'[h] = seen[h]
SamePrograms ==
  \A a \in Creations :
    /\ Up(a)' => Up(a) /\ pod'[a].data = pod[a].data
    /\ pod'[a].st = "none" => pod'[a].data = {} \/ pod'[a] = pod[a]
SameMessages == \A v : (Joins(v)' <=> Joins(v)) /\ (Leaves(v)' <=> Leaves(v))

Unconcerned ==
  /\ SamePlaces /\ SamePrograms /\ SameMessages /\ Attached' = Attached
  /\ RestoreDue => RestoreDue'

\* A step that concerns neither programs nor attachments keeps them in
\* agreement.
LEMMA UnconcernedStep ==
  ASSUME Unconcerned, ConnectBody
  PROVE  ConnectBody'
<1> USE DEF Unconcerned
<1>1. \A v : OnTheWay(v)' <=> OnTheWay(v)
  BY DEF SamePlaces, OnTheWay
<1>2. \A a \in Creations : \A v : Up(a)' => Up(a) /\ (WillHave(a, v)' <=> WillHave(a, v))
  BY DEF SamePrograms, SameMessages, WillHave
<1>3. RestoresAttached'
  BY DEF SamePlaces, RestoresAttached, ConnectBody
<1>4. ToldIsConnected'
  BY <1>2 DEF SamePlaces, ToldIsConnected, ConnectBody
<1>5. WrittenIsDetached'
  BY DEF SamePlaces, WrittenIsDetached, ConnectBody
<1>6. SentIsAttached'
  BY <1>1 DEF SameMessages, SentIsAttached, ConnectBody
<1>7. ConnectedIsAttached'
  BY <1>1, <1>2 DEF ConnectedIsAttached, ConnectBody
<1>8. AttachedIsConnected'
  BY <1>2 DEF AttachedIsConnected, ConnectBody
<1>9. NoPodIsEmpty'
  BY DEF SamePrograms, NoPodIsEmpty, ConnectBody
<1>10. QED
  BY <1>3, <1>4, <1>5, <1>6, <1>7, <1>8, <1>9 DEF ConnectBody

\* Who goes to or from the places between program and ledger.
LEMMA PlacesMove ==
  ASSUME Happened, NEW r \in Requests
  PROVE  \/ (HasTold(r)' <=> HasTold(r)) /\ (HasWritten(r)' <=> HasWritten(r))
         \/ DidPublish(r) /\ Kind[r] \in {"attach", "detach"}
         \/ DidSubmit(r)
         \/ DidRestart
<1>0. /\ r \in Actors /\ r \notin Handlers
      /\ Kind[r] \in {"create", "destroy", "forceDestroy", "attach", "detach",
                      "addFlavour", "deleteFlavour"}
  BY ActorFacts, RequestFacts
<1>1. CASE Still(r)
  BY <1>1 DEF Still, HasTold, HasWritten
<1>2. CASE DidAccept(r)
  BY <1>0, <1>2 DEF DidAccept, FirstOf, Moved, Ended, HasTold, HasWritten
<1>3. CASE DidAdd(r) \/ DidDelete(r) \/ DidCreate(r)
  BY <1>0, <1>3
  DEF DidAdd, DidDelete, DidCreate, Submitted, Moved, Ended, HasTold, HasWritten
<1>4. CASE DidGetFlavour(r) \/ DidGetSilo(r)
  BY <1>0, <1>4 DEF DidGetFlavour, DidGetSilo, Moved, Ended, HasTold, HasWritten
<1>5. CASE DidEnqueue(r)
  BY <1>0, <1>5 DEF DidEnqueue, Moved, Ended, HasTold, HasWritten
<1>6. CASE DidCheck(r)
  BY <1>0, <1>6 DEF DidCheck, Moved, Ended, HasTold, HasWritten
<1>7. CASE DidPublish(r)
  BY <1>0, <1>7 DEF DidPublish, HasTold, HasWritten
<1>8. CASE CallerDid(r)
  <2>1. CASE DidGet(r)
    BY <1>0, <2>1 DEF DidGet, AfterGet, Moved, Ended, HasTold, HasWritten
  <2>2. CASE DidDeleteOnKubernetes(r) \/ DidList(r) \/ DidForget(r)
    BY <1>0, <2>2
    DEF DidDeleteOnKubernetes, DidList, DidForget, Moved, Ended, HasTold, HasWritten
  <2>3. CASE DidDrop(r)
    BY <1>0, <2>3 DEF DidDrop, Submitted, Moved, Ended, HasTold, HasWritten
  <2>4. QED
    BY <1>8, <2>1, <2>2, <2>3 DEF CallerDid
<1>9. QED
  BY <1>1, <1>2, <1>3, <1>4, <1>5, <1>6, <1>7, <1>8, RequestMoves DEF RequestDid

\* A callback that is about to publish has just listed the attachments.
LEMMA RestoredMoves ==
  ASSUME Happened, NEW h \in Handlers, pc'[h] = "restored"
  PROVE  (pc[h] = "restored" /\ seen'[h] = seen[h]) \/ DidRestore(h)
<1>0. h \in Actors /\ h \notin Requests /\ \A r \in Queued : h # Job(r)
  BY ActorFacts
<1>1. CASE Still(h)
  BY <1>1 DEF Still
<1>2. ~DidRestart
  BY DEF DidRestart
<1>3. ~DidPublishRestore(h)
  BY <1>0 DEF DidPublishRestore, Moved, Ended
<1>4. ~CallerDid(h)
  <2>1. ~DidGet(h)
    BY <1>0 DEF DidGet, AfterGet, Moved, Ended
  <2>2. ~DidDeleteOnKubernetes(h) /\ ~DidList(h) /\ ~DidForget(h)
    BY <1>0 DEF DidDeleteOnKubernetes, DidList, DidForget, Moved, Ended
  <2>3. ~DidDrop(h)
    BY <1>0 DEF DidDrop, Submitted, Moved, Ended
  <2>4. QED
    BY <2>1, <2>2, <2>3 DEF CallerDid
<1>5. CASE DidReceive
  <2>1. CASE KeptPlaces
    BY <2>1 DEF KeptPlaces
  <2>2. ASSUME NEW g \in Handlers, g # h,
               Moved(g, IF Head(toCtl) = "restoreVThingsAck" THEN "restore" ELSE "get", seen[g])
        PROVE  Still(h)
    BY <1>0, <2>2, ActorFacts, MovedStill
  <2>3. ~Moved(h, IF Head(toCtl) = "restoreVThingsAck" THEN "restore" ELSE "get", seen[h])
    BY <1>0 DEF Moved, Ended
  <2>4. QED
    BY <1>5, <2>1, <2>2, <2>3 DEF DidReceive, Still
<1>6. QED
  BY <1>0, <1>1, <1>2, <1>3, <1>4, <1>5, Moves DEF HandlerDid

\* A restore that is due stays so until it is published or its request is lost.
LEMMA RestoreMoves ==
  ASSUME TypeInv, Happened, ~DidRestart, "restoreVThingsAck" \notin lost', RestoreDue
  PROVE  RestoreDue' \/ \E h \in Handlers : DidPublishRestore(h)
<1>1. CASE "restoreVThingsAck" \in Elems(toCtl)
  <2>1. "restoreVThingsAck" \in Elems(toCtl') \/ (DidReceive /\ Head(toCtl) = "restoreVThingsAck")
    BY <1>1, ReportMoves DEF Reports
  <2>2. CASE DidReceive /\ Head(toCtl) = "restoreVThingsAck"
    <3>1. PICK h \in Handlers : Moved(h, "restore", seen[h])
      BY <2>2 DEF DidReceive
    <3>2. pc'[h] = "restore"
      BY <3>1, ActorFacts DEF Moved, Ended
    <3>3. QED
      BY <3>2 DEF RestoreDue, Restoring
  <2>3. QED
    BY <2>1, <2>2 DEF RestoreDue
<1>2. CASE Restoring
  <2>1. PICK h \in Handlers : pc[h] \in {"restore", "restored"}
    BY <1>2 DEF Restoring
  <2>0. h \in Actors /\ h \notin Requests /\ \A r \in Queued : h # Job(r)
    BY ActorFacts
  <2>2. CASE pc'[h] \in {"restore", "restored"}
    BY <2>2 DEF RestoreDue, Restoring
  <2>3. Still(h) => pc'[h] \in {"restore", "restored"}
    BY <2>1 DEF Still
  <2>4. DidRestore(h) => pc'[h] = "restored"
    BY <2>0 DEF DidRestore, Moved, Ended
  <2>5. ~CallerDid(h)
    BY <2>1
    DEF CallerDid, DidGet, DidDeleteOnKubernetes, DidList, DidDrop, DidForget
  <2>6. DidReceive => Still(h)
    <3>1. \A g \in Handlers : pc[g] = "idle" => g # h
      BY <2>1
    <3>2. QED
      BY <2>0, <3>1, ActorFacts, MovedStill DEF DidReceive, KeptPlaces, Still
  <2>7. QED
    BY <2>0, <2>2, <2>3, <2>4, <2>5, <2>6, Moves DEF HandlerDid
<1>3. QED
  BY <1>1, <1>2 DEF RestoreDue

\* A program changes by a message or when it starts; otherwise it goes on or stops.
LEMMA ProgramsMove ==
  ASSUME TypeInv, Happened, PodsCreated
  PROVE  SamePrograms \/ DidPodsReceive \/ DidPodStarts
<1>1. CASE DidPod
  BY <1>1 DEF DidPod, PodGoesOn, KeptCluster, SamePrograms, Up
<1>2. CASE pod' = pod
  <2>1. deployment' = deployment \/ deployment' = NoDeployment
          \/ \E r \in Creations : pc[Job(r)] = "deploy" /\ deployment' = r
    BY DeploymentChanges
  <2>2. \A a \in Creations : Up(a)' => Up(a)
    <3>1. \A r \in Creations : pc[Job(r)] = "deploy" => pod[r].st # "up"
      BY DEF PodsCreated, Ended
    <3>2. NoDeployment \notin Creations
      BY ActorFacts
    <3>3. QED
      BY <1>2, <2>1, <3>1, <3>2 DEF Up
  <2>3. QED
    BY <1>2, <2>2 DEF SamePrograms
<1>3. DidPod \/ DidPodsReceive \/ DidPodStarts \/ pod' = pod
  BY DEF Happened, DidStep, OtherDid, DidLogin, DidReceive, DidLose, DidRestart,
     RequestDid, DidAccept, DidAdd, DidDelete,
     DidGetFlavour, DidCreate, DidEnqueue, DidGetSilo, DidCheck, DidSubmit, DidPublish,
     JobDid, DidBegin, DidPending, DidSubscribe, DidWithoutYaml, DidService, DidDeploy,
     DidRunning, DidFlavour, DidFlavourError, CallerDid, DidGet, DidDeleteOnKubernetes,
     DidList, DidDrop, DidForget, HandlerDid, DidRestore, DidPublishRestore, KeptAll
<1>4. QED
  BY <1>1, <1>2, <1>3

\* Only these send or take a message that connects or disconnects.
LEMMA MessagesMove ==
  ASSUME TypeInv, Happened,
         {"addVThing", "deleteVThing", "restoreVThings"} \cap lost' = {}
  PROVE  \/ SameMessages
         \/ \E r \in Requests : DidPublish(r) /\ Kind[r] \in {"attach", "detach"}
         \/ \E h \in Handlers : DidPublishRestore(h)
         \/ DidPodsReceive
<1>0. toPod \in Seq(Commands)
  BY DEF TypeInv, RestTyped
<1>1. CASE toPod' = toPod
  BY <1>1 DEF SameMessages, Joins, Leaves
<1>2. CASE DidLose
  <2>1. CASE toPod # <<>> /\ toPod' = Tail(toPod) /\ Head(toPod).cmd \in lost'
    <3>1. \A v : ~Connects(Head(toPod), v) /\ ~Disconnects(Head(toPod), v)
      BY <2>1 DEF Connects, Disconnects
    <3>2. QED
      BY <1>0, <2>1, <3>1, MessageTaken DEF SameMessages, Joins, Leaves
  <2>2. QED
    BY <1>1, <1>2, <2>1 DEF DidLose
<1>3. ASSUME NEW r \in Requests, DidPublish(r), Kind[r] \notin {"attach", "detach"}
      PROVE  SameMessages
  <2>1. PICK m \in Commands : m.cmd = "destroyVSilo" /\ toPod' = Append(toPod, m)
    BY <1>3 DEF DidPublish
  <2>2. \A v : ~Connects(m, v) /\ ~Disconnects(m, v)
    BY <2>1 DEF Connects, Disconnects
  <2>3. QED
    BY <1>0, <2>1, <2>2, MessageAppended DEF SameMessages, Joins, Leaves
<1>4. OtherDid => DidPodsReceive \/ DidLose \/ toPod' = toPod
  BY DEF OtherDid, DidLogin, DidReceive, DidPodStarts, DidPod, KeptNet
<1>5. \/ toPod' = toPod \/ OtherDid
      \/ \E r \in Requests : DidPublish(r)
      \/ \E h \in Handlers : DidPublishRestore(h)
  BY DEF Happened, DidStep, DidRestart, RequestDid, DidAccept, DidAdd, DidDelete,
     DidGetFlavour, DidCreate, DidEnqueue, DidGetSilo, DidCheck, DidSubmit,
     JobDid, DidBegin, DidPending, DidSubscribe, DidWithoutYaml, DidService, DidDeploy,
     DidRunning, DidFlavour, DidFlavourError, CallerDid, DidGet, DidDeleteOnKubernetes,
     DidList, DidDrop, DidForget, HandlerDid, DidRestore, KeptAll, KeptNet
<1>6. QED
  BY <1>1, <1>2, <1>3, <1>4, <1>5

\* The attachments change by a transaction of these.
LEMMA AttachedMoves ==
  ASSUME Happened
  PROVE  \/ Attached' = Attached
         \/ \E a \in Actors : DidDrop(a)
         \/ \E r \in Requests : DidSubmit(r)
  BY LedgerChanges
  DEF SameView, FlavourWritten, FlavourDeleted, SiloWritten, SiloDropped

\* A restart that interrupts no change and no restore.
LEMMA ConnectRestart ==
  ASSUME TypeInv, DidRestart, ConnectBody, "restoreVThingsAck" \notin lost',
         "changeInterrupted" \notin races', "restoreInterrupted" \notin races'
  PROVE  Unconcerned
<1>1. /\ Busy("attach") \cup Busy("detach") = {} /\ ~Restoring
      /\ Interrupted \subseteq races'
  BY DEF DidRestart, Interrupted, Labelled
<1>2. \A r \in Requests : ~HasTold(r) /\ ~HasWritten(r)
  BY <1>1 DEF Busy, HasTold, HasWritten
<1>3. \A r \in Requests : ~HasTold(r)' /\ ~HasWritten(r)'
  BY DEF DidRestart, AtRest, Ended, HasTold, HasWritten
<1>4. SamePlaces
  BY <1>2, <1>3 DEF SamePlaces, DidRestart
<1>5. SamePrograms /\ SameMessages /\ Attached' = Attached
  BY DEF DidRestart, KeptCluster, SameView, SamePrograms, SameMessages, Up, Joins, Leaves
<1>6. RestoreDue => RestoreDue'
  BY <1>1 DEF DidRestart, RestoreDue
<1>7. QED
  BY <1>4, <1>5, <1>6 DEF Unconcerned

\* Requests do not stand between program and ledger while others change it.
BothApart  == Busy("attach") = {} \/ Busy("detach") = {}
Unrestored == Restoring => Busy("attach") = {} /\ Busy("detach") = {}
Unconnected == \A a \in Actors : pc[a] \in Tearing => ~Connecting

\* Without the windows of connecting, changes, restorations and destructions
\* are apart.
LEMMA ConnectWindows ==
  ASSUME Inv, "attachDuringDetach" \notin races, "changeDuringRestore" \notin races,
         "connectDuringDelete" \notin races
  PROVE  BothApart /\ Unrestored /\ Unconnected
<1>1. /\ ~(Busy("attach") # {} /\ Busy("detach") # {})
      /\ ~(Restoring /\ Busy("attach") \cup Busy("detach") # {})
      /\ ~(Connecting /\ \E a \in Actors : pc[a] \in Tearing)
  BY DEF Inv, WindowsSeen, Windows, Labelled
<1>2. QED
  BY <1>1 DEF BothApart, Unrestored, Unconnected

\* The program is told of an attachment or of a detachment.
LEMMA PublishStep ==
  ASSUME TypeInv, ConnectBody, BothApart, NEW r \in Requests, DidPublish(r),
         Kind[r] \in {"attach", "detach"}
  PROVE  ConnectBody'
<1>0. /\ r \in Actors /\ r \notin Handlers /\ toPod \in Seq(Commands)
      /\ \A q \in Requests : q \in Actors
      /\ \A h \in Handlers : h \in Actors
      /\ Target[r] \subseteq VThings
  BY ActorFacts, RequestFacts DEF TypeInv, RestTyped
<1>1. /\ \A q \in Requests : q # r => (HasTold(q)' <=> HasTold(q))
                                      /\ (HasWritten(q)' <=> HasWritten(q))
      /\ \A h \in Handlers : pc'[h] = pc[h] /\ seen'[h] = seen[h]
      /\ pc[r] = "publish"
      /\ pc'[r] = IF Kind[r] = "attach" THEN "submit" ELSE "ok"
  BY <1>0 DEF DidPublish, Moved, Ended, HasTold, HasWritten
<1>2. /\ Attached' = Attached /\ pod' = pod /\ deployment' = deployment /\ toCtl' = toCtl
  BY DEF DidPublish, SameView, KeptCluster
<1>3. /\ \A a \in Creations : Up(a)' <=> Up(a)
      /\ RestoreDue' <=> RestoreDue
  BY <1>1, <1>2 DEF Up, RestoreDue, Restoring
<1>4. RestoresAttached' /\ NoPodIsEmpty'
  BY <1>1, <1>2 DEF RestoresAttached, NoPodIsEmpty, ConnectBody
<1>5. CASE Kind[r] = "attach"
  <2>1. PICK m \in Commands : /\ m.cmd = "addVThing" /\ m.vThings = Target[r]
                              /\ toPod' = Append(toPod, m)
    BY <1>5 DEF DidPublish
  <2>2. /\ \A v : Joins(v)' <=> v \in Target[r] \/ Joins(v)
        /\ \A v : Leaves(v)' <=> Leaves(v)
    BY <1>0, <2>1, MessageAppended DEF Connects, Disconnects, Joins, Leaves
  <2>3. /\ HasTold(r)'
        /\ \A v : OnTheWay(v)' <=> v \in Target[r] \/ OnTheWay(v)
    BY <1>1, <1>5 DEF HasTold, HasWritten, OnTheWay
  <2>4. \A a \in Creations : \A v : WillHave(a, v)' <=> v \in Target[r] \/ WillHave(a, v)
    BY <1>2, <2>2 DEF WillHave
  <2>5. ToldIsConnected'
    BY <1>1, <1>3, <2>4 DEF ToldIsConnected, ConnectBody
  <2>6. WrittenIsDetached'
    BY <1>1, <1>2, <1>5 DEF WrittenIsDetached, HasWritten, ConnectBody
  <2>7. SentIsAttached'
    BY <1>2, <2>2, <2>3 DEF SentIsAttached, ConnectBody
  <2>8. ConnectedIsAttached'
    BY <1>2, <1>3, <2>3, <2>4 DEF ConnectedIsAttached, ConnectBody
  <2>9. AttachedIsConnected'
    BY <1>2, <1>3, <2>4 DEF AttachedIsConnected, ConnectBody
  <2>10. QED
    BY <1>4, <2>5, <2>6, <2>7, <2>8, <2>9 DEF ConnectBody
<1>6. CASE Kind[r] = "detach"
  <2>1. PICK m \in Commands : /\ m.cmd = "deleteVThing" /\ m.vThings = Target[r]
                              /\ toPod' = Append(toPod, m)
    BY <1>6 DEF DidPublish
  <2>2. /\ \A v : Joins(v)' <=> v \notin Target[r] /\ Joins(v)
        /\ \A v : Leaves(v)' <=> v \in Target[r] \/ Leaves(v)
    BY <1>0, <2>1, MessageAppended DEF Connects, Disconnects, Joins, Leaves
  <2>3. /\ HasWritten(r) /\ ~HasWritten(r)' /\ ~HasTold(r)'
        /\ \A v : OnTheWay(v) => v \in Target[r] \/ OnTheWay(v)'
    BY <1>1, <1>6 DEF HasTold, HasWritten, OnTheWay
  <2>4. \A a \in Creations : \A v : WillHave(a, v)' <=> v \notin Target[r] /\ WillHave(a, v)
    BY <1>2, <2>2 DEF WillHave
  <2>5. \A q \in Requests : ~HasTold(q)'
    <3>1. r \in Busy("detach")
      BY <1>1, <1>6 DEF Busy
    <3>2. \A q \in Requests : HasTold(q) => q \in Busy("attach")
      BY DEF HasTold, Busy
    <3>3. QED
      BY <1>1, <2>3, <3>1, <3>2 DEF BothApart
  <2>6. ToldIsConnected'
    BY <2>5 DEF ToldIsConnected
  <2>7. WrittenIsDetached'
    BY <1>1, <1>2, <2>3 DEF WrittenIsDetached, ConnectBody
  <2>8. \A v \in Target[r] : v \notin Attached
    BY <2>3 DEF WrittenIsDetached, ConnectBody
  <2>9. SentIsAttached'
    BY <1>2, <2>2, <2>3 DEF SentIsAttached, ConnectBody
  <2>10. ConnectedIsAttached'
    BY <1>2, <1>3, <2>3, <2>4 DEF ConnectedIsAttached, ConnectBody
  <2>11. AttachedIsConnected'
    BY <1>2, <1>3, <2>4, <2>8 DEF AttachedIsConnected, ConnectBody
  <2>12. QED
    BY <1>4, <2>6, <2>7, <2>9, <2>10, <2>11 DEF ConnectBody
<1>7. QED
  BY <1>5, <1>6

\* The ledger is told.
LEMMA SubmitStep ==
  ASSUME TypeInv, ConnectBody, BothApart, Unrestored, "submit" \notin faults',
         NEW r \in Requests, DidSubmit(r)
  PROVE  ConnectBody'
<1>0. /\ r \in Actors /\ r \notin Handlers
      /\ \A q \in Requests : q \in Actors
      /\ \A h \in Handlers : h \in Actors
  BY ActorFacts
<1>1. PICK v \in VThings :
        /\ Target[r] = {v}
        /\ \/ Kind[r] = "attach" /\ Moved(r, "ok", seen[r]) /\ VThingAttached(v)
           \/ Kind[r] = "detach" /\ Moved(r, "publish", seen[r]) /\ VThingDetached(v)
  BY DEF DidSubmit, Submitted
<1>2. /\ \A q \in Requests : q # r => (HasTold(q)' <=> HasTold(q))
                                      /\ (HasWritten(q)' <=> HasWritten(q))
      /\ \A h \in Handlers : pc'[h] = pc[h] /\ seen'[h] = seen[h]
      /\ pc[r] = "submit"
      /\ pc'[r] = IF Kind[r] = "attach" THEN "ok" ELSE "publish"
  BY <1>0, <1>1 DEF DidSubmit, Moved, Ended, HasTold, HasWritten
<1>3. toPod' = toPod /\ toCtl' = toCtl /\ pod' = pod /\ deployment' = deployment
  BY DEF DidSubmit, KeptAll, KeptNet, KeptCluster
<1>4. /\ \A a \in Creations : Up(a)' <=> Up(a)
      /\ RestoreDue' <=> RestoreDue
      /\ \A u : Joins(u)' <=> Joins(u)
      /\ \A a \in Creations : \A u : WillHave(a, u)' <=> WillHave(a, u)
  BY <1>2, <1>3 DEF Up, RestoreDue, Restoring, Joins, Leaves, WillHave
<1>5. \A h \in Handlers : pc'[h] # "restored"
  <2>1. r \in Busy("attach") \/ r \in Busy("detach")
    BY <1>1, <1>2 DEF Busy
  <2>2. QED
    BY <1>2, <2>1 DEF Unrestored, Restoring
<1>6. RestoresAttached' /\ NoPodIsEmpty'
  BY <1>3, <1>5 DEF RestoresAttached, NoPodIsEmpty, ConnectBody
<1>7. CASE Kind[r] = "attach"
  <2>1. Attached' = Attached \cup {v} /\ HasTold(r) /\ ~HasTold(r)' /\ ~HasWritten(r)'
    BY <1>1, <1>2, <1>7 DEF VThingAttached, HasTold, HasWritten
  <2>2. \A q \in Requests : ~HasWritten(q)'
    <3>1. r \in Busy("attach")
      BY <1>2, <1>7 DEF Busy
    <3>2. \A q \in Requests : HasWritten(q) => q \in Busy("detach")
      BY DEF HasWritten, Busy
    <3>3. QED
      BY <1>2, <2>1, <3>1, <3>2 DEF BothApart
  <2>3. \A u : OnTheWay(u) => OnTheWay(u)' \/ u = v
    BY <1>1, <1>2, <2>1 DEF OnTheWay
  <2>4. ToldIsConnected'
    BY <1>2, <1>4, <2>1 DEF ToldIsConnected, ConnectBody
  <2>5. WrittenIsDetached'
    BY <2>2 DEF WrittenIsDetached
  <2>6. SentIsAttached'
    BY <1>4, <2>1, <2>3 DEF SentIsAttached, ConnectBody
  <2>7. ConnectedIsAttached'
    BY <1>4, <2>1, <2>3 DEF ConnectedIsAttached, ConnectBody
  <2>8. \A a \in Creations : Up(a) => WillHave(a, v) \/ RestoreDue
    BY <1>1, <2>1 DEF ToldIsConnected, ConnectBody
  <2>9. AttachedIsConnected'
    BY <1>4, <2>1, <2>8 DEF AttachedIsConnected, ConnectBody
  <2>10. QED
    BY <1>6, <2>4, <2>5, <2>6, <2>7, <2>9 DEF ConnectBody
<1>8. CASE Kind[r] = "detach"
  <2>1. Attached' = Attached \ {v} /\ HasWritten(r)' /\ ~HasTold(r)'
    BY <1>1, <1>2, <1>8 DEF VThingDetached, HasTold, HasWritten
  <2>2. \A q \in Requests : ~HasTold(q)'
    <3>1. r \in Busy("detach")
      BY <1>2, <1>8 DEF Busy
    <3>2. \A q \in Requests : HasTold(q) => q \in Busy("attach")
      BY DEF HasTold, Busy
    <3>3. QED
      BY <1>2, <2>1, <3>1, <3>2 DEF BothApart
  <2>3. /\ OnTheWay(v)'
        /\ \A u : OnTheWay(u) => OnTheWay(u)'
    <3>1. OnTheWay(v)'
      BY <1>1, <2>1 DEF OnTheWay
    <3>2. ~HasTold(r) /\ ~HasWritten(r)
      BY <1>2, <1>8 DEF HasTold, HasWritten
    <3>3. QED
      BY <1>2, <3>1, <3>2 DEF OnTheWay
  <2>4. ToldIsConnected'
    BY <2>2 DEF ToldIsConnected
  <2>5. WrittenIsDetached'
    BY <1>1, <1>2, <2>1 DEF WrittenIsDetached, ConnectBody
  <2>6. SentIsAttached'
    BY <1>4, <2>1, <2>3 DEF SentIsAttached, ConnectBody
  <2>7. ConnectedIsAttached'
    BY <1>4, <2>1, <2>3 DEF ConnectedIsAttached, ConnectBody
  <2>8. AttachedIsConnected'
    BY <1>4, <2>1 DEF AttachedIsConnected, ConnectBody
  <2>9. QED
    BY <1>6, <2>4, <2>5, <2>6, <2>7, <2>8 DEF ConnectBody
<1>9. QED
  BY <1>1, <1>7, <1>8

\* A callback lists the attachments, and publishes what it has listed.
LEMMA RestoreStep ==
  ASSUME TypeInv, ConnectBody, Unrestored, NEW h \in Handlers, HandlerDid(h)
  PROVE  ConnectBody'
<1>0. /\ h \in Actors /\ toPod \in Seq(Commands)
      /\ \A q \in Requests : q \in Actors /\ q # h
      /\ \A g \in Handlers : g \in Actors
      /\ pc[h] \in {"restore", "restored"}
  BY ActorFacts DEF TypeInv, RestTyped, HandlerDid, DidRestore, DidPublishRestore
<1>1. /\ \A q \in Requests : (HasTold(q)' <=> HasTold(q)) /\ (HasWritten(q)' <=> HasWritten(q))
      /\ \A g \in Handlers : g # h => pc'[g] = pc[g] /\ seen'[g] = seen[g]
  BY <1>0 DEF HandlerDid, DidRestore, DidPublishRestore, Moved, HasTold, HasWritten
<1>2. Attached' = Attached /\ pod' = pod /\ deployment' = deployment /\ toCtl' = toCtl
  BY DEF HandlerDid, DidRestore, DidPublishRestore, SameView, KeptAll, KeptNet, KeptCluster
<1>3. \A q \in Requests : /\ ~HasTold(q) /\ ~HasWritten(q)
                          /\ ~HasTold(q)' /\ ~HasWritten(q)'
  <2>1. \A q \in Requests : HasTold(q) => q \in Busy("attach")
    BY DEF HasTold, Busy
  <2>2. \A q \in Requests : HasWritten(q) => q \in Busy("detach")
    BY DEF HasWritten, Busy
  <2>3. QED
    BY <1>0, <1>1, <2>1, <2>2 DEF Unrestored, Restoring
<1>4. /\ \A a \in Creations : Up(a)' <=> Up(a)
      /\ \A v : ~OnTheWay(v) /\ ~OnTheWay(v)'
  BY <1>2, <1>3 DEF Up, OnTheWay
<1>5. ToldIsConnected' /\ WrittenIsDetached' /\ NoPodIsEmpty'
  BY <1>2, <1>3 DEF ToldIsConnected, WrittenIsDetached, NoPodIsEmpty, ConnectBody
<1>6. CASE DidRestore(h)
  <2>1. pc'[h] = "restored" /\ seen'[h].vThings = Attached /\ toPod' = toPod
    BY <1>0, <1>6 DEF DidRestore, Moved, Ended, KeptAll, KeptNet
  <2>2. RestoreDue'
    BY <2>1 DEF RestoreDue, Restoring
  <2>3. RestoresAttached'
    BY <1>1, <1>2, <2>1 DEF RestoresAttached, ConnectBody
  <2>4. /\ \A v : Joins(v)' <=> Joins(v)
        /\ \A a \in Creations : \A v : WillHave(a, v)' <=> WillHave(a, v)
    BY <1>2, <2>1 DEF Joins, Leaves, WillHave
  <2>5. SentIsAttached' /\ ConnectedIsAttached'
    BY <1>2, <1>4, <2>4 DEF SentIsAttached, ConnectedIsAttached, ConnectBody
  <2>6. AttachedIsConnected'
    BY <2>2 DEF AttachedIsConnected
  <2>7. QED
    BY <1>5, <2>3, <2>5, <2>6 DEF ConnectBody
<1>7. CASE DidPublishRestore(h)
  <2>0. seen[h].vThings = Attached
    BY <1>7 DEF DidPublishRestore, RestoresAttached, ConnectBody
  <2>1. PICK m \in Commands : /\ m.cmd = "restoreVThings" /\ m.vThings = Attached
                              /\ toPod' = Append(toPod, m)
    BY <1>7, <2>0 DEF DidPublishRestore
  <2>2. /\ \A v : Joins(v)' <=> v \in Attached \/ Joins(v)
        /\ \A v : Leaves(v)' <=> Leaves(v)
    BY <1>0, <2>1, MessageAppended DEF Connects, Disconnects, Joins, Leaves
  <2>3. \A a \in Creations : \A v : WillHave(a, v)' <=> v \in Attached \/ WillHave(a, v)
    BY <1>2, <2>2 DEF WillHave
  <2>4. pc'[h] = "idle"
    BY <1>0, <1>7 DEF DidPublishRestore, Moved, Ended
  <2>5. RestoresAttached'
    BY <1>1, <1>2, <2>4 DEF RestoresAttached, ConnectBody
  <2>6. SentIsAttached' /\ ConnectedIsAttached'
    BY <1>2, <1>4, <2>2, <2>3 DEF SentIsAttached, ConnectedIsAttached, ConnectBody
  <2>7. AttachedIsConnected'
    BY <1>2, <2>3 DEF AttachedIsConnected
  <2>8. QED
    BY <1>5, <2>5, <2>6, <2>7 DEF ConnectBody
<1>8. QED
  BY <1>6, <1>7 DEF HandlerDid

\* The programs take a message: what they will be connected to stays the same.
LEMMA TakeStep ==
  ASSUME TypeInv, ConnectBody, DidPodsReceive
  PROVE  ConnectBody'
<1> DEFINE m == Head(toPod)
<1>0. /\ toPod \in Seq(Commands) /\ toPod # <<>> /\ toPod' = Tail(toPod) /\ m \in Commands
      /\ KeptPlaces /\ Attached' = Attached /\ deployment' = deployment
      /\ \A a \in Creations : Takes(a, m)
  BY DEF DidPodsReceive, TypeInv, RestTyped, SameView, KeptCluster
<1>1. RestoreDue => RestoreDue'
  <2>1. PICK acks \in Seq(Reports) : toCtl' = toCtl \o acks
    BY DEF DidPodsReceive
  <2>2. Elems(toCtl) \subseteq Elems(toCtl')
    BY <2>1, QueueElems DEF TypeInv, RestTyped
  <2>3. QED
    BY <1>0, <2>2 DEF RestoreDue, Restoring, KeptPlaces
<1>2. /\ \A v : Joins(v) <=> Joins(v)' \/ (Connects(m, v) /\ ~Leaves(v)')
      /\ \A v : Leaves(v) <=> Disconnects(m, v) \/ Leaves(v)'
  BY <1>0, MessageTaken DEF Joins, Leaves
<1>3. \A a \in Creations : Up(a)' => Up(a)
  BY <1>0 DEF Up, Takes
<1>4. ASSUME NEW a \in Creations, Up(a)', NEW v
      PROVE  WillHave(a, v)' <=> WillHave(a, v)
  <2>1. pod[a].st = "up"
    BY <1>3, <1>4 DEF Up
  <2>2. pod'[a].data = CASE m.cmd \in {"addVThing", "restoreVThings"} -> pod[a].data \cup m.vThings
                         [] m.cmd = "deleteVThing" -> pod[a].data \ m.vThings
                         [] OTHER -> pod[a].data
    BY <1>0, <2>1 DEF Takes
  <2> HIDE DEF m
  <2>3. CASE m.cmd \in {"addVThing", "restoreVThings"}
    <3>1. pod'[a].data = pod[a].data \cup m.vThings
      BY <2>2, <2>3
    <3>2. (Connects(m, v) <=> v \in m.vThings) /\ ~Disconnects(m, v)
      BY <2>3 DEF Connects, Disconnects
    <3>3. QED
      BY <1>2, <3>1, <3>2 DEF WillHave
  <2>4. CASE m.cmd = "deleteVThing"
    <3>1. pod'[a].data = pod[a].data \ m.vThings
      BY <2>2, <2>4
    <3>2. (Disconnects(m, v) <=> v \in m.vThings) /\ ~Connects(m, v)
      BY <2>4 DEF Connects, Disconnects
    <3>3. QED
      BY <1>2, <3>1, <3>2 DEF WillHave
  <2>5. CASE m.cmd \notin {"addVThing", "restoreVThings", "deleteVThing"}
    <3>1. pod'[a].data = pod[a].data
      BY <2>2, <2>5
    <3>2. ~Disconnects(m, v) /\ ~Connects(m, v)
      BY <2>5 DEF Connects, Disconnects
    <3>3. QED
      BY <1>2, <3>1, <3>2 DEF WillHave
  <2>6. QED
    BY <2>3, <2>4, <2>5
<1>5. \A v : OnTheWay(v)' <=> OnTheWay(v)
  BY <1>0 DEF KeptPlaces, OnTheWay, HasTold, HasWritten
<1>6. RestoresAttached' /\ WrittenIsDetached'
  BY <1>0 DEF KeptPlaces, RestoresAttached, WrittenIsDetached, HasWritten, ConnectBody
<1>7. ToldIsConnected'
  BY <1>0, <1>1, <1>3, <1>4 DEF KeptPlaces, ToldIsConnected, HasTold, ConnectBody
<1>8. SentIsAttached'
  BY <1>0, <1>2, <1>5 DEF SentIsAttached, ConnectBody
<1>9. ConnectedIsAttached'
  BY <1>0, <1>3, <1>4, <1>5 DEF ConnectedIsAttached, ConnectBody
<1>10. AttachedIsConnected'
  BY <1>0, <1>1, <1>3, <1>4 DEF AttachedIsConnected, ConnectBody
<1>11. NoPodIsEmpty'
  <2>1. \A a \in Creations : pod'[a].st = "none" => pod[a].st = "none" /\ pod'[a].data = pod[a].data
    BY <1>0 DEF Takes
  <2>2. QED
    BY <2>1 DEF NoPodIsEmpty, ConnectBody
<1>12. QED
  BY <1>6, <1>7, <1>8, <1>9, <1>10, <1>11 DEF ConnectBody

\* A program starts with no subscription and asks for all of them.
LEMMA StartStep ==
  ASSUME TypeInv, ConnectBody, DidPodStarts
  PROVE  ConnectBody'
<1>0. /\ toCtl \in Seq(Reports) /\ "restoreVThingsAck" \in Reports
      /\ toPod' = toPod /\ toCtl' = Append(toCtl, "restoreVThingsAck")
      /\ KeptPlaces /\ Attached' = Attached /\ deployment' = deployment
  BY DEF DidPodStarts, TypeInv, RestTyped, Reports, SameView, KeptCluster
<1>1. PICK a \in Creations :
        /\ deployment = a /\ pod[a].st = "none" /\ pod'[a].st = "up"
        /\ pod'[a].data = pod[a].data
        /\ \A b \in Creations : b # a => pod'[b] = pod[b]
  BY DEF DidPodStarts
<1>2. RestoreDue'
  BY <1>0, QueueElems DEF RestoreDue
<1>3. \A v : (Joins(v)' <=> Joins(v)) /\ (OnTheWay(v)' <=> OnTheWay(v))
  BY <1>0 DEF KeptPlaces, Joins, OnTheWay, HasTold, HasWritten
<1>4. pod'[a].data = {}
  BY <1>1 DEF NoPodIsEmpty, ConnectBody
<1>5. \A b \in Creations : \A v : Up(b)' /\ WillHave(b, v)' => Joins(v)
  BY <1>0, <1>1, <1>3, <1>4 DEF Up, WillHave
<1>6. RestoresAttached' /\ WrittenIsDetached'
  BY <1>0 DEF KeptPlaces, RestoresAttached, WrittenIsDetached, HasWritten, ConnectBody
<1>7. ToldIsConnected' /\ AttachedIsConnected'
  BY <1>2 DEF ToldIsConnected, AttachedIsConnected
<1>8. SentIsAttached' /\ ConnectedIsAttached'
  BY <1>0, <1>3, <1>5 DEF SentIsAttached, ConnectedIsAttached, ConnectBody
<1>9. NoPodIsEmpty'
  BY <1>1 DEF NoPodIsEmpty, ConnectBody
<1>10. QED
  BY <1>6, <1>7, <1>8, <1>9 DEF ConnectBody

\* The record is dropped with its attachments: no program is there to notice.
LEMMA DropStep ==
  ASSUME TypeInv, ConnectBody, CreationBody, Unconnected, "submit" \notin faults',
         NEW a \in Actors, DidDrop(a)
  PROVE  ConnectBody'
<1>0. /\ pc[a] = "drop" /\ Moved(a, "cleanup", seen[a]) /\ SiloDropped(seen[a].vThings)
      /\ KeptAll
  BY DEF DidDrop, Submitted
<1>1. ~Connecting /\ deployment = NoDeployment /\ NoDeployment \notin Creations
  BY <1>0, ActorFacts DEF Unconnected, Tearing, CreationBody, TornDown
<1>2. /\ Attached' \subseteq Attached /\ toPod' = toPod /\ pod' = pod
      /\ deployment' = deployment
  BY <1>0 DEF SiloDropped, KeptAll, KeptNet, KeptCluster
<1>3. (\A b \in Creations : ~Up(b)') /\ (\A v : ~Joins(v)')
  BY <1>1, <1>2 DEF Up, Joins, WillConnect, Connecting, Connects
<1>4. /\ \A r \in Requests : HasWritten(r)' => HasWritten(r)
      /\ \A h \in Handlers : pc'[h] # "restored"
  BY <1>0, <1>1, ActorFacts DEF Moved, Ended, HasWritten, Connecting, Restoring
<1>5. WrittenIsDetached'
  BY <1>2, <1>4 DEF WrittenIsDetached, ConnectBody
<1>6. NoPodIsEmpty'
  BY <1>2 DEF NoPodIsEmpty, ConnectBody
<1>7. QED
  BY <1>3, <1>4, <1>5, <1>6
  DEF ConnectBody, RestoresAttached, ToldIsConnected, SentIsAttached,
      ConnectedIsAttached, AttachedIsConnected

\* Every step keeps the vThings connected and those attached in agreement.
LEMMA ConnectStep ==
  ASSUME CreationInv, [Next]_vars, Without(ConnectCauses)', ConnectBody
  PROVE  ConnectBody'
<1>0. Inv /\ TypeInv /\ Recorded /\ Happened
  BY StepDoes DEF CreationInv
<1>1. /\ "submit" \notin faults' /\ "restoreVThingsAck" \notin lost'
      /\ {"addVThing", "deleteVThing", "restoreVThings"} \cap lost' = {}
      /\ "changeInterrupted" \notin races' /\ "restoreInterrupted" \notin races'
  BY DEF Without, ConnectCauses
<1>2. /\ "attachDuringDetach" \notin races /\ "changeDuringRestore" \notin races
      /\ "connectDuringDelete" \notin races /\ Undisturbed
  BY <1>0 DEF Without, ConnectCauses, Recorded, Undisturbed
<1>3. BothApart /\ Unrestored /\ Unconnected /\ CreationBody
  BY <1>0, <1>2, ConnectWindows DEF CreationInv
<1>4. CASE DidRestart
  BY <1>0, <1>1, <1>4, ConnectRestart, UnconcernedStep
<1>5. ASSUME NEW r \in Requests, DidPublish(r), Kind[r] \in {"attach", "detach"}
      PROVE  ConnectBody'
  BY <1>0, <1>3, <1>5, PublishStep
<1>6. ASSUME NEW r \in Requests, DidSubmit(r)
      PROVE  ConnectBody'
  BY <1>0, <1>1, <1>3, <1>6, SubmitStep
<1>7. ASSUME NEW h \in Handlers, HandlerDid(h)
      PROVE  ConnectBody'
  BY <1>0, <1>3, <1>7, RestoreStep
<1>8. CASE DidPodsReceive
  BY <1>0, <1>8, TakeStep
<1>9. CASE DidPodStarts
  BY <1>0, <1>9, StartStep
<1>10. ASSUME NEW a \in Actors, DidDrop(a)
       PROVE  ConnectBody'
  BY <1>0, <1>1, <1>3, <1>10, DropStep
<1>11. CASE /\ ~DidRestart /\ ~DidPodsReceive /\ ~DidPodStarts
            /\ \A r \in Requests : /\ ~DidSubmit(r)
                                   /\ ~(DidPublish(r) /\ Kind[r] \in {"attach", "detach"})
            /\ \A h \in Handlers : ~HandlerDid(h)
            /\ \A a \in Actors : ~DidDrop(a)
  <2>1. SamePlaces
    BY <1>0, <1>11, PlacesMove, RestoredMoves DEF SamePlaces, HandlerDid
  <2>2. SamePrograms
    BY <1>0, <1>3, <1>11, ProgramsMove DEF CreationBody
  <2>3. SameMessages
    BY <1>0, <1>1, <1>11, MessagesMove DEF HandlerDid
  <2>4. Attached' = Attached
    BY <1>0, <1>11, AttachedMoves
  <2>5. RestoreDue => RestoreDue'
    BY <1>0, <1>1, <1>11, RestoreMoves DEF HandlerDid
  <2>6. Unconcerned
    BY <2>1, <2>2, <2>3, <2>4, <2>5 DEF Unconcerned
  <2>7. QED
    BY <2>6, UnconcernedStep
<1>12. QED
  BY <1>4, <1>5, <1>6, <1>7, <1>8, <1>9, <1>10, <1>11

\* Once all is settled, the program of a running silo is connected to the vThings
\* the ledger says it is attached to, and to no other.
THEOREM ConnectedToAttached == Spec => []ConnectedAsAttached
<1> DEFINE I == CreationInv /\ (Without(ConnectCauses) => ConnectBody)
<1>1. Init => I
  <2> SUFFICES ASSUME Init PROVE ConnectBody
    BY InitCreation
  <2>1. /\ \A r \in Requests : pc[r] = "new"
        /\ \A h \in Handlers : pc[h] = "idle"
        /\ deployment = NoDeployment /\ NoDeployment \notin Creations
        /\ toPod = <<>> /\ \A a \in Creations : pod[a].data = {}
    BY ActorFacts DEF Init, InitWith, NoPod
  <2>2. (\A v : ~Joins(v)) /\ (\A a \in Creations : ~Up(a))
    BY <2>1, NothingUnderWay DEF Joins, Up
  <2>3. (\A r \in Requests : ~HasTold(r) /\ ~HasWritten(r))
    BY <2>1 DEF HasTold, HasWritten
  <2>4. QED
    BY <2>1, <2>2, <2>3
    DEF ConnectBody, RestoresAttached, ToldIsConnected, WrittenIsDetached, SentIsAttached,
        ConnectedIsAttached, AttachedIsConnected, NoPodIsEmpty
<1>2. I /\ [Next]_vars => I'
  <2> SUFFICES ASSUME I, [Next]_vars PROVE I'
    OBVIOUS
  <2>1. CreationInv' /\ Recorded
    BY CreationKept, StepDoes DEF CreationInv
  <2>2. Without(ConnectCauses)' => Without(ConnectCauses)
    BY <2>1, WithoutBefore DEF Recorded
  <2>3. QED
    BY <2>1, <2>2, ConnectStep
<1>3. I => ConnectedAsAttached
  <2> SUFFICES ASSUME TypeInv, ConnectBody, Settled, NEW a \in Creations, pod[a].st = "up"
               PROVE  pod[a].data = Attached
    BY DEF ConnectedAsAttached, ConnectCauses, CreationInv, Inv
  <2>1. Up(a)
    BY DEF Settled, PodsMatch, Up
  <2>2. /\ \A v : ~Joins(v) /\ ~Leaves(v)
        /\ \A v : WillHave(a, v) <=> v \in pod[a].data
    BY NothingUnderWay DEF Settled, Joins, Leaves, WillHave
  <2>3. /\ \A r \in Requests : pc[r] \in Ended \cup {"new", "none", "idle"}
        /\ \A h \in Handlers : pc[h] \in Ended \cup {"new", "none", "idle"}
    BY ActorFacts DEF Settled, AtRest
  <2>4. /\ \A v : ~OnTheWay(v)
        /\ ~Restoring
    BY <2>3 DEF OnTheWay, HasTold, HasWritten, Restoring, Ended
  <2>5. ~RestoreDue
    <3>1. Elems(toCtl) = {}
      BY EmptySeq DEF Settled, Elems
    <3>2. QED
      BY <2>4, <3>1 DEF RestoreDue
  <2>6. \A v \in VThings : v \in pod[a].data <=> v \in Attached
    BY <2>1, <2>2, <2>4, <2>5 DEF ConnectBody, ConnectedIsAttached, AttachedIsConnected
  <2>7. pod[a].data \subseteq VThings /\ Attached \subseteq VThings
    BY DEF TypeInv, RestTyped, Pods, Attached
  <2>8. QED
    BY <2>6, <2>7
<1>4. QED
  BY <1>1, <1>2, <1>3, PTL DEF Spec
-------------------------------------------------------------------------------
(***************************************************************************)
(* The ledger of a silo's life: each step is one accepted call on it as it *)
(* is, of those the controller makes, or leaves it.                        *)
(***************************************************************************)
\* Its calls are those of the contract; none is about a ThingVisor's record.
LEMMA CallsOfController ==
  ASSUME LedgerType(db)
  PROVE  /\ {AddFlavourCall, DeleteFlavourCall, AddSiloCall} \subseteq ControllerCalls
         /\ \A st \in {"ready", "error"} : FlavourCall(st) \in ControllerCalls
         /\ \A st \in {STATUS_PENDING, STATUS_RUNNING}, d \in Details :
              SiloCall(st, d) \in ControllerCalls
         /\ \A vs \in SUBSET VThings : DropCall(vs) \in ControllerCalls
         /\ \A v \in VThings : {AttachCall(v), DetachCall(v)} \subseteq ControllerCalls
<1>1. {AddFlavourCall, DeleteFlavourCall, AddSiloCall} \subseteq ControllerCalls
  BY AddFlavourDoes, DeleteFlavourDoes, AddSiloDoes
  DEF ControllerCalls, AddFlavourCall, DeleteFlavourCall, AddSiloCall
<1>2. \A st \in {"ready", "error"} : FlavourCall(st) \in ControllerCalls
  BY FlavourCallDoes DEF ControllerCalls, FlavourCall
<1>3. \A st \in {STATUS_PENDING, STATUS_RUNNING}, d \in Details :
        SiloCall(st, d) \in ControllerCalls
  BY SiloCallDoes DEF ControllerCalls, SiloCall
<1>4. \A vs \in SUBSET VThings : DropCall(vs) \in ControllerCalls
  BY DropDoes DEF ControllerCalls, DropCall
<1>5. \A v \in VThings : {AttachCall(v), DetachCall(v)} \subseteq ControllerCalls
  BY AttachDoes, DetachDoes DEF ControllerCalls, AttachCall, DetachCall
<1>6. QED
  BY <1>1, <1>2, <1>3, <1>4, <1>5

\* What the controller does of itself calls the contract or leaves the ledger.
LEMMA ControllerInvokes == TypeInv /\ ControllerStep => Invoked
<1> SUFFICES ASSUME TypeInv, ControllerStep PROVE Invoked
  OBVIOUS
<1>0. LedgerType(db)
  BY DEF TypeInv
<1> USE OthersKeepLedger DEF Invoked
<1>1. CASE Login \/ Receive
  BY <1>1
<1>2. ASSUME NEW r \in Requests,
             \/ Add(r) \/ Delete(r) \/ GetFlavour(r) \/ Create(r) \/ EnqueueJob(r)
             \/ Publish(r) \/ GetSilo(r) \/ Check(r) \/ SubmitAttachment(r)
      PROVE  Invoked
  <2>1. CASE Add(r) \/ Delete(r) \/ Create(r)
    BY <1>0, <2>1, CallsOfController, SubmitInvokes DEF Add, Delete, Create
  <2>2. CASE SubmitAttachment(r)
    <3>1. PICK v \in Target[r] : \/ Submit(r, AttachCall(v), "ok", "failed")
                                 \/ Submit(r, DetachCall(v), "publish", "failed")
      BY <2>2 DEF SubmitAttachment
    <3>2. v \in VThings
      BY <3>1, SiloAssumption DEF SiloAssumption
    <3>3. QED
      BY <1>0, <3>1, <3>2, CallsOfController, SubmitInvokes
  <2>3. CASE GetFlavour(r) \/ EnqueueJob(r) \/ Publish(r) \/ GetSilo(r) \/ Check(r)
    BY <2>3 DEF GetFlavour, EnqueueJob, Publish, GetSilo, Check
  <2>4. QED
    BY <1>2, <2>1, <2>2, <2>3
<1>3. ASSUME NEW r \in Queued,
             \/ BeginJob(r) \/ CreateVirtualSiloOnKubernetes(r)
             \/ CreateFlavourOnKubernetes(r)
      PROVE  Invoked
  <2>1. CASE BeginJob(r)
    BY <2>1 DEF BeginJob
  <2>2. CASE CreateVirtualSiloOnKubernetes(r)
    <3>1. /\ SiloCall(STATUS_PENDING, NoDeployment) \in ControllerCalls
          /\ SiloCall(STATUS_RUNNING, IF HasYaml(r) THEN r ELSE NoYaml) \in ControllerCalls
      BY <1>0, CallsOfController, DetailFacts DEF Queued
    <3>2. CASE WithoutYaml(r)
      BY <3>2 DEF WithoutYaml
    <3>3. QED
      BY <2>2, <3>1, <3>2, SubmitInvokes
      DEF CreateVirtualSiloOnKubernetes, WriteRunning
  <2>3. CASE CreateFlavourOnKubernetes(r)
    BY <1>0, <2>3, CallsOfController, SubmitInvokes
    DEF CreateFlavourOnKubernetes, WriteFlavour, WriteFlavourError
  <2>4. QED
    BY <1>3, <2>1, <2>2, <2>3
<1>4. ASSUME NEW a \in Actors,
             Get(a) \/ DeleteOnKubernetes(a) \/ List(a) \/ Drop(a) \/ Forget(a)
      PROVE  Invoked
  <2>1. CASE Drop(a)
    <3>1. seen[a] \in Lists
      BY <2>1 DEF Drop, TypeInv, Places, HandsFull, HoldsList
    <3>2. DropCall(seen[a].vThings) \in ControllerCalls
      BY <1>0, <3>1, CallsOfController DEF Lists
    <3>3. QED
      BY <2>1, <3>2, SubmitInvokes DEF Drop
  <2>2. CASE Get(a) \/ DeleteOnKubernetes(a) \/ List(a) \/ Forget(a)
    BY <2>2 DEF Get, DeleteOnKubernetes, List, Forget
  <2>3. QED
    BY <1>4, <2>1, <2>2
<1>5. ASSUME NEW h \in Handlers, Restore(h) \/ PublishRestore(h)
      PROVE  Invoked
  BY <1>5 DEF Restore, PublishRestore
<1>6. QED
  BY <1>1, <1>2, <1>3, <1>4, <1>5 DEF ControllerStep

\* Every change of the ledger in the life of a silo is one accepted call of the
\* contract, as addFlavour, siloCreate, addVThing and the rest of controller.ts
\* and the jobs of silo.ts and flavour.ts make them.  The ledger it begins with
\* has vThings and may have the flavour.
THEOREM SiloCallsContract == Spec => [][Contract!Next]_db
<1>1. TypeInv /\ [Next]_vars => TypeInv' /\ [Contract!Next]_db
  <2> SUFFICES ASSUME TypeInv, [Next]_vars PROVE Invoked
    BY NextDoes DEF Invoked
  <2>1. CASE UNCHANGED vars
    BY <2>1 DEF vars, controllerVars, Invoked
  <2>2. CASE ControllerStep
    BY <2>2, ControllerInvokes
  <2>3. CASE PodStep
    BY <2>3 DEF PodStep, PodsReceive, PodStarts, PodStops, Invoked
  <2>4. CASE \E a \in Creations : PodRestarts(a)
    BY <2>4 DEF PodRestarts, Invoked
  <2>5. CASE Lose \/ Restart \/ \E r \in Requests : Accept(r)
    BY <2>5, OthersKeepLedger DEF Accept, Invoked
  <2>6. QED
    BY <2>1, <2>2, <2>3, <2>4, <2>5 DEF Next, Step
<1>2. QED
  BY <1>1, InitTyped, PTL DEF Spec
==================================================================================
