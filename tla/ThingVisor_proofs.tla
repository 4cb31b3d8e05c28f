---------------------------- MODULE ThingVisor_proofs ----------------------------
(***************************************************************************)
(* Theorems about the life cycle of a ThingVisor (ThingVisorLifecycle) and *)
(* about its vThings in the hands of others (VThingSharing), for any       *)
(* requests, callbacks, sessions and faults.                               *)
(*                                                                         *)
(* The invariants of the life cycle are kept by every step that is one of  *)
(* those described (Happened): what a request about a vThing does to it is *)
(* one of them (DidShare), so that they hold of both specifications.       *)
(***************************************************************************)
EXTENDS VThingSharing, Controller_proofs, SequenceTheorems

(***************************************************************************)
(* The calls of the contract and what they do to the record.               *)
(***************************************************************************)
AddCall(v) == [fn |-> "AddVThingToThingVisor", tv |-> tv, vThing |-> v,
               details |-> NoDetails]

\* Every call the controller makes is one of the contract's.
LEMMA CallsTyped ==
  /\ CreateCall \in Calls /\ StopCall \in Calls
  /\ \A vs \in SUBSET VThings : DeleteCall(vs) \in Calls
  /\ \A r \in Requests : /\ WriteCall(STATUS_PENDING, r, NoDeployment) \in Calls
                         /\ WriteCall(STATUS_RUNNING, r, r) \in Calls
  /\ \A r \in Requests : PartialCall(r) \in Calls
  /\ \A v \in VThingsOfTV : AddCall(v) \in Calls
  BY ChaincodeAssumption, ProcessAssumption, LifecycleAssumption
  DEF CreateCall, StopCall, DeleteCall, WriteCall, PartialCall, Entry,
      Calls, ThingVisorCalls, ThingVisorRecord, Status, STATUS_PENDING,
      STATUS_RUNNING, STATUS_STOPPING, ChaincodeAssumption, ProcessAssumption,
      LifecycleAssumption, Stringify, AddCall, VThingsOfTV, VThingCalls

\* The ThingVisor's record is a record of the ledger, or there is none.
LEMMA RecType == LedgerType(db) => Rec \in ThingVisorRecord \cup {Nil}
  BY KeyTypes, LifecycleAssumption DEF LedgerType, Rec, LifecycleAssumption

\* The vThings' records stay the same, those of their attachments too.
SameVThings ==
  /\ \A v \in VThings : db'[VThingTVKey(v)] = db[VThingTVKey(v)]
  /\ Attached' = Attached

\* Writing the record writes it and no vThing.
LEMMA PutRec ==
  ASSUME LedgerType(db), NEW rec, db' = Apply(Put(ThingVisorKey(tv), rec), db)
  PROVE  Rec' = rec /\ SameVThings
<1>1. /\ ThingVisorKey(tv) \in Keys
      /\ \A v \in VThings : /\ VThingTVKey(v) \in Keys
                            /\ VThingVSiloKey(vSilo, v) \in Keys
  BY KeyTypes, LifecycleAssumption, SharingAssumption
  DEF LifecycleAssumption, SharingAssumption
<1>2. \A v \in VThings : /\ VThingTVKey(v) # ThingVisorKey(tv)
                         /\ VThingVSiloKey(vSilo, v) # ThingVisorKey(tv)
  BY DEF VThingTVKey, VThingVSiloKey, ThingVisorKey
<1>3. /\ Rec' = rec
      /\ \A v \in VThings :
           /\ db'[VThingTVKey(v)] = db[VThingTVKey(v)]
           /\ db'[VThingVSiloKey(vSilo, v)] = db[VThingVSiloKey(vSilo, v)]
  BY <1>1, <1>2 DEF LedgerType, Apply, Put, Rec
<1>4. QED
  BY <1>3 DEF SameVThings, Attached

\* Creating needs that there is no record, and leaves a pending one with
\* nothing in it.
LEMMA CreateRec ==
  ASSUME LedgerType(db)
  PROVE  /\ Committed(CreateCall) =>
              /\ Rec = Nil /\ Rec' = Entry(STATUS_PENDING, "", NoDetails)
              /\ SameVThings
         /\ Simulate(CreateCall, db) = {} => Rec # Nil
<1>1. Simulate(CreateCall, db) = CreateThingVisor(CreateCall, db)
  BY Dispatch DEF CreateCall
<1>2. Simulate(CreateCall, db) =
        IF Rec = Nil
        THEN {Put(ThingVisorKey(tv), Entry(STATUS_PENDING, "", NoDetails))} ELSE {}
  BY <1>1 DEF CreateCall, CreateThingVisor, Rec
<1>3. QED
  BY <1>2, PutRec DEF Committed

\* Stopping needs a running record and changes its status only.
LEMMA StopRec ==
  ASSUME LedgerType(db)
  PROVE  /\ Committed(StopCall) =>
              /\ Is(STATUS_RUNNING) /\ Is(STATUS_STOPPING)'
              /\ Rec'.details = Rec.details /\ Rec'.params = Rec.params
              /\ SameVThings
         /\ Simulate(StopCall, db) = {} => ~Is(STATUS_RUNNING)
<1> DEFINE new == [Rec EXCEPT !.status = STATUS_STOPPING]
<1>1. Simulate(StopCall, db) =
        IF Is(STATUS_RUNNING) THEN {Put(ThingVisorKey(tv), new)} ELSE {}
  BY Dispatch DEF StopCall, StopThingVisor, Rec, Is, IsRunning
<1>2. Is(STATUS_RUNNING) =>
        /\ new.status = STATUS_STOPPING /\ new.details = Rec.details
        /\ new.params = Rec.params /\ new \in ThingVisorRecord
  BY RecType DEF ThingVisorRecord, Is, Status, STATUS_STOPPING
<1>3. QED
  BY <1>1, <1>2, PutRec, ChaincodeAssumption
  DEF Committed, Is, ChaincodeAssumption

\* Deleting takes the record away and is never refused.
LEMMA DeleteRec ==
  ASSUME LedgerType(db), NEW vs \in SUBSET VThingsOfTV
  PROVE  /\ Committed(DeleteCall(vs)) => Rec' = Nil /\ SameVThings
         /\ Simulate(DeleteCall(vs), db) # {}
<1>1. Simulate(DeleteCall(vs), db) = {Del({ThingVisorKey(tv)})}
  BY Dispatch DEF DeleteCall, DeleteThingVisor, VThingsOfTV
<1>2. Del({ThingVisorKey(tv)}) = Put(ThingVisorKey(tv), Nil)
  BY DEF Del, Put
<1>3. QED
  BY <1>1, <1>2, PutRec DEF Committed

\* Writing the whole record never depends on what was there.
LEMMA WriteRec ==
  ASSUME LedgerType(db), NEW st, NEW r, NEW details
  PROVE  /\ Committed(WriteCall(st, r, details)) =>
              Rec' = Entry(st, Params[r], details) /\ SameVThings
         /\ Simulate(WriteCall(st, r, details), db) # {}
<1>1. Simulate(WriteCall(st, r, details), db) =
        {Put(ThingVisorKey(tv), Entry(st, Params[r], details))}
  BY Dispatch DEF WriteCall, UpdateThingVisor
<1>2. QED
  BY <1>1, PutRec DEF Committed

\* Writing parameters needs a record and changes nothing else of it.
LEMMA PartialRec ==
  ASSUME LedgerType(db), NEW r \in Requests
  PROVE  /\ Committed(PartialCall(r)) =>
              /\ Rec # Nil /\ Rec' # Nil
              /\ Rec'.status = Rec.status /\ Rec'.details = Rec.details
              /\ Rec'.params = Stringify(Params[r])
              /\ SameVThings
         /\ Simulate(PartialCall(r), db) = {} => Rec = Nil
<1> DEFINE tx  == PartialCall(r)
           new == [Rec EXCEPT
                     !.tvDescription = IF tx.tvDescription = "" THEN @
                                       ELSE tx.tvDescription,
                     !.params = IF tx.params = "" THEN @ ELSE tx.params]
<1>1. /\ tx.fn = "UpdateThingVisorPartial" /\ tx.tv = tv
      /\ tx.params = Stringify(Params[r]) /\ tx.params # ""
      /\ tx \in Calls
  BY CallsTyped DEF PartialCall, Stringify
<1> HIDE DEF tx
<1>2. Simulate(tx, db) =
        IF Rec = Nil THEN {} ELSE {Put(ThingVisorKey(tv), new)}
  BY <1>1, Dispatch DEF UpdateThingVisorPartial, Rec
<1>3. Rec # Nil => /\ new.status = Rec.status /\ new.details = Rec.details
                   /\ new.params = tx.params /\ new \in ThingVisorRecord
  BY <1>1, RecType, CallArguments DEF ThingVisorRecord
<1>4. Committed(tx) => Rec # Nil /\ Rec' = new /\ SameVThings
  BY <1>2, PutRec DEF Committed
<1>5. Simulate(tx, db) = {} => Rec = Nil
  BY <1>2
<1>6. Nil \notin ThingVisorRecord
  BY ChaincodeAssumption DEF ChaincodeAssumption
<1> HIDE DEF new
<1>7. QED
  BY <1>1, <1>3, <1>4, <1>5, <1>6 DEF tx

\* Registering a vThing needs a running record and adds that vThing only.
LEMMA AddRec ==
  ASSUME LedgerType(db), NEW v \in VThingsOfTV
  PROVE  /\ Committed(AddCall(v)) =>
              /\ Is(STATUS_RUNNING) /\ Rec' = Rec
              /\ db'[VThingTVKey(v)] # Nil
              /\ db'[VThingTVKey(v)] = NoDetails
              /\ \A u \in VThings : u # v =>
                   db'[VThingTVKey(u)] = db[VThingTVKey(u)]
              /\ Attached' = Attached
         /\ Simulate(AddCall(v), db) = {} => ~Is(STATUS_RUNNING)
<1>1. Simulate(AddCall(v), db) =
        IF Is(STATUS_RUNNING) THEN {Put(VThingTVKey(v), NoDetails)} ELSE {}
  BY Dispatch DEF AddCall, AddVThingToThingVisor, VThingsOfTV, Rec, Is, IsRunning
<1>2. /\ ThingVisorKey(tv) \in Keys
      /\ \A u \in VThings : /\ VThingTVKey(u) \in Keys
                            /\ VThingVSiloKey(vSilo, u) \in Keys
                            /\ VThingTVKey(u) # ThingVisorKey(tv)
                            /\ VThingVSiloKey(vSilo, u) # VThingTVKey(v)
                            /\ u # v => VThingTVKey(u) # VThingTVKey(v)
  BY KeyTypes, LifecycleAssumption, SharingAssumption
  DEF LifecycleAssumption, SharingAssumption, VThingTVKey, VThingVSiloKey, ThingVisorKey
<1>3. NoDetails # Nil /\ v \in VThings
  BY ChaincodeAssumption DEF ChaincodeAssumption, VThingsOfTV
<1>4. ASSUME Committed(AddCall(v))
      PROVE  /\ Is(STATUS_RUNNING) /\ Rec' = Rec /\ db'[VThingTVKey(v)] = NoDetails
             /\ \A u \in VThings :
                  /\ u # v => db'[VThingTVKey(u)] = db[VThingTVKey(u)]
                  /\ db'[VThingVSiloKey(vSilo, u)] = db[VThingVSiloKey(vSilo, u)]
  BY <1>1, <1>2, <1>3, <1>4 DEF Committed, LedgerType, Apply, Put, Rec
<1>5. QED
  BY <1>1, <1>3, <1>4 DEF Attached

-------------------------------------------------------------------------------
(***************************************************************************)
(* Where each request, job and callback may stand, and what it then has in *)
(* hand.  The type invariant needs it: what the next call carries depends  *)
(* on the steps before.                                                    *)
(***************************************************************************)
RequestLabels(kind) ==
  {"new", "ok", "failed"}
    \cup (CASE kind = "add"    -> {"create", "enqueue"}
            [] kind = "update" -> {"get", "enqueue", "publish"}
            [] kind = "delete" -> {"get", "stop", "publish", "debugDrop"}
            [] kind = "force"  -> {"get", "drop", "k8s", "cleanup"}
            [] kind = "attach" -> {"getVThing", "check", "tell", "record"}
            [] kind = "detach" -> {"check", "tell", "record"}
            [] kind \in {"setEndpoint", "delEndpoint"} ->
                 {"getTV", "getVThing", "tell", "record"}
            [] OTHER           -> {})

JobLabels(kind) ==
  {"none", "ok", "failed"}
    \cup (CASE kind = "add"    -> {"waiting", "pending", "subscribe", "service",
                                   "deploy", "running"}
            [] kind = "update" -> {"waiting", "update"}
            [] OTHER           -> {})

HandlerLabels ==
  {"idle", "poll", "pollInit", "register", "init", "get", "drop", "k8s",
   "cleanup"}

\* Its job has not been queued.
Before == {"new", "create", "get", "enqueue"}

Holding == {"stop", "debugDrop", "drop", "k8s", "cleanup"}

RequestsPlaced ==
  \A r \in Requests : /\ pc[r] \in RequestLabels(Kind[r])
                      /\ pc[r] = "publish" /\ Kind[r] = "delete" => seen[r] # Nil
                      /\ pc[r] = "debugDrop" => DebugMode

JobsPlaced ==
  \A r \in Queued : /\ pc[Job(r)] \in JobLabels(Kind[r]) /\ seen[Job(r)] = Nil
                    /\ pc[r] \in Before => pc[Job(r)] = "none"

AttemptsLeft == \A j \in Jobs : pc[j] \notin Ended => attempts[j] < MaxAttempts

HandlersPlaced == \A h \in Handlers : pc[h] \in HandlerLabels

\* What a request has read: the ThingVisor's record or a vThing's.
Hand == ThingVisorRecord \cup Details \cup {Nil}

HandsFull ==
  \A a \in Actors : /\ seen[a] \in Hand
                    /\ pc[a] \in Holding => seen[a] # Nil

Places ==
  RequestsPlaced /\ JobsPlaced /\ AttemptsLeft /\ HandlersPlaced /\ HandsFull

\* Where a step may take an actor.
Fits(a, l, what) ==
  /\ a \in Requests =>
       /\ l \in RequestLabels(Kind[a])
       /\ l \in Before => pc[a] \in Before
       /\ l = "publish" /\ Kind[a] = "delete" => what # Nil
       /\ l = "debugDrop" => DebugMode
  /\ \A r \in Queued :
       a = Job(r) => l \in JobLabels(Kind[r]) /\ pc[a] # "none" /\ what = Nil
  /\ a \in Handlers => l \in HandlerLabels \cup Ended
  /\ what \in Hand
  /\ l \in Holding => what # Nil

\* An actor that goes to a place that fits it leaves everybody at such a
\* place.
LEMMA MovedPlaces ==
  ASSUME Places, NEW a \in Actors, NEW l, NEW what,
         Moved(a, l, what), Fits(a, l, what), UNCHANGED session, AttemptsLeft'
  PROVE  Places'
<1> USE ActorFacts DEF Places, Moved, Fits
<1>1. RequestsPlaced'
  BY DEF RequestsPlaced, DebugMode, Ended
<1>2. JobsPlaced'
  <2> SUFFICES ASSUME NEW r \in Queued
               PROVE  /\ pc'[Job(r)] \in JobLabels(Kind[r]) /\ seen'[Job(r)] = Nil
                      /\ pc'[r] \in Before => pc'[Job(r)] = "none"
    BY DEF JobsPlaced
  <2>1. CASE a = Job(r)
    BY <2>1 DEF JobsPlaced
  <2>2. CASE a # Job(r)
    BY <2>2 DEF JobsPlaced
  <2>3. QED
    BY <2>1, <2>2
<1>3. HandlersPlaced'
  BY DEF HandlersPlaced, HandlerLabels
<1>4. HandsFull'
  BY DEF HandsFull, Hand, Holding, Ended
<1>5. QED
  BY <1>1, <1>2, <1>3, <1>4

-------------------------------------------------------------------------------
(***************************************************************************)
(* The type invariant with the places, and what it says of one label.      *)
(***************************************************************************)
Commands == [cmd : {"destroyTV", "updateTV", "createVThings"}, params : Texts]
              \cup [cmd : {"endpoint"}, params : Details, vThing : VThingsOfTV]
Reports  == {"createVThing", "requestInit", "destroyTVAck"}
Pods     == [st : {"none", "starting", "up"}, params : Texts]

RestTyped ==
  /\ attempts \in [Jobs -> 0..MaxAttempts]
  /\ callback \in BOOLEAN /\ subscribed \in BOOLEAN /\ identity \in BOOLEAN
  /\ doomed \in BOOLEAN /\ service \in BOOLEAN
  /\ toPod \in Seq(Commands) /\ toCtl \in Seq(Reports)
  /\ deployment \in Creations \cup {NoDeployment}
  /\ pod \in [Creations -> Pods]

TypeInv == /\ LedgerType(db) /\ Stands /\ Places /\ RestTyped
           /\ session \in Sessions

\* Where an actor stands tells what it is: the places of each kind of request,
\* of jobs and of callbacks.
LEMMA WhoStands ==
  ASSUME TypeInv
  PROVE  /\ \A r \in Requests :
              /\ pc[r] = "create" => Kind[r] = "add"
              /\ pc[r] = "enqueue" => Kind[r] \in {"add", "update"}
              /\ pc[r] = "get" => Kind[r] \in {"update", "delete", "force"}
              /\ pc[r] = "publish" => Kind[r] \in {"update", "delete"}
              /\ pc[r] \in {"stop", "debugDrop"} => Kind[r] = "delete"
              /\ pc[r] \in {"drop", "k8s", "cleanup"} => Kind[r] = "force"
              /\ pc[r] \notin {"poll", "pollInit", "register", "init"}
         /\ \A r \in Queued :
              /\ pc[Job(r)] \in {"pending", "subscribe", "service", "deploy",
                                 "running"} => Kind[r] = "add"
              /\ pc[Job(r)] = "waiting" => Kind[r] \in {"add", "update"}
              /\ pc[Job(r)] = "update" => Kind[r] = "update"
              /\ pc[Job(r)] \notin {"get", "drop", "k8s", "cleanup", "publish"}
         /\ \A a \in Actors : pc[a] \in {"get", "drop", "k8s", "cleanup"} =>
              a \in Handlers \/ a \in Requests
<1>2. \A r \in Requests : pc[r] \in RequestLabels(Kind[r])
  BY DEF TypeInv, Places, RequestsPlaced
<1>3. \A r \in Queued : pc[Job(r)] \in JobLabels(Kind[r])
  BY DEF TypeInv, Places, JobsPlaced
<1>4. /\ \A r \in Requests :
           /\ pc[r] = "create" => Kind[r] = "add"
           /\ pc[r] = "enqueue" => Kind[r] \in {"add", "update"}
           /\ pc[r] = "get" => Kind[r] \in {"update", "delete", "force"}
           /\ pc[r] = "publish" => Kind[r] \in {"update", "delete"}
           /\ pc[r] \in {"stop", "debugDrop"} => Kind[r] = "delete"
           /\ pc[r] \in {"drop", "k8s", "cleanup"} => Kind[r] = "force"
           /\ pc[r] \notin {"poll", "pollInit", "register", "init"}
  BY <1>2 DEF RequestLabels
<1>5. \A r \in Queued :
        /\ pc[Job(r)] \in {"pending", "subscribe", "service", "deploy", "running"}
             => Kind[r] = "add"
        /\ pc[Job(r)] = "waiting" => Kind[r] \in {"add", "update"}
        /\ pc[Job(r)] = "update" => Kind[r] = "update"
        /\ pc[Job(r)] \notin {"get", "drop", "k8s", "cleanup", "publish"}
  BY <1>3 DEF JobLabels
<1>6. QED
  BY <1>4, <1>5, ActorFacts DEF Actors

\* A step that takes one actor to a place that fits it and keeps the types of
\* the rest keeps the type invariant.
LEMMA StepTyped ==
  ASSUME TypeInv, NEW a \in Actors, NEW l, NEW what,
         Moved(a, l, what), Stands', Fits(a, l, what), UNCHANGED session,
         AttemptsLeft', RestTyped', LedgerType(db')
  PROVE  TypeInv'
  BY MovedPlaces DEF TypeInv

-------------------------------------------------------------------------------
(***************************************************************************)
(* What the steps that submit a transaction do to the record: the call     *)
(* commits, is refused, or throws and may have committed.                  *)
(***************************************************************************)
SameRec == Rec' = Rec /\ SameVThings

Submitted(a, ok, err, Done, Refused) ==
  /\ \/ Moved(a, ok, seen[a]) /\ Done /\ faults' = faults
     \/ Moved(a, err, seen[a]) /\ db' = db /\ SameRec /\ faults' = faults /\ Refused
     \/ /\ Moved(a, err, seen[a]) /\ "submit" \in faults' /\ faults \subseteq faults'
        /\ ((db' = db /\ SameRec) \/ Done)
  /\ Stands' /\ LedgerType(db')

\* The same ledger has the same record and vThings.
LEMMA SameLedger == db' = db => SameRec
  BY DEF SameRec, Rec, SameVThings, Attached

\* A transaction commits, is refused, or fails with an error of its own, and
\* moves its actor.
LEMMA SubmitDoes ==
  ASSUME TypeInv, NEW a \in Actors, NEW tx \in Calls, NEW ok, NEW err,
         Submit(a, tx, ok, err)
  PROVE  Submitted(a, ok, err, Committed(tx), Simulate(tx, db) = {})
<1>1. Stands /\ LedgerType(db)
  BY DEF TypeInv
<1>2. LedgerType(db')
  <2>1. Committed(tx) => LedgerType(db')
    BY <1>1, CommitTyped
  <2>2. db' = db => LedgerType(db')
    BY <1>1
  <2>3. QED
    BY <1>1, <2>1, <2>2, SubmitMoves
<1>3. QED
  BY <1>1, <1>2, SubmitMoves, SameLedger DEF Submitted

\* The fields of an entry are what it was made of.
LEMMA EntryFields ==
  ASSUME NEW st \in Status, NEW p \in Texts, NEW d \in Details
  PROVE  LET e == Entry(st, p, d)
         IN  e.status = st /\ e.params = p /\ e.details = d /\ e # Nil
<1> DEFINE e == Entry(st, p, d)
<1>1. e \in ThingVisorRecord
  BY ChaincodeAssumption DEF Entry, ThingVisorRecord, ChaincodeAssumption
<1>2. e # Nil
  BY <1>1, ChaincodeAssumption DEF ChaincodeAssumption
<1>3. e.status = st /\ e.params = p /\ e.details = d
  BY DEF Entry
<1>4. QED
  BY <1>2, <1>3

\* What jobs and requests write into a record has its types.
LEMMA Entries ==
  /\ STATUS_PENDING \in Status /\ STATUS_RUNNING \in Status
  /\ NoDetails \in Details /\ NoDeployment \in Details
  /\ \A r \in Requests : Params[r] \in Texts /\ r \in Details
  BY ChaincodeAssumption, ProcessAssumption, LifecycleAssumption
  DEF ChaincodeAssumption, ProcessAssumption, LifecycleAssumption, Status,
      STATUS_PENDING, STATUS_RUNNING

\* What a creation writes first: pending, and no details.
LEMMA FirstEntry ==
  LET e == Entry(STATUS_PENDING, "", NoDetails)
  IN  e.status = STATUS_PENDING /\ e.details = NoDetails /\ e # Nil
<1> DEFINE t == ""
<1>1. t \in Texts
  BY ChaincodeAssumption DEF ChaincodeAssumption
<1> HIDE DEF t
<1>2. LET e == Entry(STATUS_PENDING, t, NoDetails)
      IN  e.status = STATUS_PENDING /\ e.details = NoDetails /\ e # Nil
  BY <1>1, Entries, EntryFields
<1>3. QED
  BY <1>2 DEF t

Ordered ==
  Rec' # Nil /\ Rec'.status = STATUS_PENDING /\ Rec'.details = NoDetails /\ SameVThings

\* A creation writes the first record or fails.
LEMMA CreateDoes ==
  ASSUME TypeInv, NEW r \in Requests, Create(r)
  PROVE  /\ pc[r] = "create" /\ UNCHANGED rest
         /\ Submitted(r, "enqueue", "failed", Rec = Nil /\ Ordered, Rec # Nil)
<1> DEFINE tx == CreateCall
<1>1. pc[r] = "create" /\ UNCHANGED rest /\ Submit(r, tx, "enqueue", "failed")
  BY DEF Create
<1>2. tx \in Calls /\ LedgerType(db)
  BY CallsTyped DEF TypeInv
<1> DEFINE new == Entry(STATUS_PENDING, "", NoDetails)
<1>0. /\ new.status = STATUS_PENDING /\ new.details = NoDetails /\ new # Nil
  BY FirstEntry
<1> HIDE DEF new
<1>3. /\ Committed(tx) => Rec = Nil /\ Ordered
      /\ Simulate(tx, db) = {} => Rec # Nil
  BY <1>0, <1>2, CreateRec DEF Ordered, new
<1> HIDE DEF tx
<1>4. Submitted(r, "enqueue", "failed", Committed(tx), Simulate(tx, db) = {})
  BY <1>1, <1>2, SubmitDoes, ActorFacts
<1>5. QED
  BY <1>1, <1>3, <1>4 DEF Submitted

StatusOnly(st) ==
  /\ Rec' # Nil /\ Rec'.status = st /\ Rec'.details = Rec.details
  /\ Rec'.params = Rec.params /\ SameVThings

\* A stop turns a running record into a stopping one or fails.
LEMMA StopDoes ==
  ASSUME TypeInv, NEW r \in Requests, Stop(r)
  PROVE  /\ pc[r] = "stop" /\ UNCHANGED rest
         /\ Submitted(r, "publish", "failed",
                      Is(STATUS_RUNNING) /\ StatusOnly(STATUS_STOPPING),
                      ~Is(STATUS_RUNNING))
<1> DEFINE tx == StopCall
<1>1. pc[r] = "stop" /\ UNCHANGED rest /\ Submit(r, tx, "publish", "failed")
  BY DEF Stop
<1>2. tx \in Calls /\ LedgerType(db)
  BY CallsTyped DEF TypeInv
<1>3. /\ Committed(tx) => Is(STATUS_RUNNING) /\ StatusOnly(STATUS_STOPPING)
      /\ Simulate(tx, db) = {} => ~Is(STATUS_RUNNING)
  BY <1>2, StopRec DEF StatusOnly, Is
<1> HIDE DEF tx
<1>4. Submitted(r, "publish", "failed", Committed(tx), Simulate(tx, db) = {})
  BY <1>1, <1>2, SubmitDoes, ActorFacts
<1>5. QED
  BY <1>1, <1>3, <1>4 DEF Submitted

Dropped == Rec' = Nil /\ SameVThings

\* The delete of debug mode drops the record or fails.
LEMMA DebugDropDoes ==
  ASSUME TypeInv, NEW r \in Requests, DebugDrop(r)
  PROVE  /\ pc[r] = "debugDrop" /\ UNCHANGED rest
         /\ Submitted(r, "ok", "failed", Dropped, FALSE)
<1> DEFINE tx == DeleteCall({})
<1>1. pc[r] = "debugDrop" /\ UNCHANGED rest /\ Submit(r, tx, "ok", "failed")
  BY DEF DebugDrop
<1>2. tx \in Calls /\ LedgerType(db)
  BY CallsTyped DEF TypeInv
<1>3. /\ Committed(tx) => Dropped
      /\ Simulate(tx, db) = {} => FALSE
  BY <1>2, DeleteRec DEF Dropped
<1> HIDE DEF tx
<1>4. Submitted(r, "ok", "failed", Committed(tx), Simulate(tx, db) = {})
  BY <1>1, <1>2, SubmitDoes, ActorFacts
<1>5. QED
  BY <1>1, <1>3, <1>4 DEF Submitted

\* A drop takes the record away and goes on to Kubernetes, or fails.
LEMMA DropDoes ==
  ASSUME TypeInv, NEW a \in Actors, Drop(a)
  PROVE  /\ pc[a] = "drop" /\ UNCHANGED rest
         /\ Submitted(a, IF InDebug(seen[a]) THEN "cleanup" ELSE "k8s", "failed",
                      Dropped, FALSE)
<1>0. Registered \in SUBSET VThingsOfTV /\ Registered \in SUBSET VThings
  BY DEF Registered, VThingsOfTV
<1> DEFINE tx == DeleteCall(Registered)
<1>1. /\ pc[a] = "drop" /\ UNCHANGED rest
      /\ Submit(a, tx, IF InDebug(seen[a]) THEN "cleanup" ELSE "k8s", "failed")
  BY DEF Drop
<1>2. tx \in Calls /\ LedgerType(db)
  BY CallsTyped, <1>0 DEF TypeInv
<1>3. /\ Committed(tx) => Dropped
      /\ Simulate(tx, db) = {} => FALSE
  BY <1>0, <1>2, DeleteRec DEF Dropped
<1> HIDE DEF tx
<1>4. Submitted(a, IF InDebug(seen[a]) THEN "cleanup" ELSE "k8s", "failed", Committed(tx),
                Simulate(tx, db) = {})
  BY <1>1, <1>2, SubmitDoes, ActorFacts
<1>5. QED
  BY <1>1, <1>3, <1>4 DEF Submitted

Written(st, r, details) ==
  /\ Rec' # Nil /\ Rec'.status = st /\ Rec'.details = details
  /\ Rec'.params = Params[r] /\ SameVThings

\* Writing a record with what a request says writes just that.
LEMMA WriteDoes ==
  ASSUME LedgerType(db), NEW st \in {STATUS_PENDING, STATUS_RUNNING},
         NEW r \in Requests, NEW d \in Details, Committed(WriteCall(st, r, d))
  PROVE  Written(st, r, d)
<1>1. Rec' = Entry(st, Params[r], d) /\ SameVThings
  BY WriteRec
<1>2. st \in Status /\ Params[r] \in Texts
  BY Entries
<1>3. QED
  BY <1>1, <1>2, EntryFields DEF Written

\* The last step of a creation's job writes that it is running, or its error
\* is swallowed: the job ends either way.
LEMMA WriteRunningDoes ==
  ASSUME TypeInv, NEW r \in Queued,
         WriteRunning(r, WriteCall(STATUS_RUNNING, r, r))
  PROVE  /\ pc[Job(r)] = "running" /\ UNCHANGED rest
         /\ Submitted(Job(r), "ok", "ok", Written(STATUS_RUNNING, r, r), FALSE)
<1> DEFINE tx == WriteCall(STATUS_RUNNING, r, r)
<1>1. pc[Job(r)] = "running" /\ UNCHANGED rest /\ Submit(Job(r), tx, "ok", "ok")
  BY DEF WriteRunning
<1>2. tx \in Calls /\ LedgerType(db)
  BY CallsTyped, ActorFacts DEF TypeInv
<1>3. /\ Committed(tx) => Written(STATUS_RUNNING, r, r)
      /\ Simulate(tx, db) = {} => FALSE
  BY <1>2, WriteRec, WriteDoes, Entries, ActorFacts
<1> HIDE DEF tx
<1>4. Submitted(Job(r), "ok", "ok", Committed(tx), Simulate(tx, db) = {})
  BY <1>1, <1>2, SubmitDoes, ActorFacts
<1>5. QED
  BY <1>1, <1>3, <1>4 DEF Submitted

ParamsOnly(r) ==
  /\ Rec # Nil /\ Rec' # Nil
  /\ Rec'.status = Rec.status /\ Rec'.details = Rec.details
  /\ Rec'.params = Stringify(Params[r])
  /\ SameVThings

\* The job of an update writes its parameters, or its error is swallowed.
LEMMA UpdateJobDoes ==
  ASSUME TypeInv, NEW r \in Queued, UpdateJob(r)
  PROVE  /\ pc[Job(r)] = "update" /\ UNCHANGED rest
         /\ Submitted(Job(r), "ok", "ok", ParamsOnly(r), ~identity \/ Rec = Nil)
<1> DEFINE tx == PartialCall(r)
<1>1. tx \in Calls /\ LedgerType(db) /\ Stands /\ Job(r) \in Actors
  BY CallsTyped, ActorFacts DEF TypeInv
<1>2. /\ Committed(tx) => ParamsOnly(r)
      /\ Simulate(tx, db) = {} => Rec = Nil
  BY <1>1, PartialRec, ActorFacts DEF ParamsOnly
<1>3. /\ pc[Job(r)] = "update" /\ UNCHANGED rest
      /\ \/ ~identity /\ Goto(Job(r), "ok") /\ UNCHANGED <<db, faults>>
         \/ Submit(Job(r), tx, "ok", "ok")
  BY DEF UpdateJob
<1> HIDE DEF tx
<1>4. CASE ~identity /\ Goto(Job(r), "ok") /\ UNCHANGED <<db, faults>>
  BY <1>1, <1>3, <1>4, GotoMoves, SameLedger DEF Submitted
<1>5. CASE Submit(Job(r), tx, "ok", "ok")
  <2>1. Submitted(Job(r), "ok", "ok", Committed(tx), Simulate(tx, db) = {})
    BY <1>1, <1>5, SubmitDoes
  <2>2. QED
    BY <1>2, <1>3, <2>1 DEF Submitted
<1>6. QED
  BY <1>3, <1>4, <1>5

Announced(v) ==
  /\ Rec' = Rec /\ db'[VThingTVKey(v)] # Nil /\ db'[VThingTVKey(v)] = NoDetails
  /\ Attached' = Attached
  /\ \A u \in VThings : u # v => db'[VThingTVKey(u)] = db[VThingTVKey(u)]

\* The callback of a vThing registers it, when the ThingVisor is running, or
\* fails.
LEMMA RegisterVThingDoes ==
  ASSUME TypeInv, NEW h \in Handlers, RegisterVThing(h)
  PROVE  /\ pc[h] = "register" /\ UNCHANGED rest
         /\ \E v \in VThingsOfTV :
              Submitted(h, "ok", "failed", Is(STATUS_RUNNING) /\ Announced(v),
                        ~Is(STATUS_RUNNING))
<1>1. PICK v \in VThingsOfTV : Submit(h, AddCall(v), "ok", "failed")
  BY DEF RegisterVThing, AddCall
<1> DEFINE tx == AddCall(v)
<1>2. tx \in Calls /\ LedgerType(db) /\ h \in Actors
  BY CallsTyped, ActorFacts DEF TypeInv
<1>3. /\ Committed(tx) => Is(STATUS_RUNNING) /\ Announced(v)
      /\ Simulate(tx, db) = {} => ~Is(STATUS_RUNNING)
  BY <1>2, AddRec DEF Announced
<1> HIDE DEF tx
<1>4. Submitted(h, "ok", "failed", Committed(tx), Simulate(tx, db) = {})
  BY <1>1, <1>2, SubmitDoes DEF tx
<1>5. Submitted(h, "ok", "failed", Is(STATUS_RUNNING) /\ Announced(v),
                ~Is(STATUS_RUNNING))
  BY <1>3, <1>4 DEF Submitted
<1>6. QED
  BY <1>5 DEF RegisterVThing

-------------------------------------------------------------------------------
(***************************************************************************)
(* The first write of a creation job is tried again after a failure.       *)
(***************************************************************************)
LEMMA RetryDoes ==
  ASSUME TypeInv, NEW j \in Jobs, pc[j] \notin Ended, Retry(j)
  PROVE  /\ \E l \in {"waiting", "failed"} : Moved(j, l, seen[j])
         /\ Stands' /\ AttemptsLeft' /\ attempts' \in [Jobs -> 0..MaxAttempts]
<1> DEFINE l == IF attempts[j] + 1 < MaxAttempts THEN "waiting" ELSE "failed"
<1>1. Stands /\ j \in Actors /\ j \notin Handlers
  BY ActorFacts DEF TypeInv
<1>2. Moved(j, l, seen[j]) /\ Stands'
  BY <1>1, GotoMoves DEF Retry
<1>3. /\ attempts \in [Jobs -> 0..MaxAttempts] /\ MaxAttempts \in Nat
      /\ attempts[j] < MaxAttempts
      /\ attempts' = [attempts EXCEPT ![j] = @ + 1]
  BY ProcessAssumption
  DEF TypeInv, RestTyped, Places, AttemptsLeft, Retry, ProcessAssumption
<1>4. attempts' \in [Jobs -> 0..MaxAttempts]
  BY <1>3
<1>5. AttemptsLeft'
  BY <1>2, <1>3, ActorFacts
  DEF AttemptsLeft, TypeInv, Places, Moved, Ended
<1>6. QED
  BY <1>2, <1>4, <1>5

\* The first step of a creation's job writes that it is pending, or the job is
\* tried again or given up.
LEMMA WritePendingDoes ==
  ASSUME TypeInv, NEW r \in Queued,
         WritePending(r, WriteCall(STATUS_PENDING, r, NoDeployment))
  PROVE  /\ pc[Job(r)] = "pending"
         /\ UNCHANGED <<ctlVars, netVars, clusterVars>> /\ faults \subseteq faults'
         /\ \/ /\ Moved(Job(r), "subscribe", seen[Job(r)]) /\ identity
               /\ Written(STATUS_PENDING, r, NoDeployment) /\ faults' = faults
            \/ /\ \E l \in {"waiting", "failed"} : Moved(Job(r), l, seen[Job(r)])
               /\ ((db' = db /\ SameRec) \/ Written(STATUS_PENDING, r, NoDeployment))
               /\ \/ db' = db /\ SameRec /\ faults' = faults /\ ~identity
                  \/ "submit" \in faults'
         /\ Stands' /\ LedgerType(db') /\ AttemptsLeft'
         /\ attempts' \in [Jobs -> 0..MaxAttempts]
<1> DEFINE tx == WriteCall(STATUS_PENDING, r, NoDeployment)
<1>1. /\ tx \in Calls /\ LedgerType(db) /\ Stands
      /\ Job(r) \in Jobs /\ Job(r) \in Actors
  BY CallsTyped, ActorFacts DEF TypeInv
<1>2. /\ Committed(tx) => Written(STATUS_PENDING, r, NoDeployment)
      /\ Simulate(tx, db) # {}
  BY <1>1, WriteRec, WriteDoes, Entries, ActorFacts
<1> HIDE DEF tx
<1>3. /\ pc[Job(r)] = "pending"
      /\ UNCHANGED <<ctlVars, netVars, clusterVars>>
      /\ \/ ~identity /\ Retry(Job(r)) /\ UNCHANGED <<db, faults>>
         \/ /\ identity /\ Committed(tx) /\ Goto(Job(r), "subscribe")
            /\ UNCHANGED <<attempts, faults>>
         \/ Fault("submit") /\ (db' = db \/ Committed(tx)) /\ Retry(Job(r))
  BY <1>2 DEF WritePending, tx, Committed
<1>4. pc[Job(r)] \notin Ended
  BY <1>3 DEF Ended
<1>5. (db' = db => LedgerType(db')) /\ (Committed(tx) => LedgerType(db'))
  <2>1. Committed(tx) => LedgerType(db')
    BY <1>1, CommitTyped
  <2>2. QED
    BY <1>1, <2>1
<1>6. CASE ~identity /\ Retry(Job(r)) /\ UNCHANGED <<db, faults>>
  BY <1>1, <1>3, <1>4, <1>5, <1>6, RetryDoes, SameLedger
<1>7. CASE /\ identity /\ Committed(tx) /\ Goto(Job(r), "subscribe")
           /\ UNCHANGED <<attempts, faults>>
  <2>1. Moved(Job(r), "subscribe", seen[Job(r)]) /\ Stands'
    BY <1>1, <1>7, GotoMoves
  <2>2. AttemptsLeft' /\ attempts' \in [Jobs -> 0..MaxAttempts]
    BY <1>3, <1>4, <1>7, <2>1, ActorFacts
    DEF TypeInv, RestTyped, Places, AttemptsLeft, Moved
  <2>3. QED
    BY <1>2, <1>3, <1>5, <1>7, <2>1, <2>2
<1>8. CASE Fault("submit") /\ (db' = db \/ Committed(tx)) /\ Retry(Job(r))
  BY <1>1, <1>2, <1>3, <1>4, <1>5, <1>8, RetryDoes, SameLedger, FaultStays
<1>9. QED
  BY <1>3, <1>6, <1>7, <1>8

(***************************************************************************)
(* Queuing a job moves two actors.                                         *)
(***************************************************************************)
LEMMA EnqueueDoes ==
  ASSUME TypeInv, NEW r \in Requests, EnqueueJob(r)
  PROVE  /\ pc[r] = "enqueue" /\ UNCHANGED <<db, rest>> /\ faults \subseteq faults'
         /\ r \in Queued
         /\ Kind[r] \in {"add", "update"} /\ SameRec /\ Stands'
         /\ \/ Moved(r, "failed", seen[r]) /\ "enqueue" \in faults'
            \/ /\ pc[Job(r)] = "none" /\ faults' = faults
               /\ pc'[r] = (IF Kind[r] = "add" THEN "ok" ELSE "publish")
               /\ pc'[Job(r)] = "waiting"
               /\ seen'[r] = Nil /\ seen'[Job(r)] = Nil
               /\ \A b \in Actors \ {r, Job(r)} : pc'[b] = pc[b] /\ seen'[b] = seen[b]
<1>1. Stands /\ pc[r] = "enqueue" /\ UNCHANGED <<db, rest>> /\ r \in Actors
  BY ActorFacts DEF TypeInv, EnqueueJob, Enqueue
<1>2. Kind[r] \in {"add", "update"} /\ r \in Queued
  BY <1>1, WhoStands DEF Queued
<1>3. pc[Job(r)] = "none" /\ Job(r) \in Actors /\ Job(r) # r
  BY <1>1, <1>2, ActorFacts DEF TypeInv, Places, JobsPlaced, Before
<1>4. QED
  BY <1>1, <1>2, <1>3, GotoMoves, SameLedger, FaultStays
  DEF EnqueueJob, Enqueue, Stands

-------------------------------------------------------------------------------
(***************************************************************************)
(* Each step keeps the type invariant.                                     *)
(***************************************************************************)
KeptRest == UNCHANGED <<rest, pod, session>>

\* What stays the same keeps its types.
LEMMA KeptRestTyped == TypeInv /\ KeptRest => RestTyped'
  BY DEF TypeInv, RestTyped, KeptRest, rest, ctlVars, netVars, clusterVars

\* A step that counts no attempt leaves every job that goes on with an attempt
\* left.
LEMMA KeptAttempts ==
  ASSUME TypeInv, NEW a \in Actors, NEW l, NEW what, Moved(a, l, what),
         attempts' = attempts, a \in Jobs => pc[a] \notin Ended
  PROVE  AttemptsLeft'
  BY ActorFacts DEF TypeInv, Places, AttemptsLeft, Moved

\* A transaction keeps the type invariant.
LEMMA SubmittedTyped ==
  ASSUME TypeInv, KeptRest, NEW a \in Actors, NEW ok, NEW err,
         Fits(a, ok, seen[a]), Fits(a, err, seen[a]), a \in Jobs => pc[a] \notin Ended,
         Submitted(a, ok, err, TRUE, TRUE)
  PROVE  TypeInv'
<1>1. attempts' = attempts /\ UNCHANGED session
  BY DEF KeptRest, rest
<1>2. PICK l \in {ok, err} : Moved(a, l, seen[a])
  BY DEF Submitted
<1>3. QED
  BY <1>1, <1>2, KeptRestTyped, KeptAttempts, StepTyped DEF Submitted

\* Creating the record keeps the type invariant.
LEMMA CreateTyped ==
  ASSUME TypeInv, KeptRest, NEW r \in Requests, Create(r)
  PROVE  TypeInv'
<1>1. Submitted(r, "enqueue", "failed", TRUE, TRUE)
  BY CreateDoes DEF Submitted
<1>2. Fits(r, "enqueue", seen[r]) /\ Fits(r, "failed", seen[r])
  BY CreateDoes, WhoStands, ActorFacts
  DEF Fits, RequestLabels, Before, Holding, TypeInv, Places, HandsFull
<1>3. QED
  BY <1>1, <1>2, SubmittedTyped, ActorFacts

\* Marking the record as stopping keeps the type invariant.
LEMMA StopTyped ==
  ASSUME TypeInv, KeptRest, NEW r \in Requests, Stop(r)
  PROVE  TypeInv'
<1>1. Submitted(r, "publish", "failed", TRUE, TRUE)
  BY StopDoes DEF Submitted
<1>2. Fits(r, "publish", seen[r]) /\ Fits(r, "failed", seen[r])
  BY StopDoes, WhoStands, ActorFacts
  DEF Fits, RequestLabels, Before, Holding, TypeInv, Places, HandsFull
<1>3. QED
  BY <1>1, <1>2, SubmittedTyped, ActorFacts

\* The drop of debug mode keeps the type invariant.
LEMMA DebugDropTyped ==
  ASSUME TypeInv, KeptRest, NEW r \in Requests, DebugDrop(r)
  PROVE  TypeInv'
<1>1. Submitted(r, "ok", "failed", TRUE, TRUE)
  BY DebugDropDoes DEF Submitted
<1>2. Fits(r, "ok", seen[r]) /\ Fits(r, "failed", seen[r])
  BY ActorFacts DEF Fits, RequestLabels, Before, Holding, TypeInv, Places, HandsFull
<1>3. QED
  BY <1>1, <1>2, SubmittedTyped, ActorFacts

\* Dropping the record keeps the type invariant.
LEMMA DropTyped ==
  ASSUME TypeInv, KeptRest, NEW a \in Actors, Drop(a)
  PROVE  TypeInv'
<1>1. pc[a] = "drop"
      /\ Submitted(a, IF InDebug(seen[a]) THEN "cleanup" ELSE "k8s", "failed", TRUE, TRUE)
  BY DropDoes DEF Submitted
<1>2. (a \in Requests => Kind[a] = "force") /\ a \notin Jobs
      /\ a \in Requests \cup Handlers
      /\ seen[a] # Nil /\ seen[a] \in Hand
  BY <1>1, WhoStands, ActorFacts DEF TypeInv, Places, HandsFull, Holding
<1>3. \A l \in {"cleanup", "k8s", "failed"} : Fits(a, l, seen[a])
  BY <1>2, ActorFacts DEF Fits, RequestLabels, HandlerLabels, Ended, Before
<1>4. QED
  BY <1>1, <1>2, <1>3, SubmittedTyped

\* Writing that the ThingVisor is running keeps the type invariant.
LEMMA WriteRunningTyped ==
  ASSUME TypeInv, KeptRest, NEW r \in Queued,
         WriteRunning(r, WriteCall(STATUS_RUNNING, r, r))
  PROVE  TypeInv'
<1>1. pc[Job(r)] = "running" /\ Submitted(Job(r), "ok", "ok", TRUE, TRUE)
  BY WriteRunningDoes DEF Submitted
<1>2. Fits(Job(r), "ok", seen[Job(r)])
  BY <1>1, ActorFacts DEF Fits, JobLabels, Holding, Hand, TypeInv, Places, JobsPlaced
<1>3. QED
  BY <1>1, <1>2, SubmittedTyped, ActorFacts DEF Ended

\* The job of an update keeps the type invariant.
LEMMA UpdateJobTyped ==
  ASSUME TypeInv, KeptRest, NEW r \in Queued, UpdateJob(r)
  PROVE  TypeInv'
<1>1. pc[Job(r)] = "update" /\ Submitted(Job(r), "ok", "ok", TRUE, TRUE)
  BY UpdateJobDoes DEF Submitted
<1>2. Fits(Job(r), "ok", seen[Job(r)])
  BY <1>1, ActorFacts DEF Fits, JobLabels, Holding, Hand, TypeInv, Places, JobsPlaced
<1>3. QED
  BY <1>1, <1>2, SubmittedTyped, ActorFacts DEF Ended

\* Registering a vThing keeps the type invariant.
LEMMA RegisterVThingTyped ==
  ASSUME TypeInv, KeptRest, NEW h \in Handlers, RegisterVThing(h)
  PROVE  TypeInv'
<1>1. Submitted(h, "ok", "failed", TRUE, TRUE)
  BY RegisterVThingDoes DEF Submitted
<1>2. Fits(h, "ok", seen[h]) /\ Fits(h, "failed", seen[h])
  BY ActorFacts DEF Fits, Ended, Holding, TypeInv, Places, HandsFull
<1>3. QED
  BY <1>1, <1>2, SubmittedTyped, ActorFacts

\* An actor that goes to a place that fits it keeps the type invariant.
LEMMA GoTyped ==
  ASSUME TypeInv, NEW a \in Actors, NEW l, NEW what, GoSeeing(a, l, what),
         Fits(a, l, what), a \in Jobs => pc[a] \notin Ended,
         UNCHANGED <<session, db, attempts>>, RestTyped'
  PROVE  TypeInv'
<1>1. Moved(a, l, what) /\ Stands' /\ LedgerType(db')
  BY GoSeeingMoves DEF TypeInv
<1>2. QED
  BY <1>1, KeptAttempts, StepTyped

\* Accepting a request keeps the type invariant.
LEMMA AcceptTyped ==
  ASSUME TypeInv, NEW r \in Requests, Accept(r), UNCHANGED <<pod, session>>
  PROVE  TypeInv'
<1> DEFINE l == IF Kind[r] = "add" THEN "create" ELSE "get"
<1>1. pc[r] = "new" /\ GoSeeing(r, l, seen[r]) /\ UNCHANGED <<db, rest, faults>>
  BY DEF Accept, Start, Goto
<1>2. Fits(r, l, seen[r])
  BY <1>1, ActorFacts
  DEF Accept, Own, Fits, RequestLabels, Before, Holding, TypeInv, Places, HandsFull
<1>3. QED
  BY <1>1, <1>2, GoTyped, KeptRestTyped, ActorFacts DEF KeptRest, rest

\* Reading the record keeps the type invariant.
LEMMA GetTyped ==
  ASSUME TypeInv, NEW a \in Actors, Get(a), UNCHANGED <<pod, session>>
  PROVE  TypeInv'
<1>1. pc[a] = "get" /\ UNCHANGED <<db, rest, faults>>
      /\ \/ GoSeeing(a, "failed", seen[a])
         \/ Rec # Nil /\ GoSeeing(a, AfterGet(a), Rec)
  BY DEF Get, Read, Goto
<1>2. /\ a \in Requests => Kind[a] \in {"update", "delete", "force"}
      /\ a \notin Jobs /\ a \in Requests \cup Handlers
      /\ seen[a] \in Hand
      /\ Rec \in Hand
  BY <1>1, WhoStands, RecType, ActorFacts DEF TypeInv, Places, HandsFull, Hand
<1>3. Fits(a, "failed", seen[a]) /\ (Rec # Nil => Fits(a, AfterGet(a), Rec))
  BY <1>1, <1>2, ActorFacts
  DEF Fits, AfterGet, RequestLabels, HandlerLabels, Ended, Before, Holding
<1>4. QED
  BY <1>1, <1>2, <1>3, GoTyped, KeptRestTyped DEF KeptRest, rest

\* What the controller publishes is a command.
LEMMA MessageTyped ==
  /\ \A r \in Requests : Message(r) \in Commands
  /\ [cmd |-> "createVThings", params |-> ""] \in Commands
  BY LifecycleAssumption, ChaincodeAssumption
  DEF Message, LifecycleAssumption, ChaincodeAssumption, Commands

\* Publishing a command keeps the type invariant.
LEMMA PublishTyped ==
  ASSUME TypeInv, NEW r \in Requests, Publish(r), UNCHANGED <<pod, session>>
  PROVE  TypeInv'
<1> DEFINE l == IF Kind[r] = "delete" /\ InDebug(seen[r]) THEN "debugDrop" ELSE "ok"
<1>1. /\ pc[r] = "publish" /\ toPod' = Append(toPod, Message(r))
      /\ GoSeeing(r, l, seen[r])
      /\ UNCHANGED <<db, attempts, ctlVars, toCtl, lost, clusterVars, faults>>
  BY DEF Publish, PublishTo, Goto
<1>2. Fits(r, l, seen[r])
  BY <1>1, WhoStands, ActorFacts
  DEF InDebug, Fits, RequestLabels, Before, Holding, TypeInv, Places, HandsFull,
      RequestsPlaced
<1>3. RestTyped'
  BY <1>1, MessageTyped, QueueTypes DEF TypeInv, RestTyped, ctlVars, clusterVars
<1>4. QED
  BY <1>1, <1>2, <1>3, GoTyped, ActorFacts

\* Beginning a job, or trying it again, keeps the type invariant.
LEMMA BeginJobTyped ==
  ASSUME TypeInv, NEW r \in Queued, BeginJob(r), UNCHANGED <<pod, session>>
  PROVE  TypeInv'
<1> DEFINE l == IF Kind[r] = "add" THEN "pending" ELSE "update"
<1>1. /\ pc[Job(r)] = "waiting" /\ UNCHANGED <<db, rest, faults>>
      /\ GoSeeing(Job(r), l, seen[Job(r)])
  BY DEF BeginJob, StartJob, Goto
<1>2. Fits(Job(r), l, seen[Job(r)])
  BY <1>1, WhoStands, ActorFacts
  DEF Fits, JobLabels, Holding, Hand, TypeInv, Places, JobsPlaced
<1>3. QED
  BY <1>1, <1>2, GoTyped, KeptRestTyped, ActorFacts DEF KeptRest, rest, Ended

\* Every step of a creation's job keeps the type invariant.
LEMMA CreationTyped ==
  ASSUME TypeInv, NEW r \in Queued, CreateThingVisorOnKubernetes(r),
         UNCHANGED <<pod, session>>
  PROVE  TypeInv'
<1>0. /\ Job(r) \in Actors /\ Job(r) \in Jobs /\ seen[Job(r)] = Nil
      /\ Job(r) \notin Requests /\ Job(r) \notin Handlers
      /\ \A q \in Queued : Job(q) = Job(r) => q = r
  BY ActorFacts DEF TypeInv, Places, JobsPlaced
<1>1. ASSUME Kind[r] = "add", pc[Job(r)] # "none",
             NEW l \in {"waiting", "failed", "subscribe", "service", "deploy", "running", "ok"}
      PROVE  Fits(Job(r), l, seen[Job(r)])
  BY <1>0, <1>1 DEF Fits, JobLabels, Holding, Hand
<1>2. CASE WritePending(r, WriteCall(STATUS_PENDING, r, NoDeployment))
  <2>1. /\ pc[Job(r)] = "pending" /\ Kind[r] = "add"
        /\ \E l \in {"waiting", "failed", "subscribe"} : Moved(Job(r), l, seen[Job(r)])
    BY <1>2, WritePendingDoes, WhoStands
  <2>2. Stands' /\ LedgerType(db') /\ AttemptsLeft' /\ RestTyped'
    BY <1>2, WritePendingDoes DEF TypeInv, RestTyped, ctlVars, netVars, clusterVars
  <2>3. QED
    BY <1>0, <1>1, <2>1, <2>2, StepTyped
<1>3. CASE Subscribe(r)
  <2>1. /\ pc[Job(r)] = "subscribe" /\ Kind[r] = "add"
        /\ GoSeeing(Job(r), "service", seen[Job(r)])
        /\ RestTyped' /\ UNCHANGED <<db, attempts>>
    BY <1>3, WhoStands DEF Subscribe, Goto, TypeInv, RestTyped, netVars, clusterVars
  <2>2. QED
    BY <1>0, <1>1, <2>1, GoTyped DEF Ended
<1>4. CASE CreateService(r)
  <2>1. HasService \in BOOLEAN
    BY ProcessAssumption DEF TypeInv, HasService, ProcessAssumption
  <2>2. /\ pc[Job(r)] = "service" /\ Kind[r] = "add"
        /\ \E l \in {"deploy", "ok"} : GoSeeing(Job(r), l, seen[Job(r)])
        /\ RestTyped' /\ UNCHANGED <<db, attempts>>
    BY <1>4, <2>1, WhoStands DEF CreateService, Goto, TypeInv, RestTyped, netVars, ctlVars
  <2>3. QED
    BY <1>0, <1>1, <2>2, GoTyped DEF Ended
<1>5. CASE CreateDeployment(r)
  <2>1. /\ pc[Job(r)] = "deploy" /\ Kind[r] = "add" /\ r \in Creations
    BY <1>5, WhoStands, ActorFacts DEF CreateDeployment, Creations
  <2>2. /\ \E l \in {"running", "ok"} : GoSeeing(Job(r), l, seen[Job(r)])
        /\ RestTyped' /\ UNCHANGED <<db, attempts>>
    BY <1>5, <2>1 DEF CreateDeployment, Goto, TypeInv, RestTyped, netVars, ctlVars
  <2>3. QED
    BY <1>0, <1>1, <2>1, <2>2, GoTyped DEF Ended
<1>6. CASE WriteRunning(r, WriteCall(STATUS_RUNNING, r, r))
  BY <1>6, WriteRunningTyped DEF KeptRest, WriteRunning
<1>7. QED
  BY <1>2, <1>3, <1>4, <1>5, <1>6 DEF CreateThingVisorOnKubernetes

\* Queuing a job keeps the type invariant.
LEMMA EnqueueTyped ==
  ASSUME TypeInv, NEW r \in Requests, EnqueueJob(r), UNCHANGED <<pod, session>>
  PROVE  TypeInv'
<1>1. /\ pc[r] = "enqueue" /\ KeptRest /\ db' = db /\ attempts' = attempts
      /\ r \in Queued /\ Kind[r] \in {"add", "update"} /\ Stands'
  BY EnqueueDoes DEF KeptRest, rest
<1>2. LedgerType(db') /\ RestTyped' /\ session' \in Sessions
  BY <1>1, KeptRestTyped DEF TypeInv, KeptRest
<1>3. CASE Moved(r, "failed", seen[r])
  <2>1. Fits(r, "failed", seen[r])
    BY ActorFacts DEF Fits, RequestLabels, Before, Holding, TypeInv, Places, HandsFull
  <2>2. QED
    BY <1>1, <1>2, <1>3, <2>1, KeptAttempts, StepTyped, ActorFacts DEF KeptRest
<1>4. CASE /\ pc'[r] = (IF Kind[r] = "add" THEN "ok" ELSE "publish")
           /\ pc[Job(r)] = "none" /\ pc'[Job(r)] = "waiting"
           /\ seen'[r] = Nil /\ seen'[Job(r)] = Nil
           /\ \A b \in Actors \ {r, Job(r)} : pc'[b] = pc[b] /\ seen'[b] = seen[b]
  <2>0. \A q \in Queued : q # r =>
          /\ q \in Actors \ {r, Job(r)} /\ Job(q) \in Actors \ {r, Job(r)}
    BY <1>1, ActorFacts
  <2> USE ActorFacts DEF TypeInv, Places
  <2>1. RequestsPlaced'
    BY <1>1, <1>4 DEF RequestsPlaced, RequestLabels, KeptRest, DebugMode
  <2>2. JobsPlaced'
    <3> SUFFICES ASSUME NEW q \in Queued
                 PROVE  /\ pc'[Job(q)] \in JobLabels(Kind[q]) /\ seen'[Job(q)] = Nil
                        /\ pc'[q] \in Before => pc'[Job(q)] = "none"
      BY DEF JobsPlaced
    <3>1. CASE q = r
      BY <1>1, <1>4, <3>1 DEF JobLabels, Before
    <3>2. CASE q # r
      <4>0. /\ q \in Actors \ {r, Job(r)} /\ Job(q) \in Actors \ {r, Job(r)}
        BY <2>0, <3>2
      <4>1. pc'[Job(q)] = pc[Job(q)] /\ seen'[Job(q)] = seen[Job(q)] /\ pc'[q] = pc[q]
        BY ONLY <1>4, <4>0
      <4>2. QED
        BY <4>1 DEF JobsPlaced
    <3>3. QED
      BY <3>1, <3>2
  <2>3. HandlersPlaced'
    <3>1. \A h \in Handlers : pc'[h] = pc[h]
      BY <1>1, <1>4
    <3>2. QED
      BY <3>1 DEF HandlersPlaced
  <2>4. HandsFull'
    BY <1>4 DEF HandsFull, Holding, Hand
  <2>5. AttemptsLeft'
    BY <1>1, <1>4 DEF AttemptsLeft, Ended
  <2>6. QED
    BY <1>1, <1>2, <2>1, <2>2, <2>3, <2>4, <2>5
<1>5. QED
  BY <1>3, <1>4, EnqueueDoes

\* Deleting the Deployment and the Service keeps the type invariant.
LEMMA DeleteOnKubernetesTyped ==
  ASSUME TypeInv, NEW a \in Actors, DeleteOnKubernetes(a), UNCHANGED <<pod, session>>
  PROVE  TypeInv'
<1>1. /\ pc[a] = "k8s" /\ UNCHANGED <<db, attempts>>
      /\ \E l \in {"cleanup", "failed"} : GoSeeing(a, l, seen[a])
      /\ RestTyped'
  BY DEF DeleteOnKubernetes, DeleteDeployment, Goto, TypeInv, RestTyped, ctlVars, netVars
<1>2. /\ a \in Requests => Kind[a] = "force"
      /\ a \notin Jobs /\ a \in Requests \cup Handlers
      /\ seen[a] # Nil /\ seen[a] \in Hand
  BY <1>1, WhoStands, ActorFacts DEF TypeInv, Places, HandsFull, Holding
<1>3. \A l \in {"cleanup", "failed"} : Fits(a, l, seen[a])
  BY <1>2, ActorFacts DEF Fits, RequestLabels, HandlerLabels, Ended, Before
<1>4. QED
  BY <1>1, <1>2, <1>3, GoTyped

\* Taking the callback and the subscription away keeps the type invariant.
LEMMA ForgetTyped ==
  ASSUME TypeInv, NEW a \in Actors, ForgetThingVisor(a), UNCHANGED <<pod, session>>
  PROVE  TypeInv'
<1>1. HasService \in BOOLEAN /\ DebugMode \in BOOLEAN
  BY ProcessAssumption, LifecycleAssumption
  DEF TypeInv, HasService, DebugMode, ProcessAssumption, LifecycleAssumption
<1>2. doomed' \in BOOLEAN
  BY <1>1 DEF ForgetThingVisor, LeavesRejection, TypeInv, RestTyped
<1>3. /\ pc[a] = "cleanup" /\ UNCHANGED <<db, attempts>> /\ GoSeeing(a, "ok", seen[a])
      /\ RestTyped'
  BY <1>2 DEF ForgetThingVisor, Cleanup, Goto, TypeInv, RestTyped, clusterVars, netVars
<1>4. a \notin Jobs /\ seen[a] \in Hand
  BY <1>3, WhoStands, ActorFacts DEF TypeInv, Places, HandsFull
<1>5. Fits(a, "ok", seen[a])
  BY <1>4, ActorFacts DEF Fits, RequestLabels, Ended, Before, Holding
<1>6. QED
  BY <1>3, <1>4, <1>5, GoTyped

\* A callback that goes to one of its places keeps the type invariant.
LEMMA HandlerTyped ==
  ASSUME TypeInv, NEW h \in Handlers,
         NEW l \in {"register", "init", "ok", "poll", "pollInit", "get"},
         Goto(h, l), UNCHANGED <<db, attempts, session>>, RestTyped'
  PROVE  TypeInv'
<1>1. Fits(h, l, seen[h])
  BY ActorFacts DEF Fits, HandlerLabels, Ended, Holding, TypeInv, Places, HandsFull
<1>2. QED
  BY <1>1, GoTyped, ActorFacts DEF Goto

\* A callback that polls, or asks the program to begin, keeps the type invariant.
LEMMA PollTyped ==
  ASSUME TypeInv, NEW h \in Handlers, PollRunning(h) \/ PollInit(h) \/ PublishInit(h),
         UNCHANGED <<pod, session>>
  PROVE  TypeInv'
<1>1. CASE PollRunning(h) \/ PollInit(h)
  BY <1>1, HandlerTyped, KeptRestTyped DEF PollRunning, PollInit, KeptRest, rest
<1>2. CASE PublishInit(h)
  <2> DEFINE msg == [cmd |-> "createVThings", params |-> ""]
  <2>1. msg \in Commands
    BY MessageTyped
  <2>2. toPod' = Append(toPod, msg)
    BY <1>2 DEF PublishInit, PublishTo
  <2> HIDE DEF msg
  <2>3. RestTyped'
    BY <1>2, <2>1, <2>2, QueueTypes
    DEF PublishInit, PublishTo, TypeInv, RestTyped, ctlVars, clusterVars
  <2>4. QED
    BY <1>2, <2>3, HandlerTyped DEF PublishInit, PublishTo
<1>3. QED
  BY <1>1, <1>2

\* Receiving a report keeps the type invariant.
LEMMA ReceiveTyped ==
  ASSUME TypeInv, Receive, UNCHANGED <<pod, session>>
  PROVE  TypeInv'
<1>1. Head(toCtl) \in Reports /\ toCtl' \in Seq(Reports)
  BY QueueTypes DEF Receive, TypeInv, RestTyped
<1>2. RestTyped'
  BY <1>1 DEF Receive, TypeInv, RestTyped, ctlVars, clusterVars
<1>3. CASE UNCHANGED <<pc, seen>>
  BY <1>2, <1>3
  DEF Receive, TypeInv, Stands, Places, RequestsPlaced, JobsPlaced, AttemptsLeft,
      HandlersPlaced, HandsFull, DebugMode
<1>4. ASSUME NEW h \in Handlers, Goto(h, FirstStep(Head(toCtl)))
      PROVE  TypeInv'
  <2>1. FirstStep(Head(toCtl)) \in {"poll", "pollInit", "get"}
    BY <1>1 DEF FirstStep, Reports
  <2>2. QED
    BY <1>2, <1>4, <2>1, HandlerTyped DEF Receive
<1>5. QED
  BY <1>3, <1>4 DEF Receive

\* A step that moves nobody keeps the type invariant.
LEMMA StillTyped ==
  ASSUME TypeInv, UNCHANGED <<db, pc, seen, attempts, session>>, RestTyped'
  PROVE  TypeInv'
  BY DEF TypeInv, Stands, Places, RequestsPlaced, JobsPlaced, AttemptsLeft,
      HandlersPlaced, HandsFull, DebugMode

\* Some program listens.
SomeUp == \E a \in Creations : pod[a].st = "up"

\* A program that listens takes the parameters of an update that has any.
Empty == ""

PodsTake(m) ==
  \A a \in Creations :
    /\ pod'[a].st = pod[a].st
    /\ pod'[a].params = IF /\ pod[a].st = "up" /\ m.cmd = "updateTV"
                           /\ ~RequestsInit /\ m.params # Empty
                        THEN m.params ELSE pod[a].params

\* The programs take the first command; one that tells them to stop is
\* acknowledged by those that listen, or lost.
LEMMA PodsReceiveDoes ==
  ASSUME TypeInv, PodsReceive
  PROVE  /\ toPod # <<>> /\ toPod' = Tail(toPod) /\ Head(toPod) \in Commands
         /\ UNCHANGED <<db, procVars, ctlVars, deployment, service, faults>>
         /\ lost \subseteq lost'
         /\ pod' \in [Creations -> Pods]
         /\ PodsTake(Head(toPod))
         /\ \E acks \in Seq(Reports) :
              /\ toCtl' = toCtl \o acks
              /\ Head(toPod).cmd = "destroyTV" =>
                   \/ "destroyTV" \in lost'
                   \/ Elems(acks) = {"destroyTVAck"}
              /\ Head(toPod).cmd # "destroyTV" => "destroyTVAck" \notin Elems(acks)
              /\ Head(toPod).cmd = "createVThings" /\ RequestsInit /\ SomeUp =>
                   "createVThing" \in Elems(acks)
              /\ ~SomeUp => Elems(acks) = {}
              /\ "requestInit" \notin Elems(acks)
              /\ "createVThing" \in Elems(acks) => Head(toPod).cmd = "createVThings" /\ RequestsInit
         /\ SomeUp \/ Head(toPod).cmd \in lost'
<1> DEFINE m     == Head(toPod)
           up    == {a \in Creations : pod[a].st = "up"}
           reply == CASE m.cmd = "destroyTV"     -> {"destroyTVAck"}
                      [] m.cmd = "createVThings" ->
                           IF RequestsInit THEN {"createVThing"} ELSE {}
                      [] OTHER                   -> {}
           n     == Cardinality(reply \X up)
           acks  == [i \in 1..n |-> CHOOSE x \in reply : TRUE]
<1>1. /\ pod \in [Creations -> Pods] /\ toCtl \in Seq(Reports) /\ toPod \in Seq(Commands)
      /\ Creations \subseteq Requests
  BY ActorFacts DEF TypeInv, RestTyped
<1>2. toPod # <<>> /\ m \in Commands
  BY <1>1, QueueTypes DEF PodsReceive
<1>3. \A a \in Creations :
        /\ pod[a] \in Pods
        /\ m.cmd = "updateTV" => [pod[a] EXCEPT !.params = m.params] \in Pods
        /\ [pod[a] EXCEPT !.params = m.params].st = pod[a].st
        /\ [pod[a] EXCEPT !.params = m.params].params = m.params
  BY <1>1, <1>2 DEF Pods, Commands
<1>4. pod' = [a \in Creations |->
                IF a \in up /\ m.cmd = "updateTV" /\ ~RequestsInit /\ m.params # Empty
                THEN [pod[a] EXCEPT !.params = m.params] ELSE pod[a]]
  BY DEF PodsReceive, Empty
<1>5. pod' \in [Creations -> Pods] /\ PodsTake(m)
  <2>0. \A a \in Creations : a \in up <=> pod[a].st = "up"
    OBVIOUS
  <2> HIDE DEF m, up
  <2>1. QED
    BY <1>3, <1>4, <2>0 DEF PodsTake
<1>6. /\ toPod' = Tail(toPod) /\ toCtl' = toCtl \o acks
      /\ lost' = IF up = {} THEN lost \cup {m.cmd} ELSE lost
      /\ UNCHANGED <<db, procVars, ctlVars, deployment, service, faults>>
  BY DEF PodsReceive
<1>7. /\ reply \subseteq Reports /\ IsFiniteSet(reply)
      /\ m.cmd = "destroyTV" => reply = {"destroyTVAck"}
      /\ m.cmd # "destroyTV" => "destroyTVAck" \notin reply
      /\ m.cmd = "createVThings" /\ RequestsInit => reply = {"createVThing"}
      /\ "requestInit" \notin reply
      /\ "createVThing" \in reply => m.cmd = "createVThings" /\ RequestsInit
      /\ SomeUp <=> up # {}
  BY FS_EmptySet, FS_Singleton DEF Reports, SomeUp
<1>8. IsFiniteSet(up)
  BY <1>1, FS_Subset, ActorAssumption DEF ActorAssumption
<1> HIDE DEF m, up, reply
<1>9. IsFiniteSet(reply \X up)
  BY <1>7, <1>8, FS_Product
<1>10. n \in Nat /\ (n = 0 <=> reply \X up = {})
  BY <1>9, FS_CardinalityType, FS_EmptySet
<1>11. n # 0 => (CHOOSE x \in reply : TRUE) \in reply
  <2>1. n # 0 => reply # {}
    BY <1>10
  <2>2. QED
    BY <2>1
<1>12. acks \in [1..n -> Reports] /\ (\A i \in 1..n : acks[i] \in reply)
  <2> HIDE DEF n
  <2>1. QED
    BY <1>7, <1>10, <1>11
<1> HIDE DEF acks
<1>13. acks \in Seq(Reports) /\ Len(acks) = n
  <2>1. acks \in Seq(Reports)
    BY <1>10, <1>12, SeqDef
  <2>2. DOMAIN acks = 1..n /\ DOMAIN acks = 1..Len(acks) /\ Len(acks) \in Nat
    BY <1>12, <2>1, LenProperties
  <2> HIDE DEF n
  <2>3. QED
    BY <1>10, <2>1, <2>2
<1>14. /\ Elems(acks) \subseteq reply /\ (n # 0 => Elems(acks) # {})
       /\ ~SomeUp => Elems(acks) = {}
  <2>0. ~SomeUp => n = 0
    <3>1. ~SomeUp => reply \X up = {}
      BY <1>7
    <3>2. QED
      BY <1>10, <3>1
  <2> HIDE DEF n
  <2>1. (n # 0 => 1 \in 1..n) /\ (n = 0 => 1..n = {})
    BY <1>10
  <2>2. QED
    BY <1>12, <1>13, <2>0, <2>1 DEF Elems
<1>15. m.cmd = "destroyTV" => "destroyTV" \in lost' \/ Elems(acks) = {"destroyTVAck"}
  <2>1. ASSUME m.cmd = "destroyTV", NEW a \in up
        PROVE  <<"destroyTVAck", a>> \in reply \X up
    BY <1>7, <2>1
  <2>2. QED
    BY <1>6, <1>7, <1>10, <1>14, <2>1
<1>16. /\ m.cmd = "createVThings" /\ RequestsInit /\ SomeUp => "createVThing" \in Elems(acks)
       /\ SomeUp \/ m.cmd \in lost'
  <2>1. ASSUME m.cmd = "createVThings", RequestsInit, NEW a \in up
        PROVE  <<"createVThing", a>> \in reply \X up
    BY <1>7, <2>1
  <2>2. QED
    BY <1>6, <1>7, <1>10, <1>14, <2>1
<1>17. QED
  BY <1>2, <1>5, <1>6, <1>7, <1>13, <1>14, <1>15, <1>16 DEF m

\* The steps of the programs and their pods keep the type invariant.
LEMMA PodsTyped ==
  ASSUME TypeInv,
         \/ PodsReceive
         \/ \E a \in Creations :
              PodStarts(a) \/ PodListens(a) \/ PodStops(a) \/ PodRestarts(a),
         UNCHANGED session
  PROVE  TypeInv'
<1>0. /\ pod \in [Creations -> Pods] /\ toCtl \in Seq(Reports) /\ toPod \in Seq(Commands)
      /\ "" \in Texts /\ \A r \in Requests : Params[r] \in Texts
      /\ Creations \subseteq Requests
      /\ "requestInit" \in Reports /\ "createVThing" \in Reports
  BY ChaincodeAssumption, LifecycleAssumption, ActorFacts
  DEF TypeInv, RestTyped, ChaincodeAssumption, LifecycleAssumption, Reports
<1>1. CASE PodsReceive
  <2>0. /\ toPod # <<>> /\ toPod' = Tail(toPod)
        /\ pod' \in [Creations -> Pods]
        /\ UNCHANGED <<db, procVars, ctlVars, deployment, service>>
        /\ \E acks \in Seq(Reports) : toCtl' = toCtl \o acks
    BY <1>1, PodsReceiveDoes
  <2>1. toPod' \in Seq(Commands) /\ toCtl' \in Seq(Reports)
    BY <1>0, <2>0, QueueTypes
  <2>2. RestTyped'
    BY <2>0, <2>1 DEF TypeInv, RestTyped, procVars, ctlVars
  <2>3. QED
    BY <2>0, <2>2, StillTyped DEF procVars
<1>2. ASSUME NEW a \in Creations, PodStarts(a)
      PROVE  TypeInv'
  <2>1. toCtl' \in Seq(Reports)
    BY <1>0, <1>2, QueueTypes DEF PodStarts
  <2>2. pod' \in [Creations -> Pods]
    BY <1>0, <1>2 DEF PodStarts, Pods
  <2>3. UNCHANGED <<db, procVars, ctlVars, toPod, deployment, service>>
    BY <1>2 DEF PodStarts
  <2>4. RestTyped'
    BY <2>1, <2>2, <2>3 DEF TypeInv, RestTyped, procVars, ctlVars
  <2>5. QED
    BY <2>3, <2>4, StillTyped DEF procVars
<1>3. ASSUME NEW a \in Creations, PodListens(a) \/ PodStops(a) \/ PodRestarts(a)
      PROVE  TypeInv'
  <2>1. NoPod \in Pods /\ [pod[a] EXCEPT !.st = "up"] \in Pods
    BY <1>0 DEF NoPod, Pods
  <2>2. pod' \in [Creations -> Pods]
    BY <1>0, <1>3, <2>1 DEF PodListens, PodStops, PodRestarts
  <2>3. UNCHANGED <<db, procVars, ctlVars, netVars, deployment, service>>
    BY <1>3 DEF PodListens, PodStops, PodRestarts
  <2>4. RestTyped'
    BY <2>2, <2>3 DEF TypeInv, RestTyped, procVars, ctlVars, netVars
  <2>5. QED
    BY <2>3, <2>4, StillTyped DEF procVars
<1>4. QED
  BY <1>1, <1>2, <1>3

\* Losing a message keeps the type invariant.
LEMMA LoseTyped ==
  ASSUME TypeInv, Lose, UNCHANGED <<pod, session>>
  PROVE  TypeInv'
<1>1. /\ toPod # <<>> => Tail(toPod) \in Seq(Commands)
      /\ toCtl # <<>> => Tail(toCtl) \in Seq(Reports)
  BY QueueTypes DEF TypeInv, RestTyped
<1>2. RestTyped' /\ UNCHANGED <<db, procVars>>
  BY <1>1 DEF Lose, TypeInv, RestTyped, procVars, ctlVars, clusterVars
<1>3. QED
  BY <1>2, StillTyped DEF procVars

\* The login of the administrator keeps the type invariant.
LEMMA LoginTyped ==
  ASSUME TypeInv, Login, UNCHANGED <<pod, session>>
  PROVE  TypeInv'
<1>1. RestTyped' /\ UNCHANGED <<db, procVars>>
  BY DEF Login, TypeInv, RestTyped, procVars, netVars, clusterVars
<1>2. QED
  BY <1>1, StillTyped DEF procVars

\* A restart keeps the type invariant.
LEMMA RestartTyped ==
  ASSUME TypeInv, Restart, UNCHANGED <<pod, session>>
  PROVE  TypeInv'
<1> USE RestartMoves, ActorFacts DEF TypeInv, Places
<1>1. RestTyped'
  <2>1. toCtl' \in Seq(Reports)
    <3>1. toCtl \in Seq(Reports) /\ <<>> \in Seq(Reports)
      BY QueueTypes DEF RestTyped
    <3>2. QED
      BY ONLY <3>1, Restart DEF Restart
  <2>2. callback' = FALSE /\ identity' = FALSE /\ doomed' = FALSE
        /\ UNCHANGED <<attempts, subscribed, toPod, clusterVars>>
    BY DEF Restart
  <2>3. QED
    BY <2>1, <2>2 DEF RestTyped, clusterVars
<1>2. RequestsPlaced'
  BY DEF RequestsPlaced, RequestLabels, AtRest, Ended, DebugMode
<1>3. JobsPlaced'
  <2>1. \A r \in Queued : pc'[r] \in Before => pc[r] \in Before
    BY DEF Before
  <2>2. \A r \in Queued : pc[Job(r)] \in JobLabels(Kind[r])
                            => pc'[Job(r)] \in JobLabels(Kind[r])
    BY DEF JobLabels, AtRest, Ended
  <2>3. QED
    BY <2>1, <2>2 DEF JobsPlaced, AtRest
<1>4. HandlersPlaced'
  BY DEF HandlersPlaced, HandlerLabels
<1>5. HandsFull'
  <2>1. \A r \in Requests : seen'[r] = Nil /\ pc'[r] \notin Holding
    BY DEF AtRest, Ended, Holding
  <2>2. \A h \in Handlers : seen'[h] = Nil /\ pc'[h] \notin Holding
    BY DEF Holding
  <2>3. \A j \in Jobs : seen'[j] = seen[j] /\ pc'[j] \notin Holding
    BY DEF AtRest, Ended, Holding
  <2>4. QED
    BY <2>1, <2>2, <2>3 DEF HandsFull, Hand, Actors
<1>6. AttemptsLeft'
  BY DEF AttemptsLeft, AtRest, Ended, Restart
<1>7. QED
  BY <1>1, <1>2, <1>3, <1>4, <1>5, <1>6

-------------------------------------------------------------------------------
(***************************************************************************)
(* The type invariant of the life cycle.                                   *)
(***************************************************************************)
LEMMA InitTyped == Init => TypeInv
<1> SUFFICES ASSUME Init PROVE TypeInv
  OBVIOUS
<1> USE ActorFacts DEF Init, InitWith
<1>1. LedgerType(db)
  BY NilEverywhere DEF LedgerType
<1>2. Stands
  BY DEF Stands
<1>3. RestTyped
  <2>1. <<>> \in Seq(Commands) /\ <<>> \in Seq(Reports)
    BY EmptySeq
  <2>2. NoPod \in Pods
    BY ChaincodeAssumption DEF NoPod, Pods, ChaincodeAssumption
  <2>3. 0 \in 0..MaxAttempts
    BY ProcessAssumption DEF ProcessAssumption
  <2>4. QED
    BY <2>1, <2>2, <2>3 DEF RestTyped
<1>4. /\ \A r \in Requests : pc[r] = "new"
      /\ \A j \in Jobs : pc[j] = "none" /\ attempts[j] = 0
      /\ \A h \in Handlers : pc[h] = "idle"
      /\ \A a \in Actors : seen[a] = Nil
  OBVIOUS
<1>5. RequestsPlaced /\ JobsPlaced /\ HandlersPlaced
  BY <1>4 DEF RequestsPlaced, RequestLabels, JobsPlaced, JobLabels, HandlersPlaced,
      HandlerLabels
<1>6. AttemptsLeft
  BY <1>4, ProcessAssumption DEF AttemptsLeft, ProcessAssumption
<1>7. HandsFull
  BY <1>4 DEF HandsFull, Hand, Holding, Actors
<1>8. QED
  BY <1>1, <1>2, <1>3, <1>5, <1>6, <1>7 DEF TypeInv, Places

\* Every step of the controller keeps the type invariant.
LEMMA ControllerTyped ==
  ASSUME TypeInv, ControllerStep, UNCHANGED <<pod, session>>
  PROVE  TypeInv'
<1>1. CASE Login
  BY <1>1, LoginTyped
<1>2. ASSUME NEW r \in Requests,
             Create(r) \/ EnqueueJob(r) \/ Stop(r) \/ Publish(r) \/ DebugDrop(r)
      PROVE  TypeInv'
  <2>1. CASE Create(r)
    BY <2>1, CreateTyped DEF Create, KeptRest
  <2>2. CASE Stop(r)
    BY <2>2, StopTyped DEF Stop, KeptRest
  <2>3. CASE DebugDrop(r)
    BY <2>3, DebugDropTyped DEF DebugDrop, KeptRest
  <2>4. QED
    BY <1>2, <2>1, <2>2, <2>3, EnqueueTyped, PublishTyped
<1>3. ASSUME NEW r \in Queued,
             BeginJob(r) \/ CreateThingVisorOnKubernetes(r) \/ UpdateJob(r)
      PROVE  TypeInv'
  <2>1. CASE UpdateJob(r)
    BY <2>1, UpdateJobTyped DEF UpdateJob, KeptRest
  <2>2. QED
    BY <1>3, <2>1, BeginJobTyped, CreationTyped
<1>4. ASSUME NEW a \in Actors,
             Get(a) \/ Drop(a) \/ DeleteOnKubernetes(a) \/ ForgetThingVisor(a)
      PROVE  TypeInv'
  <2>1. CASE Drop(a)
    BY <2>1, DropTyped DEF Drop, KeptRest
  <2>2. QED
    BY <1>4, <2>1, GetTyped, DeleteOnKubernetesTyped, ForgetTyped
<1>5. ASSUME NEW h \in Handlers,
             PollRunning(h) \/ RegisterVThing(h) \/ PollInit(h) \/ PublishInit(h)
      PROVE  TypeInv'
  <2>1. CASE RegisterVThing(h)
    BY <2>1, RegisterVThingTyped DEF RegisterVThing, KeptRest
  <2>2. QED
    BY <1>5, <2>1, PollTyped
<1>6. CASE Receive
  BY <1>6, ReceiveTyped
<1>7. QED
  BY <1>1, <1>2, <1>3, <1>4, <1>5, <1>6 DEF ControllerStep

\* Every step keeps the type invariant.
LEMMA NextTyped == TypeInv /\ [Next]_vars => TypeInv'
<1> SUFFICES ASSUME TypeInv, [Next]_vars PROVE TypeInv'
  OBVIOUS
<1>1. CASE UNCHANGED vars
  <2>1. RestTyped' /\ UNCHANGED <<db, pc, seen, attempts, session>>
    BY <1>1 DEF vars, controllerVars, TypeInv, RestTyped
  <2>2. QED
    BY <2>1, StillTyped
<1>2. CASE Next
  <2>0. UNCHANGED session
    BY <1>2 DEF Next
  <2>1. CASE ControllerStep /\ UNCHANGED pod
    BY <2>0, <2>1, ControllerTyped
  <2>2. CASE PodStep \/ \E a \in Creations : PodRestarts(a)
    BY <2>0, <2>2, PodsTyped DEF PodStep
  <2>3. CASE Lose /\ UNCHANGED pod
    BY <2>0, <2>3, LoseTyped
  <2>4. ASSUME NEW r \in Requests, Accept(r), UNCHANGED pod
        PROVE  TypeInv'
    BY <2>0, <2>4, AcceptTyped
  <2>5. CASE Restart /\ UNCHANGED pod
    BY <2>0, <2>5, RestartTyped
  <2>6. QED
    BY <1>2, <2>1, <2>2, <2>3, <2>4, <2>5 DEF Next, Step
<1>3. QED
  BY <1>1, <1>2

-------------------------------------------------------------------------------
(***************************************************************************)
(* What each step does, in terms of single actors, the fields of the       *)
(* record and the messages under way.  Every invariant below is shown to   *)
(* be kept by going through these.                                         *)
(***************************************************************************)
KeptCtl     == UNCHANGED <<callback, subscribed, identity, doomed>>
KeptNet     == UNCHANGED <<toPod, toCtl, lost>>
KeptCluster == UNCHANGED <<deployment, service>>
KeptAll     == KeptCtl /\ KeptNet /\ KeptCluster /\ pod' = pod
KeptPlaces  == UNCHANGED <<pc, seen>>

DidLogin ==
  /\ KeptPlaces /\ SameRec /\ UNCHANGED <<callback, subscribed, doomed>>
  /\ identity' /\ KeptNet /\ KeptCluster /\ pod' = pod

DidAccept(r) ==
  /\ pc[r] = "new" /\ Kind[r] \in {"add", "update", "delete", "force"}
  /\ r \in session.requests /\ identity /\ (Sequential => Settled)
  /\ Moved(r, IF Kind[r] = "add" THEN "create" ELSE "get", seen[r])
  /\ SameRec /\ KeptAll

DidCreate(r) ==
  /\ pc[r] = "create" /\ Kind[r] = "add" /\ KeptAll
  /\ Submitted(r, "enqueue", "failed", Rec = Nil /\ Ordered, Rec # Nil)

DidEnqueue(r) ==
  /\ pc[r] = "enqueue" /\ Kind[r] \in {"add", "update"} /\ r \in Queued
  /\ SameRec /\ KeptAll
  /\ \/ Moved(r, "failed", seen[r]) /\ "enqueue" \in faults'
     \/ /\ pc[Job(r)] = "none"
        /\ pc'[r] = (IF Kind[r] = "add" THEN "ok" ELSE "publish")
        /\ pc'[Job(r)] = "waiting"
        /\ seen'[r] = Nil /\ seen'[Job(r)] = Nil
        /\ \A b \in Actors \ {r, Job(r)} : pc'[b] = pc[b] /\ seen'[b] = seen[b]

DidStop(r) ==
  /\ pc[r] = "stop" /\ Kind[r] = "delete" /\ KeptAll
  /\ Submitted(r, "publish", "failed",
               Is(STATUS_RUNNING) /\ StatusOnly(STATUS_STOPPING), ~Is(STATUS_RUNNING))

DidPublish(r) ==
  /\ pc[r] = "publish" /\ Kind[r] \in {"update", "delete"}
  /\ Kind[r] = "delete" => seen[r] # Nil
  /\ Moved(r, IF Kind[r] = "delete" /\ InDebug(seen[r]) THEN "debugDrop" ELSE "ok",
           seen[r])
  /\ toPod' = Append(toPod, Message(r)) /\ Message(r) \in Commands
  /\ SameRec /\ KeptCtl /\ UNCHANGED <<toCtl, lost>> /\ KeptCluster /\ pod' = pod

DidDebugDrop(r) ==
  /\ pc[r] = "debugDrop" /\ Kind[r] = "delete" /\ DebugMode /\ KeptAll
  /\ Submitted(r, "ok", "failed", Dropped, FALSE)

\* A request about a vThing takes one of its own steps.
DidShare(r) ==
  /\ Kind[r] \in SharingKinds /\ (pc[r] = "new" => r \in session.requests)
  /\ pc[r] \in {"new", "getTV", "getVThing", "check", "tell", "record"}
  /\ \E l \in {"getTV", "getVThing", "check", "tell", "record", "ok", "failed"} :
       \E what \in Hand : Moved(r, l, what)
  /\ Rec' = Rec /\ Registered \subseteq Registered' /\ KeptCtl /\ KeptCluster
  /\ pod' = pod /\ UNCHANGED <<toCtl, lost>>
  /\ toPod' = toPod \/ \E m \in Commands : m.cmd = "endpoint" /\ toPod' = Append(toPod, m)

DidBegin(r) ==
  /\ pc[Job(r)] = "waiting" /\ Kind[r] \in {"add", "update"}
  /\ Moved(Job(r), IF Kind[r] = "add" THEN "pending" ELSE "update", seen[Job(r)])
  /\ SameRec /\ KeptAll

DidPending(r) ==
  /\ pc[Job(r)] = "pending" /\ Kind[r] = "add" /\ KeptAll
  /\ \/ /\ Moved(Job(r), "subscribe", seen[Job(r)]) /\ identity
        /\ Written(STATUS_PENDING, r, NoDeployment)
     \/ /\ \E l \in {"waiting", "failed"} : Moved(Job(r), l, seen[Job(r)])
        /\ \/ SameRec /\ ~identity
           \/ /\ SameRec \/ Written(STATUS_PENDING, r, NoDeployment)
              /\ "submit" \in faults'

DidSubscribe(r) ==
  /\ pc[Job(r)] = "subscribe" /\ Kind[r] = "add"
  /\ Moved(Job(r), "service", seen[Job(r)])
  /\ callback' /\ subscribed' /\ UNCHANGED <<identity, doomed>>
  /\ SameRec /\ KeptNet /\ KeptCluster /\ pod' = pod

DidService(r) ==
  /\ pc[Job(r)] = "service" /\ Kind[r] = "add"
  /\ \/ /\ Moved(Job(r), "deploy", seen[Job(r)])
        /\ ~(HasService /\ service) /\ service' = HasService
     \/ /\ Moved(Job(r), "ok", seen[Job(r)]) /\ service' = service
        /\ (HasService /\ service) \/ "k8s" \in faults'
  /\ deployment' = deployment
  /\ SameRec /\ KeptCtl /\ KeptNet /\ pod' = pod

DidDeploy(r) ==
  /\ pc[Job(r)] = "deploy" /\ Kind[r] = "add"
  /\ \/ /\ Moved(Job(r), "running", seen[Job(r)])
        /\ deployment = NoDeployment /\ deployment' = r
     \/ /\ Moved(Job(r), "ok", seen[Job(r)]) /\ deployment' = deployment
        /\ deployment # NoDeployment \/ "k8s" \in faults'
  /\ service' = service
  /\ SameRec /\ KeptCtl /\ KeptNet /\ pod' = pod

DidRunning(r) ==
  /\ pc[Job(r)] = "running" /\ Kind[r] = "add" /\ KeptAll
  /\ Submitted(Job(r), "ok", "ok", Written(STATUS_RUNNING, r, r), FALSE)

DidUpdate(r) ==
  /\ pc[Job(r)] = "update" /\ Kind[r] = "update" /\ KeptAll
  /\ Submitted(Job(r), "ok", "ok", ParamsOnly(r), ~identity \/ Rec = Nil)

\* Requests and callbacks; a request is at "get" for an update too.
Caller(a, kinds) == a \in Handlers \/ (a \in Requests /\ Kind[a] \in kinds)

DidGet(a) ==
  /\ pc[a] = "get" /\ Caller(a, {"update", "delete", "force"})
  /\ \/ Rec = Nil /\ Moved(a, "failed", seen[a])
     \/ Rec # Nil /\ Moved(a, AfterGet(a), Rec)
  /\ SameRec /\ KeptAll

DidDrop(a) ==
  /\ pc[a] = "drop" /\ Caller(a, {"force"}) /\ seen[a] # Nil /\ KeptAll
  /\ Submitted(a, IF InDebug(seen[a]) THEN "cleanup" ELSE "k8s", "failed",
               Dropped, FALSE)

DidDeleteOnKubernetes(a) ==
  /\ pc[a] = "k8s" /\ Caller(a, {"force"}) /\ seen[a] # Nil
  /\ \/ /\ Moved(a, "cleanup", seen[a]) /\ ~Deployed(seen[a])
        /\ deployment' = deployment
     \/ /\ Moved(a, "cleanup", seen[a]) /\ Deployed(seen[a])
        /\ deployment # NoDeployment /\ deployment' = NoDeployment
     \/ /\ Moved(a, "failed", seen[a]) /\ deployment' = deployment
        /\ (Deployed(seen[a]) /\ deployment = NoDeployment) \/ "k8s" \in faults'
  /\ service' = service
  /\ SameRec /\ KeptCtl /\ KeptNet /\ pod' = pod

DidForget(a) ==
  /\ pc[a] = "cleanup" /\ Caller(a, {"force"}) /\ seen[a] # Nil
  /\ Moved(a, "ok", seen[a])
  /\ ~callback' /\ ~subscribed' /\ identity' = identity
  /\ SameRec /\ KeptNet /\ KeptCluster /\ pod' = pod

DidPoll(h) ==
  /\ \/ pc[h] = "poll" /\ Moved(h, "register", seen[h])
     \/ pc[h] = "pollInit" /\ Moved(h, "init", seen[h])
  /\ Is(STATUS_RUNNING)
  /\ SameRec /\ KeptAll

DidRegister(h) ==
  /\ pc[h] = "register" /\ KeptAll
  /\ \E v \in VThingsOfTV :
       Submitted(h, "ok", "failed", Is(STATUS_RUNNING) /\ Announced(v), ~Is(STATUS_RUNNING))

DidPublishInit(h) ==
  /\ pc[h] = "init" /\ Moved(h, "ok", seen[h])
  /\ \E m \in Commands : m.cmd = "createVThings" /\ toPod' = Append(toPod, m)
  /\ SameRec /\ KeptCtl /\ UNCHANGED <<toCtl, lost>> /\ KeptCluster /\ pod' = pod

DidReceive ==
  /\ toCtl # <<>> /\ toCtl' = Tail(toCtl) /\ Head(toCtl) \in Reports
  /\ \/ /\ subscribed /\ callback /\ identity /\ lost' = lost
        /\ \E h \in Handlers :
             pc[h] = "idle" /\ Moved(h, FirstStep(Head(toCtl)), seen[h])
     \/ /\ ~(subscribed /\ callback /\ identity) /\ KeptPlaces
        /\ lost' = lost \cup {Head(toCtl)}
  /\ SameRec /\ KeptCtl /\ toPod' = toPod /\ KeptCluster /\ pod' = pod

DidPodsReceive ==
  /\ toPod # <<>> /\ toPod' = Tail(toPod) /\ Head(toPod) \in Commands
  /\ PodsTake(Head(toPod))
  /\ \E acks \in Seq(Reports) :
       /\ toCtl' = toCtl \o acks
       /\ Head(toPod).cmd = "destroyTV" =>
            "destroyTV" \in lost' \/ Elems(acks) = {"destroyTVAck"}
       /\ Head(toPod).cmd # "destroyTV" => "destroyTVAck" \notin Elems(acks)
       /\ Head(toPod).cmd = "createVThings" /\ RequestsInit /\ SomeUp =>
            "createVThing" \in Elems(acks)
       /\ ~SomeUp => Elems(acks) = {}
       /\ "requestInit" \notin Elems(acks)
       /\ "createVThing" \in Elems(acks) => Head(toPod).cmd = "createVThings" /\ RequestsInit
  /\ SomeUp \/ Head(toPod).cmd \in lost'
  /\ KeptPlaces /\ SameRec /\ KeptCtl /\ KeptCluster

DidPodStarts ==
  /\ \E a \in Creations :
       /\ deployment = a /\ pod[a].st = "none" /\ pod'[a].params = Params[a]
       /\ pod'[a].st = IF RequestsInit THEN "up" ELSE "starting"
       /\ \A b \in Creations : b # a => pod'[b] = pod[b]
  /\ \E m \in {"requestInit", "createVThing"} :
       toCtl' = Append(toCtl, m) /\ (m = "requestInit" => RequestsInit)
  /\ KeptPlaces /\ SameRec /\ KeptCtl /\ UNCHANGED <<toPod, lost>> /\ KeptCluster

\* A program listens, its pod stops or is restarted, or nothing happens.
PodGoesOn(b) ==
  \/ pod'[b] = pod[b]
  \/ pod[b].st = "starting" /\ pod'[b].st = "up" /\ pod'[b].params = pod[b].params
  \/ pod'[b].st = "none" /\ (deployment # b \/ "pod" \in faults')

DidPod ==
  /\ \A b \in Creations : PodGoesOn(b)
  /\ KeptPlaces /\ SameRec /\ KeptCtl /\ UNCHANGED <<toPod, toCtl>> /\ KeptCluster

DidLose ==
  /\ \/ /\ toPod # <<>> /\ toPod' = Tail(toPod) /\ Head(toPod).cmd \in lost'
        /\ toCtl' = toCtl
     \/ /\ toCtl # <<>> /\ toCtl' = Tail(toCtl) /\ Head(toCtl) \in lost'
        /\ toPod' = toPod
  /\ "loss" \in faults'
  /\ KeptPlaces /\ SameRec /\ KeptCtl /\ KeptCluster /\ pod' = pod

DidRestart ==
  /\ \A r \in Requests : /\ pc'[r] = IF AtRest(r) THEN pc[r] ELSE "failed"
                         /\ seen'[r] = Nil
  /\ \A j \in Jobs : /\ pc'[j] = IF AtRest(j) THEN pc[j] ELSE "waiting"
                     /\ seen'[j] = seen[j]
  /\ \A h \in Handlers : pc'[h] = "idle" /\ seen'[h] = Nil
  /\ ~callback' /\ ~identity' /\ ~doomed' /\ subscribed' = subscribed
  /\ toCtl' \in {toCtl, <<>>} /\ toPod' = toPod
  /\ SameRec /\ KeptCluster /\ pod' = pod
  /\ Interrupted \subseteq races'

\* A step of the life cycle.
LifeStep ==
  \/ DidLogin \/ DidReceive \/ DidPodsReceive \/ DidPodStarts \/ DidPod \/ DidLose
  \/ \E r \in Requests : \/ DidAccept(r) \/ DidCreate(r) \/ DidEnqueue(r) \/ DidStop(r)
                         \/ DidPublish(r) \/ DidDebugDrop(r)
  \/ \E r \in Queued : \/ DidBegin(r) \/ DidPending(r) \/ DidSubscribe(r) \/ DidService(r)
                       \/ DidDeploy(r) \/ DidRunning(r) \/ DidUpdate(r)
  \/ \E a \in Actors : DidGet(a) \/ DidDrop(a) \/ DidDeleteOnKubernetes(a) \/ DidForget(a)
  \/ \E h \in Handlers : DidPoll(h) \/ DidRegister(h) \/ DidPublishInit(h)

DidStep == LifeStep \/ \E r \in Requests : DidShare(r)

Happened == DidStep \/ DidRestart

\* The history only grows.
Recorded ==
  /\ faults \subseteq faults' /\ races \subseteq races' /\ lost \subseteq lost'
  /\ session' = session

\* What each step of a request does.
LEMMA RequestStepDoes ==
  ASSUME TypeInv, NEW r \in Requests, UNCHANGED <<pod, session>>
  PROVE  /\ Accept(r) => DidAccept(r)
         /\ Create(r) => DidCreate(r)
         /\ EnqueueJob(r) => DidEnqueue(r)
         /\ Stop(r) => DidStop(r)
         /\ Publish(r) => DidPublish(r)
         /\ DebugDrop(r) => DidDebugDrop(r)
<1> USE DEF KeptAll, KeptCtl, KeptNet, KeptCluster, rest, ctlVars, netVars, clusterVars
<1>0. Stands /\ r \in Actors
  BY ActorFacts DEF TypeInv
<1>1. Accept(r) => DidAccept(r)
  BY <1>0, GotoMoves, SameLedger DEF Accept, Start, Own, DidAccept
<1>2. Create(r) => DidCreate(r)
  BY CreateDoes, WhoStands DEF DidCreate
<1>3. EnqueueJob(r) => DidEnqueue(r)
  BY EnqueueDoes DEF DidEnqueue
<1>4. Stop(r) => DidStop(r)
  BY StopDoes, WhoStands DEF DidStop
<1>5. Publish(r) => DidPublish(r)
  <2>1. pc[r] = "publish" =>
          Kind[r] \in {"update", "delete"} /\ (Kind[r] = "delete" => seen[r] # Nil)
    BY WhoStands DEF TypeInv, Places, RequestsPlaced
  <2>2. QED
    BY <1>0, <2>1, MessageTyped, GotoMoves, SameLedger DEF Publish, PublishTo, DidPublish
<1>6. DebugDrop(r) => DidDebugDrop(r)
  BY DebugDropDoes, WhoStands
  DEF DidDebugDrop, TypeInv, Places, RequestsPlaced
<1>7. QED
  BY <1>1, <1>2, <1>3, <1>4, <1>5, <1>6

\* What each step of a job does.
LEMMA JobStepDoes ==
  ASSUME TypeInv, NEW r \in Queued, UNCHANGED <<pod, session>>
  PROVE  /\ BeginJob(r) => DidBegin(r)
         /\ CreateThingVisorOnKubernetes(r) =>
              \/ DidPending(r) \/ DidSubscribe(r) \/ DidService(r) \/ DidDeploy(r)
              \/ DidRunning(r)
         /\ UpdateJob(r) => DidUpdate(r)
<1> USE DEF KeptAll, KeptCtl, KeptNet, KeptCluster, rest, ctlVars, netVars, clusterVars
<1>0. Stands /\ Job(r) \in Actors
  BY ActorFacts DEF TypeInv
<1>1. BeginJob(r) => DidBegin(r)
  BY <1>0, GotoMoves, SameLedger, WhoStands DEF BeginJob, StartJob, DidBegin
<1>2. WritePending(r, WriteCall(STATUS_PENDING, r, NoDeployment)) => DidPending(r)
  BY WritePendingDoes, WhoStands DEF DidPending
<1>3. Subscribe(r) => DidSubscribe(r)
  BY <1>0, GotoMoves, SameLedger, WhoStands DEF Subscribe, DidSubscribe
<1>4. CreateService(r) => DidService(r)
  BY <1>0, GotoMoves, SameLedger, WhoStands, FaultStays DEF CreateService, DidService
<1>5. CreateDeployment(r) => DidDeploy(r)
  BY <1>0, GotoMoves, SameLedger, WhoStands, FaultStays DEF CreateDeployment, DidDeploy
<1>6. WriteRunning(r, WriteCall(STATUS_RUNNING, r, r)) => DidRunning(r)
  BY WriteRunningDoes, WhoStands DEF DidRunning
<1>7. UpdateJob(r) => DidUpdate(r)
  BY UpdateJobDoes, WhoStands DEF DidUpdate
<1>8. QED
  BY <1>1, <1>2, <1>3, <1>4, <1>5, <1>6, <1>7 DEF CreateThingVisorOnKubernetes

\* What each step of a deletion does, of a request or of the callback.
LEMMA ActorStepDoes ==
  ASSUME TypeInv, NEW a \in Actors, UNCHANGED <<pod, session>>
  PROVE  /\ Get(a) => DidGet(a)
         /\ Drop(a) => DidDrop(a)
         /\ DeleteOnKubernetes(a) => DidDeleteOnKubernetes(a)
         /\ ForgetThingVisor(a) => DidForget(a)
<1> USE DEF KeptAll, KeptCtl, KeptNet, KeptCluster, rest, ctlVars, netVars, clusterVars
<1>0. /\ Stands
      /\ pc[a] = "get" => Caller(a, {"update", "delete", "force"})
      /\ pc[a] \in {"drop", "k8s", "cleanup"} => Caller(a, {"force"}) /\ seen[a] # Nil
  BY WhoStands, ActorFacts DEF TypeInv, Places, HandsFull, Holding, Caller
<1>1. Get(a) => DidGet(a)
  BY <1>0, GoSeeingMoves, GotoMoves, SameLedger DEF Get, Read, DidGet
<1>2. Drop(a) => DidDrop(a)
  BY <1>0, DropDoes DEF DidDrop
<1>3. DeleteOnKubernetes(a) => DidDeleteOnKubernetes(a)
  BY <1>0, GotoMoves, SameLedger, FaultStays
  DEF DeleteOnKubernetes, DeleteDeployment, DidDeleteOnKubernetes
<1>4. ForgetThingVisor(a) => DidForget(a)
  BY <1>0, GotoMoves, SameLedger DEF ForgetThingVisor, Cleanup, DidForget
<1>5. QED
  BY <1>1, <1>2, <1>3, <1>4

\* What each other step of a callback does.
LEMMA HandlerStepDoes ==
  ASSUME TypeInv, NEW h \in Handlers, UNCHANGED <<pod, session>>
  PROVE  /\ PollRunning(h) \/ PollInit(h) => DidPoll(h)
         /\ RegisterVThing(h) => DidRegister(h)
         /\ PublishInit(h) => DidPublishInit(h)
<1> USE DEF KeptAll, KeptCtl, KeptNet, KeptCluster, rest, ctlVars, netVars, clusterVars
<1>0. Stands /\ h \in Actors /\ (IsRunning(tv, db) => Is(STATUS_RUNNING))
  BY ActorFacts DEF TypeInv, IsRunning, Is, Rec
<1>1. PollRunning(h) \/ PollInit(h) => DidPoll(h)
  BY <1>0, GotoMoves, SameLedger DEF PollRunning, PollInit, DidPoll
<1>2. RegisterVThing(h) => DidRegister(h)
  BY RegisterVThingDoes DEF DidRegister
<1>3. PublishInit(h) => DidPublishInit(h)
  <2> DEFINE m == [cmd |-> "createVThings", params |-> ""]
  <2>1. m \in Commands /\ m.cmd = "createVThings"
    BY MessageTyped
  <2>2. PublishInit(h) => toPod' = Append(toPod, m)
    BY DEF PublishInit, PublishTo
  <2> HIDE DEF m
  <2>3. QED
    BY <1>0, <2>1, <2>2, GotoMoves, SameLedger DEF PublishInit, PublishTo, DidPublishInit
<1>4. QED
  BY <1>1, <1>2, <1>3

\* What the steps of the network, the programs and the process do.
LEMMA OtherStepDoes ==
  ASSUME TypeInv, UNCHANGED session
  PROVE  /\ Login /\ UNCHANGED pod => DidLogin
         /\ Receive /\ UNCHANGED pod => DidReceive
         /\ PodsReceive => DidPodsReceive
         /\ (\E a \in Creations : PodStarts(a)) => DidPodStarts
         /\ (\E a \in Creations : PodListens(a) \/ PodStops(a) \/ PodRestarts(a)) => DidPod
         /\ Lose /\ UNCHANGED pod => DidLose
         /\ UNCHANGED vars => DidPod
         /\ Restart /\ UNCHANGED pod /\ Interrupted \subseteq races' => DidRestart
<1> USE DEF KeptPlaces, KeptCtl, KeptNet, KeptCluster, procVars, ctlVars, netVars, clusterVars
<1>0. Stands
  BY DEF TypeInv
<1>1. Login /\ UNCHANGED pod => DidLogin
  BY SameLedger DEF Login, DidLogin
<1>2. Receive /\ UNCHANGED pod => DidReceive
  <2>1. toCtl # <<>> => Head(toCtl) \in Reports
    BY QueueTypes DEF TypeInv, RestTyped
  <2>2. QED
    BY <1>0, <2>1, GotoMoves, SameLedger, ActorFacts DEF Receive, DidReceive
<1>3. PodsReceive => DidPodsReceive
  BY PodsReceiveDoes, SameLedger DEF DidPodsReceive
<1>4. ASSUME NEW a \in Creations, PodStarts(a)
      PROVE  DidPodStarts
  <2> DEFINE st == IF RequestsInit THEN "up" ELSE "starting"
             m  == IF RequestsInit THEN "requestInit" ELSE "createVThing"
  <2>1. /\ deployment = a /\ pod[a].st = "none" /\ toCtl' = Append(toCtl, m)
        /\ pod' = [pod EXCEPT ![a] = [st |-> st, params |-> Params[a]]]
        /\ KeptPlaces /\ SameRec /\ KeptCtl /\ UNCHANGED <<toPod, lost>> /\ KeptCluster
    BY <1>4, SameLedger DEF PodStarts
  <2>2. /\ pod'[a].st = st /\ pod'[a].params = Params[a]
        /\ \A b \in Creations : b # a => pod'[b] = pod[b]
    BY <2>1 DEF TypeInv, RestTyped
  <2>3. m \in {"requestInit", "createVThing"} /\ (m = "requestInit" => RequestsInit)
    OBVIOUS
  <2> HIDE DEF m
  <2>4. QED
    BY <2>1, <2>2, <2>3 DEF DidPodStarts
<1>5. ASSUME NEW a \in Creations, PodListens(a) \/ PodStops(a) \/ PodRestarts(a)
      PROVE  DidPod
  <2>1. pod \in [Creations -> Pods] /\ NoPod.st = "none"
    BY DEF TypeInv, RestTyped, NoPod
  <2>2. \A b \in Creations : PodGoesOn(b)
    <3>1. CASE PodListens(a)
      <4>1. /\ pod[a].st = "starting" /\ pod' = [pod EXCEPT ![a] = [pod[a] EXCEPT !.st = "up"]]
            /\ [pod[a] EXCEPT !.st = "up"].st = "up"
            /\ [pod[a] EXCEPT !.st = "up"].params = pod[a].params
        BY <2>1, <3>1 DEF PodListens, Pods
      <4>2. QED
        BY <2>1, <4>1 DEF PodGoesOn
    <3>2. CASE PodStops(a)
      BY <2>1, <3>2 DEF PodStops, PodGoesOn
    <3>3. CASE PodRestarts(a)
      BY <2>1, <3>3, FaultStays DEF PodRestarts, PodGoesOn
    <3>4. QED
      BY <1>5, <3>1, <3>2, <3>3
  <2>3. QED
    BY <1>5, <2>2, SameLedger DEF PodListens, PodStops, PodRestarts, DidPod
<1>6. Lose /\ UNCHANGED pod => DidLose
  BY SameLedger, FaultStays DEF Lose, DidLose
<1>7. UNCHANGED vars => DidPod
  BY SameLedger DEF vars, controllerVars, DidPod, PodGoesOn
<1>8. Restart /\ UNCHANGED pod /\ Interrupted \subseteq races' => DidRestart
  <2>1. Restart => /\ ~callback' /\ ~identity' /\ ~doomed' /\ subscribed' = subscribed
                   /\ toCtl' \in {toCtl, <<>>} /\ toPod' = toPod
                   /\ KeptCluster
    BY DEF Restart
  <2>2. QED
    BY <1>0, <2>1, RestartMoves, SameLedger DEF DidRestart, Interrupted
<1>9. QED
  BY <1>1, <1>2, <1>3, <1>4, <1>5, <1>6, <1>7, <1>8

\* What each step of the controller does.
LEMMA ControllerStepDoes ==
  ASSUME TypeInv, ControllerStep, UNCHANGED <<pod, session>>
  PROVE  LifeStep
<1>1. CASE Login \/ Receive
  BY <1>1, OtherStepDoes DEF LifeStep
<1>2. ASSUME NEW r \in Requests,
             Create(r) \/ EnqueueJob(r) \/ Stop(r) \/ Publish(r) \/ DebugDrop(r)
      PROVE  LifeStep
  BY <1>2, RequestStepDoes DEF LifeStep
<1>3. ASSUME NEW r \in Queued,
             BeginJob(r) \/ CreateThingVisorOnKubernetes(r) \/ UpdateJob(r)
      PROVE  LifeStep
  BY <1>3, JobStepDoes DEF LifeStep
<1>4. ASSUME NEW a \in Actors,
             Get(a) \/ Drop(a) \/ DeleteOnKubernetes(a) \/ ForgetThingVisor(a)
      PROVE  LifeStep
  BY <1>4, ActorStepDoes DEF LifeStep
<1>5. ASSUME NEW h \in Handlers,
             PollRunning(h) \/ RegisterVThing(h) \/ PollInit(h) \/ PublishInit(h)
      PROVE  LifeStep
  BY <1>5, HandlerStepDoes DEF LifeStep
<1>6. QED
  BY <1>1, <1>2, <1>3, <1>4, <1>5 DEF ControllerStep

-------------------------------------------------------------------------------
(***************************************************************************)
(* The windows.  Every one that is open is in the history: a step records  *)
(* those it opens, and a restart opens none.                               *)
(***************************************************************************)
WindowsSeen == Windows \subseteq races

Deleters ==
  {a \in Actors : \/ pc[a] \in {"drop", "k8s", "cleanup"}
                  \/ pc[a] = "publish" /\ Kind[a] = "delete"
                  \/ pc[a] = "get" /\ a \in Handlers}
Stops == {i \in 1..Len(toPod) : toPod[i].cmd = "destroyTV"}
Acks  == {i \in 1..Len(toCtl) : toCtl[i] = "destroyTVAck"}

Counted ==
  /\ Deletes = Cardinality(Deleters) + Cardinality(Stops) + Cardinality(Acks)
  /\ IsFiniteSet(Deleters) /\ IsFiniteSet(Stops) /\ IsFiniteSet(Acks)
  /\ Cardinality(Deleters) \in Nat /\ Cardinality(Stops) \in Nat
  /\ Cardinality(Acks) \in Nat

\* The deletes under way are those who delete, the commands to stop and their
\* acknowledgements.
LEMMA DeletesCounted == TypeInv => Counted
<1> SUFFICES ASSUME TypeInv PROVE Counted
  OBVIOUS
<1>1. IsFiniteSet(Deleters)
  BY ActorsFinite, FS_Subset DEF Deleters
<1>2. Len(toPod) \in Nat /\ Len(toCtl) \in Nat
  BY LenProperties DEF TypeInv, RestTyped
<1>3. IsFiniteSet(Stops) /\ IsFiniteSet(Acks)
  <2>1. IsFiniteSet(1..Len(toPod)) /\ IsFiniteSet(1..Len(toCtl))
    BY <1>2, FS_Interval
  <2>2. QED
    BY <2>1, FS_Subset DEF Stops, Acks
<1>4. QED
  BY <1>1, <1>3, FS_CardinalityType DEF Counted, Deletes, Deleters, Stops, Acks

\* Two of anything that counts are two deletes.
LEMMA TwoDeletes ==
  ASSUME TypeInv, Deletes <= 1
  PROVE  /\ \A a, b \in Deleters : a = b
         /\ Deleters # {} => Stops = {} /\ Acks = {}
         /\ Stops # {} => Acks = {}
<1>1. \A S : IsFiniteSet(S) /\ Cardinality(S) \in Nat /\ S # {} => Cardinality(S) >= 1
  BY FS_EmptySet
<1>2. /\ Deleters # {} => Stops = {} /\ Acks = {}
      /\ Stops # {} => Acks = {}
  BY <1>1, DeletesCounted DEF Counted
<1>3. ASSUME NEW a \in Deleters, NEW b \in Deleters, a # b
      PROVE  FALSE
  <2>1. /\ IsFiniteSet({a}) /\ Cardinality({a}) = 1 /\ {a} \subseteq Deleters /\ {a} # Deleters
    BY <1>3, FS_Singleton
  <2>2. Cardinality({a}) < Cardinality(Deleters)
    BY <2>1, DeletesCounted, FS_Subset DEF Counted
  <2>3. QED
    BY <2>1, <2>2, DeletesCounted DEF Counted
<1>4. QED
  BY <1>2, <1>3

\* A window that is open after a restart was open before it.
LEMMA RestartOpensNothing ==
  ASSUME TypeInv, TypeInv', DidRestart, session' = session
  PROVE  /\ Windows' \subseteq Windows
         /\ (Deletes > 0)' => Deletes > 0
<1> USE ActorFacts DEF DidRestart, KeptCluster
<1>1. Creating' => Creating
  <2> SUFFICES ASSUME NEW r \in Creations
               PROVE  /\ pc'[r] = "enqueue" => pc[r] = "enqueue"
                      /\ pc'[Job(r)] \notin Ended \cup {"none"}
                           => pc[Job(r)] \notin Ended \cup {"none"}
    BY DEF Creating
  <2>1. QED
    BY DEF AtRest, Ended
<1>2. Updates' \subseteq Updates
  <2> SUFFICES ASSUME NEW r \in Requests, Kind[r] = "update"
               PROVE  AtRest(r) /\ AtRest(Job(r)) => AtRest(r)' /\ AtRest(Job(r))'
    BY DEF Updates
  <2>1. Job(r) \in Jobs
    BY DEF Queued
  <2>2. QED
    BY <2>1 DEF AtRest, Ended
<1>3. Updating' => Updating
  BY <1>2 DEF Updating
<1>4. \A a \in Actors : pc'[a] \notin {"drop", "k8s", "cleanup", "stop", "publish", "service"}
  BY DEF AtRest, Ended, Actors
<1>5. Deletes' <= Deletes
  <2>1. Deleters' = {}
    BY <1>4 DEF Deleters, Actors
  <2>2. Stops' = Stops /\ (Acks' = Acks \/ Acks' = {})
    <3>1. Stops' = Stops
      BY DEF Stops
    <3>2. Len(<<>>) = 0
      BY EmptySeq
    <3>3. QED
      BY <3>1, <3>2 DEF Acks
  <2>3. Counted /\ Counted'
    BY DeletesCounted, PTL
  <2>4. Cardinality({}) = 0
    BY FS_EmptySet
  <2>5. /\ Cardinality(Deleters') = 0 /\ Cardinality(Stops') = Cardinality(Stops)
        /\ Cardinality(Acks') = Cardinality(Acks) \/ Cardinality(Acks') = 0
    BY <2>1, <2>2, <2>4
  <2>6. /\ Deletes = Cardinality(Deleters) + Cardinality(Stops) + Cardinality(Acks)
        /\ Cardinality(Deleters) \in Nat /\ Cardinality(Stops) \in Nat
        /\ Cardinality(Acks) \in Nat
        /\ Deletes' = Cardinality(Deleters') + Cardinality(Stops') + Cardinality(Acks')
    BY <2>3 DEF Counted
  <2>7. QED
    BY ONLY <2>5, <2>6
<1>6. /\ service' = service /\ deployment' = deployment /\ pod' = pod
      /\ \A r \in Requests : pc'[r] # "stop"
      /\ \A r \in Creations : pc'[Job(r)] # "service"
  BY <1>4
<1>7. /\ (Creating /\ Updating)' => Creating /\ Updating
      /\ ~(Creating /\ \E a \in Actors : pc[a] \in {"drop", "k8s", "cleanup"})'
      /\ ~(Creating /\ \E r \in Requests : pc[r] = "stop")'
      /\ ~(service /\ \E r \in Creations : pc[Job(r)] = "service")'
      /\ (Deletes > 1)' => Deletes > 1
      /\ (Deletes > 0)' => Deletes > 0
      /\ (\E r, q \in Updates : r # q)' => \E r, q \in Updates : r # q
      /\ (Updating /\ \E a \in Creations : pod[a].st # "none" /\ deployment # a)'
           => (Updating /\ \E a \in Creations : pod[a].st # "none" /\ deployment # a)
  <2>1. /\ (Deletes > 1)' => Deletes > 1
        /\ (Deletes > 0)' => Deletes > 0
    <3>1. Deletes \in Int /\ Deletes' \in Int
      <4>1. Counted /\ Counted'
        BY DeletesCounted, PTL
      <4>2. QED
        BY <4>1 DEF Counted
    <3>2. QED
      BY <1>5, <3>1
  <2>2. QED
    BY <1>1, <1>2, <1>3, <1>4, <1>6, <2>1
<1>8. QED
  BY <1>7 DEF Windows, Labelled

Grows == faults \subseteq faults' /\ lost \subseteq lost'

\* No step takes a fault or a loss out of the history.
LEMMA HistoryGrows ==
  ASSUME \/ Step \/ Lose \/ \E r \in Requests : Accept(r)
         \/ \E a \in Creations : PodRestarts(a)
  PROVE  Grows
<1> USE DEF Grows, rest, netVars
<1>1. \A a, tx, ok, err : Submit(a, tx, ok, err) => faults \subseteq faults'
  BY DEF Submit, Fault
<1>2. ASSUME NEW r \in Requests,
             \/ Create(r) \/ EnqueueJob(r) \/ Stop(r) \/ Publish(r) \/ DebugDrop(r)
             \/ Accept(r)
      PROVE  Grows
  BY <1>1, <1>2, FaultStays
  DEF Create, EnqueueJob, Enqueue, Stop, Publish, PublishTo, DebugDrop, Accept, Start
<1>3. ASSUME NEW r \in Queued,
             BeginJob(r) \/ CreateThingVisorOnKubernetes(r) \/ UpdateJob(r)
      PROVE  Grows
  BY <1>1, <1>3, FaultStays
  DEF BeginJob, StartJob, CreateThingVisorOnKubernetes, WritePending, Subscribe,
      CreateService, CreateDeployment, WriteRunning, UpdateJob
<1>4. ASSUME NEW a \in Actors,
             Get(a) \/ Drop(a) \/ DeleteOnKubernetes(a) \/ ForgetThingVisor(a)
      PROVE  Grows
  BY <1>1, <1>4, FaultStays
  DEF Get, Read, Drop, DeleteOnKubernetes, DeleteDeployment, ForgetThingVisor, Cleanup
<1>5. ASSUME NEW h \in Handlers,
             PollRunning(h) \/ RegisterVThing(h) \/ PollInit(h) \/ PublishInit(h)
      PROVE  Grows
  BY <1>1, <1>5 DEF PollRunning, RegisterVThing, PollInit, PublishInit, PublishTo
<1>6. CASE Login \/ Receive \/ Lose
  BY <1>6, FaultStays DEF Login, Receive, Lose
<1>7. CASE PodStep \/ \E a \in Creations : PodRestarts(a)
  BY <1>7, FaultStays
  DEF PodStep, PodsReceive, PodStarts, PodListens, PodStops, PodRestarts
<1>8. QED
  BY <1>2, <1>3, <1>4, <1>5, <1>6, <1>7 DEF Step, ControllerStep

Inv == TypeInv /\ WindowsSeen

\* Nothing is under way at first, so no window is open.
LEMMA InitInv == Init => Inv
<1> SUFFICES ASSUME Init PROVE Windows = {}
  BY InitTyped DEF Inv, WindowsSeen
<1>1. TypeInv
  BY InitTyped
<1>2. /\ \A r \in Requests : pc[r] = "new"
      /\ \A j \in Jobs : pc[j] = "none"
      /\ \A h \in Handlers : pc[h] = "idle"
      /\ toPod = <<>> /\ toCtl = <<>> /\ service = FALSE
  BY ActorFacts DEF Init, InitWith
<1>3. ~Creating /\ ~Updating /\ Updates = {}
  <2>1. ~Creating
    BY <1>2, ActorFacts DEF Creating
  <2>2. Updates = {}
    BY <1>2, ActorFacts DEF Updates, AtRest, Queued
  <2>3. Len(toPod) = 0
    BY <1>2, EmptySeq
  <2>4. QED
    BY <2>1, <2>2, <2>3 DEF Updating
<1>4. ~(Deletes > 1)
  <2>1. Deleters = {}
    BY <1>2 DEF Deleters, Actors
  <2>2. Len(toPod) = 0 /\ Len(toCtl) = 0
    BY <1>2, EmptySeq
  <2>3. Stops = {} /\ Acks = {}
    BY <2>2 DEF Stops, Acks
  <2>4. Cardinality({}) = 0
    BY FS_EmptySet
  <2>5. QED
    BY <1>1, <2>1, <2>3, <2>4, DeletesCounted DEF Counted
<1>5. QED
  BY <1>2, <1>3, <1>4 DEF Windows, Labelled

Stepped == Inv' /\ Recorded /\ Happened

\* Every step keeps the basic invariant, adds to the history, and does one of
\* the things described.
LEMMA StepDoes ==
  ASSUME Inv, [Next]_vars
  PROVE  Stepped /\ (LifeStep \/ DidRestart)
<1>0. TypeInv /\ TypeInv' /\ session' = session
  BY NextTyped DEF Inv, Next, vars, controllerVars
<1>1. CASE UNCHANGED vars
  <2>1. DidPod /\ LifeStep /\ Recorded
    BY <1>0, <1>1, OtherStepDoes DEF Recorded, LifeStep, vars, controllerVars
  <2>2. WindowsSeen'
    <3>1. UNCHANGED Windows /\ races' = races
      BY <1>1 DEF vars, controllerVars, Windows, Creating, Updates, Updating, Deletes, AtRest
    <3>2. QED
      BY <3>1 DEF Inv, WindowsSeen
  <2>3. QED
    BY <1>0, <2>1, <2>2 DEF Inv, DidStep, Happened, Stepped
<1>2. CASE Restart /\ UNCHANGED pod /\ races' = races \cup Interrupted
  <2>1. DidRestart
    BY <1>0, <1>2, OtherStepDoes
  <2>2. faults \subseteq faults' /\ lost \subseteq lost'
    BY <1>2 DEF Restart, Fault
  <2>3. WindowsSeen'
    BY <1>0, <1>2, <2>1, RestartOpensNothing DEF Inv, WindowsSeen
  <2>4. QED
    BY <1>0, <1>2, <2>1, <2>2, <2>3 DEF Inv, Recorded, Happened, Stepped
<1>3. CASE /\ \/ Step
              \/ (Lose \/ \E r \in Requests : Accept(r)) /\ UNCHANGED pod
              \/ \E a \in Creations : PodRestarts(a)
           /\ races' = races \cup Windows'
  <2>1. WindowsSeen'
    BY <1>3 DEF WindowsSeen
  <2>2. LifeStep
    <3> USE <1>0
    <3>1. CASE ControllerStep /\ UNCHANGED pod
      BY <3>1, ControllerStepDoes
    <3>2. ASSUME NEW r \in Requests, Accept(r), UNCHANGED pod
          PROVE  LifeStep
      BY <3>2, RequestStepDoes DEF LifeStep
    <3>3. CASE Lose /\ UNCHANGED pod
      BY <3>3, OtherStepDoes DEF LifeStep
    <3>4. CASE PodStep \/ \E a \in Creations : PodRestarts(a)
      BY <3>4, OtherStepDoes DEF LifeStep, PodStep
    <3>5. QED
      BY <1>3, <3>1, <3>2, <3>3, <3>4 DEF Step
  <2>3. Recorded
    BY <1>0, <1>3, HistoryGrows DEF Recorded, Grows
  <2>4. QED
    BY <1>0, <2>1, <2>2, <2>3 DEF Inv, DidStep, Happened, Stepped
<1>4. QED
  BY <1>1, <1>2, <1>3 DEF Next

-------------------------------------------------------------------------------
(***************************************************************************)
(* A ThingVisor is "stopping" while its delete is under way: the handler   *)
(* is about to publish destroyTV, the command or its acknowledgement is on *)
(* the way, or somebody is about to drop the record.                       *)
(***************************************************************************)
LEMMA QueueSteps ==
  ASSUME TypeInv
  PROVE  /\ toPod # <<>> => Elems(toPod) = {Head(toPod)} \cup Elems(Tail(toPod))
         /\ toCtl # <<>> => Elems(toCtl) = {Head(toCtl)} \cup Elems(Tail(toCtl))
         /\ \A m \in Commands : Elems(Append(toPod, m)) = Elems(toPod) \cup {m}
         /\ \A m \in Reports : Elems(Append(toCtl, m)) = Elems(toCtl) \cup {m}
         /\ \A s \in Seq(Reports) : Elems(toCtl \o s) = Elems(toCtl) \cup Elems(s)
         /\ Elems(<<>>) = {}
  BY QueueElems DEF TypeInv, RestTyped

CommandSent == \E m \in Elems(toPod) : m.cmd = "destroyTV"
Acknowledged == "destroyTVAck" \in Elems(toCtl)

Deleting ==
  \/ \E r \in Requests : pc[r] = "publish" /\ Kind[r] = "delete"
  \/ CommandSent \/ Acknowledged
  \/ \E h \in Handlers : pc[h] = "get"
  \/ \E a \in Actors : pc[a] = "drop"

\* Deleting counts.
LEMMA DeletingCounts ==
  ASSUME TypeInv, ~(Deletes > 0)
  PROVE  ~Deleting
<1>1. Cardinality(Deleters) = 0 /\ Cardinality(Stops) = 0 /\ Cardinality(Acks) = 0
  BY DeletesCounted DEF Counted
<1>2. Deleters = {} /\ Stops = {} /\ Acks = {}
  BY <1>1, DeletesCounted, FS_EmptySet DEF Counted
<1>3. ~CommandSent
  BY <1>2 DEF CommandSent, Stops, Elems
<1>4. ~Acknowledged
  BY <1>2 DEF Acknowledged, Acks, Elems
<1>5. QED
  BY <1>2, <1>3, <1>4, ActorFacts DEF Deleting, Deleters

StopCauses == {"destroyTV", "destroyTVAck", "submit", "deleteInterrupted"}

StoppingInv == Is(STATUS_STOPPING) /\ Without(StopCauses) => Deleting

\* Every step keeps that a ThingVisor marked as stopping is being deleted.
LEMMA StoppingStep == Inv /\ StoppingInv /\ Stepped => StoppingInv'
<1> SUFFICES ASSUME Inv, StoppingInv, Stepped, Is(STATUS_STOPPING)', Without(StopCauses)'
             PROVE  Deleting'
  BY DEF StoppingInv
<1>1. /\ TypeInv /\ TypeInv' /\ Recorded
      /\ Happened
  BY DEF Stepped, Inv
<1>2. Without(StopCauses)
  BY <1>1, WithoutBefore DEF Recorded
<1>3. /\ "submit" \notin faults' /\ "deleteInterrupted" \notin races'
      /\ "destroyTV" \notin lost' /\ "destroyTVAck" \notin lost'
  BY DEF Without, StopCauses
<1>4. Is(STATUS_STOPPING) => Deleting
  BY <1>2 DEF StoppingInv
<1>5. Rec # Nil => Rec.status \in Status
  BY <1>1, RecType DEF TypeInv, ThingVisorRecord
<1> USE DEF Moved, SameRec, KeptAll, KeptNet, KeptPlaces, Submitted, Is,
        STATUS_PENDING, STATUS_RUNNING, STATUS_STOPPING
<1>6. CASE DidRestart
  <2>1. ~(Deletes > 0)
    BY <1>3, <1>6 DEF DidRestart, Interrupted, Labelled
  <2>2. ~Deleting
    BY <1>1, <2>1, DeletingCounts
  <2>3. QED
    BY <1>4, <1>6, <2>2 DEF DidRestart
<1>7. CASE DidLogin \/ DidPod
  BY <1>4, <1>7 DEF DidLogin, DidPod, Deleting, CommandSent, Acknowledged
<1>8. CASE DidReceive
  <2>1. /\ Is(STATUS_STOPPING) /\ Elems(toCtl) = {Head(toCtl)} \cup Elems(toCtl')
        /\ (Head(toCtl) = "destroyTVAck" => FirstStep(Head(toCtl)) = "get")
    BY <1>1, <1>8, QueueSteps DEF DidReceive, FirstStep
  <2>2. QED
    BY <1>3, <1>4, <1>8, <2>1, ActorFacts
    DEF DidReceive, Deleting, CommandSent, Acknowledged, Ended
<1>9. CASE DidPodsReceive
  <2>1. /\ Is(STATUS_STOPPING) /\ Elems(toPod) = {Head(toPod)} \cup Elems(toPod')
    BY <1>1, <1>9, QueueSteps DEF DidPodsReceive
  <2>2. /\ Elems(toCtl) \subseteq Elems(toCtl')
        /\ Head(toPod).cmd = "destroyTV" => "destroyTVAck" \in Elems(toCtl')
    BY <1>1, <1>3, <1>9, QueueSteps DEF DidPodsReceive
  <2>3. QED
    BY <1>4, <1>9, <2>1, <2>2 DEF DidPodsReceive, Deleting, CommandSent, Acknowledged
<1>10. CASE DidPodStarts
  <2>1. Is(STATUS_STOPPING) /\ Elems(toCtl) \subseteq Elems(toCtl')
    BY <1>1, <1>10, QueueSteps DEF DidPodStarts, Reports
  <2>2. QED
    BY <1>4, <1>10, <2>1 DEF DidPodStarts, Deleting, CommandSent, Acknowledged
<1>11. CASE DidLose
  <2>1. /\ Is(STATUS_STOPPING)
        /\ \/ Elems(toPod) = {Head(toPod)} \cup Elems(toPod') /\ Head(toPod).cmd \in lost'
              /\ toCtl' = toCtl
           \/ Elems(toCtl) = {Head(toCtl)} \cup Elems(toCtl') /\ Head(toCtl) \in lost'
              /\ toPod' = toPod
    BY <1>1, <1>11, QueueSteps DEF DidLose
  <2>2. QED
    BY <1>3, <1>4, <1>11, <2>1 DEF DidLose, Deleting, CommandSent, Acknowledged
<1>12. ASSUME NEW r \in Requests,
              DidAccept(r) \/ DidCreate(r) \/ DidEnqueue(r) \/ DidDebugDrop(r)
       PROVE  Deleting'
  <2>1. CASE DidAccept(r)
    BY <1>4, <2>1, ActorFacts DEF DidAccept, Deleting, CommandSent, Acknowledged
  <2>2. CASE DidCreate(r)
    <3>1. SameRec
      BY <1>3, <2>2 DEF DidCreate, Ordered
    <3>2. QED
      BY <1>4, <2>2, <3>1, ActorFacts
      DEF DidCreate, Deleting, CommandSent, Acknowledged
  <2>3. CASE DidEnqueue(r)
    BY <1>4, <2>3, ActorFacts DEF DidEnqueue, Deleting, CommandSent, Acknowledged
  <2>4. CASE DidDebugDrop(r)
    BY <1>3, <1>4, <2>4, ActorFacts DEF DidDebugDrop, Dropped
  <2>5. QED
    BY <1>12, <2>1, <2>2, <2>3, <2>4
<1>13. ASSUME NEW r \in Requests, DidStop(r)
       PROVE  Deleting'
  BY <1>3, <1>4, <1>13, ActorFacts
  DEF DidStop, StatusOnly, Deleting, CommandSent, Acknowledged, Ended
<1>14. ASSUME NEW r \in Requests, DidPublish(r)
       PROVE  Deleting'
  <2>1. Is(STATUS_STOPPING) /\ Elems(toPod') = Elems(toPod) \cup {Message(r)}
    BY <1>1, <1>14, QueueSteps DEF DidPublish
  <2>2. Kind[r] = "delete" => Message(r).cmd = "destroyTV"
    BY DEF Message
  <2>3. QED
    BY <1>4, <1>14, <2>1, <2>2, ActorFacts
    DEF DidPublish, Deleting, CommandSent, Acknowledged
<1>15. ASSUME NEW r \in Queued,
              \/ DidBegin(r) \/ DidPending(r) \/ DidSubscribe(r) \/ DidService(r)
              \/ DidDeploy(r) \/ DidRunning(r) \/ DidUpdate(r)
       PROVE  Deleting'
  <2>1. Is(STATUS_STOPPING) /\ KeptNet
    BY <1>3, <1>15
    DEF DidBegin, DidPending, DidSubscribe, DidService, DidDeploy, DidRunning, DidUpdate,
        Written, ParamsOnly
  <2>2. \E l \in {"pending", "update", "subscribe", "waiting", "failed", "service",
                  "deploy", "running", "ok"} : Moved(Job(r), l, seen[Job(r)])
    BY <1>15
    DEF DidBegin, DidPending, DidSubscribe, DidService, DidDeploy, DidRunning, DidUpdate
  <2>3. pc[Job(r)] \notin {"get", "drop"}
    BY <1>1, WhoStands
  <2>4. QED
    BY <1>4, <2>1, <2>2, <2>3, ActorFacts DEF Deleting, CommandSent, Acknowledged
<1>16. ASSUME NEW a \in Actors,
              DidGet(a) \/ DidDrop(a) \/ DidDeleteOnKubernetes(a) \/ DidForget(a)
       PROVE  Deleting'
  BY <1>3, <1>4, <1>16, ActorFacts
  DEF DidGet, DidDrop, DidDeleteOnKubernetes, DidForget, Caller, AfterGet, Dropped,
      Deleting, CommandSent, Acknowledged, Ended
<1>17. ASSUME NEW h \in Handlers, DidPoll(h) \/ DidRegister(h)
       PROVE  Deleting'
  BY <1>3, <1>4, <1>17, ActorFacts
  DEF DidPoll, DidRegister, Announced, Deleting, CommandSent, Acknowledged
<1>18. ASSUME NEW h \in Handlers, DidPublishInit(h)
       PROVE  Deleting'
  <2>1. Elems(toPod) \subseteq Elems(toPod')
    BY <1>1, <1>18, QueueSteps DEF DidPublishInit
  <2>2. QED
    BY <1>4, <1>18, <2>1, ActorFacts DEF DidPublishInit, Deleting, CommandSent, Acknowledged
<1>19. ASSUME NEW r \in Requests, DidShare(r)
       PROVE  Deleting'
  <2>1. Is(STATUS_STOPPING) /\ Elems(toPod) \subseteq Elems(toPod')
    BY <1>1, <1>19, QueueSteps DEF DidShare
  <2>2. QED
    BY <1>4, <1>19, <2>1, ActorFacts DEF DidShare, Deleting, CommandSent, Acknowledged
<1>20. QED
  BY <1>1, <1>6, <1>7, <1>8, <1>9, <1>10, <1>11, <1>12, <1>13, <1>14, <1>15, <1>16, <1>17,
     <1>18, <1>19
  DEF DidStep, LifeStep, Happened

\* Nothing is left under way once everything has settled.
LEMMA NothingLeft ==
  ASSUME TypeInv, Settled
  PROVE  /\ \A a \in Actors : pc[a] \in Ended \cup {"new", "none", "idle", "poll", "pollInit"}
         /\ Elems(toPod) = {} /\ Elems(toCtl) = {}
<1>1. \A a \in Actors : Quiet(a)
  BY DEF Settled
<1>2. \A a \in Actors : pc[a] \in Ended \cup {"new", "none", "idle", "poll", "pollInit"}
  BY <1>1 DEF Quiet, AtRest
<1>3. QED
  BY <1>2, QueueSteps DEF Settled

\* Once everything has settled nobody is deleting it.
LEMMA StoppingFollows == Inv /\ StoppingInv => StoppingIsExplained
<1> SUFFICES ASSUME Inv, StoppingInv, Settled, Is(STATUS_STOPPING), Without(StopCauses)
             PROVE  FALSE
  BY DEF StoppingIsExplained, StopCauses
<1>1. Deleting
  BY DEF StoppingInv
<1>2. TypeInv
  BY DEF Inv
<1>3. QED
  BY <1>1, <1>2, NothingLeft, ActorFacts
  DEF Deleting, CommandSent, Acknowledged, Ended

\* No ThingVisor stays "stopping" unless destroyTV or its acknowledgement was
\* lost, a transaction failed or a restart hit the delete (controller.ts stops,
\* publishes and leaves the rest to the acknowledgement).
THEOREM StoppingExplained == Spec => []StoppingIsExplained
<1>1. Init => Inv /\ StoppingInv
  <2>1. Init => Rec = Nil
    BY KeyTypes, LifecycleAssumption DEF Init, InitWith, Rec, LifecycleAssumption
  <2>2. QED
    BY <2>1, InitInv DEF StoppingInv, Is
<1>2. Inv /\ StoppingInv /\ [Next]_vars => (Inv /\ StoppingInv)'
  BY StepDoes, StoppingStep DEF Stepped
<1>3. Inv /\ StoppingInv => StoppingIsExplained
  BY StoppingFollows
<1>4. QED
  BY <1>1, <1>2, <1>3, PTL DEF Spec

-------------------------------------------------------------------------------
(***************************************************************************)
(* Who changes what: the record, the Deployment, the place of a creation   *)
(* and that of somebody who deletes.  Everything else leaves it alone.     *)
(***************************************************************************)
LEMMA RecChanges ==
  ASSUME Happened
  PROVE  \/ Rec' = Rec
         \/ \E r \in Creations : DidCreate(r) /\ Rec = Nil /\ Ordered
         \/ \E r \in Requests :
              DidStop(r) /\ Is(STATUS_RUNNING) /\ StatusOnly(STATUS_STOPPING)
         \/ \E r \in Requests : DidDebugDrop(r) /\ Rec' = Nil
         \/ \E r \in Creations : DidPending(r) /\ Written(STATUS_PENDING, r, NoDeployment)
         \/ \E r \in Creations : DidRunning(r) /\ Written(STATUS_RUNNING, r, r)
         \/ \E r \in Queued : DidUpdate(r) /\ ParamsOnly(r)
         \/ \E a \in Actors : DidDrop(a) /\ Rec' = Nil
<1> USE DEF SameRec
<1>1. CASE DidLogin \/ DidReceive \/ DidPodsReceive \/ DidPodStarts \/ DidPod \/ DidLose
           \/ DidRestart
  BY <1>1 DEF DidLogin, DidReceive, DidPodsReceive, DidPodStarts, DidPod, DidLose,
      DidRestart
<1>2. ASSUME NEW r \in Requests, DidAccept(r) \/ DidEnqueue(r) \/ DidPublish(r) \/ DidShare(r)
      PROVE  Rec' = Rec
  BY <1>2 DEF DidAccept, DidEnqueue, DidPublish, DidShare
<1>3. ASSUME NEW r \in Queued,
             DidBegin(r) \/ DidSubscribe(r) \/ DidService(r) \/ DidDeploy(r)
      PROVE  Rec' = Rec
  BY <1>3 DEF DidBegin, DidSubscribe, DidService, DidDeploy
<1>4. ASSUME NEW a \in Actors, DidGet(a) \/ DidDeleteOnKubernetes(a) \/ DidForget(a)
      PROVE  Rec' = Rec
  BY <1>4 DEF DidGet, DidDeleteOnKubernetes, DidForget
<1>5. ASSUME NEW h \in Handlers, DidPoll(h) \/ DidRegister(h) \/ DidPublishInit(h)
      PROVE  Rec' = Rec
  BY <1>5 DEF DidPoll, DidRegister, DidPublishInit, Submitted, Announced
<1>6. ASSUME NEW r \in Requests, DidCreate(r) \/ DidStop(r) \/ DidDebugDrop(r)
      PROVE  \/ Rec' = Rec
             \/ r \in Creations /\ DidCreate(r) /\ Rec = Nil /\ Ordered
             \/ DidStop(r) /\ Is(STATUS_RUNNING) /\ StatusOnly(STATUS_STOPPING)
             \/ DidDebugDrop(r) /\ Rec' = Nil
  BY <1>6 DEF DidCreate, DidStop, DidDebugDrop, Submitted, Dropped, Creations
<1>7. ASSUME NEW r \in Queued, DidPending(r) \/ DidRunning(r) \/ DidUpdate(r)
      PROVE  \/ Rec' = Rec
             \/ r \in Creations /\ DidPending(r) /\ Written(STATUS_PENDING, r, NoDeployment)
             \/ r \in Creations /\ DidRunning(r) /\ Written(STATUS_RUNNING, r, r)
             \/ DidUpdate(r) /\ ParamsOnly(r)
  BY <1>7, ActorFacts DEF DidPending, DidRunning, DidUpdate, Submitted, Creations
<1>8. ASSUME NEW a \in Actors, DidDrop(a)
      PROVE  Rec' = Rec \/ Rec' = Nil
  BY <1>8 DEF DidDrop, Submitted, Dropped
<1>9. QED
  BY <1>1, <1>2, <1>3, <1>4, <1>5, <1>6, <1>7, <1>8 DEF Happened, DidStep, LifeStep

\* A Deployment appears when a creation's job makes it, and goes when a
\* deletion that read its name deletes it.
LEMMA DeploymentChanges ==
  ASSUME Happened
  PROVE  \/ deployment' = deployment
         \/ \E r \in Creations : /\ DidDeploy(r) /\ pc[Job(r)] = "deploy"
                                /\ deployment = NoDeployment /\ deployment' = r
         \/ \E a \in Actors : /\ DidDeleteOnKubernetes(a) /\ pc[a] = "k8s"
                             /\ Deployed(seen[a]) /\ pc'[a] = "cleanup"
                             /\ deployment # NoDeployment
                             /\ deployment' = NoDeployment
<1> USE DEF KeptAll, KeptCluster
<1>1. CASE DidLogin \/ DidReceive \/ DidPodsReceive \/ DidPodStarts \/ DidPod \/ DidLose
           \/ DidRestart
  BY <1>1 DEF DidLogin, DidReceive, DidPodsReceive, DidPodStarts, DidPod, DidLose,
      DidRestart
<1>2. ASSUME NEW r \in Requests, 
             \/ DidAccept(r) \/ DidCreate(r) \/ DidEnqueue(r) \/ DidStop(r)
             \/ DidPublish(r) \/ DidDebugDrop(r) \/ DidShare(r)
      PROVE  deployment' = deployment
  BY <1>2 DEF DidAccept, DidCreate, DidEnqueue, DidStop, DidPublish, DidDebugDrop, DidShare
<1>3. ASSUME NEW r \in Queued,
             \/ DidBegin(r) \/ DidPending(r) \/ DidSubscribe(r) \/ DidService(r)
             \/ DidRunning(r) \/ DidUpdate(r)
      PROVE  deployment' = deployment
  BY <1>3 DEF DidBegin, DidPending, DidSubscribe, DidService, DidRunning, DidUpdate
<1>4. ASSUME NEW a \in Actors, DidGet(a) \/ DidDrop(a) \/ DidForget(a)
      PROVE  deployment' = deployment
  BY <1>4 DEF DidGet, DidDrop, DidForget
<1>5. ASSUME NEW h \in Handlers, DidPoll(h) \/ DidRegister(h) \/ DidPublishInit(h)
      PROVE  deployment' = deployment
  BY <1>5 DEF DidPoll, DidRegister, DidPublishInit
<1>6. ASSUME NEW r \in Queued, DidDeploy(r)
      PROVE  \/ deployment' = deployment
             \/ /\ r \in Creations /\ pc[Job(r)] = "deploy"
                /\ deployment = NoDeployment /\ deployment' = r
  BY <1>6, ActorFacts DEF DidDeploy, Creations
<1>7. ASSUME NEW a \in Actors, DidDeleteOnKubernetes(a)
      PROVE  \/ deployment' = deployment
             \/ /\ pc[a] = "k8s" /\ Deployed(seen[a]) /\ pc'[a] = "cleanup"
                /\ deployment # NoDeployment /\ deployment' = NoDeployment
  BY <1>7 DEF DidDeleteOnKubernetes, Moved, Ended
<1>8. QED
  BY <1>1, <1>2, <1>3, <1>4, <1>5, <1>6, <1>7 DEF Happened, DidStep, LifeStep

\* Every step but a restart and the queuing of a job moves one actor at most.
Still(a) == pc'[a] = pc[a] /\ seen'[a] = seen[a]

\* Where one actor moves, every other one stays.
LEMMA MovedStill ==
  ASSUME NEW a \in Actors, NEW b \in Actors, b # a,
         \/ \E l, what : Moved(a, l, what)
         \/ \E ok, err, Done, Refused : Submitted(a, ok, err, Done, Refused)
  PROVE  Still(b)
  BY DEF Moved, Submitted, Still

\* What each actor may have done; somebody else leaves it where it is.
RequestDid(r) ==
  \/ DidAccept(r) \/ DidCreate(r) \/ DidEnqueue(r) \/ DidStop(r) \/ DidPublish(r)
  \/ DidDebugDrop(r) \/ DidShare(r)

JobDid(r) ==
  \/ DidBegin(r) \/ DidPending(r) \/ DidSubscribe(r) \/ DidService(r) \/ DidDeploy(r)
  \/ DidRunning(r) \/ DidUpdate(r)

CallerDid(a) == DidGet(a) \/ DidDrop(a) \/ DidDeleteOnKubernetes(a) \/ DidForget(a)

HandlerDid(h) == DidPoll(h) \/ DidRegister(h) \/ DidPublishInit(h)

\* A step of a request moves the request, and its job when it queues it.
LEMMA RequestDidMove ==
  ASSUME NEW r \in Requests, RequestDid(r)
  PROVE  \/ \E l, what : Moved(r, l, what)
         \/ /\ DidEnqueue(r) /\ r \in Queued
            /\ \A b \in Actors : b # r /\ b # Job(r) => Still(b)
<1>1. CASE DidAccept(r) \/ DidPublish(r) \/ DidShare(r)
  BY <1>1 DEF DidAccept, DidPublish, DidShare
<1>2. CASE DidCreate(r) \/ DidStop(r) \/ DidDebugDrop(r)
  BY <1>2 DEF DidCreate, DidStop, DidDebugDrop, Submitted
<1>3. CASE DidEnqueue(r)
  BY <1>3 DEF DidEnqueue, Still
<1>4. QED
  BY <1>1, <1>2, <1>3 DEF RequestDid

\* A step of a job moves that job.
LEMMA JobDidMove ==
  ASSUME NEW r \in Queued, JobDid(r)
  PROVE  \E l, what : Moved(Job(r), l, what)
<1>1. CASE DidBegin(r) \/ DidSubscribe(r) \/ DidService(r) \/ DidDeploy(r)
  BY <1>1 DEF DidBegin, DidSubscribe, DidService, DidDeploy
<1>2. CASE DidPending(r) \/ DidRunning(r) \/ DidUpdate(r)
  BY <1>2 DEF DidPending, DidRunning, DidUpdate, Submitted
<1>3. QED
  BY <1>1, <1>2 DEF JobDid

\* A step of a deletion moves the request or the callback that makes it.
LEMMA CallerDidMove ==
  ASSUME NEW a \in Actors, CallerDid(a)
  PROVE  \E l, what : Moved(a, l, what)
  BY DEF CallerDid, DidGet, DidDrop, DidDeleteOnKubernetes, DidForget, Submitted

\* A step of a callback moves that callback.
LEMMA HandlerDidMove ==
  ASSUME NEW h \in Handlers, HandlerDid(h)
  PROVE  \E l, what : Moved(h, l, what)
  BY DEF HandlerDid, DidPoll, DidRegister, DidPublishInit, Submitted

\* Whoever has moved has done it, has received a message, unless the controller was restarted.
LEMMA StepMoves ==
  ASSUME DidStep, NEW b \in Actors
  PROVE  \/ Still(b)
         \/ b \in Requests /\ RequestDid(b)
         \/ \E r \in Queued : b = Job(r) /\ (JobDid(r) \/ DidEnqueue(r))
         \/ CallerDid(b)
         \/ b \in Handlers /\ (HandlerDid(b) \/ DidReceive)
<1>1. CASE DidLogin \/ DidPodsReceive \/ DidPodStarts \/ DidPod \/ DidLose
  BY <1>1 DEF DidLogin, DidPodsReceive, DidPodStarts, DidPod, DidLose, KeptPlaces, Still
<1>2. CASE DidReceive
  BY <1>2, ActorFacts, MovedStill DEF DidReceive, KeptPlaces, Still
<1>3. ASSUME NEW r \in Requests, RequestDid(r)
      PROVE  \/ Still(b) \/ b = r
             \/ r \in Queued /\ b = Job(r) /\ DidEnqueue(r)
  BY <1>3, RequestDidMove, MovedStill, ActorFacts
<1>4. ASSUME NEW r \in Queued, JobDid(r)
      PROVE  Still(b) \/ b = Job(r)
  BY <1>4, JobDidMove, MovedStill, ActorFacts
<1>5. ASSUME NEW a \in Actors, CallerDid(a)
      PROVE  Still(b) \/ b = a
  BY <1>5, CallerDidMove, MovedStill
<1>6. ASSUME NEW h \in Handlers, HandlerDid(h)
      PROVE  Still(b) \/ b = h
  BY <1>6, HandlerDidMove, MovedStill, ActorFacts
<1>7. QED
  BY <1>1, <1>2, <1>3, <1>4, <1>5, <1>6
  DEF Happened, DidStep, LifeStep, RequestDid, JobDid, CallerDid, HandlerDid

\* The same of every step.
LEMMA Moves ==
  ASSUME Happened, NEW b \in Actors
  PROVE  \/ Still(b)
         \/ b \in Requests /\ RequestDid(b)
         \/ \E r \in Queued : b = Job(r) /\ (JobDid(r) \/ DidEnqueue(r))
         \/ CallerDid(b)
         \/ b \in Handlers /\ (HandlerDid(b) \/ DidReceive)
         \/ DidRestart
BY StepMoves DEF Happened

CreatingOf(r) == pc[r] = "enqueue" \/ pc[Job(r)] \notin Ended \cup {"none"}

Dropping(a) == pc[a] \in {"drop", "k8s", "cleanup"}

Met == "deleteDuringCreate" \in races

\* A creation begins with its record, and its last step is the one that comes
\* after the Deployment.
LEMMA CreationMoves ==
  ASSUME TypeInv, TypeInv', Happened, NEW r \in Creations
  PROVE  /\ CreatingOf(r)' => CreatingOf(r) \/ DidCreate(r)
         /\ (pc[Job(r)] = "running")' => pc[Job(r)] = "running" \/ DidDeploy(r)
         /\ (pc[Job(r)] \in Ended) => (pc[Job(r)] \in Ended)'
<1>0. r \in Requests /\ r \in Queued /\ Job(r) \in Actors /\ r \in Actors
      /\ Job(r) \notin Handlers /\ Job(r) \notin Requests /\ r \notin Handlers
      /\ Job(r) \in Jobs /\ Job(r) # r
      /\ Kind[r] \in {"add", "create"}
      /\ \A q : Job(q) = Job(r) => q = r
  BY ActorFacts DEF Creations
<1>1. \/ Still(Job(r)) \/ JobDid(r) \/ DidEnqueue(r) \/ DidRestart
  BY <1>0, Moves
  DEF CallerDid, DidGet, DidDrop, DidDeleteOnKubernetes, DidForget, Caller
<1>2. \/ Still(r) \/ RequestDid(r) \/ DidRestart
  BY <1>0, Moves, ActorFacts
  DEF CallerDid, DidGet, DidDrop, DidDeleteOnKubernetes, DidForget, Caller
<1>3. /\ JobDid(r) => pc[Job(r)] \notin Ended \cup {"none"}
      /\ JobDid(r) /\ pc'[Job(r)] = "running" => DidDeploy(r)
  BY <1>0 DEF JobDid, DidBegin, DidPending, DidSubscribe, DidService, DidDeploy, DidRunning,
      DidUpdate, Moved, Ended, Submitted
<1>4. DidEnqueue(r) => /\ pc[r] = "enqueue"
                       /\ \/ Still(Job(r))
                          \/ pc[Job(r)] = "none" /\ pc'[Job(r)] = "waiting"
  BY <1>0 DEF DidEnqueue, Moved, Still
<1>5. RequestDid(r) /\ pc'[r] = "enqueue" => DidCreate(r)
  BY <1>0 DEF RequestDid, DidAccept, DidCreate, DidEnqueue, DidStop, DidPublish, DidDebugDrop,
      DidShare,
      Moved, Ended, Submitted
<1>6. DidRestart => /\ pc'[r] = "enqueue" => FALSE
                    /\ pc'[Job(r)] # "running"
                    /\ pc'[Job(r)] = IF AtRest(Job(r)) THEN pc[Job(r)] ELSE "waiting"
  BY <1>0 DEF DidRestart, AtRest, Ended
<1>7. pc[Job(r)] \notin {"new", "idle"}
  BY <1>0 DEF TypeInv, Places, JobsPlaced, JobLabels
<1>8. CreatingOf(r)' => CreatingOf(r) \/ DidCreate(r)
  BY <1>1, <1>2, <1>3, <1>4, <1>5, <1>6, <1>7 DEF CreatingOf, Still, AtRest
<1>9. (pc[Job(r)] = "running")' => pc[Job(r)] = "running" \/ DidDeploy(r)
  BY <1>1, <1>3, <1>4, <1>6 DEF Still
<1>10. (pc[Job(r)] \in Ended) => (pc[Job(r)] \in Ended)'
  BY <1>1, <1>3, <1>4, <1>6 DEF Still, AtRest, Ended
<1>11. QED
  BY <1>8, <1>9, <1>10

\* Nobody drops, or goes on after a drop, who was not doing so already or has
\* just read the record.
LEMMA DropMoves ==
  ASSUME TypeInv, Happened, NEW a \in Actors, Dropping(a)'
  PROVE  \/ Still(a) /\ Dropping(a)
         \/ DidGet(a) /\ pc[a] = "get" /\ pc'[a] = "drop" /\ Rec # Nil /\ seen'[a] = Rec
         \/ /\ DidDrop(a) /\ pc[a] = "drop" /\ seen'[a] = seen[a]
            /\ pc'[a] = (IF InDebug(seen[a]) THEN "cleanup" ELSE "k8s")
         \/ /\ DidDeleteOnKubernetes(a) /\ pc[a] = "k8s" /\ pc'[a] = "cleanup"
            /\ seen'[a] = seen[a]
<1> USE DEF Dropping
<1>1. a \in Requests => ~RequestDid(a)
  BY DEF RequestDid, DidAccept, DidCreate, DidEnqueue, DidStop, DidPublish, DidDebugDrop, DidShare,
     Moved, Ended, Submitted
<1>2. \A r \in Queued : a = Job(r) => ~JobDid(r) /\ (DidEnqueue(r) => Still(a))
  BY ActorFacts
  DEF JobDid, DidBegin, DidPending, DidSubscribe, DidService, DidDeploy, DidRunning,
      DidUpdate, DidEnqueue, Moved, Ended, Submitted, Still
<1>3. a \in Handlers => ~HandlerDid(a) /\ (DidReceive => Still(a))
  BY MovedStill, ActorFacts
  DEF HandlerDid, DidPoll, DidRegister, DidPublishInit, DidReceive, KeptPlaces, Moved, Ended,
      Submitted, Still, FirstStep, Reports
<1>4. ~DidRestart
  BY DEF DidRestart, Actors, AtRest, Ended
<1>5. Still(a) \/ CallerDid(a)
  BY <1>1, <1>2, <1>3, <1>4, Moves
<1>6. CASE Still(a)
  BY <1>6 DEF Still
<1>7. CASE CallerDid(a)
  <2>1. CASE DidGet(a)
    BY <2>1 DEF DidGet, Caller, AfterGet, Moved, Ended
  <2>2. CASE DidDrop(a)
    BY <2>2 DEF DidDrop, Submitted, Moved, Ended
  <2>3. CASE DidDeleteOnKubernetes(a)
    BY <2>3 DEF DidDeleteOnKubernetes, Moved, Ended
  <2>4. CASE DidForget(a)
    BY <2>4 DEF DidForget, Moved, Ended
  <2>5. QED
    BY <1>7, <2>1, <2>2, <2>3, <2>4 DEF CallerDid
<1>8. QED
  BY <1>5, <1>6, <1>7

\* While no delete has met a creation, nobody drops while one is under way.
NeverMeet == \A r \in Creations, a \in Actors : CreatingOf(r) => ~Dropping(a)

\* Creations and drops under way together are in the history.
LEMMA Apart == Inv /\ ~Met => NeverMeet
  BY DEF Inv, WindowsSeen, Windows, Labelled, Met, Creating, CreatingOf, Dropping, NeverMeet

\* The same of the next state.
LEMMA ApartNext == Inv' /\ ~Met' => NeverMeet'
  BY Apart, PTL

-------------------------------------------------------------------------------
(***************************************************************************)
(* As long as no delete meets a creation, whoever is about to write or to  *)
(* delete a Deployment means the one that is there.                        *)
(***************************************************************************)
JobHasDeployment == \A r \in Creations : pc[Job(r)] = "running" => deployment = r

DroppedIsGone ==
  \A a \in Actors : pc[a] \in {"k8s", "cleanup"} => Rec = Nil \/ ~Deployed(Rec)

RecordHasDeployment == Rec # Nil /\ Deployed(Rec) => deployment = Rec.details

SeenHasDeployment ==
  \A a \in Actors :
    /\ pc[a] \in {"drop", "k8s"} /\ Deployed(seen[a])
    /\ deployment # NoDeployment
    => deployment = seen[a].details

Calm == ~Met => /\ JobHasDeployment /\ DroppedIsGone
                /\ RecordHasDeployment /\ SeenHasDeployment

\* Every step keeps that who writes or deletes a Deployment means the one that
\* is there.
LEMMA CalmStep == Inv /\ Calm /\ Stepped => Calm'
<1> SUFFICES ASSUME Inv, Calm, Stepped, ~Met'
             PROVE  (/\ JobHasDeployment /\ DroppedIsGone
                     /\ RecordHasDeployment /\ SeenHasDeployment)'
  BY DEF Calm
<1>1. TypeInv /\ TypeInv' /\ Inv' /\ Happened /\ ~Met
  BY DEF Stepped, Inv, Recorded, Met
<1>2. JobHasDeployment /\ DroppedIsGone /\ RecordHasDeployment /\ SeenHasDeployment
  BY <1>1 DEF Calm
<1>3. \A r \in Creations, a \in Actors : CreatingOf(r) => ~Dropping(a)
  BY <1>1, Apart DEF NeverMeet
<1>4. \A r \in Creations, a \in Actors : CreatingOf(r)' => ~Dropping(a)'
  BY <1>1, ApartNext DEF NeverMeet
<1>5. \A r \in Creations :
        /\ pc[Job(r)] \notin Ended \cup {"none"} => CreatingOf(r)
        /\ pc[Job(r)] = "running" => CreatingOf(r)
        /\ pc'[Job(r)] = "running" => pc[Job(r)] = "running" \/ DidDeploy(r)
        /\ r # NoDeployment /\ r # NoDetails /\ Job(r) \in Actors
  BY <1>1, CreationMoves, ActorFacts DEF CreatingOf, Ended
<1>6. \A r \in Creations :
        /\ DidDeploy(r) => CreatingOf(r)
        /\ DidPending(r) => CreatingOf(r)
        /\ DidRunning(r) => CreatingOf(r) /\ pc[Job(r)] = "running"
  BY <1>5, ActorFacts
  DEF DidDeploy, DidPending, DidRunning, DidCreate, Submitted, Moved, Ended
<1>7. JobHasDeployment'
  <2> SUFFICES ASSUME NEW r \in Creations, pc'[Job(r)] = "running"
               PROVE  deployment' = r
    BY DEF JobHasDeployment
  <2>1. CASE pc[Job(r)] = "running"
    <3>1. deployment = r /\ deployment # NoDeployment
      BY <1>2, <1>5, <2>1 DEF JobHasDeployment
    <3>2. \A a \in Actors : ~Dropping(a)
      BY <1>3, <1>5, <2>1
    <3>3. QED
      BY <1>1, <3>1, <3>2, DeploymentChanges DEF Dropping
  <2>2. CASE DidDeploy(r) /\ pc[Job(r)] # "running"
    BY <2>2 DEF DidDeploy, Moved, Ended
  <2>3. QED
    BY <1>5, <2>1, <2>2
<1>8. DroppedIsGone'
  <2> SUFFICES ASSUME NEW a \in Actors, pc'[a] \in {"k8s", "cleanup"},
                      Rec' # Nil
               PROVE  ~Deployed(Rec')
    BY DEF DroppedIsGone, Deployed
  <2>1. CASE Still(a) \/ DidDeleteOnKubernetes(a)
    <3>1. Dropping(a) /\ pc[a] \in {"k8s", "cleanup"}
      BY <2>1 DEF Still, Dropping, DidDeleteOnKubernetes
    <3>2. QED
      BY <1>1, <1>2, <1>3, <1>6, <3>1, RecChanges
      DEF DroppedIsGone, Deployed, Ordered, StatusOnly, ParamsOnly, Is
  <2>2. CASE DidDrop(a) /\ pc[a] = "drop"
    <3>1. Rec' = Nil
      BY <2>2 DEF DidDrop, Submitted, Dropped, Moved, Ended
    <3>2. QED
      BY <3>1
  <2>3. QED
    <3>1. Dropping(a)'
      BY DEF Dropping
    <3>2. QED
      BY <1>1, <2>1, <2>2, <3>1, DropMoves
<1>9. RecordHasDeployment'
  <2> SUFFICES ASSUME Rec' # Nil, Deployed(Rec)'
               PROVE  deployment' = Rec'.details
    BY DEF RecordHasDeployment
  <2>1. CASE /\ Rec # Nil /\ Rec'.details = Rec.details
             /\ ~\E r \in Creations : DidPending(r) \/ DidRunning(r) \/ DidCreate(r)
    <3>1. deployment = Rec.details /\ Deployed(Rec)
      BY <1>2, <2>1 DEF RecordHasDeployment, Deployed
    <3>2. deployment # NoDeployment /\ \A a \in Actors : pc[a] # "k8s"
      BY <1>2, <2>1, <3>1 DEF DroppedIsGone, Deployed
    <3>3. QED
      BY <1>1, <2>1, <3>1, <3>2, DeploymentChanges
  <2>2. ASSUME NEW r \in Creations, DidRunning(r), Rec'.details = r
        PROVE  deployment' = Rec'.details
    <3>1. deployment = r /\ deployment' = deployment
      BY <1>2, <1>6, <2>2 DEF JobHasDeployment, DidRunning, KeptAll, KeptCluster
    <3>2. QED
      BY <2>2, <3>1
  <2>3. QED
    <3>1. ASSUME NEW r \in Creations, DidPending(r) \/ DidRunning(r) \/ DidCreate(r)
          PROVE  deployment' = deployment
      BY <3>1 DEF DidPending, DidRunning, DidCreate, KeptAll, KeptCluster
    <3>2. CASE Rec' = Rec
      <4>1. CASE \E r \in Creations : DidPending(r) \/ DidRunning(r) \/ DidCreate(r)
        BY <1>2, <3>1, <3>2, <4>1 DEF RecordHasDeployment, Deployed
      <4>2. QED
        BY <2>1, <3>2, <4>1
    <3>3. ASSUME NEW r \in Creations,
                 \/ DidCreate(r) /\ Ordered
                 \/ DidPending(r) /\ Written(STATUS_PENDING, r, NoDeployment)
          PROVE  FALSE
      BY <3>3 DEF Ordered, Written, Deployed
    <3>4. ASSUME NEW r \in Requests,
                 \/ DidStop(r) /\ Is(STATUS_RUNNING) /\ StatusOnly(STATUS_STOPPING)
                 \/ r \in Queued /\ DidUpdate(r) /\ ParamsOnly(r)
          PROVE  deployment' = Rec'.details
      <4>1. Rec # Nil /\ Rec'.details = Rec.details /\ deployment' = deployment
        BY <3>4 DEF StatusOnly, ParamsOnly, Is, DidStop, DidUpdate, KeptAll, KeptCluster
      <4>2. QED
        BY <1>2, <4>1 DEF RecordHasDeployment, Deployed
    <3>5. ASSUME NEW r \in Creations, DidRunning(r), Written(STATUS_RUNNING, r, r)
          PROVE  deployment' = Rec'.details
      BY <2>2, <3>5 DEF Written
    <3>6. QED
      BY <1>1, <3>2, <3>3, <3>4, <3>5, RecChanges, ActorFacts
<1>10. SeenHasDeployment'
  <2> SUFFICES ASSUME NEW a \in Actors, pc'[a] \in {"drop", "k8s"}, Deployed(seen[a])',
                      deployment' # NoDeployment
               PROVE  deployment' = seen'[a].details
    BY DEF SeenHasDeployment
  <2>1. CASE Dropping(a) /\ seen'[a] = seen[a] /\ pc[a] \in {"drop", "k8s"}
    BY <1>1, <1>2, <1>3, <1>6, <2>1, DeploymentChanges DEF SeenHasDeployment, Deployed
  <2>2. CASE DidGet(a) /\ Rec # Nil /\ seen'[a] = Rec
    BY <1>2, <2>2 DEF RecordHasDeployment, Deployed, DidGet, KeptAll, KeptCluster
  <2>3. QED
    <3>1. Dropping(a)'
      BY DEF Dropping
    <3>2. QED
      BY <1>1, <2>1, <2>2, <3>1, DropMoves DEF Dropping, Still
<1>11. QED
  BY <1>7, <1>8, <1>9, <1>10

-------------------------------------------------------------------------------
(***************************************************************************)
(* A Deployment is known by the request that created it, to the record and *)
(* to whoever has read it, once the job of that request has ended: by then *)
(* nobody will create another one for it.                                  *)
(***************************************************************************)
\* Those who hold the record of the ThingVisor, if anything.
Holders == {a \in Actors : a \in Requests => Kind[a] \notin SharingKinds}

\* Those who drop a record, or go on after that, are among them.
LEMMA DroppersHold ==
  ASSUME TypeInv, NEW a \in Actors, pc[a] \in {"drop", "k8s", "cleanup"}
  PROVE  a \in Holders
  BY WhoStands DEF Holders, Caller, SharingKinds

\* What an actor holds it held before, or has just read.
LEMMA SeenMoves ==
  ASSUME Happened, NEW a \in Holders
  PROVE  seen'[a] \in {Nil, seen[a], Rec}
<1>0. a \in Actors /\ (a \in Requests => ~DidShare(a))
  BY DEF Holders, DidShare
<1>1. a \in Requests /\ RequestDid(a) => seen'[a] \in {Nil, seen[a]}
  BY <1>0 DEF RequestDid, DidAccept, DidCreate, DidEnqueue, DidStop, DidPublish, DidDebugDrop,
      DidShare,
     Moved, Submitted
<1>2. ASSUME NEW r \in Queued, a = Job(r), JobDid(r) \/ DidEnqueue(r)
      PROVE  seen'[a] \in {Nil, seen[a]}
  <2>1. a # r
    BY <1>2, ActorFacts
  <2>2. CASE DidEnqueue(r)
    BY <1>0, <1>2, <2>1, <2>2 DEF DidEnqueue, Moved
  <2>3. CASE JobDid(r)
    BY <1>2, <2>3
    DEF JobDid, DidBegin, DidPending, DidSubscribe, DidService, DidDeploy, DidRunning,
        DidUpdate, Moved, Submitted
  <2>4. QED
    BY <1>2, <2>2, <2>3
<1>3. CallerDid(a) => seen'[a] \in {Nil, seen[a], Rec}
  BY DEF CallerDid, DidGet, DidDrop, DidDeleteOnKubernetes, DidForget, Moved, Submitted
<1>4. a \in Handlers /\ HandlerDid(a) => seen'[a] \in {Nil, seen[a]}
  BY DEF HandlerDid, DidPoll, DidRegister, DidPublishInit, Moved, Submitted
<1>5. a \in Handlers /\ DidReceive => seen'[a] \in {Nil, seen[a]}
  BY MovedStill, ActorFacts DEF DidReceive, KeptPlaces, Moved, Still
<1>6. DidRestart => seen'[a] \in {Nil, seen[a]}
  BY <1>0 DEF DidRestart, Actors
<1>7. QED
  BY <1>0, <1>1, <1>2, <1>3, <1>4, <1>5, <1>6, Moves DEF Still

\* Only the last write of a creation puts a new Deployment into the record.
LEMMA DetailsChange ==
  ASSUME Happened
  PROVE  \/ Rec' = Nil
         \/ Rec' # Nil /\ Rec'.details \in {NoDetails, NoDeployment}
         \/ Rec # Nil /\ Rec' # Nil /\ Rec'.details = Rec.details
         \/ \E r \in Creations : DidRunning(r) /\ Rec' # Nil /\ Rec'.details = r
<1>1. (Ordered \/ \E r \in Creations : Written(STATUS_PENDING, r, NoDeployment))
        => Rec' # Nil /\ Rec'.details \in {NoDetails, NoDeployment}
  BY DEF Ordered, Written
<1>2. (Is(STATUS_RUNNING) /\ StatusOnly(STATUS_STOPPING)) \/ (\E r \in Queued : ParamsOnly(r))
        => Rec # Nil /\ Rec' # Nil /\ Rec'.details = Rec.details
  BY DEF StatusOnly, ParamsOnly, Is
<1>3. \A r \in Creations : Written(STATUS_RUNNING, r, r) => Rec' # Nil /\ Rec'.details = r
  BY DEF Written
<1>4. QED
  BY <1>1, <1>2, <1>3, RecChanges

Known(rec) == rec # Nil => rec.details \in Creations \cup {NoDetails, NoDeployment}

DetailsKnown == Known(Rec) /\ \A a \in Holders : Known(seen[a])

Shown(x) == \/ Rec # Nil /\ Rec.details = x
            \/ \E a \in Holders : seen[a] # Nil /\ seen[a].details = x

ShownIsEnded == \A x \in Creations : Shown(x) => pc[Job(x)] \in Ended

ShownInv == DetailsKnown /\ ShownIsEnded

\* Every step keeps that only creations whose job has ended are shown.
LEMMA ShownStep == Inv /\ ShownInv /\ Stepped => ShownInv'
<1> SUFFICES ASSUME Inv, ShownInv, Stepped
             PROVE  ShownInv'
  OBVIOUS
<1>1. TypeInv /\ TypeInv' /\ Happened
  BY DEF Stepped, Inv
<1>2. \/ Rec' = Nil
      \/ Rec' # Nil /\ Rec'.details \in {NoDetails, NoDeployment}
      \/ Rec # Nil /\ Rec' # Nil /\ Rec'.details = Rec.details
      \/ \E r \in Creations : DidRunning(r) /\ Rec' # Nil /\ Rec'.details = r
  BY <1>1, DetailsChange
<1>3. \A r \in Creations : DidRunning(r) => pc'[Job(r)] \in Ended
  BY ActorFacts DEF DidRunning, Submitted, Moved, Ended
<1>4. \A a \in Holders : seen'[a] \in {Nil, seen[a], Rec}
  BY <1>1, SeenMoves
<1>5. DetailsKnown'
  <2>1. Known(Rec')
    BY <1>2 DEF ShownInv, DetailsKnown, Known
  <2>2. \A a \in Holders : Known(seen'[a])
    BY <1>4 DEF ShownInv, DetailsKnown, Known
  <2>3. QED
    BY <2>1, <2>2 DEF DetailsKnown, Known
<1>6. ShownIsEnded'
  <2> SUFFICES ASSUME NEW x \in Creations, Shown(x)'
               PROVE  pc'[Job(x)] \in Ended
    BY DEF ShownIsEnded
  <2>1. CASE Shown(x)
    BY <1>1, <2>1, CreationMoves DEF ShownInv, ShownIsEnded
  <2>2. CASE ~Shown(x)
    <3>1. ~\E a \in Holders : seen'[a] # Nil /\ seen'[a].details = x
      BY <1>4, <2>2 DEF Shown
    <3>2. Rec' # Nil /\ Rec'.details = x
      BY <3>1 DEF Shown
    <3>3. x # NoDetails /\ x # NoDeployment
      BY ActorFacts
    <3>4. QED
      BY <1>2, <1>3, <2>2, <3>2, <3>3 DEF Shown
  <2>3. QED
    BY <2>1, <2>2
<1>7. QED
  BY <1>5, <1>6 DEF ShownInv

-------------------------------------------------------------------------------
(***************************************************************************)
(* Even if deletes meet creations: as long as no two deletes overlap, the  *)
(* Deployment the record or a delete names is the one that is there, and   *)
(* when a delete comes to it the record does not name it any more.         *)
(***************************************************************************)
NotItsOwn ==
  \A a \in Actors :
    pc[a] = "k8s" /\ Deployed(seen[a]) /\ Rec # Nil => Rec.details # seen[a].details

AtRisk(x) ==
  \/ Rec # Nil /\ Rec.details = x
  \/ \E a \in Actors : pc[a] \in {"drop", "k8s"} /\ seen[a].details = x

SingleDelete ==
  "twoDeletes" \notin races =>
    /\ \A x \in Creations : AtRisk(x) => deployment = x
    /\ JobHasDeployment

\* Every step keeps that the record does not name the Deployment a delete is
\* about to delete.
LEMMA NotItsOwnStep == Inv /\ ShownInv /\ NotItsOwn /\ Stepped => NotItsOwn'
<1> SUFFICES ASSUME Inv, ShownInv, NotItsOwn, Stepped,
                    NEW a \in Actors, pc'[a] = "k8s", Deployed(seen[a])', Rec' # Nil
             PROVE  Rec'.details # seen'[a].details
  BY DEF NotItsOwn
<1>1. TypeInv /\ TypeInv' /\ Happened
  BY DEF Stepped, Inv
<1>2. \/ Still(a) /\ pc[a] = "k8s"
      \/ DidDrop(a) /\ pc[a] = "drop"
  BY <1>1, DropMoves DEF Dropping, Still
<1>3. DidDrop(a) => Rec' = Nil
  BY DEF DidDrop, Submitted, Dropped, Moved, Ended
<1>4. Still(a) /\ pc[a] = "k8s" /\ seen[a] # Nil
  BY <1>1, <1>2, <1>3 DEF TypeInv, Places, HandsFull, Holding
<1>5. \A r \in Creations : DidRunning(r) => seen[a].details # r
  BY <1>1, <1>4, DroppersHold DEF ShownInv, ShownIsEnded, Shown, DidRunning, Ended
<1>6. QED
  BY <1>1, <1>4, <1>5, DetailsChange DEF NotItsOwn, Deployed, Still

\* A Deployment becomes one a delete may read when its creation writes that it
\* is running.
LEMMA RiskMoves ==
  ASSUME TypeInv, TypeInv', Happened, NEW x \in Creations, AtRisk(x)'
  PROVE  AtRisk(x) \/ DidRunning(x)
<1>1. x # NoDetails /\ x # NoDeployment
  BY ActorFacts
<1>2. CASE Rec' # Nil /\ Rec'.details = x
  BY <1>1, <1>2, DetailsChange DEF AtRisk
<1>3. ASSUME NEW a \in Actors, pc'[a] \in {"drop", "k8s"}, seen'[a].details = x
      PROVE  AtRisk(x)
  <2>1. \/ pc[a] \in {"drop", "k8s"} /\ seen'[a] = seen[a]
        \/ Rec # Nil /\ seen'[a] = Rec
    BY <1>3, DropMoves DEF Dropping, Still
  <2>2. QED
    BY <1>3, <2>1 DEF AtRisk
<1>4. QED
  BY <1>2, <1>3 DEF AtRisk

\* Every step keeps that the Deployment named is the one that is there, until
\* two deletes overlap.
LEMMA SingleDeleteStep ==
  Inv /\ ShownInv /\ NotItsOwn /\ SingleDelete /\ Stepped => SingleDelete'
<1> SUFFICES ASSUME Inv, ShownInv, NotItsOwn, SingleDelete, Stepped,
                    "twoDeletes" \notin races'
             PROVE  /\ \A x \in Creations : AtRisk(x)' => deployment' = x
                    /\ \A r \in Creations : pc'[Job(r)] = "running" => deployment' = r
  BY DEF SingleDelete, JobHasDeployment
<1>1. TypeInv /\ TypeInv' /\ Happened /\ "twoDeletes" \notin races
  BY DEF Stepped, Inv, Recorded
<1>2. /\ \A x \in Creations : AtRisk(x) => deployment = x
      /\ \A r \in Creations : pc[Job(r)] = "running" => deployment = r
  BY <1>1 DEF SingleDelete, JobHasDeployment
<1>3. /\ \A x \in Creations : AtRisk(x)' => AtRisk(x) \/ DidRunning(x)
      /\ \A x \in Creations : AtRisk(x)' => deployment = x
      /\ \A x \in Creations : DidRunning(x) => pc[Job(x)] = "running"
  <2>1. \A x \in Creations : AtRisk(x)' => AtRisk(x) \/ DidRunning(x)
    BY <1>1, RiskMoves
  <2>2. \A x \in Creations : DidRunning(x) => pc[Job(x)] = "running"
    BY DEF DidRunning
  <2>3. QED
    BY <1>2, <2>1, <2>2
<1>4. \A r \in Creations :
        pc'[Job(r)] = "running" =>
          deployment' = r \/ (pc[Job(r)] = "running" /\ deployment = r)
  <2> SUFFICES ASSUME NEW r \in Creations, pc'[Job(r)] = "running"
               PROVE  deployment' = r \/ (pc[Job(r)] = "running" /\ deployment = r)
    OBVIOUS
  <2>1. DidDeploy(r) => deployment' = r
    BY DEF DidDeploy, Moved, Ended
  <2>2. QED
    BY <1>1, <1>2, <2>1, CreationMoves
<1>5. \A r \in Creations : r # NoDeployment
  BY ActorFacts
<1>6. ASSUME NEW a \in Actors, DidDeleteOnKubernetes(a), pc[a] = "k8s",
             Deployed(seen[a]), pc'[a] = "cleanup"
      PROVE  /\ \A x \in Creations : ~AtRisk(x)'
             /\ \A r \in Creations : ~(pc[Job(r)] = "running" /\ deployment = r)
  <2> DEFINE d == seen[a].details
  <2>1. seen[a] # Nil /\ d \in Creations
    BY <1>1, <1>6, DroppersHold
    DEF TypeInv, Places, HandsFull, Holding, ShownInv, DetailsKnown, Known, Deployed
  <2>2. deployment = d /\ pc[Job(d)] \in Ended
    BY <1>1, <1>2, <1>6, <2>1, DroppersHold DEF AtRisk, ShownInv, ShownIsEnded, Shown
  <2>3. \A r \in Creations : ~(pc[Job(r)] = "running" /\ deployment = r)
    BY <2>2 DEF Ended
  <2>4. \A b \in Actors : b # a => Still(b) /\ pc[b] \notin {"drop", "k8s"}
    <3> SUFFICES ASSUME NEW b \in Actors, b # a
                 PROVE  Still(b) /\ pc[b] \notin {"drop", "k8s"}
      OBVIOUS
    <3>1. Still(b)
      BY <1>6, MovedStill DEF DidDeleteOnKubernetes
    <3>2. Deletes <= 1
      <4>1. ~(Deletes > 1)
        BY <1>1 DEF Inv, WindowsSeen, Windows, Labelled
      <4>2. Deletes \in Int
        BY <1>1, DeletesCounted DEF Counted
      <4>3. QED
        BY <4>1, <4>2
    <3>3. a \in Deleters /\ (pc[b] \in {"drop", "k8s"} => b \in Deleters)
      BY <1>6 DEF Deleters
    <3>4. QED
      BY <1>1, <3>1, <3>2, <3>3, TwoDeletes
  <2>5. ASSUME NEW x \in Creations, AtRisk(x)'
        PROVE  FALSE
    <3>1. x = d
      BY <1>3, <2>2, <2>5
    <3>2. \A b \in Actors : pc'[b] \notin {"drop", "k8s"}
      BY <1>6, <2>4 DEF Still
    <3>3. Rec' # Nil /\ Rec'.details = d
      BY <2>5, <3>1, <3>2 DEF AtRisk
    <3>4. Rec' = Rec
      BY <1>6 DEF DidDeleteOnKubernetes, SameRec
    <3>5. QED
      BY <1>6, <3>3, <3>4 DEF NotItsOwn
  <2>6. QED
    BY <2>3, <2>5
<1>7. CASE deployment' = deployment
  BY <1>3, <1>4, <1>7
<1>8. ASSUME NEW r \in Creations, DidDeploy(r), deployment = NoDeployment, deployment' = r
      PROVE  /\ \A x \in Creations : AtRisk(x)' => deployment' = x
             /\ \A q \in Creations : pc'[Job(q)] = "running" => deployment' = q
  BY <1>3, <1>4, <1>5, <1>8
<1>9. QED
  BY <1>1, <1>4, <1>6, <1>7, <1>8, DeploymentChanges

OwnInv == Inv /\ Calm /\ ShownInv /\ NotItsOwn /\ SingleDelete

\* Before anything has happened.
LEMMA AtFirst ==
  ASSUME Init
  PROVE  /\ Rec = Nil /\ deployment = NoDeployment /\ ~callback /\ ~subscribed
         /\ toPod = <<>> /\ toCtl = <<>>
         /\ \A r \in Requests : pc[r] = "new"
         /\ \A j \in Jobs : pc[j] = "none"
         /\ \A h \in Handlers : pc[h] = "idle"
         /\ \A a \in Actors : seen[a] = Nil
         /\ \A a \in Actors : pc[a] \in {"new", "none", "idle"}
<1>1. /\ \A r \in Requests : pc[r] = "new"
      /\ \A j \in Jobs : pc[j] = "none"
      /\ \A h \in Handlers : pc[h] = "idle"
  BY ActorFacts DEF Init, InitWith
<1>2. Rec = Nil
  BY KeyTypes, LifecycleAssumption DEF Init, InitWith, Rec, LifecycleAssumption
<1>3. QED
  BY <1>1, <1>2 DEF Init, InitWith, Actors

\* No Deployment is named or there at first.
LEMMA InitOwn == Init => OwnInv
<1> SUFFICES ASSUME Init PROVE OwnInv
  OBVIOUS
<1>1. JobHasDeployment
  BY AtFirst, ActorFacts DEF JobHasDeployment
<1>2. Calm
  BY <1>1, AtFirst DEF Calm, DroppedIsGone, RecordHasDeployment, SeenHasDeployment
<1>3. ShownInv
  BY AtFirst DEF ShownInv, DetailsKnown, Known, ShownIsEnded, Shown, Holders
<1>4. NotItsOwn
  BY AtFirst DEF NotItsOwn
<1>5. SingleDelete
  BY <1>1, AtFirst DEF SingleDelete, AtRisk
<1>6. QED
  BY <1>2, <1>3, <1>4, <1>5, InitInv DEF OwnInv

\* Every step keeps all of what DeletesOwnDeployment needs.
LEMMA OwnStep == OwnInv /\ Stepped => OwnInv'
  BY CalmStep, ShownStep, NotItsOwnStep, SingleDeleteStep DEF OwnInv, Stepped

DeletesOwn(a) ==
  pc[a] = "k8s" /\ deployment # deployment' /\ pc'[a] # "k8s"
    => \/ deployment = seen[a].details
       \/ {"twoDeletes", "deleteDuringCreate"} \subseteq races

\* Who removes a Deployment removes the one it has read.
LEMMA OwnFollows == OwnInv /\ Stepped => \A a \in Actors : DeletesOwn(a)
<1> SUFFICES ASSUME OwnInv, Stepped, NEW a \in Actors,
                    pc[a] = "k8s", deployment # deployment', pc'[a] # "k8s",
                    ~({"twoDeletes", "deleteDuringCreate"} \subseteq races)
             PROVE  deployment = seen[a].details
  BY DEF DeletesOwn
<1>1. TypeInv /\ Happened
  BY DEF Stepped, OwnInv, Inv
<1>2. ~\E r \in Creations : DidDeploy(r)
  <2> SUFFICES ASSUME NEW r \in Creations, DidDeploy(r)
               PROVE  FALSE
    OBVIOUS
  <2>1. a # Job(r) /\ Job(r) \in Actors
    BY <1>1, WhoStands, ActorFacts
  <2>2. pc'[a] = pc[a]
    BY <2>1, MovedStill DEF DidDeploy, Still
  <2>3. QED
    BY <2>2
<1>3. PICK b \in Actors : /\ DidDeleteOnKubernetes(b) /\ Deployed(seen[b])
                          /\ deployment # NoDeployment
  BY <1>1, <1>2, DeploymentChanges
<1>4. a = b
  BY <1>3, MovedStill DEF DidDeleteOnKubernetes, Still
<1>5. seen[a] # Nil /\ seen[a].details \in Creations
  BY <1>1, <1>3, <1>4, DroppersHold
  DEF TypeInv, Places, HandsFull, Holding, OwnInv, ShownInv, DetailsKnown, Known, Deployed
<1>6. CASE ~Met
  BY <1>3, <1>4, <1>6 DEF OwnInv, Calm, SeenHasDeployment
<1>7. CASE "twoDeletes" \notin races
  BY <1>5, <1>7 DEF OwnInv, SingleDelete, AtRisk
<1>8. QED
  BY <1>6, <1>7 DEF Met

\* A delete removes the Deployment of the record it read and not that of a
\* ThingVisor of the same name added later, unless two deletes overlap and a
\* creation meets them (thingvisor.ts deletes by the name in that record).
THEOREM DeletesOwnDeployment == Spec => OwnDeployment
<1>1. OwnInv /\ [Next]_vars => OwnInv' /\ [\A a \in Actors : DeletesOwn(a)]_vars
  BY StepDoes, OwnStep, OwnFollows DEF OwnInv
<1>2. QED
  BY <1>1, InitOwn, PTL DEF Spec, OwnDeployment, DeletesOwn

-------------------------------------------------------------------------------
(***************************************************************************)
(* Outside debug mode, and as long as no delete meets a creation, a        *)
(* creation that is under way is the only one, and its record is pending.  *)
(***************************************************************************)
Alone ==
  /\ \A r \in Creations : CreatingOf(r) => Is(STATUS_PENDING) /\ ~Deployed(Rec)
  /\ \A r, q \in Creations : CreatingOf(r) /\ CreatingOf(q) => r = q

AloneInv == ~Met /\ ~DebugMode => Alone

\* Every step keeps that a creation is the only one and its record is pending.
LEMMA AloneStep == Inv /\ AloneInv /\ Stepped => AloneInv'
<1> SUFFICES ASSUME Inv, AloneInv, Stepped, ~Met', ~DebugMode
             PROVE  Alone'
  BY DEF Stepped, AloneInv, Recorded, DebugMode
<1>1. TypeInv /\ TypeInv' /\ Inv' /\ Happened /\ ~Met
  BY DEF Stepped, Inv, Recorded, Met
<1>2. Alone
  BY <1>1 DEF AloneInv
<1>3. \A r \in Creations : CreatingOf(r)' => CreatingOf(r) \/ DidCreate(r)
  BY <1>1, CreationMoves
<1>4. ASSUME NEW r \in Creations, DidCreate(r), CreatingOf(r)'
      PROVE  \/ Rec = Nil /\ Ordered
             \/ CreatingOf(r)
  BY <1>4, ActorFacts
  DEF DidCreate, Submitted, Moved, Ended, CreatingOf
<1>5. ASSUME NEW r \in Creations, CreatingOf(r)', ~CreatingOf(r)
      PROVE  Rec = Nil /\ Ordered /\ DidCreate(r) /\ \A q \in Creations : ~CreatingOf(q)
  BY <1>2, <1>3, <1>4, <1>5 DEF Alone, Is

<1>6. ASSUME NEW r \in Creations, NEW q \in Creations, CreatingOf(r)', CreatingOf(q)',
             ~CreatingOf(r)
      PROVE  r = q
  <2>1. DidCreate(r) /\ ~CreatingOf(q)
    BY <1>5, <1>6
  <2>2. DidCreate(q)
    BY <1>5, <1>6, <2>1
  <2>3. pc[q] = "create" /\ pc[r] = "create" /\ r \in Actors /\ q \in Actors
    BY <2>1, <2>2, ActorFacts DEF DidCreate
  <2>4. ASSUME r # q
        PROVE  FALSE
    <3>1. Still(q) /\ Still(Job(q))
      BY <2>1, <2>4, MovedStill, ActorFacts DEF DidCreate
    <3>2. QED
      BY <1>6, <2>1, <2>3, <3>1 DEF CreatingOf, Still
  <2>5. QED
    BY <2>4
<1>7. ASSUME NEW r \in Creations, CreatingOf(r)', CreatingOf(r)
      PROVE  Is(STATUS_PENDING)' /\ ~Deployed(Rec)'
  <2>1. Is(STATUS_PENDING) /\ ~Deployed(Rec) /\ \A q \in Creations : CreatingOf(q) => q = r
    BY <1>2, <1>7 DEF Alone
  <2>2. \A a \in Actors : ~DidDrop(a)
    BY <1>1, <1>7, Apart DEF NeverMeet, DidDrop, Dropping
  <2>3. \A q \in Requests : ~DidDebugDrop(q)
    BY DEF DidDebugDrop
  <2>4. ASSUME NEW q \in Creations, DidRunning(q)
        PROVE  FALSE
    <3>1. q = r
      BY <2>1, <2>4 DEF DidRunning, CreatingOf, Ended
    <3>2. pc[Job(r)] = "running" /\ pc'[Job(r)] \in Ended
      BY <2>4, <3>1, ActorFacts DEF DidRunning, Submitted, Moved, Ended
    <3>3. pc'[r] # "enqueue"
      <4>1. pc[r] # "enqueue" /\ r # Job(r) /\ r \in Actors
        BY <1>1, <3>2, ActorFacts DEF TypeInv, Places, JobsPlaced, Before
      <4>2. Still(r)
        BY <2>4, <3>1, <4>1, MovedStill, ActorFacts DEF DidRunning
      <4>3. QED
        BY <4>1, <4>2 DEF Still
    <3>4. QED
      BY <1>7, <3>2, <3>3 DEF CreatingOf
  <2>5. Rec # Nil /\ Rec.status = STATUS_PENDING /\ STATUS_PENDING # STATUS_RUNNING
    BY <2>1 DEF Is, STATUS_PENDING, STATUS_RUNNING
  <2>6. \/ Rec' = Rec
        \/ \E q \in Creations : Written(STATUS_PENDING, q, NoDeployment)
        \/ \E q \in Queued : ParamsOnly(q)
    BY <1>1, <2>2, <2>3, <2>4, <2>5, RecChanges DEF Is
  <2>7. QED
    BY <2>1, <2>5, <2>6 DEF Is, Deployed, Written, ParamsOnly
<1>8. ASSUME NEW r \in Creations, CreatingOf(r)'
      PROVE  Is(STATUS_PENDING)' /\ ~Deployed(Rec)'
  <2>1. CASE ~CreatingOf(r)
    BY <1>5, <1>8, <2>1 DEF Ordered, Is, Deployed
  <2>2. QED
    BY <1>7, <1>8, <2>1
<1>9. ASSUME NEW r \in Creations, NEW q \in Creations, CreatingOf(r)', CreatingOf(q)'
      PROVE  r = q
  BY <1>2, <1>6, <1>9 DEF Alone
<1>10. QED
  BY <1>8, <1>9 DEF Alone

-------------------------------------------------------------------------------
(***************************************************************************)
(* The command to stop and its acknowledgement, and what they lead to.     *)
(* Outside debug mode, and as long as no two deletes overlap and none      *)
(* meets a creation, they all belong to a record that is "stopping".       *)
(***************************************************************************)
\* Only a delete sends the command, and only the command is acknowledged.
LEMMA CommandMoves ==
  ASSUME TypeInv, Happened
  PROVE  /\ CommandSent' =>
              \/ CommandSent
              \/ \E r \in Requests : DidPublish(r) /\ Kind[r] = "delete"
         /\ Acknowledged' => Acknowledged \/ CommandSent
<1> USE DEF KeptAll, KeptNet, CommandSent, Acknowledged
<1>1. CASE DidLogin \/ DidPod
  BY <1>1 DEF DidLogin, DidPod
<1>2. CASE DidRestart
  <2>1. Elems(<<>>) = {}
    BY QueueSteps
  <2>2. QED
    BY <1>2, <2>1 DEF DidRestart
<1>3. CASE DidReceive
  <2>1. Elems(toCtl') \subseteq Elems(toCtl) /\ toPod' = toPod
    BY <1>3, QueueSteps DEF DidReceive
  <2>2. QED
    BY <2>1
<1>4. CASE DidPodsReceive
  <2>1. PICK acks \in Seq(Reports) :
          /\ toCtl' = toCtl \o acks
          /\ Head(toPod).cmd # "destroyTV" => "destroyTVAck" \notin Elems(acks)
    BY <1>4 DEF DidPodsReceive
  <2>2. /\ Elems(toPod) = {Head(toPod)} \cup Elems(toPod')
        /\ Elems(toCtl') = Elems(toCtl) \cup Elems(acks)
    BY <1>4, <2>1, QueueSteps DEF DidPodsReceive
  <2>3. QED
    BY <2>1, <2>2
<1>5. CASE DidPodStarts
  <2>1. "requestInit" \in Reports /\ "createVThing" \in Reports
    BY DEF Reports
  <2>2. PICK m \in {"requestInit", "createVThing"} : toCtl' = Append(toCtl, m)
    BY <1>5 DEF DidPodStarts
  <2>3. Elems(toCtl') = Elems(toCtl) \cup {m} /\ toPod' = toPod
    BY <1>5, <2>1, <2>2, QueueSteps DEF DidPodStarts
  <2>4. QED
    BY <2>2, <2>3
<1>6. CASE DidLose
  <2>1. Elems(toCtl') \subseteq Elems(toCtl) /\ Elems(toPod') \subseteq Elems(toPod)
    BY <1>6, QueueSteps DEF DidLose
  <2>2. QED
    BY <2>1
<1>7. ASSUME NEW r \in Requests,
             \/ DidAccept(r) \/ DidCreate(r) \/ DidEnqueue(r) \/ DidStop(r) \/ DidDebugDrop(r)
      PROVE  toPod' = toPod /\ toCtl' = toCtl
  BY <1>7 DEF DidAccept, DidCreate, DidEnqueue, DidStop, DidDebugDrop
<1>8. ASSUME NEW r \in Requests, DidPublish(r)
      PROVE  /\ CommandSent' => CommandSent \/ Kind[r] = "delete"
             /\ toCtl' = toCtl
  <2>1. Elems(toPod') = Elems(toPod) \cup {Message(r)} /\ toCtl' = toCtl
    BY <1>8, QueueSteps DEF DidPublish
  <2>2. Kind[r] # "delete" => Message(r).cmd = "updateTV"
    BY DEF Message
  <2>3. QED
    BY <2>1, <2>2
<1>9. ASSUME NEW r \in Queued, JobDid(r)
      PROVE  toPod' = toPod /\ toCtl' = toCtl
  BY <1>9 DEF JobDid, DidBegin, DidPending, DidSubscribe, DidService, DidDeploy, DidRunning,
     DidUpdate
<1>10. ASSUME NEW a \in Actors, CallerDid(a)
       PROVE  toPod' = toPod /\ toCtl' = toCtl
  BY <1>10 DEF CallerDid, DidGet, DidDrop, DidDeleteOnKubernetes, DidForget
<1>11. ASSUME NEW h \in Handlers, DidPoll(h) \/ DidRegister(h)
       PROVE  toPod' = toPod /\ toCtl' = toCtl
  BY <1>11 DEF DidPoll, DidRegister
<1>12. ASSUME NEW h \in Handlers, DidPublishInit(h)
       PROVE  (CommandSent' => CommandSent) /\ toCtl' = toCtl
  <2>1. PICK m \in Commands : m.cmd = "createVThings" /\ toPod' = Append(toPod, m)
    BY <1>12 DEF DidPublishInit
  <2>2. Elems(toPod') = Elems(toPod) \cup {m}
    BY <2>1, QueueSteps
  <2>3. QED
    BY <1>12, <2>1, <2>2 DEF DidPublishInit
<1>13. ASSUME NEW r \in Requests, DidShare(r)
       PROVE  (CommandSent' => CommandSent) /\ toCtl' = toCtl
  <2>1. CASE toPod' = toPod
    BY <1>13, <2>1 DEF DidShare
  <2>2. ASSUME NEW m \in Commands, m.cmd = "endpoint", toPod' = Append(toPod, m)
        PROVE  (CommandSent' => CommandSent) /\ toCtl' = toCtl
    <3>1. Elems(toPod') = Elems(toPod) \cup {m}
      BY <2>2, QueueSteps
    <3>2. QED
      BY <1>13, <2>2, <3>1 DEF DidShare
  <2>3. QED
    BY <1>13, <2>1, <2>2 DEF DidShare
<1>14. QED
  BY <1>1, <1>2, <1>3, <1>4, <1>5, <1>6, <1>7, <1>8, <1>9, <1>10, <1>11, <1>12, <1>13
  DEF Happened, DidStep, LifeStep, JobDid, CallerDid

Stopper ==
  \/ \E r \in Requests : pc[r] = "publish" /\ Kind[r] = "delete"
  \/ CommandSent \/ Acknowledged
  \/ \E h \in Handlers : pc[h] \in {"get", "drop"}

\* A deletion begins with the stop of a running ThingVisor or goes on from
\* there.
LEMMA StopperMoves ==
  ASSUME TypeInv, Happened, Stopper'
  PROVE  \/ Stopper
         \/ \E r \in Requests :
              DidStop(r) /\ Is(STATUS_RUNNING) /\ StatusOnly(STATUS_STOPPING)
<1>1. ASSUME NEW r \in Requests, pc'[r] = "publish", Kind[r] = "delete",
             pc[r] # "publish"
      PROVE  DidStop(r) /\ Is(STATUS_RUNNING) /\ StatusOnly(STATUS_STOPPING)
  <2>0. r \in Actors /\ r \notin Jobs /\ r \notin Handlers
    BY ActorFacts
  <2>1. \A q \in Queued : r # Job(q)
    BY ActorFacts
  <2>2. ~CallerDid(r)
    BY <1>1, <2>0
    DEF CallerDid, DidGet, DidDrop, DidDeleteOnKubernetes, DidForget, Caller, AfterGet,
        Moved, Submitted, Ended
  <2>3. ~DidRestart
    BY <1>1 DEF DidRestart, AtRest, Ended
  <2>4. RequestDid(r)
    BY <1>1, <2>0, <2>1, <2>2, <2>3, Moves DEF Still
  <2>5. DidStop(r)
    BY <1>1, <2>0, <2>4
    DEF RequestDid, DidAccept, DidCreate, DidEnqueue, DidStop, DidPublish, DidDebugDrop, DidShare,
        Moved, Submitted, Ended
  <2>6. QED
    BY <1>1, <2>0, <2>5 DEF DidStop, Submitted, Moved, Ended
<1>2. ASSUME NEW h \in Handlers, pc'[h] \in {"get", "drop"}
      PROVE  pc[h] \in {"get", "drop"} \/ Acknowledged
  <2>0. h \in Actors /\ h \notin Requests /\ h \notin Jobs
    BY ActorFacts
  <2>1. CASE Still(h)
    BY <1>2, <2>1 DEF Still
  <2>2. CASE CallerDid(h) \/ HandlerDid(h)
    BY <1>2, <2>0, <2>2
    DEF CallerDid, DidGet, DidDrop, DidDeleteOnKubernetes, DidForget, HandlerDid, DidPoll,
        DidRegister, DidPublishInit, Moved, Submitted, Ended
  <2>3. CASE DidReceive /\ ~Still(h)
    <3>1. pc'[h] = FirstStep(Head(toCtl)) /\ Head(toCtl) \in Elems(toCtl)
          /\ Head(toCtl) \in Reports
      BY <2>0, <2>3, MovedStill, QueueSteps, ActorFacts
      DEF DidReceive, KeptPlaces, Still, Moved, Ended, FirstStep, Reports
    <3>2. QED
      BY <1>2, <3>1 DEF FirstStep, Reports, Acknowledged
  <2>4. ~DidRestart
    BY <1>2 DEF DidRestart
  <2>5. QED
    BY <2>0, <2>1, <2>2, <2>3, <2>4, Moves, ActorFacts
<1>3. CommandSent' => Stopper
  BY CommandMoves DEF Stopper, DidPublish
<1>4. Acknowledged' => Stopper
  BY CommandMoves DEF Stopper
<1>5. QED
  BY <1>1, <1>2, <1>3, <1>4 DEF Stopper

AckCauses == {"twoDeletes", "deleteDuringCreate"}

StopperInv == Without(AckCauses) /\ ~DebugMode /\ Stopper => Is(STATUS_STOPPING)

\* Every step keeps that the record a deletion is about is marked as stopping.
LEMMA StopperStep == Inv /\ AloneInv /\ StopperInv /\ Stepped => StopperInv'
<1> SUFFICES ASSUME Inv, AloneInv, StopperInv, Stepped,
                    Without(AckCauses)', ~DebugMode, Stopper'
             PROVE  Is(STATUS_STOPPING)'
  BY DEF Stepped, StopperInv, Recorded, DebugMode
<1>1. TypeInv /\ Happened /\ Recorded
  BY DEF Stepped, Inv
<1>2. /\ Without(AckCauses) /\ ~Met
      /\ "twoDeletes" \notin races
  BY <1>1, WithoutBefore DEF Recorded, Without, AckCauses, Met
<1>3. Alone /\ (Stopper => Is(STATUS_STOPPING))
  BY <1>2 DEF AloneInv, StopperInv
<1>4. CASE ~Stopper
  BY <1>1, <1>4, StopperMoves DEF StatusOnly, Is
<1>5. CASE Stopper
  <2>1. Rec # Nil /\ Rec.status = STATUS_STOPPING
        /\ STATUS_STOPPING # STATUS_RUNNING /\ STATUS_STOPPING # STATUS_PENDING
    BY <1>3, <1>5 DEF Is, STATUS_STOPPING, STATUS_RUNNING, STATUS_PENDING
  <2>2. \A r \in Creations : ~DidPending(r) /\ ~DidRunning(r)
    BY <1>3, <2>1 DEF Alone, Is, CreatingOf, DidPending, DidRunning, Ended
  <2>3. \A r \in Requests : ~DidDebugDrop(r)
    BY DEF DidDebugDrop
  <2>4. ASSUME NEW a \in Actors, DidDrop(a)
        PROVE  FALSE
    <3>1. Deletes <= 1
      <4>1. ~(Deletes > 1)
        BY <1>2 DEF Inv, WindowsSeen, Windows, Labelled
      <4>2. Deletes \in Int
        BY <1>1, DeletesCounted DEF Counted
      <4>3. QED
        BY <4>1, <4>2
    <3>2. a \in Deleters /\ pc[a] = "drop"
      BY <2>4 DEF Deleters, DidDrop
    <3>3. (\A b \in Deleters : b = a) /\ Stops = {} /\ Acks = {}
      BY <1>1, <3>1, <3>2, TwoDeletes
    <3>4. ~CommandSent /\ ~Acknowledged
      BY <3>3 DEF CommandSent, Acknowledged, Stops, Acks, Elems
    <3>5. /\ \A b \in Actors : b # a => Still(b)
          /\ pc'[a] \notin {"get", "drop", "publish"}
      BY <2>4, MovedStill DEF DidDrop, Moved, Submitted, Ended
    <3>6. ~CommandSent' /\ ~Acknowledged'
      BY <2>4, <3>4 DEF DidDrop, KeptAll, KeptNet, CommandSent, Acknowledged
    <3>7. ASSUME NEW r \in Requests, pc'[r] = "publish", Kind[r] = "delete"
          PROVE  FALSE
      <4>1. r # a /\ r \in Actors
        BY <3>5, <3>7, ActorFacts
      <4>2. r \in Deleters
        BY <3>5, <3>7, <4>1 DEF Still, Deleters
      <4>3. QED
        BY <3>3, <4>1, <4>2
    <3>8. ASSUME NEW h \in Handlers, pc'[h] \in {"get", "drop"}
          PROVE  FALSE
      <4>1. h # a /\ h \in Actors
        BY <3>5, <3>8, ActorFacts
      <4>2. h \in Deleters
        BY <3>5, <3>8, <4>1 DEF Still, Deleters
      <4>3. QED
        BY <3>3, <4>1, <4>2
    <3>9. QED
      BY <3>6, <3>7, <3>8 DEF Stopper
  <2>5. Rec' = Rec \/ \E r \in Queued : ParamsOnly(r)
    BY <1>1, <2>1, <2>2, <2>3, <2>4, RecChanges DEF Is
  <2>6. QED
    BY <2>1, <2>5 DEF ParamsOnly, Is
<1>6. QED
  BY <1>4, <1>5

\* Neither a creation nor a deletion is under way at first.
LEMMA InitStopper == Init => AloneInv /\ StopperInv
<1> SUFFICES ASSUME Init PROVE AloneInv /\ StopperInv
  OBVIOUS
<1>1. AloneInv
  BY AtFirst, ActorFacts DEF AloneInv, Alone, CreatingOf
<1>2. ~Stopper
  <2>1. Elems(<<>>) = {}
    BY InitInv, QueueSteps DEF Inv
  <2>2. QED
    BY <2>1, AtFirst DEF Stopper, CommandSent, Acknowledged
<1>3. QED
  BY <1>1, <1>2 DEF StopperInv

DeletesStopping(h) ==
  pc[h] = "drop" /\ Rec # Nil /\ Rec' = Nil /\ pc'[h] # "drop"
     => \/ Is(STATUS_STOPPING)
        \/ DebugMode
        \/ ~Without({"twoDeletes", "deleteDuringCreate"})

AckInv == Inv /\ AloneInv /\ StopperInv

\* A callback that deletes finds the record it is about.
LEMMA AckFollows == AckInv => \A h \in Handlers : DeletesStopping(h)
  BY DEF AckInv, StopperInv, Stopper, AckCauses, DeletesStopping

\* Every step keeps what that needs.
LEMMA AckStep == AckInv /\ Stepped => AckInv'
  BY AloneStep, StopperStep DEF AckInv, Stepped

\* The destroyTVAck callback deletes only a ThingVisor that is "stopping",
\* unless two deletes overlap or one meets a creation: mqttcallback.ts does not
\* look at the status, so that an old acknowledgement would delete another one.
THEOREM AckDeletesOwn == Spec => AckDeletesStopping
<1>1. AckInv /\ [Next]_vars => AckInv' /\ [\A h \in Handlers : DeletesStopping(h)]_vars
  BY StepDoes, AckStep, AckFollows DEF AckInv
<1>2. Init => AckInv
  BY InitInv, InitStopper DEF AckInv
<1>3. QED
  BY <1>1, <1>2, PTL DEF Spec, AckDeletesStopping, DeletesStopping

-------------------------------------------------------------------------------
(***************************************************************************)
(* As long as nothing fails, nothing is interrupted and no delete meets a  *)
(* creation, a Deployment, a callback and a subscription belong to a       *)
(* record, or to a creation or a delete that has not come to its end.      *)
(***************************************************************************)
GoneCauses == {"deleteDuringCreate", "k8s", "submit", "createInterrupted",
               "deleteInterrupted"}

Gentle == ~DebugMode /\ Without(GoneCauses)

DropSeesRecord ==
  \A a \in Actors : pc[a] = "drop" /\ Rec # Nil => seen[a].details = Rec.details

DeploymentInUse ==
  deployment # NoDeployment =>
    \/ Rec # Nil /\ Rec.details = deployment
    \/ Rec # Nil /\ pc[Job(deployment)] = "running"
    \/ Rec = Nil /\ \E a \in Actors : pc[a] = "k8s" /\ Deployed(seen[a])

CallbackInUse ==
  Rec = Nil /\ (callback \/ subscribed) =>
    \E a \in Actors :
      \/ pc[a] = "cleanup"
      \/ pc[a] = "k8s" /\ (Deployed(seen[a]) => deployment # NoDeployment)

GentleInv == Gentle => DropSeesRecord /\ DeploymentInUse /\ CallbackInUse

\* What a gentle step cannot have been.
LEMMA GentleSteps ==
  ASSUME Inv, Stepped, Gentle'
  PROVE  /\ TypeInv /\ TypeInv' /\ Inv' /\ Happened
         /\ Gentle /\ ~Met /\ ~Met' /\ ~DebugMode
         /\ "submit" \notin faults' /\ "k8s" \notin faults'
         /\ DidRestart => /\ \A r \in Creations : ~CreatingOf(r)
                          /\ \A a \in Actors : ~Dropping(a)
<1>1. TypeInv /\ TypeInv' /\ Inv' /\ Happened /\ Recorded
  BY DEF Stepped, Inv
<1>2. Gentle /\ ~DebugMode
  BY <1>1, WithoutBefore DEF Gentle, Recorded, DebugMode
<1>3. /\ ~Met /\ ~Met' /\ "submit" \notin faults' /\ "k8s" \notin faults'
      /\ "createInterrupted" \notin races' /\ "deleteInterrupted" \notin races'
  BY <1>2 DEF Gentle, Without, GoneCauses, Met
<1>4. ASSUME DidRestart
      PROVE  /\ \A r \in Creations : ~CreatingOf(r)
             /\ \A a \in Actors : ~Dropping(a)
  <2>1. ~Creating /\ ~(Deletes > 0)
    BY <1>3, <1>4 DEF DidRestart, Interrupted, Labelled
  <2>2. \A r \in Creations : ~CreatingOf(r)
    BY <2>1 DEF Creating, CreatingOf
  <2>3. Deleters = {}
    <3>1. Cardinality(Deleters) = 0
      BY <1>1, <2>1, DeletesCounted DEF Counted
    <3>2. QED
      BY <1>1, <3>1, DeletesCounted, FS_EmptySet DEF Counted
  <2>4. QED
    BY <2>2, <2>3 DEF Deleters, Dropping
<1>5. QED
  BY <1>1, <1>2, <1>3, <1>4

\* How a job that is about to write its record for the last time comes away.
LEMMA LastWrite ==
  ASSUME TypeInv, NEW r \in Creations, pc[Job(r)] = "running"
  PROVE  /\ DidStep => pc'[Job(r)] = "running" \/ DidRunning(r)
         /\ Happened => pc'[Job(r)] = "running" \/ DidRunning(r) \/ DidRestart
<1>0. r \in Queued /\ Job(r) \in Actors /\ Job(r) \notin Handlers
      /\ Job(r) \notin Requests /\ \A q : Job(q) = Job(r) => q = r
  BY ActorFacts
<1>1. ~CallerDid(Job(r))
  BY <1>0
  DEF CallerDid, DidGet, DidDrop, DidDeleteOnKubernetes, DidForget, Caller
<1>2. ~DidEnqueue(r)
  <2>1. pc[r] # "enqueue"
    BY <1>0 DEF TypeInv, Places, JobsPlaced, Before
  <2>2. QED
    BY <2>1 DEF DidEnqueue
<1>3. JobDid(r) => DidRunning(r)
  BY DEF JobDid, DidBegin, DidPending, DidSubscribe, DidService, DidDeploy, DidUpdate
<1>4. QED
  BY <1>0, <1>1, <1>2, <1>3, StepMoves, Moves DEF Still

\* How somebody who is about to delete on Kubernetes, and a job that is about
\* to write its record for the last time, come away from there.
LEMMA LastMoves ==
  ASSUME TypeInv, Happened
  PROVE  /\ \A a \in Actors :
              pc[a] = "k8s" => Still(a) \/ DidDeleteOnKubernetes(a) \/ DidRestart
         /\ \A a \in Actors :
              pc[a] = "cleanup" => Still(a) \/ DidForget(a) \/ DidRestart
         /\ \A r \in Creations :
              pc[Job(r)] = "running" =>
                pc'[Job(r)] = "running" \/ DidRunning(r) \/ DidRestart
<1>1. ASSUME NEW a \in Actors, pc[a] \in {"k8s", "cleanup"}
      PROVE  \/ Still(a) \/ DidRestart
             \/ pc[a] = "k8s" /\ DidDeleteOnKubernetes(a)
             \/ pc[a] = "cleanup" /\ DidForget(a)
  <2>1. a \in Requests => ~RequestDid(a)
    BY <1>1
    DEF RequestDid, DidAccept, DidCreate, DidEnqueue, DidStop, DidPublish, DidDebugDrop, DidShare
  <2>2. \A r \in Queued : a # Job(r)
    BY <1>1, WhoStands
  <2>3. a \in Handlers => ~HandlerDid(a) /\ (DidReceive => Still(a))
    BY <1>1, MovedStill, ActorFacts
    DEF HandlerDid, DidPoll, DidRegister, DidPublishInit, DidReceive, KeptPlaces, Still
  <2>4. CallerDid(a) => \/ pc[a] = "k8s" /\ DidDeleteOnKubernetes(a)
                        \/ pc[a] = "cleanup" /\ DidForget(a)
    BY <1>1 DEF CallerDid, DidGet, DidDrop, DidDeleteOnKubernetes, DidForget
  <2>5. QED
    BY <2>1, <2>2, <2>3, <2>4, Moves
<1>2. \A r \in Creations :
        pc[Job(r)] = "running" => pc'[Job(r)] = "running" \/ DidRunning(r) \/ DidRestart
  BY LastWrite
<1>3. QED
  BY <1>1, <1>2

\* Only a creation installs the callback and subscribes.
LEMMA CallbackChanges ==
  ASSUME Happened
  PROVE  \/ callback' = callback /\ subscribed' = subscribed
         \/ \E r \in Creations : DidSubscribe(r)
         \/ \E a \in Actors : DidForget(a) /\ ~callback' /\ ~subscribed'
         \/ DidRestart /\ ~callback' /\ subscribed' = subscribed
<1> USE DEF KeptAll, KeptCtl
<1>1. CASE DidLogin \/ DidReceive \/ DidPodsReceive \/ DidPodStarts \/ DidPod \/ DidLose
  BY <1>1 DEF DidLogin, DidReceive, DidPodsReceive, DidPodStarts, DidPod, DidLose
<1>2. CASE DidRestart
  BY <1>2 DEF DidRestart
<1>3. ASSUME NEW r \in Requests, RequestDid(r)
      PROVE  callback' = callback /\ subscribed' = subscribed
  BY <1>3
  DEF RequestDid, DidAccept, DidCreate, DidEnqueue, DidStop, DidPublish, DidDebugDrop, DidShare
<1>4. ASSUME NEW r \in Queued, JobDid(r)
      PROVE  \/ callback' = callback /\ subscribed' = subscribed
             \/ r \in Creations /\ DidSubscribe(r)
  BY <1>4, ActorFacts
  DEF JobDid, DidBegin, DidPending, DidSubscribe, DidService, DidDeploy, DidRunning,
      DidUpdate, Creations
<1>5. ASSUME NEW a \in Actors, CallerDid(a)
      PROVE  \/ callback' = callback /\ subscribed' = subscribed
             \/ DidForget(a) /\ ~callback' /\ ~subscribed'
  BY <1>5 DEF CallerDid, DidGet, DidDrop, DidDeleteOnKubernetes, DidForget
<1>6. ASSUME NEW h \in Handlers, HandlerDid(h)
      PROVE  callback' = callback /\ subscribed' = subscribed
  BY <1>6 DEF HandlerDid, DidPoll, DidRegister, DidPublishInit
<1>7. QED
  BY <1>1, <1>2, <1>3, <1>4, <1>5, <1>6
  DEF Happened, DidStep, LifeStep, RequestDid, JobDid, CallerDid, HandlerDid

\* Every gentle step keeps that who drops the record has read the one that is
\* there.
LEMMA DropSeesStep ==
  ASSUME Inv, AloneInv, Calm, Stepped, Gentle', DropSeesRecord
  PROVE  DropSeesRecord'
<1>1. /\ TypeInv /\ TypeInv' /\ Inv' /\ Happened /\ ~Met /\ ~Met' /\ ~DebugMode
      /\ "submit" \notin faults'
  BY GentleSteps
<1> SUFFICES ASSUME NEW a \in Actors, pc'[a] = "drop", Rec' # Nil
             PROVE  seen'[a].details = Rec'.details
  BY DEF DropSeesRecord
<1>2. \/ Still(a) /\ pc[a] = "drop"
      \/ DidGet(a) /\ seen'[a] = Rec
  <2>1. Dropping(a)'
    BY DEF Dropping
  <2>2. QED
    BY <1>1, <2>1, DropMoves DEF Dropping, Still
<1>3. CASE DidGet(a) /\ seen'[a] = Rec
  <2>1. Rec' = Rec
    BY <1>3 DEF DidGet, SameRec
  <2>2. QED
    BY <1>3, <2>1
<1>4. CASE Still(a) /\ pc[a] = "drop"
  <2>1. Dropping(a) /\ Dropping(a)'
    BY <1>4 DEF Dropping, Still
  <2>2. \A r \in Creations : ~DidPending(r) /\ ~DidRunning(r)
    BY <1>1, <2>1, Apart DEF NeverMeet, CreatingOf, DidPending, DidRunning, Ended
  <2>3. \A r \in Creations : DidCreate(r) => ~(Rec = Nil /\ Ordered)
    <3> SUFFICES ASSUME NEW r \in Creations, DidCreate(r), Rec = Nil, Ordered
                 PROVE  FALSE
      OBVIOUS
    <3>1. pc'[r] = "enqueue"
      BY <1>1 DEF DidCreate, Submitted, Moved, Ended, SameRec, Ordered
    <3>2. QED
      BY <1>1, <2>1, <3>1, ApartNext DEF NeverMeet, CreatingOf
  <2>4. \/ Rec' = Rec
        \/ Is(STATUS_RUNNING) /\ StatusOnly(STATUS_STOPPING)
        \/ \E r \in Queued : ParamsOnly(r)
    BY <1>1, <2>2, <2>3, RecChanges DEF DidDebugDrop
  <2>5. Rec # Nil /\ Rec'.details = Rec.details
    BY <2>4 DEF Is, StatusOnly, ParamsOnly
  <2>6. QED
    BY <1>4, <2>5 DEF DropSeesRecord, Still
<1>5. QED
  BY <1>2, <1>3, <1>4

\* Every gentle step keeps that a Deployment is the record's, a creation's or
\* about to be deleted.
LEMMA InUseStep ==
  ASSUME Inv, AloneInv, Calm, Stepped, Gentle', DropSeesRecord, DeploymentInUse
  PROVE  DeploymentInUse'
<1>1. /\ TypeInv /\ TypeInv' /\ Inv' /\ Happened /\ ~Met /\ ~Met' /\ ~DebugMode
      /\ "submit" \notin faults' /\ "k8s" \notin faults'
      /\ DidRestart => /\ \A r \in Creations : ~CreatingOf(r)
                       /\ \A a \in Actors : ~Dropping(a)
  BY GentleSteps
<1>2. Alone
  BY <1>1 DEF AloneInv
<1>3. \A r \in Creations : /\ DidPending(r) => CreatingOf(r)
                           /\ DidRunning(r) => CreatingOf(r)
                           /\ DidDeploy(r) => CreatingOf(r)
                           /\ r # NoDeployment
  BY ActorFacts DEF CreatingOf, DidPending, DidRunning, DidDeploy, Ended
<1>4. \A r \in Requests : ~DidDebugDrop(r)
  BY <1>1 DEF DidDebugDrop
<1>5. CASE deployment' # deployment
  <2> SUFFICES ASSUME deployment' # NoDeployment
               PROVE  DeploymentInUse'
    BY DEF DeploymentInUse
  <2>1. PICK r \in Creations : DidDeploy(r) /\ deployment = NoDeployment /\ deployment' = r
    BY <1>1, <1>5, DeploymentChanges
  <2>2. Rec' # Nil
    BY <1>2, <1>3, <2>1 DEF Alone, Is, DidDeploy, SameRec
  <2>3. pc'[Job(r)] = "running"
    BY <1>3, <2>1 DEF DidDeploy, Moved, Ended
  <2>4. QED
    BY <2>1, <2>2, <2>3 DEF DeploymentInUse
<1>6. CASE deployment' = deployment /\ deployment # NoDeployment
  <2> DEFINE d == deployment
  <2>0. d \in Creations
    BY <1>1, <1>6 DEF TypeInv, RestTyped
  <2>1. CASE Rec # Nil /\ Rec.details = d
    <3>1. Deployed(Rec) /\ \A r \in Creations : ~CreatingOf(r)
      BY <1>2, <2>0, <2>1, ActorFacts DEF Deployed, Alone
    <3>2. CASE Rec' # Nil
      <4>1. \/ Rec' = Rec
            \/ Is(STATUS_RUNNING) /\ StatusOnly(STATUS_STOPPING)
            \/ \E r \in Queued : ParamsOnly(r)
        BY <1>1, <1>3, <1>4, <2>1, <3>1, <3>2, RecChanges
      <4>2. Rec'.details = d
        BY <2>1, <4>1 DEF StatusOnly, ParamsOnly
      <4>3. QED
        BY <1>6, <3>2, <4>2 DEF DeploymentInUse
    <3>3. CASE Rec' = Nil
      <4>1. PICK a \in Actors : DidDrop(a)
        BY <1>1, <1>3, <1>4, <2>1, <3>1, <3>3, RecChanges
        DEF Ordered, Written, StatusOnly, ParamsOnly
      <4>2. pc'[a] = "k8s" /\ seen'[a] = seen[a] /\ pc[a] = "drop"
        BY <1>1, <2>1, <3>3, <4>1 DEF DidDrop, Submitted, Moved, Ended, InDebug
      <4>3. Deployed(seen[a])
        BY <2>1, <3>1, <4>2 DEF DropSeesRecord, Deployed
      <4>4. Deployed(seen'[a])
        BY <4>2, <4>3
      <4>5. QED
        BY <3>3, <4>2, <4>4 DEF DeploymentInUse, Deployed
    <3>4. QED
      BY <3>2, <3>3
  <2>2. CASE Rec # Nil /\ pc[Job(d)] = "running"
    <3>1. CreatingOf(d) /\ ~DidRestart /\ \A a \in Actors : ~DidDrop(a)
      BY <1>1, <2>0, <2>2, Apart
      DEF CreatingOf, Ended, NeverMeet, Dropping, DidDrop
    <3>2. CASE DidRunning(d)
      <4>1. Rec' # Nil /\ Rec'.details = d
        BY <1>1, <3>2 DEF DidRunning, Submitted, Written
      <4>2. QED
        BY <1>6, <4>1 DEF DeploymentInUse
    <3>3. CASE pc'[Job(d)] = "running"
      <4>1. Rec' # Nil
        BY <1>1, <1>4, <2>2, <3>1, RecChanges DEF Ordered, StatusOnly, Written, ParamsOnly
      <4>2. QED
        BY <1>6, <3>3, <4>1 DEF DeploymentInUse
    <3>4. QED
      BY <1>1, <2>0, <2>2, <3>1, <3>2, <3>3, LastMoves
  <2>3. ASSUME Rec = Nil, NEW a \in Actors, pc[a] = "k8s", Deployed(seen[a])
        PROVE  DeploymentInUse'
    <3>1. ~DidRestart /\ \A r \in Creations : ~CreatingOf(r)
      BY <1>1, <2>3, Apart DEF Dropping, NeverMeet
    <3>2. Still(a)
      BY <1>1, <1>6, <2>3, <3>1, LastMoves DEF DidDeleteOnKubernetes
    <3>3. \A r \in Creations : DidCreate(r) => ~Ordered
      <4> SUFFICES ASSUME NEW r \in Creations, DidCreate(r), Ordered
                   PROVE  FALSE
        OBVIOUS
      <4>1. pc'[r] = "enqueue"
        BY <1>1, <2>3 DEF DidCreate, Submitted, Moved, Ended, SameRec, Ordered
      <4>2. Dropping(a)'
        BY <2>3, <3>2 DEF Dropping, Still
      <4>3. QED
        BY <1>1, <4>1, <4>2, ApartNext DEF NeverMeet, CreatingOf
    <3>4. Rec' = Nil
      BY <1>1, <1>3, <1>4, <2>3, <3>1, <3>3, RecChanges DEF Is, ParamsOnly
    <3>5. pc'[a] = "k8s" /\ Deployed(seen'[a])
      BY <2>3, <3>2 DEF Still
    <3>6. QED
      BY <3>4, <3>5 DEF DeploymentInUse, Deployed
  <2>4. QED
    BY <1>6, <2>1, <2>2, <2>3 DEF DeploymentInUse
<1>7. CASE deployment' = NoDeployment
  BY <1>7 DEF DeploymentInUse
<1>8. QED
  BY <1>5, <1>6, <1>7

\* Every gentle step keeps that a callback without a record is about to be
\* removed.
LEMMA CallbackStep ==
  ASSUME Inv, AloneInv, Calm, Stepped, Gentle', DropSeesRecord, CallbackInUse
  PROVE  CallbackInUse'
<1>1. /\ TypeInv /\ TypeInv' /\ Inv' /\ Happened /\ ~Met /\ ~Met' /\ ~DebugMode
      /\ "submit" \notin faults' /\ "k8s" \notin faults'
      /\ DidRestart => /\ \A r \in Creations : ~CreatingOf(r)
                       /\ \A a \in Actors : ~Dropping(a)
  BY GentleSteps
<1>2. Alone
  BY <1>1 DEF AloneInv
<1> SUFFICES ASSUME Rec' = Nil, callback' \/ subscribed'
             PROVE  \E a \in Actors :
                      \/ pc'[a] = "cleanup"
                      \/ /\ pc'[a] = "k8s"
                         /\ Deployed(seen'[a]) => deployment' # NoDeployment
  BY DEF CallbackInUse, Deployed
<1>3. callback \/ subscribed
  <2>1. \A r \in Creations : ~DidSubscribe(r)
    <3> SUFFICES ASSUME NEW r \in Creations, DidSubscribe(r)
                 PROVE  FALSE
      OBVIOUS
    <3>1. CreatingOf(r)
      BY DEF DidSubscribe, CreatingOf, Ended
    <3>2. QED
      BY <1>2, <3>1 DEF Alone, Is, DidSubscribe, SameRec
  <2>2. QED
    BY <1>1, <2>1, CallbackChanges
<1>4. CASE Rec = Nil
  <2>1. PICK a \in Actors :
          \/ pc[a] = "cleanup"
          \/ pc[a] = "k8s" /\ (Deployed(seen[a]) => deployment # NoDeployment)
    BY <1>3, <1>4 DEF CallbackInUse
  <2>2. ~DidRestart /\ ~DidForget(a)
    BY <1>1, <2>1 DEF Dropping, DidForget
  <2>3. CASE Still(a)
    <3>1. CASE deployment' = NoDeployment /\ deployment # NoDeployment
      <4>1. \E b \in Actors : pc'[b] = "cleanup"
        BY <1>1, <3>1, DeploymentChanges, ActorFacts
      <4>2. QED
        BY <4>1
    <3>2. CASE ~(deployment' = NoDeployment /\ deployment # NoDeployment)
      BY <2>1, <2>3, <3>2 DEF Still
    <3>3. QED
      BY <3>1, <3>2
  <2>4. CASE DidDeleteOnKubernetes(a)
    BY <1>1, <2>1, <2>4 DEF DidDeleteOnKubernetes, Moved, Ended
  <2>5. QED
    BY <1>1, <2>1, <2>2, <2>3, <2>4, LastMoves
<1>5. CASE Rec # Nil
  <2>1. PICK a \in Actors : DidDrop(a)
    BY <1>1, <1>5, RecChanges
    DEF DidDebugDrop, Ordered, Written, StatusOnly, ParamsOnly
  <2>2. /\ pc'[a] = "k8s" /\ seen'[a] = seen[a] /\ pc[a] = "drop"
        /\ deployment' = deployment
    BY <1>1, <1>5, <2>1
    DEF DidDrop, Submitted, Moved, Ended, InDebug, KeptAll, KeptCluster
  <2>3. Deployed(seen[a]) => Deployed(Rec)
    BY <1>5, <2>2 DEF DropSeesRecord, Deployed
  <2>4. Deployed(Rec) => deployment # NoDeployment
    BY <1>1, <1>5 DEF Calm, RecordHasDeployment, Deployed
  <2>5. QED
    BY <2>2, <2>3, <2>4
<1>6. QED
  BY <1>4, <1>5

\* Every step keeps what holds of the cluster and the callback while deletes
\* meet nothing.
LEMMA GentleStep == Inv /\ AloneInv /\ Calm /\ GentleInv /\ Stepped => GentleInv'
<1> SUFFICES ASSUME Inv, AloneInv, Calm, GentleInv, Stepped, Gentle'
             PROVE  (DropSeesRecord /\ DeploymentInUse /\ CallbackInUse)'
  BY DEF GentleInv
<1>1. DropSeesRecord /\ DeploymentInUse /\ CallbackInUse
  BY GentleSteps DEF GentleInv
<1>2. QED
  BY <1>1, DropSeesStep, InUseStep, CallbackStep

FullInv == Inv /\ Calm /\ AloneInv /\ GentleInv

\* There is neither a Deployment nor a callback at first.
LEMMA InitFull == Init => FullInv
<1>1. Init => GentleInv
  BY AtFirst DEF GentleInv, DropSeesRecord, DeploymentInUse, CallbackInUse
<1>2. QED
  BY <1>1, InitOwn, InitStopper DEF FullInv, OwnInv

\* Every step keeps all of what GoneForGood needs.
LEMMA FullStep == FullInv /\ Stepped => FullInv'
  BY CalmStep, AloneStep, GentleStep DEF FullInv, Stepped

\* Once everything has settled nobody is left to take away what is in use.
LEMMA GoneFollows == FullInv => DeletedMeansGone
<1> SUFFICES ASSUME FullInv, Settled, Rec = Nil, Gentle
             PROVE  deployment = NoDeployment /\ ~callback /\ ~subscribed
  BY DEF DeletedMeansGone, Gentle, GoneCauses
<1>1. \A a \in Actors : pc[a] \notin {"k8s", "cleanup"}
  BY NothingLeft DEF FullInv, Inv, Ended
<1>2. QED
  BY <1>1 DEF FullInv, GentleInv, DeploymentInUse, CallbackInUse

\* Once everything has settled, a ThingVisor that is not in the ledger has no
\* Deployment, no callback and no subscription, unless a delete met a creation
\* or something failed or was interrupted in the middle of one of them.
THEOREM GoneForGood == Spec => []DeletedMeansGone
<1>1. FullInv => DeletedMeansGone
  BY GoneFollows
<1>2. FullInv /\ [Next]_vars => FullInv'
  BY StepDoes, FullStep DEF FullInv
<1>3. QED
  BY <1>1, <1>2, InitFull, PTL DEF Spec

-------------------------------------------------------------------------------
(***************************************************************************)
(* A record is pending because a creation is under way, as long as the     *)
(* creation meets nothing it cannot cope with.  The identity that a        *)
(* request was let through with is still in the wallet: only a restart     *)
(* takes it away, and that ends the request.                               *)
(***************************************************************************)
PendingCauses == {"deleteDuringCreate", "enqueue", "k8s", "submit", "leftoverService",
                  "createInterrupted", "deleteInterrupted"}

Smooth == ~DebugMode /\ Without(PendingCauses)

PendingIsCreated == Is(STATUS_PENDING) => \E r \in Creations : CreatingOf(r)

CreatorKnown ==
  /\ \A r \in Requests : pc[r] = "create" => identity
  /\ \A r \in Creations : CreatingOf(r) => identity

PendingInv == Smooth => PendingIsCreated /\ CreatorKnown

\* Only a restart takes the identity out of the wallet.
LEMMA IdentityStays ==
  ASSUME Happened, identity
  PROVE  identity' \/ DidRestart
<1> USE DEF KeptAll, KeptCtl
<1>1. CASE DidLogin \/ DidReceive \/ DidPodsReceive \/ DidPodStarts \/ DidPod \/ DidLose
  BY <1>1 DEF DidLogin, DidReceive, DidPodsReceive, DidPodStarts, DidPod, DidLose
<1>2. ASSUME NEW r \in Requests, RequestDid(r)
      PROVE  identity'
  BY <1>2
  DEF RequestDid, DidAccept, DidCreate, DidEnqueue, DidStop, DidPublish, DidDebugDrop, DidShare
<1>3. ASSUME NEW r \in Queued, JobDid(r)
      PROVE  identity'
  BY <1>3
  DEF JobDid, DidBegin, DidPending, DidSubscribe, DidService, DidDeploy, DidRunning,
      DidUpdate
<1>4. ASSUME NEW a \in Actors, CallerDid(a)
      PROVE  identity'
  BY <1>4 DEF CallerDid, DidGet, DidDrop, DidDeleteOnKubernetes, DidForget
<1>5. ASSUME NEW h \in Handlers, HandlerDid(h)
      PROVE  identity'
  BY <1>5 DEF HandlerDid, DidPoll, DidRegister, DidPublishInit
<1>6. QED
  BY <1>1, <1>2, <1>3, <1>4, <1>5
  DEF Happened, DidStep, LifeStep, RequestDid, JobDid, CallerDid, HandlerDid

\* How a creation that is under way may come to its end.
LEMMA CreationEnds ==
  ASSUME TypeInv, Happened, NEW r \in Creations, CreatingOf(r), ~CreatingOf(r)'
  PROVE  \/ DidEnqueue(r) /\ "enqueue" \in faults'
         \/ DidPending(r) /\ (~identity \/ "submit" \in faults')
         \/ /\ DidService(r) /\ pc[Job(r)] = "service"
            /\ service \/ "k8s" \in faults'
         \/ /\ DidDeploy(r) /\ pc[Job(r)] = "deploy"
            /\ deployment # NoDeployment \/ "k8s" \in faults'
         \/ DidRunning(r)
         \/ DidRestart
<1>0. r \in Requests /\ r \in Queued /\ Job(r) \in Actors /\ r \in Actors
      /\ Job(r) \notin Handlers /\ Job(r) \notin Requests /\ r \notin Handlers
      /\ Job(r) # r /\ Kind[r] \in {"add", "create"}
      /\ \A q : Job(q) = Job(r) => q = r
  BY ActorFacts DEF Creations
<1>1. \/ Still(Job(r)) \/ JobDid(r) \/ DidEnqueue(r) \/ DidRestart
  BY <1>0, Moves
  DEF CallerDid, DidGet, DidDrop, DidDeleteOnKubernetes, DidForget, Caller
<1>2. \/ Still(r) \/ RequestDid(r) \/ DidRestart
  BY <1>0, Moves, ActorFacts
  DEF CallerDid, DidGet, DidDrop, DidDeleteOnKubernetes, DidForget, Caller
<1>3. CASE DidEnqueue(r)
  BY <1>0, <1>3 DEF DidEnqueue, CreatingOf, Ended
<1>4. CASE JobDid(r)
  <2>1. CASE DidBegin(r) \/ DidSubscribe(r)
    BY <1>0, <2>1 DEF DidBegin, DidSubscribe, Moved, CreatingOf, Ended
  <2>2. CASE DidPending(r)
    <3>1. ~Moved(Job(r), "subscribe", seen[Job(r)])
      BY <1>0 DEF Moved, CreatingOf, Ended
    <3>2. QED
      BY <2>2, <3>1 DEF DidPending
  <2>3. CASE DidService(r)
    <3>1. ~Moved(Job(r), "deploy", seen[Job(r)])
      BY <1>0 DEF Moved, CreatingOf, Ended
    <3>2. QED
      BY <2>3, <3>1 DEF DidService
  <2>4. CASE DidDeploy(r)
    <3>1. ~Moved(Job(r), "running", seen[Job(r)])
      BY <1>0 DEF Moved, CreatingOf, Ended
    <3>2. QED
      BY <2>4, <3>1 DEF DidDeploy
  <2>5. ~DidUpdate(r)
    BY <1>0 DEF DidUpdate
  <2>6. QED
    BY <1>4, <2>1, <2>2, <2>3, <2>4, <2>5 DEF JobDid
<1>5. CASE Still(Job(r)) /\ ~Still(r)
  <2>1. pc[r] = "enqueue" \/ DidRestart
    BY <1>5 DEF CreatingOf, Still
  <2>2. QED
    BY <1>2, <1>3, <1>5, <2>1
    DEF RequestDid, DidAccept, DidCreate, DidEnqueue, DidStop, DidPublish, DidDebugDrop, DidShare
<1>6. CASE Still(Job(r)) /\ Still(r)
  BY <1>6 DEF CreatingOf, Still
<1>7. QED
  BY <1>1, <1>3, <1>4, <1>5, <1>6

\* Every gentle step keeps that who creates has the administrator's identity.
LEMMA KnownStep ==
  ASSUME Inv, AloneInv, Stepped, Gentle', CreatorKnown
  PROVE  CreatorKnown'
<1>1. /\ TypeInv /\ TypeInv' /\ Happened
      /\ DidRestart => \A r \in Creations : ~CreatingOf(r)
  BY GentleSteps
<1>2. ASSUME NEW r \in Requests, pc'[r] = "create"
      PROVE  ~DidRestart /\ identity
  <2>1. r \in Actors /\ r \notin Handlers /\ \A q \in Queued : r # Job(q)
    BY ActorFacts
  <2>2. ~DidRestart
    BY <1>2 DEF DidRestart, AtRest, Ended
  <2>3. ~CallerDid(r)
    BY <1>2, <2>1
    DEF CallerDid, DidGet, DidDrop, DidDeleteOnKubernetes, DidForget, Caller, AfterGet,
        Moved, Submitted, Ended
  <2>4. CASE RequestDid(r)
    <3>1. DidAccept(r)
      BY <1>2, <2>4
      DEF RequestDid, DidAccept, DidCreate, DidEnqueue, DidStop, DidPublish, DidDebugDrop, DidShare,
          Moved, Submitted, Ended
    <3>2. QED
      BY <2>2, <3>1 DEF DidAccept
  <2>5. CASE Still(r)
    BY <1>2, <2>2, <2>5 DEF Still, CreatorKnown
  <2>6. QED
    BY <1>1, <2>1, <2>2, <2>3, <2>4, <2>5, Moves
<1>3. ASSUME NEW r \in Creations, CreatingOf(r)'
      PROVE  ~DidRestart /\ identity
  <2>1. CreatingOf(r) \/ DidCreate(r)
    BY <1>1, <1>3, CreationMoves
  <2>2. identity
    BY <2>1, ActorFacts DEF CreatorKnown, DidCreate
  <2>3. ASSUME DidRestart
        PROVE  FALSE
    <3>1. DidCreate(r) /\ pc[r] = "create" /\ r \in Requests
      BY <1>1, <2>1, <2>3, ActorFacts DEF DidCreate
    <3>2. ~CreatingOf(r) /\ pc'[r] = "failed"
          /\ pc'[Job(r)] \in {pc[Job(r)], "waiting"} /\ (AtRest(Job(r)) => Still(Job(r)))
      BY <1>1, <2>3, <3>1, ActorFacts DEF DidRestart, AtRest, Ended, Still
    <3>3. pc[Job(r)] = "none" /\ pc'[Job(r)] = "none"
      BY <1>1, <3>1, <3>2, ActorFacts DEF TypeInv, Places, JobsPlaced, Before, AtRest, Still
    <3>4. QED
      BY <1>3, <3>2, <3>3 DEF CreatingOf
  <2>4. QED
    BY <2>2, <2>3
<1>4. QED
  BY <1>1, <1>2, <1>3, IdentityStays DEF CreatorKnown

\* Every step keeps that a pending ThingVisor is being created.
LEMMA PendingStep ==
  FullInv /\ PendingInv /\ Stepped => PendingInv'
<1> SUFFICES ASSUME FullInv, PendingInv, Stepped, Smooth'
             PROVE  PendingIsCreated' /\ CreatorKnown'
  BY DEF PendingInv
<1>1. Inv /\ Calm /\ AloneInv /\ GentleInv /\ Gentle'
  BY DEF FullInv, Smooth, Gentle, Without, GoneCauses, PendingCauses
<1>2. /\ TypeInv /\ TypeInv' /\ Inv' /\ Happened /\ Recorded
      /\ Gentle /\ ~Met /\ ~Met' /\ ~DebugMode
      /\ "submit" \notin faults' /\ "k8s" \notin faults'
      /\ DidRestart => \A r \in Creations : ~CreatingOf(r)
  BY <1>1, GentleSteps DEF Stepped
<1>3. Smooth /\ "enqueue" \notin faults' /\ "leftoverService" \notin races
  BY <1>2, WithoutBefore DEF Smooth, Recorded, DebugMode, Without, PendingCauses
<1>4. PendingIsCreated /\ CreatorKnown /\ Alone /\ DeploymentInUse
  BY <1>1, <1>2, <1>3 DEF PendingInv, AloneInv, GentleInv
<1>5. CreatorKnown'
  BY <1>1, <1>4, KnownStep
<1>6. ASSUME Is(STATUS_PENDING)'
      PROVE  \E r \in Creations : CreatingOf(r)'
  <2>1. STATUS_PENDING # STATUS_RUNNING /\ STATUS_PENDING # STATUS_STOPPING
    BY DEF STATUS_PENDING, STATUS_RUNNING, STATUS_STOPPING
  <2>2. \/ Is(STATUS_PENDING)
        \/ \E r \in Creations : DidCreate(r) /\ Rec = Nil /\ Ordered
        \/ \E r \in Creations : DidPending(r)
    BY <1>2, <1>6, <2>1, RecChanges
    DEF Is, StatusOnly, Written, ParamsOnly
  <2>3. ASSUME NEW r \in Creations, DidCreate(r), Rec = Nil, Ordered
        PROVE  CreatingOf(r)'
    BY <1>2, <2>3, ActorFacts
    DEF DidCreate, Submitted, Moved, Ended, SameRec, Ordered, CreatingOf
  <2>4. ASSUME NEW r \in Creations, CreatingOf(r), ~CreatingOf(r)'
        PROVE  FALSE
    <3>1. identity
      BY <1>4, <2>4 DEF CreatorKnown
    <3>2. pc[Job(r)] = "service" => ~service
      BY <1>1, <1>3 DEF Inv, WindowsSeen, Windows, Labelled
    <3>3. ~DidRunning(r)
      <4>1. DidRunning(r) => Rec' # Nil /\ Rec'.status = STATUS_RUNNING
        BY <1>2 DEF DidRunning, Submitted, Written
      <4>2. QED
        BY <1>6, <2>1, <4>1 DEF Is
    <3>4. pc[Job(r)] = "deploy" => deployment = NoDeployment
      <4> SUFFICES ASSUME pc[Job(r)] = "deploy", deployment # NoDeployment
                   PROVE  FALSE
        OBVIOUS
      <4>1. deployment \in Creations
        BY <1>2 DEF TypeInv, RestTyped
      <4>2. Rec # Nil /\ ~Deployed(Rec)
        BY <1>4, <2>4 DEF Alone, Is
      <4>3. Rec.details # deployment
        BY <4>1, <4>2, ActorFacts DEF Deployed
      <4>4. pc[Job(deployment)] = "running"
        BY <1>4, <4>2, <4>3 DEF DeploymentInUse
      <4>5. CreatingOf(deployment)
        BY <4>4 DEF CreatingOf, Ended
      <4>6. deployment = r
        BY <1>4, <2>4, <4>1, <4>5 DEF Alone
      <4>7. QED
        BY <4>4, <4>6
    <3>5. QED
      BY <1>2, <1>3, <2>4, <3>1, <3>2, <3>3, <3>4, CreationEnds
  <2>5. \A r \in Creations : DidPending(r) => CreatingOf(r)
    BY DEF DidPending, CreatingOf, Ended
  <2>6. QED
    BY <1>4, <2>2, <2>3, <2>4, <2>5 DEF PendingIsCreated
<1>7. QED
  BY <1>5, <1>6 DEF PendingIsCreated, Is

\* There is no record at first.
LEMMA InitPending == Init => PendingInv
<1> SUFFICES ASSUME Init PROVE PendingIsCreated /\ CreatorKnown
  BY DEF PendingInv
<1>1. QED
  BY AtFirst, ActorFacts DEF PendingIsCreated, CreatorKnown, CreatingOf, Is

\* Once everything has settled nobody is creating it.
LEMMA PendingFollows == FullInv /\ PendingInv => PendingIsExplained
<1> SUFFICES ASSUME FullInv, PendingInv, Settled, Is(STATUS_PENDING), Smooth
             PROVE  FALSE
  BY DEF PendingIsExplained, Smooth, PendingCauses
<1>1. PICK r \in Creations : CreatingOf(r)
  BY DEF PendingInv, PendingIsCreated
<1>2. TypeInv
  BY DEF FullInv, Inv
<1>3. /\ pc[r] # "enqueue"
      /\ pc[Job(r)] \in Ended \cup {"none"}
  BY <1>2, NothingLeft, ActorFacts
  DEF TypeInv, Places, JobsPlaced, JobLabels, Ended
<1>4. QED
  BY <1>1, <1>3 DEF CreatingOf

\* No ThingVisor stays pending but for a job that was not queued, a failed or
\* interrupted request, a delete that met the creation or the Service of an
\* earlier one (createThingVisorOnKubernetes gives up on all of them).
THEOREM PendingExplained == Spec => []PendingIsExplained
<1>1. FullInv /\ PendingInv => PendingIsExplained
  BY PendingFollows
<1>2. FullInv /\ PendingInv /\ [Next]_vars => (FullInv /\ PendingInv)'
  BY StepDoes, FullStep, PendingStep DEF FullInv
<1>3. Init => FullInv /\ PendingInv
  BY InitFull, InitPending
<1>4. QED
  BY <1>1, <1>2, <1>3, PTL DEF Spec

-------------------------------------------------------------------------------
(***************************************************************************)
(* A record that is running is heard: as long as no delete meets a         *)
(* creation and the controller is not restarted, the job has installed the *)
(* callback and the subscription before it writes the record, and only a   *)
(* delete takes them away.                                                 *)
(***************************************************************************)
Undisturbed == Without({"deleteDuringCreate", "restart"})

JobIsHeard ==
  \A r \in Creations :
    pc[Job(r)] \in {"service", "deploy", "running"} => callback /\ subscribed

RunningIsHeard == Is(STATUS_RUNNING) => callback /\ subscribed /\ Deployed(Rec)

\* A Deployment and its pod come from a job that has got that far.
PodsExplained ==
  /\ \A r \in Creations :
       deployment = r \/ pod[r].st # "none" => pc[Job(r)] \in {"running"} \cup Ended
  /\ RequestsInit => \A r \in Creations : pod[r].st # "starting"

HeardInv ==
  Undisturbed => identity /\ JobIsHeard /\ RunningIsHeard /\ PodsExplained

\* What an undisturbed step cannot have been, and what held before it.
LEMMA UndisturbedSteps ==
  ASSUME Inv, Stepped, Undisturbed'
  PROVE  /\ TypeInv /\ TypeInv' /\ Happened /\ Recorded /\ Undisturbed
         /\ ~Met /\ ~DidRestart
<1>1. TypeInv /\ TypeInv' /\ Happened /\ Recorded
  BY DEF Stepped, Inv
<1>2. Undisturbed /\ ~Met
  BY <1>1, WithoutBefore DEF Recorded, Undisturbed, Without, Met
<1>3. "restart" \notin races' /\ (DidRestart => "restart" \in races')
  BY DEF Undisturbed, Without, DidRestart, Interrupted
<1>4. QED
  BY <1>1, <1>2, <1>3

\* A pod comes up only with the Deployment that is there.
LEMMA PodChanges ==
  ASSUME Happened
  PROVE  \/ pod' = pod
         \/ DidPodsReceive
         \/ DidPodStarts
         \/ DidPod
<1> USE DEF KeptAll
<1>1. CASE DidLogin \/ DidReceive \/ DidLose \/ DidRestart
  BY <1>1 DEF DidLogin, DidReceive, DidLose, DidRestart
<1>2. ASSUME NEW r \in Requests, RequestDid(r)
      PROVE  pod' = pod
  BY <1>2
  DEF RequestDid, DidAccept, DidCreate, DidEnqueue, DidStop, DidPublish, DidDebugDrop, DidShare
<1>3. ASSUME NEW r \in Queued, JobDid(r)
      PROVE  pod' = pod
  BY <1>3
  DEF JobDid, DidBegin, DidPending, DidSubscribe, DidService, DidDeploy, DidRunning,
      DidUpdate
<1>4. ASSUME NEW a \in Actors, CallerDid(a)
      PROVE  pod' = pod
  BY <1>4 DEF CallerDid, DidGet, DidDrop, DidDeleteOnKubernetes, DidForget
<1>5. ASSUME NEW h \in Handlers, HandlerDid(h)
      PROVE  pod' = pod
  BY <1>5 DEF HandlerDid, DidPoll, DidRegister, DidPublishInit
<1>6. QED
  BY <1>1, <1>2, <1>3, <1>4, <1>5
  DEF Happened, DidStep, LifeStep, RequestDid, JobDid, CallerDid, HandlerDid

\* The last step of a creation job leaves it ended.
LEMMA JobGoesOn ==
  ASSUME TypeInv, TypeInv', DidStep, NEW r \in Creations,
         pc[Job(r)] \in {"running"} \cup Ended
  PROVE  pc'[Job(r)] \in {"running"} \cup Ended
<1>0. Happened
  BY DEF Happened
<1>1. CASE pc[Job(r)] = "running"
  <2>1. DidRunning(r) => pc'[Job(r)] \in Ended
    BY ActorFacts DEF DidRunning, Submitted, Moved, Ended
  <2>2. QED
    BY <1>1, <2>1, LastWrite
<1>2. CASE pc[Job(r)] \in Ended
  BY <1>0, <1>2, CreationMoves
<1>3. QED
  BY <1>1, <1>2

\* Every step but a restart keeps that pods and Deployments come from jobs
\* that have got that far.
LEMMA PodsExplainedStep ==
  ASSUME TypeInv, TypeInv', DidStep, session' = session, PodsExplained
  PROVE  PodsExplained'
<1>0. Happened
  BY DEF Happened
<1>1. ASSUME NEW r \in Creations, deployment' = r \/ pod'[r].st # "none"
      PROVE  pc'[Job(r)] \in {"running"} \cup Ended
  <2>1. CASE deployment = r \/ pod[r].st # "none"
    BY <2>1, JobGoesOn DEF PodsExplained
  <2>2. CASE deployment # r /\ deployment' = r
    <3>1. PICK q \in Creations : DidDeploy(q) /\ deployment = NoDeployment /\ deployment' = q
      BY <1>0, <2>2, DeploymentChanges, ActorFacts
    <3>2. QED
      BY <2>2, <3>1, ActorFacts DEF DidDeploy, Moved, Ended
  <2>3. CASE deployment # r /\ pod[r].st = "none" /\ pod'[r].st # "none"
    BY <1>0, <2>3, PodChanges DEF DidPodsReceive, PodsTake, DidPodStarts, DidPod, PodGoesOn
  <2>4. QED
    BY <1>1, <2>1, <2>2, <2>3
<1>2. ASSUME RequestsInit, NEW r \in Creations, pod[r].st # "starting"
      PROVE  pod'[r].st # "starting"
  BY <1>0, <1>2, PodChanges DEF DidPodsReceive, PodsTake, DidPodStarts, DidPod, PodGoesOn
<1>3. RequestsInit' = RequestsInit
  BY DEF RequestsInit
<1>4. QED
  BY <1>1, <1>2, <1>3 DEF PodsExplained

\* Every step keeps that a ThingVisor that serves is subscribed to.
LEMMA HeardStep == Inv /\ Calm /\ HeardInv /\ Stepped => HeardInv'
<1> SUFFICES ASSUME Inv, Calm, HeardInv, Stepped, Undisturbed'
             PROVE  (identity /\ JobIsHeard /\ RunningIsHeard /\ PodsExplained)'
  BY DEF HeardInv
<1>1. /\ TypeInv /\ TypeInv' /\ Happened /\ Recorded /\ Undisturbed
      /\ ~Met /\ ~DidRestart
  BY UndisturbedSteps
<1>2. identity /\ JobIsHeard /\ RunningIsHeard /\ PodsExplained /\ NeverMeet
  BY <1>1, Apart DEF HeardInv
<1>3. identity'
  BY <1>1, <1>2, IdentityStays
<1>4. PodsExplained'
  BY <1>1, <1>2, PodsExplainedStep DEF Recorded, Happened
<1>5. ASSUME NEW r \in Creations, pc'[Job(r)] \in {"service", "deploy", "running"}
      PROVE  callback' /\ subscribed'
  <2>0. r \in Queued /\ Job(r) \in Actors /\ Job(r) \notin Handlers
        /\ Job(r) \notin Requests /\ \A q : Job(q) = Job(r) => q = r
    BY ActorFacts
  <2>1. Still(Job(r)) \/ JobDid(r) \/ DidEnqueue(r)
    BY <1>1, <2>0, Moves
    DEF CallerDid, DidGet, DidDrop, DidDeleteOnKubernetes, DidForget, Caller
  <2>2. CASE DidEnqueue(r) /\ ~Still(Job(r))
    BY <1>5, <2>0, <2>2, ActorFacts DEF DidEnqueue, Moved, Still
  <2>3. CASE JobDid(r)
    <3>1. DidSubscribe(r) \/ DidService(r) \/ DidDeploy(r)
      BY <1>5, <2>0, <2>3
      DEF JobDid, DidBegin, DidPending, DidSubscribe, DidService, DidDeploy, DidRunning,
          DidUpdate, Moved, Submitted, Ended
    <3>2. CASE DidSubscribe(r)
      BY <3>2 DEF DidSubscribe
    <3>3. CASE DidService(r) \/ DidDeploy(r)
      <4>1. callback /\ subscribed
        BY <1>2, <3>3 DEF DidService, DidDeploy, JobIsHeard
      <4>2. callback' = callback /\ subscribed' = subscribed
        BY <3>3 DEF DidService, DidDeploy, KeptCtl
      <4>3. QED
        BY <4>1, <4>2
    <3>4. QED
      BY <3>1, <3>2, <3>3
  <2>4. CASE Still(Job(r))
    <3>1. callback /\ subscribed /\ CreatingOf(r)
      BY <1>2, <1>5, <2>4 DEF Still, JobIsHeard, CreatingOf, Ended
    <3>2. \A a \in Actors : ~DidForget(a)
      BY <1>2, <3>1 DEF NeverMeet, Dropping, DidForget
    <3>3. QED
      BY <1>1, <3>1, <3>2, CallbackChanges DEF DidSubscribe
  <2>5. QED
    BY <2>1, <2>2, <2>3, <2>4
<1>6. ASSUME Is(STATUS_RUNNING)'
      PROVE  callback' /\ subscribed' /\ Deployed(Rec)'
  <2>1. STATUS_RUNNING # STATUS_PENDING /\ STATUS_RUNNING # STATUS_STOPPING
    BY DEF STATUS_RUNNING, STATUS_PENDING, STATUS_STOPPING
  <2>2. \/ Is(STATUS_RUNNING) /\ Rec'.details = Rec.details
        \/ \E r \in Creations : DidRunning(r) /\ Written(STATUS_RUNNING, r, r)
    BY <1>1, <1>6, <2>1, RecChanges DEF Is, Ordered, StatusOnly, Written, ParamsOnly
  <2>3. CASE Is(STATUS_RUNNING) /\ Rec'.details = Rec.details
    <3>1. callback /\ subscribed /\ Deployed(Rec) /\ Rec # Nil
      BY <1>2, <2>3 DEF RunningIsHeard, Is
    <3>2. \A a \in Actors : ~DidForget(a)
      BY <1>1, <3>1 DEF Calm, DroppedIsGone, DidForget
    <3>3. QED
      BY <1>1, <2>3, <3>1, <3>2, CallbackChanges DEF DidSubscribe, Deployed
  <2>4. ASSUME NEW r \in Creations, DidRunning(r), Written(STATUS_RUNNING, r, r)
        PROVE  callback' /\ subscribed' /\ Deployed(Rec)'
    BY <1>2, <2>4, ActorFacts
    DEF DidRunning, Written, JobIsHeard, KeptAll, KeptCtl, Deployed
  <2>5. QED
    BY <2>2, <2>3, <2>4
<1>7. QED
  BY <1>3, <1>4, <1>5, <1>6 DEF JobIsHeard, RunningIsHeard, Is, Deployed

\* Nothing is running at first, and there is no pod.
LEMMA InitHeard == Init => HeardInv
<1> SUFFICES ASSUME Init
             PROVE  identity /\ JobIsHeard /\ RunningIsHeard /\ PodsExplained
  BY DEF HeardInv
<1>1. /\ identity /\ Rec = Nil /\ deployment = NoDeployment
      /\ \A r \in Creations : pc[Job(r)] = "none" /\ pod[r].st = "none"
  BY AtFirst, ActorFacts DEF Init, InitWith, NoPod
<1>2. QED
  BY <1>1, ActorFacts DEF JobIsHeard, RunningIsHeard, PodsExplained, Is

-------------------------------------------------------------------------------
(***************************************************************************)
(* From the Deployment on, the program's vThing is registered or its       *)
(* announcement is under way, in one of the messages between program and   *)
(* controller or in a callback that waits for the record to be running.    *)
(***************************************************************************)
ServeCauses == {"deleteDuringCreate", "submit", "restart", "loss"}

Serving(d) == pc[Job(d)] = "running" \/ (Is(STATUS_RUNNING) /\ Rec.details = d)

InitAsked == \E m \in Elems(toPod) : m.cmd = "createVThings"

UnderWay(d) ==
  \/ pod[d].st = "none"
  \/ "createVThing" \in Elems(toCtl)
  \/ RequestsInit /\ "requestInit" \in Elems(toCtl)
  \/ \E h \in Handlers : \/ pc[h] = "poll"
                         \/ pc[h] = "register" /\ Is(STATUS_RUNNING)
                         \/ RequestsInit /\ pc[h] \in {"pollInit", "init"}
  \/ RequestsInit /\ InitAsked

AnnouncedInv ==
  Without(ServeCauses) =>
    \A d \in Creations : Serving(d) => Registered = VThingsOfTV \/ UnderWay(d)

\* What is queued stays queued until it is received or lost.
LEMMA QueueKeeps ==
  ASSUME TypeInv, DidStep
  PROVE  /\ \A x \in Elems(toCtl) : \/ x \in Elems(toCtl')
                                    \/ DidReceive /\ x = Head(toCtl)
                                    \/ DidLose /\ x \in lost'
         /\ \A x \in Elems(toPod) : \/ x \in Elems(toPod')
                                    \/ DidPodsReceive /\ x = Head(toPod)
                                    \/ DidLose /\ x.cmd \in lost'
<1> USE DEF KeptAll, KeptNet
<1>1. CASE DidLogin \/ DidPod
  BY <1>1 DEF DidLogin, DidPod
<1>2. CASE DidReceive
  <2>1. Elems(toCtl) = {Head(toCtl)} \cup Elems(toCtl') /\ toPod' = toPod
    BY <1>2, QueueSteps DEF DidReceive
  <2>2. QED
    BY <1>2, <2>1
<1>3. CASE DidPodsReceive
  <2>1. PICK acks \in Seq(Reports) : toCtl' = toCtl \o acks
    BY <1>3 DEF DidPodsReceive
  <2>2. /\ Elems(toPod) = {Head(toPod)} \cup Elems(toPod')
        /\ Elems(toCtl') = Elems(toCtl) \cup Elems(acks)
    BY <1>3, <2>1, QueueSteps DEF DidPodsReceive
  <2>3. QED
    BY <1>3, <2>2
<1>4. CASE DidPodStarts
  <2>1. Elems(toCtl) \subseteq Elems(toCtl') /\ toPod' = toPod
    BY <1>4, QueueSteps DEF DidPodStarts, Reports
  <2>2. QED
    BY <2>1
<1>5. ASSUME NEW r \in Requests,
             \/ DidAccept(r) \/ DidCreate(r) \/ DidEnqueue(r) \/ DidStop(r) \/ DidDebugDrop(r)
      PROVE  toPod' = toPod /\ toCtl' = toCtl
  BY <1>5 DEF DidAccept, DidCreate, DidEnqueue, DidStop, DidDebugDrop
<1>6. ASSUME NEW r \in Requests, DidPublish(r)
      PROVE  Elems(toPod) \subseteq Elems(toPod') /\ toCtl' = toCtl
  BY <1>6, QueueSteps DEF DidPublish
<1>7. ASSUME NEW r \in Queued, JobDid(r)
      PROVE  toPod' = toPod /\ toCtl' = toCtl
  BY <1>7 DEF JobDid, DidBegin, DidPending, DidSubscribe, DidService, DidDeploy, DidRunning,
     DidUpdate
<1>8. ASSUME NEW a \in Actors, CallerDid(a)
      PROVE  toPod' = toPod /\ toCtl' = toCtl
  BY <1>8 DEF CallerDid, DidGet, DidDrop, DidDeleteOnKubernetes, DidForget
<1>9. ASSUME NEW h \in Handlers, DidPoll(h) \/ DidRegister(h)
      PROVE  toPod' = toPod /\ toCtl' = toCtl
  BY <1>9 DEF DidPoll, DidRegister
<1>10. ASSUME NEW h \in Handlers, DidPublishInit(h)
       PROVE  Elems(toPod) \subseteq Elems(toPod') /\ toCtl' = toCtl
  BY <1>10, QueueSteps DEF DidPublishInit
<1>11. ASSUME NEW r \in Requests, DidShare(r)
       PROVE  Elems(toPod) \subseteq Elems(toPod') /\ toCtl' = toCtl
  BY <1>11, QueueSteps DEF DidShare
<1>12. ASSUME DidLose
       PROVE  /\ \A x \in Elems(toCtl) : x \in Elems(toCtl') \/ x \in lost'
              /\ \A x \in Elems(toPod) : x \in Elems(toPod') \/ x.cmd \in lost'
  BY <1>12, QueueSteps DEF DidLose
<1>13. QED
  BY <1>1, <1>2, <1>3, <1>4, <1>5, <1>6, <1>7, <1>8, <1>9, <1>10, <1>11, <1>12
  DEF DidStep, LifeStep, JobDid, CallerDid

\* No step takes the registration of a vThing back: the contract's
\* DeleteThingVisor leaves the keys of the vThings alone.
LEMMA RegisteredStays ==
  ASSUME Happened
  PROVE  Registered \subseteq Registered'
<1> USE DEF SameRec, Registered
<1>0. SameVThings => Registered \subseteq Registered'
  BY DEF SameVThings, VThingsOfTV
<1>1. CASE DidLogin \/ DidReceive \/ DidPodsReceive \/ DidPodStarts \/ DidPod \/ DidLose
           \/ DidRestart
  BY <1>0, <1>1 DEF DidLogin, DidReceive, DidPodsReceive, DidPodStarts, DidPod, DidLose,
      DidRestart
<1>2. ASSUME NEW r \in Requests, RequestDid(r)
      PROVE  SameVThings \/ Registered \subseteq Registered'
  BY <1>2
  DEF RequestDid, DidAccept, DidCreate, DidEnqueue, DidStop, DidPublish, DidDebugDrop, DidShare,
      Submitted, Ordered, StatusOnly, Dropped
<1>3. ASSUME NEW r \in Queued, JobDid(r)
      PROVE  SameVThings
  BY <1>3
  DEF JobDid, DidBegin, DidPending, DidSubscribe, DidService, DidDeploy, DidRunning,
      DidUpdate, Submitted, Written, ParamsOnly
<1>4. ASSUME NEW a \in Actors, CallerDid(a)
      PROVE  SameVThings
  BY <1>4
  DEF CallerDid, DidGet, DidDrop, DidDeleteOnKubernetes, DidForget, Submitted, Dropped
<1>5. ASSUME NEW h \in Handlers, DidPoll(h) \/ DidPublishInit(h)
      PROVE  SameVThings
  BY <1>5 DEF DidPoll, DidPublishInit
<1>6. ASSUME NEW h \in Handlers, DidRegister(h)
      PROVE  Registered \subseteq Registered'
  <2>1. SameVThings \/ \E v \in VThingsOfTV : Announced(v)
    BY <1>6 DEF DidRegister, Submitted
  <2>2. ASSUME NEW v \in VThingsOfTV, Announced(v)
        PROVE  Registered \subseteq Registered'
    BY <2>2 DEF Announced, VThingsOfTV
  <2>3. QED
    BY <1>0, <2>1, <2>2
<1>7. QED
  BY <1>0, <1>1, <1>2, <1>3, <1>4, <1>5, <1>6
  DEF Happened, DidStep, LifeStep, RequestDid, JobDid, CallerDid

\* A creation that has come to its Deployment, or the record that names it, has
\* the Deployment and is heard; a job that still has to write its record does
\* not find a running one.
LEMMA Serves ==
  ASSUME Inv, Calm, ShownInv, HeardInv, Undisturbed, NEW d \in Creations, Serving(d)
  PROVE  /\ deployment = d /\ callback /\ subscribed /\ identity /\ PodsExplained
         /\ pc[Job(d)] = "running" => ~Is(STATUS_RUNNING)
<1>1. ~Met /\ identity /\ JobIsHeard /\ RunningIsHeard /\ PodsExplained
  BY DEF HeardInv, Undisturbed, Without, Met
<1>2. JobHasDeployment /\ RecordHasDeployment
  BY <1>1 DEF Calm
<1>3. CASE pc[Job(d)] = "running"
  <2>1. deployment = d /\ callback /\ subscribed
    BY <1>1, <1>2, <1>3 DEF JobHasDeployment, JobIsHeard
  <2>2. ASSUME Is(STATUS_RUNNING)
        PROVE  FALSE
    <3>1. Deployed(Rec) /\ Rec # Nil
      BY <1>1, <2>2 DEF RunningIsHeard, Is
    <3>2. Rec.details = d
      BY <1>2, <2>1, <3>1 DEF RecordHasDeployment
    <3>3. pc[Job(d)] \in Ended
      BY <3>1, <3>2 DEF ShownInv, ShownIsEnded, Shown
    <3>4. QED
      BY <1>3, <3>3 DEF Ended
  <2>3. QED
    BY <1>1, <2>1, <2>2
<1>4. CASE pc[Job(d)] # "running"
  <2>1. Is(STATUS_RUNNING) /\ Rec.details = d
    BY <1>4 DEF Serving
  <2>2. callback /\ subscribed /\ Deployed(Rec) /\ Rec # Nil
    BY <1>1, <2>1 DEF RunningIsHeard, Is
  <2>3. deployment = d
    BY <1>2, <2>1, <2>2 DEF RecordHasDeployment
  <2>4. QED
    BY <1>1, <1>4, <2>2, <2>3
<1>5. QED
  BY <1>3, <1>4

\* A callback that waits or is about to register goes on by itself.
LEMMA WaiterMoves ==
  ASSUME TypeInv, DidStep, NEW h \in Handlers,
         pc[h] \in {"poll", "pollInit", "register", "init"}
  PROVE  \/ Still(h)
         \/ pc[h] = "poll" /\ Is(STATUS_RUNNING) /\ pc'[h] = "register" /\ SameRec
         \/ pc[h] = "register" /\ DidRegister(h)
         \/ pc[h] = "pollInit" /\ Is(STATUS_RUNNING) /\ pc'[h] = "init"
         \/ pc[h] = "init" /\ DidPublishInit(h)
<1>1. h \in Actors /\ h \notin Requests /\ \A r \in Queued : h # Job(r)
  BY ActorFacts
<1>2. ~CallerDid(h)
  BY DEF CallerDid, DidGet, DidDrop, DidDeleteOnKubernetes, DidForget
<1>3. DidReceive => Still(h)
  BY <1>1, MovedStill, ActorFacts DEF DidReceive, KeptPlaces, Still
<1>4. Still(h) \/ HandlerDid(h)
  BY <1>1, <1>2, <1>3, StepMoves
<1>5. DidPoll(h) =>
        \/ pc[h] = "poll" /\ Is(STATUS_RUNNING) /\ pc'[h] = "register" /\ SameRec
        \/ pc[h] = "pollInit" /\ Is(STATUS_RUNNING) /\ pc'[h] = "init"
  BY DEF DidPoll, Moved, Ended
<1>6. QED
  BY <1>4, <1>5 DEF HandlerDid, DidRegister, DidPublishInit

\* Who serves has served before, or has just got its Deployment.
LEMMA ServingMoves ==
  ASSUME TypeInv, TypeInv', Happened, NEW d \in Creations, Serving(d)'
  PROVE  Serving(d) \/ DidDeploy(d)
<1>1. CASE pc'[Job(d)] = "running"
  BY <1>1, CreationMoves DEF Serving
<1>2. CASE Is(STATUS_RUNNING)' /\ Rec'.details = d
  <2>1. STATUS_RUNNING # STATUS_PENDING /\ STATUS_RUNNING # STATUS_STOPPING
    BY DEF STATUS_RUNNING, STATUS_PENDING, STATUS_STOPPING
  <2>2. \/ Is(STATUS_RUNNING) /\ Rec'.details = Rec.details
        \/ \E r \in Creations : DidRunning(r) /\ Written(STATUS_RUNNING, r, r)
    BY <1>2, <2>1, RecChanges DEF Is, Ordered, StatusOnly, Written, ParamsOnly
  <2>3. QED
    BY <1>2, <2>2 DEF Serving, DidRunning, Written
<1>3. QED
  BY <1>1, <1>2 DEF Serving

\* With one vThing, every step keeps that it is registered or its announcement
\* is under way.
LEMMA AnnouncedStep ==
  ASSUME Inv, Calm, ShownInv, HeardInv, AnnouncedInv, Stepped,
         NEW v, VThingsOfTV = {v}
  PROVE  AnnouncedInv'
<1> SUFFICES ASSUME Without(ServeCauses)', NEW d \in Creations, Serving(d)'
             PROVE  Registered' = VThingsOfTV \/ UnderWay(d)'
  BY DEF AnnouncedInv
<1>1. Undisturbed'
  BY DEF Undisturbed, Without, ServeCauses
<1>2. /\ TypeInv /\ TypeInv' /\ Happened /\ Recorded /\ Undisturbed
      /\ ~Met /\ ~DidRestart
  BY <1>1, UndisturbedSteps
<1>3. Without(ServeCauses) /\ "submit" \notin faults' /\ ~DidLose /\ DidStep
  BY <1>2, WithoutBefore DEF Recorded, Without, ServeCauses, DidLose, Happened
<1>4. Registered \subseteq Registered' /\ Registered' \subseteq VThingsOfTV
  BY <1>2, RegisteredStays DEF Registered
<1>5. pod \in [Creations -> Pods] /\ pod' \in [Creations -> Pods]
  BY <1>2 DEF TypeInv, RestTyped
<1>6. RequestsInit' = RequestsInit
  BY <1>2 DEF Recorded, RequestsInit
<1>7. CASE DidDeploy(d)
  <2>1. pc[Job(d)] = "deploy" /\ pod' = pod
    BY <1>7 DEF DidDeploy
  <2>2. pod[d].st = "none"
    BY <1>2, <2>1 DEF HeardInv, PodsExplained, Ended
  <2>3. QED
    BY <2>1, <2>2 DEF UnderWay
<1>8. CASE ~DidDeploy(d)
  <2>1. Serving(d)
    BY <1>2, <1>8, ServingMoves
  <2>2. /\ deployment = d /\ callback /\ subscribed /\ identity /\ PodsExplained
        /\ pc[Job(d)] = "running" => ~Is(STATUS_RUNNING)
    BY <1>2, <2>1, Serves
  <2>3. Is(STATUS_RUNNING) => Is(STATUS_RUNNING)'
    <3>1. ASSUME Is(STATUS_RUNNING)
          PROVE  Is(STATUS_RUNNING)'
      <4>1. pc[Job(d)] # "running"
        BY <2>2, <3>1
      <4>2. pc'[Job(d)] # "running"
        BY <1>2, <1>8, <4>1, CreationMoves
      <4>3. QED
        BY <4>2 DEF Serving
    <3>2. QED
      BY <3>1
  <2>4. CASE Registered = VThingsOfTV
    BY <1>4, <2>4
  <2>5. CASE pod[d].st = "none"
    <3>1. CASE pod'[d].st = "none"
      BY <3>1 DEF UnderWay
    <3>2. CASE pod'[d].st # "none"
      <4>1. DidPodStarts
        BY <1>2, <2>5, <3>2, PodChanges DEF DidPodsReceive, PodsTake, DidPod, PodGoesOn
      <4>2. PICK m \in {"requestInit", "createVThing"} :
              toCtl' = Append(toCtl, m) /\ (m = "requestInit" => RequestsInit)
        BY <4>1 DEF DidPodStarts
      <4>3. m \in Elems(toCtl')
        BY <1>2, <4>2, QueueSteps DEF Reports
      <4>4. QED
        BY <1>6, <4>2, <4>3 DEF UnderWay
    <3>3. QED
      BY <3>1, <3>2
  <2>6. ASSUME NEW m \in Elems(toCtl),
               m = "createVThing" \/ (m = "requestInit" /\ RequestsInit)
        PROVE  UnderWay(d)'
    <3>1. CASE m \in Elems(toCtl')
      BY <1>6, <2>6, <3>1 DEF UnderWay
    <3>2. CASE m \notin Elems(toCtl')
      <4>1. DidReceive /\ m = Head(toCtl)
        BY <1>2, <1>3, <3>2, QueueKeeps
      <4>2. PICK h \in Handlers : Moved(h, FirstStep(m), seen[h])
        BY <2>2, <4>1 DEF DidReceive
      <4>3. /\ m = "createVThing" => pc'[h] = "poll"
            /\ m = "requestInit" => pc'[h] = "pollInit"
        BY <4>2 DEF Moved, FirstStep, Ended
      <4>4. QED
        BY <1>6, <2>6, <4>3 DEF UnderWay
    <3>3. QED
      BY <3>1, <3>2
  <2>7. ASSUME NEW h \in Handlers,
               \/ pc[h] = "poll"
               \/ pc[h] = "register" /\ Is(STATUS_RUNNING)
               \/ RequestsInit /\ pc[h] \in {"pollInit", "init"}
        PROVE  Registered' = VThingsOfTV \/ UnderWay(d)'
    <3>1. CASE Still(h)
      BY <1>6, <2>3, <2>7, <3>1 DEF UnderWay, Still
    <3>2. CASE pc[h] = "poll" /\ Is(STATUS_RUNNING) /\ pc'[h] = "register" /\ SameRec
      BY <2>3, <3>2 DEF UnderWay
    <3>3. CASE pc[h] = "register" /\ DidRegister(h)
      <4>1. Announced(v)
        BY <1>3, <2>7, <3>3 DEF DidRegister, Submitted
      <4>2. v \in Registered'
        BY <4>1 DEF Announced, Registered
      <4>3. QED
        BY <1>4, <4>2
    <3>4. CASE RequestsInit /\ pc[h] = "init" /\ DidPublishInit(h)
      <4>1. PICK m \in Commands : m.cmd = "createVThings" /\ toPod' = Append(toPod, m)
        BY <3>4 DEF DidPublishInit
      <4>2. m \in Elems(toPod')
        BY <1>2, <4>1, QueueSteps
      <4>3. QED
        BY <1>6, <3>4, <4>1, <4>2 DEF UnderWay, InitAsked
    <3>5. CASE RequestsInit /\ pc'[h] = "init"
      BY <1>6, <3>5 DEF UnderWay
    <3>6. QED
      BY <1>2, <1>3, <2>7, <3>1, <3>2, <3>3, <3>4, <3>5, WaiterMoves
  <2>8. ASSUME RequestsInit, NEW m \in Elems(toPod), m.cmd = "createVThings"
        PROVE  Registered' = VThingsOfTV \/ UnderWay(d)'
    <3>1. CASE m \in Elems(toPod')
      BY <1>6, <2>8, <3>1 DEF UnderWay, InitAsked
    <3>2. CASE m \notin Elems(toPod')
      <4>1. DidPodsReceive /\ m = Head(toPod)
        BY <1>2, <1>3, <3>2, QueueKeeps
      <4>2. CASE pod[d].st = "up"
        <5>1. PICK acks \in Seq(Reports) :
                toCtl' = toCtl \o acks /\ "createVThing" \in Elems(acks)
          BY <2>8, <4>1, <4>2 DEF DidPodsReceive, SomeUp
        <5>2. "createVThing" \in Elems(toCtl')
          BY <1>2, <5>1, QueueSteps
        <5>3. QED
          BY <5>2 DEF UnderWay
      <4>3. CASE pod[d].st = "none"
        BY <2>5, <4>3
      <4>4. pod[d].st \in {"up", "none"}
        BY <1>5, <2>2, <2>8 DEF Pods, PodsExplained
      <4>5. QED
        BY <4>2, <4>3, <4>4
    <3>3. QED
      BY <3>1, <3>2
  <2>9. Registered = VThingsOfTV \/ UnderWay(d)
    BY <1>3, <2>1 DEF AnnouncedInv
  <2>10. QED
    BY <2>4, <2>5, <2>6, <2>7, <2>8, <2>9 DEF UnderWay, InitAsked
<1>9. QED
  BY <1>7, <1>8

\* Nothing serves at first.
LEMMA InitAnnounced == Init => AnnouncedInv
<1> SUFFICES ASSUME Init, NEW d \in Creations PROVE ~Serving(d)
  BY DEF AnnouncedInv
<1>1. QED
  BY AtFirst, ActorFacts DEF Serving, Is

ServedInv == FullInv /\ ShownInv /\ HeardInv /\ AnnouncedInv

\* Every step keeps all of what ServedWhileRunning needs.
LEMMA ServedStep ==
  ASSUME ServedInv, Stepped, NEW v, VThingsOfTV = {v}
  PROVE  ServedInv'
<1>1. FullInv' /\ ShownInv' /\ HeardInv' /\ AnnouncedInv'
  BY FullStep, ShownStep, HeardStep, AnnouncedStep DEF ServedInv, FullInv
<1>2. QED
  BY <1>1 DEF ServedInv

\* All of it holds at first.
LEMMA InitServed == Init => ServedInv
  BY InitFull, InitOwn, InitHeard, InitAnnounced DEF ServedInv, OwnInv

\* Once everything has settled no registration is under way.
LEMMA ServedFollows == ServedInv => RunningMeansServed
<1> SUFFICES ASSUME ServedInv, Settled, Is(STATUS_RUNNING), Without(ServeCauses)
             PROVE  /\ deployment = Rec.details
                    /\ callback /\ subscribed
                    /\ Registered = VThingsOfTV
  BY DEF RunningMeansServed, ServeCauses
<1>1. Inv /\ Calm /\ TypeInv /\ Undisturbed
  BY DEF ServedInv, FullInv, Inv, Undisturbed, Without, ServeCauses
<1> DEFINE d == Rec.details
<1>2. Rec # Nil /\ Deployed(Rec)
  BY <1>1 DEF ServedInv, HeardInv, RunningIsHeard, Is
<1>3. d \in Creations
  BY <1>2 DEF ServedInv, ShownInv, DetailsKnown, Known, Deployed
<1>4. Serving(d)
  BY DEF Serving
<1>5. deployment = d /\ callback /\ subscribed
  BY <1>1, <1>3, <1>4, Serves DEF ServedInv
<1>6. pod[d].st = "up"
  BY <1>3, <1>5 DEF Settled, PodsMatch
<1>7. /\ \A a \in Actors : pc[a] \in Ended \cup {"new", "none", "idle", "poll", "pollInit"}
      /\ Elems(toPod) = {} /\ Elems(toCtl) = {}
  BY <1>1, NothingLeft
<1>8. ASSUME NEW h \in Handlers
      PROVE  pc[h] \notin {"poll", "pollInit", "register", "init"}
  <2>1. h \in Actors /\ Quiet(h)
    BY ActorFacts DEF Settled
  <2>2. IsRunning(tv, db)
    BY DEF IsRunning, Is, Rec
  <2>3. AtRest(h)
    BY <2>1, <2>2 DEF Quiet
  <2>4. QED
    BY <2>3 DEF AtRest, Ended
<1>9. ~UnderWay(d)
  BY <1>6, <1>7, <1>8 DEF UnderWay, InitAsked
<1>10. Registered = VThingsOfTV
  BY <1>3, <1>4, <1>9 DEF ServedInv, AnnouncedInv
<1>11. QED
  BY <1>5, <1>10

\* A ThingVisor that stays running is served: its Deployment is the one its
\* record was written for, the controller hears it, and its vThing is
\* registered, whether its program announces it or asks first, unless a delete
\* met a creation, a transaction failed, the controller was restarted or a
\* message was lost.  The program has one vThing, as those modelled do.
THEOREM ServedWhileRunning ==
  ASSUME NEW v, VThingsOfTV = {v}
  PROVE  Spec => []RunningMeansServed
<1>1. ServedInv /\ [Next]_vars => ServedInv'
  BY StepDoes, ServedStep DEF ServedInv, FullInv
<1>2. QED
  BY <1>1, InitServed, ServedFollows, PTL DEF Spec

-------------------------------------------------------------------------------
(***************************************************************************)
(* Whoever has been asked is a request of the session; a Deployment and a  *)
(* pod come from a job; a record that is running names its Deployment.     *)
(***************************************************************************)
Asked == \A r \in Requests : pc[r] # "new" => r \in session.requests

UpdatesFilled ==
  UpdatesHaveParams => \A m \in Elems(toPod) : m.cmd = "updateTV" => m.params # Empty

PodHasJob ==
  \A d \in Creations : deployment = d \/ pod[d].st # "none" => pc[Job(d)] # "none"

RunningNamesIt == Is(STATUS_RUNNING) => Deployed(Rec)

BasicInv == Asked /\ UpdatesFilled /\ PodHasJob /\ RunningNamesIt

\* A request comes forward only when the session has it, and the wallet its
\* user.
LEMMA NewComer ==
  ASSUME TypeInv, Happened, NEW r \in Requests, pc[r] = "new", pc'[r] # "new"
  PROVE  DidAccept(r) \/ DidShare(r)
<1>0. r \in Actors /\ r \notin Handlers /\ \A q \in Queued : r # Job(q)
  BY ActorFacts
<1>1. ~CallerDid(r)
  BY DEF CallerDid, DidGet, DidDrop, DidDeleteOnKubernetes, DidForget
<1>2. RequestDid(r) => DidAccept(r) \/ DidShare(r)
  BY DEF RequestDid, DidCreate, DidEnqueue, DidStop, DidPublish, DidDebugDrop
<1>3. ~DidRestart
  BY DEF DidRestart, AtRest
<1>4. QED
  BY <1>0, <1>1, <1>2, <1>3, Moves DEF Still

\* A job that was queued once stays so.
LEMMA JobStays ==
  ASSUME TypeInv, TypeInv', Happened, NEW r \in Queued, pc[Job(r)] # "none"
  PROVE  pc'[Job(r)] # "none"
<1>0. /\ Job(r) \in Actors /\ Job(r) \notin Handlers /\ Job(r) \notin Requests
      /\ Job(r) \in Jobs /\ \A q : Job(q) = Job(r) => q = r
  BY ActorFacts
<1>1. Still(Job(r)) \/ JobDid(r) \/ DidEnqueue(r) \/ DidRestart
  BY <1>0, Moves
  DEF CallerDid, DidGet, DidDrop, DidDeleteOnKubernetes, DidForget, Caller
<1>2. JobDid(r) => pc'[Job(r)] # "none"
  BY <1>0
  DEF JobDid, DidBegin, DidPending, DidSubscribe, DidService, DidDeploy, DidRunning,
      DidUpdate, Moved, Ended, Submitted
<1>3. DidEnqueue(r) => pc'[Job(r)] # "none"
  BY <1>0, ActorFacts DEF DidEnqueue, Moved
<1>4. DidRestart => pc'[Job(r)] # "none"
  BY <1>0 DEF DidRestart
<1>5. QED
  BY <1>1, <1>2, <1>3, <1>4 DEF Still

\* What is new on the c_in topic.
LEMMA PodQueueMoves ==
  ASSUME TypeInv, Happened
  PROVE  \/ toPod' = toPod
         \/ toPod # <<>> /\ toPod' = Tail(toPod) /\ (DidPodsReceive \/ DidLose)
         \/ \E r \in Requests : DidPublish(r)
         \/ \E m \in Commands : m.cmd = "createVThings" /\ toPod' = Append(toPod, m)
         \/ \E r \in Requests, m \in Commands :
              DidShare(r) /\ m.cmd = "endpoint" /\ toPod' = Append(toPod, m)
<1> USE DEF KeptAll, KeptNet
<1>1. CASE DidLogin \/ DidPod \/ DidReceive \/ DidPodStarts \/ DidRestart
  BY <1>1 DEF DidLogin, DidPod, DidReceive, DidPodStarts, DidRestart
<1>2. CASE DidPodsReceive \/ DidLose
  BY <1>2 DEF DidPodsReceive, DidLose
<1>3. ASSUME NEW r \in Requests,
             \/ DidAccept(r) \/ DidCreate(r) \/ DidEnqueue(r) \/ DidStop(r) \/ DidDebugDrop(r)
      PROVE  toPod' = toPod
  BY <1>3 DEF DidAccept, DidCreate, DidEnqueue, DidStop, DidDebugDrop
<1>4. ASSUME NEW r \in Queued, JobDid(r)
      PROVE  toPod' = toPod
  BY <1>4 DEF JobDid, DidBegin, DidPending, DidSubscribe, DidService, DidDeploy, DidRunning,
     DidUpdate
<1>5. ASSUME NEW a \in Actors, CallerDid(a)
      PROVE  toPod' = toPod
  BY <1>5 DEF CallerDid, DidGet, DidDrop, DidDeleteOnKubernetes, DidForget
<1>6. ASSUME NEW h \in Handlers, DidPoll(h) \/ DidRegister(h)
      PROVE  toPod' = toPod
  BY <1>6 DEF DidPoll, DidRegister
<1>7. ASSUME NEW h \in Handlers, DidPublishInit(h)
      PROVE  \E m \in Commands : m.cmd = "createVThings" /\ toPod' = Append(toPod, m)
  BY <1>7 DEF DidPublishInit
<1>8. ASSUME NEW r \in Requests, DidShare(r)
      PROVE  toPod' = toPod \/ \E m \in Commands : m.cmd = "endpoint" /\ toPod' = Append(toPod, m)
  BY <1>8 DEF DidShare
<1>9. QED
  BY <1>1, <1>2, <1>3, <1>4, <1>5, <1>6, <1>7, <1>8
  DEF Happened, DidStep, LifeStep, JobDid, CallerDid

\* What the controller publishes for a request.
LEMMA MessageFields ==
  ASSUME NEW r \in Requests
  PROVE  /\ Message(r).params = Params[r]
         /\ Message(r).cmd = (IF Kind[r] = "delete" THEN "destroyTV" ELSE "updateTV")
  BY DEF Message

\* An update of a session where updates have parameters has some.
LEMMA ParamsFilled ==
  UpdatesHaveParams =>
    \A r \in session.requests : Kind[r] = "update" => Params[r] # Empty
  BY DEF UpdatesHaveParams, Empty

\* Every step keeps what the argument about parameters takes for granted.
LEMMA BasicStep == Inv /\ BasicInv /\ Stepped => BasicInv'
<1> SUFFICES ASSUME Inv, BasicInv, Stepped
             PROVE  BasicInv'
  OBVIOUS
<1>1. /\ TypeInv /\ TypeInv' /\ Happened /\ Recorded /\ session' = session
  BY DEF Stepped, Inv, Recorded
<1>2. Asked'
  <2> SUFFICES ASSUME NEW r \in Requests, pc'[r] # "new"
               PROVE  r \in session.requests
    BY <1>1 DEF Asked
  <2>1. QED
    BY <1>1, NewComer DEF BasicInv, Asked, DidAccept, DidShare
<1>3. UpdatesFilled'
  <2>1. UpdatesHaveParams' = UpdatesHaveParams
    BY <1>1 DEF UpdatesHaveParams
  <2> SUFFICES ASSUME UpdatesHaveParams, NEW m \in Elems(toPod'), m.cmd = "updateTV"
               PROVE  m.params # Empty
    BY <2>1 DEF UpdatesFilled
  <2>2. \A x \in Elems(toPod) : x.cmd = "updateTV" => x.params # Empty
    BY DEF BasicInv, UpdatesFilled
  <2>3. CASE m \in Elems(toPod)
    BY <2>2, <2>3
  <2>4. CASE m \notin Elems(toPod)
    <3>1. PICK r \in Requests : DidPublish(r)
      BY <1>1, <2>4, PodQueueMoves, QueueSteps
    <3>2. m = Message(r) /\ Kind[r] \in {"update", "delete"} /\ pc[r] # "new"
      BY <1>1, <2>4, <3>1, QueueSteps DEF DidPublish
    <3>3. Kind[r] = "update" /\ r \in session.requests
      BY <3>2, MessageFields DEF BasicInv, Asked
    <3>4. QED
      BY <3>2, <3>3, MessageFields, ParamsFilled
  <2>5. QED
    BY <2>3, <2>4
<1>4. PodHasJob'
  <2> SUFFICES ASSUME NEW d \in Creations, deployment' = d \/ pod'[d].st # "none"
               PROVE  pc'[Job(d)] # "none"
    BY DEF PodHasJob
  <2>1. CASE deployment = d \/ pod[d].st # "none"
    BY <1>1, <2>1, JobStays, ActorFacts DEF BasicInv, PodHasJob
  <2>2. CASE deployment # d /\ deployment' = d
    <3>1. PICK q \in Creations : DidDeploy(q) /\ deployment = NoDeployment /\ deployment' = q
      BY <1>1, <2>2, DeploymentChanges, ActorFacts
    <3>2. QED
      BY <2>2, <3>1, ActorFacts DEF DidDeploy, Moved, Ended
  <2>3. CASE deployment # d /\ pod[d].st = "none" /\ pod'[d].st # "none"
    BY <1>1, <2>3, PodChanges DEF DidPodsReceive, PodsTake, DidPodStarts, DidPod, PodGoesOn
  <2>4. QED
    BY <2>1, <2>2, <2>3
<1>5. RunningNamesIt'
  <2> SUFFICES ASSUME Is(STATUS_RUNNING)'
               PROVE  Deployed(Rec)'
    BY DEF RunningNamesIt
  <2>1. STATUS_RUNNING # STATUS_PENDING /\ STATUS_RUNNING # STATUS_STOPPING
    BY DEF STATUS_RUNNING, STATUS_PENDING, STATUS_STOPPING
  <2>2. \/ Is(STATUS_RUNNING) /\ Rec'.details = Rec.details
        \/ \E r \in Creations : DidRunning(r) /\ Written(STATUS_RUNNING, r, r)
    BY <1>1, <2>1, RecChanges DEF Is, Ordered, StatusOnly, Written, ParamsOnly
  <2>3. QED
    BY <2>2, ActorFacts DEF BasicInv, RunningNamesIt, Deployed, Written
<1>6. QED
  BY <1>2, <1>3, <1>4, <1>5 DEF BasicInv

\* No request has come forward and nothing is published at first.
LEMMA InitBasic == Init => BasicInv
<1> SUFFICES ASSUME Init
             PROVE  BasicInv
  OBVIOUS
<1>1. /\ Rec = Nil /\ deployment = NoDeployment /\ toPod = <<>>
      /\ \A r \in Requests : pc[r] = "new"
      /\ \A r \in Creations : pod[r].st = "none"
  BY AtFirst DEF Init, NoPod
<1>2. Elems(toPod) = {}
  BY <1>1, InitTyped, QueueSteps
<1>3. QED
  BY <1>1, <1>2, ActorFacts
  DEF BasicInv, Asked, UpdatesFilled, PodHasJob, RunningNamesIt, Is

-------------------------------------------------------------------------------
(***************************************************************************)
(* Types.  In the life cycle alone no request about a vThing moves, and    *)
(* nobody holds an endpoint or sends one.                                  *)
(***************************************************************************)
OwnOnly ==
  /\ \A r \in Requests : Kind[r] \in SharingKinds => pc[r] = "new"
  /\ \A a \in Actors : seen[a] \in ThingVisorRecord \cup {Nil}
  /\ \A m \in Elems(toPod) : m.cmd # "endpoint"

\* A step of the life cycle leaves the requests about vThings alone.
LEMMA SharersStay ==
  ASSUME LifeStep, NEW r \in Requests, Kind[r] \in SharingKinds
  PROVE  Still(r)
<1>0. r \in Actors /\ r \notin Handlers /\ \A q \in Queued : r # Job(q)
  BY ActorFacts
<1>1. CASE DidLogin \/ DidPodsReceive \/ DidPodStarts \/ DidPod \/ DidLose
  BY <1>0, <1>1
  DEF DidLogin, DidPodsReceive, DidPodStarts, DidPod, DidLose, KeptPlaces, Still
<1>2. CASE DidReceive
  BY <1>0, <1>2, MovedStill, ActorFacts DEF DidReceive, KeptPlaces, Still
<1>3. ASSUME NEW q \in Queued, JobDid(q)
      PROVE  Still(r)
  BY <1>0, <1>3, JobDidMove, MovedStill, ActorFacts
<1>4. ASSUME NEW a \in Actors, CallerDid(a)
      PROVE  Still(r)
  <2>1. a # r
    BY <1>0, <1>4
    DEF CallerDid, DidGet, DidDrop, DidDeleteOnKubernetes, DidForget, Caller, SharingKinds
  <2>2. QED
    BY <1>0, <1>4, <2>1, CallerDidMove, MovedStill
<1>5. ASSUME NEW h \in Handlers, HandlerDid(h)
      PROVE  Still(r)
  BY <1>0, <1>5, HandlerDidMove, MovedStill, ActorFacts
<1>6. ASSUME NEW q \in Requests,
             \/ DidAccept(q) \/ DidCreate(q) \/ DidEnqueue(q) \/ DidStop(q)
             \/ DidPublish(q) \/ DidDebugDrop(q)
      PROVE  Still(r)
  <2>1. q # r
    BY <1>6
    DEF DidAccept, DidCreate, DidEnqueue, DidStop, DidPublish, DidDebugDrop, SharingKinds
  <2>2. QED
    BY <1>0, <1>6, <2>1, RequestDidMove, MovedStill, ActorFacts DEF RequestDid
<1>7. QED
  BY <1>1, <1>2, <1>3, <1>4, <1>5, <1>6 DEF LifeStep, JobDid, CallerDid, HandlerDid

\* Every step of the life cycle keeps that it is alone.
LEMMA OwnOnlyStep == Inv /\ OwnOnly /\ [Next]_vars => OwnOnly'
<1> SUFFICES ASSUME Inv, OwnOnly, [Next]_vars
             PROVE  OwnOnly'
  OBVIOUS
<1>1. TypeInv /\ TypeInv' /\ Happened /\ (LifeStep \/ DidRestart)
  BY StepDoes DEF Stepped, Inv
<1>2. \A r \in Requests :
        Kind[r] \in SharingKinds => pc'[r] = "new" /\ seen'[r] \in {Nil, seen[r]}
  BY <1>1, SharersStay DEF OwnOnly, Still, DidRestart, AtRest
<1>3. \A a \in Actors : seen'[a] \in ThingVisorRecord \cup {Nil}
  <2> SUFFICES ASSUME NEW a \in Actors
               PROVE  seen'[a] \in ThingVisorRecord \cup {Nil}
    OBVIOUS
  <2>1. CASE a \in Holders
    BY <1>1, <2>1, SeenMoves, RecType DEF OwnOnly, TypeInv
  <2>2. CASE a \notin Holders
    BY <1>2, <2>2 DEF Holders, OwnOnly
  <2>3. QED
    BY <2>1, <2>2
<1>4. \A r \in Requests : ~DidShare(r)
  BY <1>2, ActorFacts DEF DidShare, OwnOnly, Moved, Ended
<1>5. \A m \in Elems(toPod') : m.cmd # "endpoint"
  <2>1. CASE toPod' = toPod
    BY <2>1 DEF OwnOnly
  <2>2. CASE toPod # <<>> /\ toPod' = Tail(toPod)
    BY <1>1, <2>2, QueueSteps DEF OwnOnly
  <2>3. ASSUME NEW r \in Requests, DidPublish(r)
        PROVE  \A m \in Elems(toPod') : m.cmd # "endpoint"
    BY <1>1, <2>3, QueueSteps, MessageFields DEF OwnOnly, DidPublish
  <2>4. ASSUME NEW x \in Commands, x.cmd = "createVThings", toPod' = Append(toPod, x)
        PROVE  \A m \in Elems(toPod') : m.cmd # "endpoint"
    BY <1>1, <2>4, QueueSteps DEF OwnOnly
  <2>5. QED
    BY <1>1, <1>4, <2>1, <2>2, <2>3, <2>4, PodQueueMoves
<1>6. QED
  BY <1>2, <1>3, <1>5 DEF OwnOnly

\* The type invariant of the runs follows from these.
LEMMA TypeInvTypes == TypeInv /\ OwnOnly => TypeOK
<1> SUFFICES ASSUME TypeInv, OwnOnly
             PROVE  /\ pc \in [Actors -> Labels]
                    /\ seen \in [Actors -> ThingVisorRecord \cup {Nil}]
                    /\ toPod \in Seq([cmd : {"destroyTV", "updateTV", "createVThings"},
                                       params : Texts])
  BY DEF TypeInv, TypeOK, RestTyped, Reports, Pods
<1>1. \A r \in Requests : pc[r] \in Labels
  BY DEF TypeInv, Places, RequestsPlaced, RequestLabels, OwnOnly, SharingKinds, Labels, Ended
<1>2. \A r \in Queued : pc[Job(r)] \in Labels
  BY DEF TypeInv, Places, JobsPlaced, JobLabels, Labels, Ended
<1>3. \A h \in Handlers : pc[h] \in Labels
  BY DEF TypeInv, Places, HandlersPlaced, HandlerLabels, Labels, Ended
<1>4. \A a \in Actors : pc[a] \in Labels
  BY <1>1, <1>2, <1>3, ActorFacts DEF Actors
<1>5. toPod \in Seq([cmd : {"destroyTV", "updateTV", "createVThings"}, params : Texts])
  <2> DEFINE Plain == [cmd : {"destroyTV", "updateTV", "createVThings"}, params : Texts]
  <2>1. toPod \in Seq(Commands)
    BY DEF TypeInv, RestTyped
  <2>2. Len(toPod) \in Nat /\ toPod = [i \in 1..Len(toPod) |-> toPod[i]]
    BY <2>1, LenProperties
  <2>3. \A i \in 1..Len(toPod) : toPod[i] \in Plain
    <3>1. \A i \in 1..Len(toPod) : toPod[i] \in Commands /\ toPod[i].cmd # "endpoint"
      BY <2>1, ElementOfSeq DEF OwnOnly, Elems
    <3>2. \A m \in Commands : m.cmd # "endpoint" => m \in Plain
      BY DEF Commands
    <3>3. QED
      BY <3>1, <3>2
  <2> HIDE DEF Plain
  <2>4. toPod \in Seq(Plain)
    BY <2>2, <2>3, IsASeq
  <2>5. QED
    BY <2>4 DEF Plain
<1>6. QED
  BY <1>4, <1>5 DEF TypeInv, Stands, OwnOnly

\* Records, messages, pods and the places of the actors keep their shape, and
\* no job is attempted more than MaxAttempts times (submitJobAttempts).
THEOREM LifecycleTyped == Spec => []TypeOK
<1>1. Init => Inv /\ OwnOnly
  <2>1. Init => Inv /\ Elems(<<>>) = {}
    BY InitInv, QueueSteps DEF Inv
  <2>2. QED
    BY <2>1, AtFirst DEF OwnOnly
<1>2. Inv /\ OwnOnly /\ [Next]_vars => (Inv /\ OwnOnly)'
  BY StepDoes, OwnOnlyStep DEF Stepped
<1>3. Inv /\ OwnOnly => TypeOK
  BY TypeInvTypes DEF Inv
<1>4. QED
  BY <1>1, <1>2, <1>3, PTL DEF Spec

-------------------------------------------------------------------------------
(***************************************************************************)
(* The parameters in the record and those the program is going to have, by *)
(* way of the updates that are still under way.                            *)
(***************************************************************************)
\* What the program of a Deployment has, or will be started with.
Given(d) == IF pod[d].st = "none" THEN Params[d] ELSE pod[d].params

LastUpdate(s, x) ==
  \E i \in 1..Len(s) : /\ s[i].cmd = "updateTV" /\ s[i].params = x
                       /\ \A j \in 1..Len(s) : j > i => s[j].cmd # "updateTV"

NoUpdate(s) == \A i \in 1..Len(s) : s[i].cmd # "updateTV"

\* What it has once it has received everything that was published.
Becomes(d, x) == LastUpdate(toPod, x) \/ (NoUpdate(toPod) /\ Given(d) = x)

\* The last update of a queue after a message has come or gone.
LEMMA LastUpdateAppended ==
  ASSUME NEW s \in Seq(Commands), NEW m \in Commands
  PROVE  /\ m.cmd = "updateTV" => LastUpdate(Append(s, m), m.params)
         /\ m.cmd # "updateTV" =>
              /\ \A x : LastUpdate(s, x) => LastUpdate(Append(s, m), x)
              /\ NoUpdate(s) => NoUpdate(Append(s, m))
<1> DEFINE t == Append(s, m)
<1>1. /\ Len(t) = Len(s) + 1 /\ Len(s) \in Nat /\ t[Len(s) + 1] = m
      /\ \A i \in 1..Len(s) : t[i] = s[i]
  BY LenProperties
<1> HIDE DEF t
<1>2. \A i \in 1..Len(t) : i \in 1..Len(s) \/ i = Len(s) + 1
  BY <1>1
<1>3. /\ \A i \in 1..Len(s) : i \in 1..Len(t)
      /\ Len(s) + 1 \in 1..Len(t)
  BY <1>1
<1>4. ASSUME m.cmd = "updateTV"
      PROVE  LastUpdate(t, m.params)
  <2>1. \A j \in 1..Len(t) : ~(j > Len(s) + 1)
    BY <1>1
  <2>2. QED
    BY <1>1, <1>3, <1>4, <2>1 DEF LastUpdate
<1>5. ASSUME m.cmd # "updateTV", NEW x, LastUpdate(s, x)
      PROVE  LastUpdate(t, x)
  <2>1. PICK i \in 1..Len(s) :
          /\ s[i].cmd = "updateTV" /\ s[i].params = x
          /\ \A j \in 1..Len(s) : j > i => s[j].cmd # "updateTV"
    BY <1>5 DEF LastUpdate
  <2>2. i \in 1..Len(t) /\ t[i] = s[i]
    BY <1>1, <1>3
  <2>3. \A j \in 1..Len(t) : j > i => t[j].cmd # "updateTV"
    BY <1>1, <1>2, <1>5, <2>1
  <2>4. QED
    BY <2>1, <2>2, <2>3 DEF LastUpdate
<1>6. ASSUME m.cmd # "updateTV", NoUpdate(s)
      PROVE  NoUpdate(t)
  BY <1>1, <1>2, <1>6 DEF NoUpdate
<1>7. QED
  BY <1>4, <1>5, <1>6 DEF t

\* The last update of a queue after its first message has been taken.
LEMMA LastUpdateTaken ==
  ASSUME NEW s \in Seq(Commands), s # <<>>
  PROVE  /\ \A x : LastUpdate(s, x) =>
              \/ LastUpdate(Tail(s), x)
              \/ /\ NoUpdate(Tail(s))
                 /\ Head(s).cmd = "updateTV" /\ Head(s).params = x
         /\ NoUpdate(s) => NoUpdate(Tail(s)) /\ Head(s).cmd # "updateTV"
<1> DEFINE t == Tail(s)
<1>1. /\ Len(t) = Len(s) - 1 /\ Len(s) \in Nat \ {0} /\ Head(s) = s[1]
      /\ \A i \in 1..Len(t) : t[i] = s[i + 1]
  BY HeadTailProperties, LenProperties, EmptySeq
<1> HIDE DEF t
<1>2. \A i \in 1..Len(t) : i + 1 \in 1..Len(s) /\ t[i] = s[i + 1]
  BY <1>1
<1>3. ASSUME NEW x, LastUpdate(s, x)
      PROVE  \/ LastUpdate(t, x)
             \/ NoUpdate(t) /\ Head(s).cmd = "updateTV" /\ Head(s).params = x
  <2>1. PICK i \in 1..Len(s) :
          /\ s[i].cmd = "updateTV" /\ s[i].params = x
          /\ \A j \in 1..Len(s) : j > i => s[j].cmd # "updateTV"
    BY <1>3 DEF LastUpdate
  <2>2. CASE i = 1
    <3>1. \A j \in 1..Len(t) : j + 1 > i
      BY <2>2
    <3>2. NoUpdate(t)
      BY <1>2, <2>1, <3>1 DEF NoUpdate
    <3>3. QED
      BY <1>1, <2>1, <2>2, <3>2
  <2>3. CASE i # 1
    <3>1. i - 1 \in 1..Len(t) /\ t[i - 1] = s[i]
      BY <1>1, <2>3
    <3>2. \A j \in 1..Len(t) : j > i - 1 => j + 1 > i
      OBVIOUS
    <3>3. \A j \in 1..Len(t) : j > i - 1 => t[j].cmd # "updateTV"
      BY <1>2, <2>1, <3>2
    <3>4. QED
      BY <2>1, <3>1, <3>3 DEF LastUpdate
  <2>4. QED
    BY <2>2, <2>3
<1>4. NoUpdate(s) => NoUpdate(t) /\ Head(s).cmd # "updateTV"
  <2>1. 1 \in 1..Len(s)
    BY <1>1
  <2>2. QED
    BY <1>1, <1>2, <2>1 DEF NoUpdate
<1>5. QED
  BY <1>3, <1>4 DEF t

UpdateSent == \E i \in 1..Len(toPod) : toPod[i].cmd = "updateTV"

\* An update at the head of the queue has been sent.
LEMMA HeadSent ==
  ASSUME TypeInv, toPod # <<>>, Head(toPod).cmd = "updateTV"
  PROVE  UpdateSent
<1>1. Len(toPod) \in Nat \ {0} /\ Head(toPod) = toPod[1]
  BY HeadTailProperties, LenProperties, EmptySeq DEF TypeInv, RestTyped
<1>2. QED
  BY <1>1 DEF UpdateSent

UpdateCauses == {"updateDuringCreate", "twoUpdates", "updateWithOldPod",
                 "deleteDuringCreate", "updateTV", "submit", "pod",
                 "updateInterrupted"}

Steady == ~RequestsInit /\ UpdatesHaveParams /\ Without(UpdateCauses)

\* What such a behaviour has met, and what it has not.
LEMMA SteadyState ==
  ASSUME Inv, Steady
  PROVE  /\ ~Met /\ ~RequestsInit /\ UpdatesHaveParams
         /\ Creating => ~Updating
         /\ \A u, v \in Updates : u = v
         /\ Updating => \A d \in Creations : pod[d].st # "none" => deployment = d
  BY DEF Steady, Without, UpdateCauses, Inv, WindowsSeen, Windows, Labelled, Met

\* What a steady step cannot have been, and what held before it.
LEMMA SteadySteps ==
  ASSUME Inv, Stepped, Steady'
  PROVE  /\ TypeInv /\ TypeInv' /\ Inv' /\ Happened /\ session' = session
         /\ Steady
         /\ "submit" \notin faults' /\ "pod" \notin faults' /\ "updateTV" \notin lost'
         /\ DidRestart => ~Updating
<1>1. TypeInv /\ TypeInv' /\ Inv' /\ Happened /\ Recorded /\ session' = session
  BY DEF Stepped, Inv, Recorded
<1>2. Steady
  BY <1>1, WithoutBefore DEF Steady, Recorded, RequestsInit, UpdatesHaveParams
<1>3. /\ "submit" \notin faults' /\ "pod" \notin faults' /\ "updateTV" \notin lost'
      /\ "updateInterrupted" \notin races'
  BY DEF Steady, Without, UpdateCauses
<1>4. DidRestart => ~Updating
  BY <1>3 DEF DidRestart, Interrupted, Labelled
<1>5. QED
  BY <1>1, <1>2, <1>3, <1>4

\* The parameters a program is going to have change with an update only.
LEMMA BecomesStays ==
  ASSUME Inv, BasicInv, Stepped, Steady', NEW d \in Creations, deployment = d,
         NEW x, Becomes(d, x),
         \A r \in Requests : DidPublish(r) => Kind[r] # "update"
  PROVE  Becomes(d, x)'
<1>1. /\ TypeInv /\ TypeInv' /\ Happened /\ Steady
      /\ "pod" \notin faults' /\ "updateTV" \notin lost'
      /\ toPod \in Seq(Commands)
  BY SteadySteps DEF TypeInv, RestTyped
<1>2. ASSUME ~DidPodsReceive
      PROVE  Given(d)' = Given(d)
  <2>1. CASE pod' = pod
    BY <2>1 DEF Given
  <2>2. CASE DidPodStarts
    BY <2>2 DEF DidPodStarts, Given
  <2>3. CASE DidPod
    BY <1>1, <2>3 DEF DidPod, PodGoesOn, Given
  <2>4. QED
    BY <1>1, <1>2, <2>1, <2>2, <2>3, PodChanges
<1>3. CASE DidPodsReceive
  <2>1. /\ toPod # <<>> /\ toPod' = Tail(toPod) /\ PodsTake(Head(toPod))
        /\ SomeUp \/ Head(toPod).cmd \in lost'
    BY <1>3 DEF DidPodsReceive
  <2>2. CASE Head(toPod).cmd = "updateTV"
    <3>1. Updating
      BY <1>1, <2>1, <2>2, HeadSent DEF Updating, UpdateSent
    <3>2. pod[d].st = "up"
      BY <1>1, <2>1, <2>2, <3>1, SteadyState DEF SomeUp
    <3>3. Head(toPod).params # Empty /\ ~RequestsInit
      BY <1>1, <2>1, <2>2, SteadyState, QueueSteps DEF BasicInv, UpdatesFilled
    <3>4. Given(d)' = Head(toPod).params
      BY <2>1, <2>2, <3>2, <3>3 DEF PodsTake, Given
    <3>5. LastUpdate(toPod', x) \/ (NoUpdate(toPod') /\ Head(toPod).params = x)
      BY <1>1, <2>1, <2>2, LastUpdateTaken DEF Becomes
    <3>6. QED
      BY <3>4, <3>5 DEF Becomes
  <2>3. CASE Head(toPod).cmd # "updateTV"
    <3>1. Given(d)' = Given(d)
      BY <2>1, <2>3 DEF PodsTake, Given
    <3>2. \/ LastUpdate(toPod', x)
          \/ NoUpdate(toPod') /\ Given(d) = x
      BY <1>1, <2>1, <2>3, LastUpdateTaken DEF Becomes
    <3>3. QED
      BY <3>1, <3>2 DEF Becomes
  <2>4. QED
    BY <2>2, <2>3
<1>4. CASE ~DidPodsReceive /\ toPod' = toPod
  BY <1>2, <1>4 DEF Becomes
<1>5. CASE ~DidPodsReceive /\ DidLose /\ toPod # <<>> /\ toPod' = Tail(toPod)
  <2>1. Head(toPod).cmd # "updateTV" \/ toPod' = toPod
    BY <1>1, <1>5 DEF DidLose
  <2>2. CASE Head(toPod).cmd # "updateTV"
    <3>1. \/ LastUpdate(toPod', x)
          \/ NoUpdate(toPod') /\ Given(d) = x
      BY <1>1, <1>5, <2>2, LastUpdateTaken DEF Becomes
    <3>2. QED
      BY <1>2, <1>5, <3>1 DEF Becomes
  <2>3. QED
    BY <1>4, <1>5, <2>1, <2>2
<1>6. ASSUME ~DidPodsReceive, NEW m \in Commands, m.cmd # "updateTV",
             toPod' = Append(toPod, m)
      PROVE  Becomes(d, x)'
  <2>1. \/ LastUpdate(toPod', x)
        \/ NoUpdate(toPod') /\ Given(d) = x
    BY <1>1, <1>6, LastUpdateAppended DEF Becomes
  <2>2. QED
    BY <1>2, <1>6, <2>1 DEF Becomes
<1>7. ASSUME ~DidPodsReceive, NEW r \in Requests, DidPublish(r)
      PROVE  Becomes(d, x)'
  <2>1. Kind[r] = "delete" /\ toPod' = Append(toPod, Message(r)) /\ Message(r) \in Commands
    BY <1>7 DEF DidPublish
  <2>2. Message(r).cmd # "updateTV"
    BY <2>1, MessageFields
  <2>3. QED
    BY <1>6, <1>7, <2>1, <2>2
<1>8. QED
  BY <1>1, <1>3, <1>4, <1>5, <1>6, <1>7, PodQueueMoves

\* An update that is published is the last one.
LEMMA BecomesUpdated ==
  ASSUME TypeInv, NEW d \in Creations, NEW u \in Requests, Kind[u] = "update", DidPublish(u)
  PROVE  Becomes(d, Params[u])'
<1>1. /\ toPod \in Seq(Commands) /\ Message(u) \in Commands
      /\ toPod' = Append(toPod, Message(u))
  BY DEF TypeInv, RestTyped, DidPublish
<1>2. Message(u).cmd = "updateTV" /\ Message(u).params = Params[u]
  BY MessageFields
<1>3. LastUpdate(toPod', Params[u])
  BY <1>1, <1>2, LastUpdateAppended
<1>4. QED
  BY <1>3 DEF Becomes

\* An update has two parts to do: its message and its job.
MessageDue(u) == Kind[u] = "update" /\ pc[u] = "publish"
JobDue(u) == Kind[u] = "update" /\ pc[Job(u)] \in {"waiting", "update"}

Agree(d) ==
  /\ \A u \in Requests : MessageDue(u) /\ ~JobDue(u) => Rec.params = Params[u]
  /\ \A u \in Requests : JobDue(u) /\ ~MessageDue(u) => Becomes(d, Params[u])
  /\ (\A u \in Requests : MessageDue(u) <=> JobDue(u)) => Becomes(d, Rec.params)

RecordAgrees == \A d \in Creations : Rec # Nil /\ Rec.details = d => Agree(d)

\* The program of a creation that has not ended has the parameters it was
\* started with.
NewPodAgrees ==
  \A d \in Creations :
    pc[Job(d)] \notin Ended /\ pod[d].st # "none" => pod[d].params = Params[d]

UpdaterKnown == Updates # {} => identity

AgreeInv == Steady => RecordAgrees /\ NewPodAgrees /\ UpdaterKnown

\* How a job moves.
LEMMA JobMoves ==
  ASSUME Happened, NEW r \in Queued
  PROVE  Still(Job(r)) \/ JobDid(r) \/ DidEnqueue(r) \/ DidRestart
<1>1. /\ Job(r) \in Actors /\ Job(r) \notin Handlers /\ Job(r) \notin Requests
      /\ \A q : Job(q) = Job(r) => q = r
  BY ActorFacts
<1>2. ~CallerDid(Job(r))
  BY <1>1 DEF CallerDid, DidGet, DidDrop, DidDeleteOnKubernetes, DidForget, Caller
<1>3. QED
  BY <1>1, <1>2, Moves

\* An update of which anything is due is under way.
LEMMA DueIsUnderWay ==
  ASSUME NEW u \in Requests, MessageDue(u) \/ JobDue(u)
  PROVE  u \in Updates
  BY DEF MessageDue, JobDue, Updates, AtRest, Ended

\* How an update comes by what it has to do, and how it gets it done.
LEMMA DueMoves ==
  ASSUME TypeInv, Happened, ~DidRestart, NEW u \in Requests, Kind[u] = "update"
  PROVE  \/ /\ DidEnqueue(u) /\ u \in Updates
            /\ ~MessageDue(u) /\ ~JobDue(u) /\ MessageDue(u)' /\ JobDue(u)'
         \/ /\ DidPublish(u) /\ u \in Updates
            /\ MessageDue(u) /\ ~MessageDue(u)' /\ (JobDue(u)' <=> JobDue(u))
         \/ /\ DidUpdate(u) /\ u \in Updates
            /\ JobDue(u) /\ ~JobDue(u)' /\ (MessageDue(u)' <=> MessageDue(u))
         \/ (MessageDue(u)' <=> MessageDue(u)) /\ (JobDue(u)' <=> JobDue(u))
<1>0. /\ u \in Queued /\ u \in Actors /\ u \notin Handlers /\ u \notin Jobs
      /\ Job(u) \in Actors /\ Job(u) \notin Handlers /\ Job(u) \notin Requests
      /\ Job(u) # u
      /\ \A q : Job(q) = Job(u) => q = u
      /\ \A q \in Queued : u # Job(q)
  BY ActorFacts DEF Queued
<1>1. CASE DidEnqueue(u)
  <2>1. pc[u] = "enqueue" /\ pc[Job(u)] = "none"
    BY <1>0, <1>1 DEF DidEnqueue, TypeInv, Places, JobsPlaced, Before
  <2>2. u \in Updates /\ ~MessageDue(u) /\ ~JobDue(u)
    BY <2>1 DEF Updates, MessageDue, JobDue, AtRest, Ended
  <2>3. \/ MessageDue(u)' /\ JobDue(u)'
        \/ ~MessageDue(u)' /\ ~JobDue(u)'
    BY <1>0, <1>1, <2>1 DEF DidEnqueue, MessageDue, JobDue, Moved
  <2>4. QED
    BY <1>1, <2>2, <2>3
<1>2. CASE DidPublish(u)
  <2>1. pc[u] = "publish" /\ pc'[u] = "ok" /\ pc'[Job(u)] = pc[Job(u)]
    BY <1>0, <1>2 DEF DidPublish, Moved, Ended
  <2>2. QED
    BY <1>2, <2>1 DEF MessageDue, JobDue, Updates, AtRest, Ended
<1>3. CASE DidUpdate(u)
  <2>1. pc[Job(u)] = "update" /\ pc'[Job(u)] = "ok" /\ pc'[u] = pc[u]
    BY <1>0, <1>3 DEF DidUpdate, Submitted, Moved, Ended
  <2>2. QED
    BY <1>3, <2>1 DEF MessageDue, JobDue, Updates, AtRest, Ended
<1>4. CASE ~DidEnqueue(u) /\ ~DidPublish(u) /\ ~DidUpdate(u)
  <2>1. MessageDue(u)' <=> MessageDue(u)
    <3>1. Still(u) \/ RequestDid(u) \/ CallerDid(u)
      BY <1>0, Moves
    <3>2. ASSUME RequestDid(u) \/ CallerDid(u)
          PROVE  pc[u] # "publish" /\ pc'[u] # "publish"
      BY <1>0, <1>4, <3>2
      DEF RequestDid, DidAccept, DidCreate, DidStop, DidDebugDrop, DidShare, Moved, Ended, Submitted,
          CallerDid, DidGet, DidDrop, DidDeleteOnKubernetes, DidForget, Caller, AfterGet
    <3>3. QED
      BY <3>1, <3>2 DEF Still, MessageDue
  <2>2. JobDue(u)' <=> JobDue(u)
    <3>1. Still(Job(u)) \/ JobDid(u)
      BY <1>0, <1>4, JobMoves
    <3>2. ASSUME JobDid(u)
          PROVE  pc[Job(u)] = "waiting" /\ pc'[Job(u)] = "update"
      BY <1>0, <1>4, <3>2
      DEF JobDid, DidBegin, DidPending, DidSubscribe, DidService, DidDeploy, DidRunning,
          Moved, Ended
    <3>3. QED
      BY <3>1, <3>2 DEF Still, JobDue
  <2>3. QED
    BY <2>1, <2>2
<1>5. QED
  BY <1>1, <1>2, <1>3, <1>4

\* Nobody updates who was not doing so already or has just come forward.
LEMMA UpdatesMove ==
  ASSUME TypeInv, TypeInv', Happened, NEW u \in Requests, u \in Updates', u \notin Updates
  PROVE  DidAccept(u)
<1>0. /\ u \in Queued /\ u \in Actors /\ u \notin Handlers /\ u \notin Jobs
      /\ Job(u) \in Actors /\ Job(u) \notin Handlers /\ Job(u) \notin Requests
      /\ Job(u) # u
      /\ \A q : Job(q) = Job(u) => q = u
      /\ \A q \in Queued : u # Job(q)
      /\ Job(u) \in Jobs
      /\ Kind[u] = "update"
  BY ActorFacts DEF Queued, Updates
<1>1. AtRest(u) /\ AtRest(Job(u)) /\ ~(AtRest(u)' /\ AtRest(Job(u))')
  BY <1>0 DEF Updates
<1>2. ~DidRestart
  BY <1>0, <1>1 DEF DidRestart, AtRest
<1>3. pc[Job(u)] \in Ended \cup {"none"}
  BY <1>0, <1>1 DEF TypeInv, Places, JobsPlaced, JobLabels, AtRest, Ended
<1>4. Still(Job(u))
  <2>1. ~DidEnqueue(u)
    BY <1>1 DEF AtRest, Ended, DidEnqueue
  <2>2. ~JobDid(u)
    BY <1>3
    DEF JobDid, DidBegin, DidPending, DidSubscribe, DidService, DidDeploy, DidRunning,
        DidUpdate, Ended
  <2>3. QED
    BY <1>0, <1>2, <2>1, <2>2, JobMoves
<1>5. ~Still(u)
  BY <1>1, <1>4 DEF Still, AtRest
<1>6. ~CallerDid(u)
  BY <1>1 DEF CallerDid, DidGet, DidDrop, DidDeleteOnKubernetes, DidForget, AtRest, Ended
<1>7. RequestDid(u) => DidAccept(u)
  BY <1>0, <1>1
  DEF RequestDid, DidCreate, DidEnqueue, DidStop, DidPublish, DidDebugDrop, DidShare,
      SharingKinds, AtRest, Ended
<1>8. QED
  BY <1>0, <1>2, <1>5, <1>6, <1>7, Moves

\* A record that was just written agrees with the program of its Deployment.
LEMMA WrittenAgrees ==
  ASSUME Inv, AgreeInv, Stepped, Steady', NEW d \in Creations,
         DidRunning(d), Rec' # Nil, Rec'.details = d, Written(STATUS_RUNNING, d, d)
  PROVE  Agree(d)'
<1>1. TypeInv /\ Happened /\ Steady
  BY SteadySteps
<1>2. pc[Job(d)] = "running" /\ KeptAll /\ pc'[Job(d)] \in Ended
      /\ \A b \in Actors \ {Job(d)} : pc'[b] = pc[b]
  BY ActorFacts DEF DidRunning, Submitted, Moved, Ended
<1>3. Updates = {} /\ NoUpdate(toPod)
  <2>1. Creating
    BY <1>2 DEF Creating, Ended
  <2>2. QED
    BY <1>1, <2>1, SteadyState DEF Updating, NoUpdate
<1>4. Given(d) = Params[d]
  BY <1>1, <1>2 DEF AgreeInv, NewPodAgrees, Given, Ended
<1>5. toPod' = toPod /\ pod' = pod /\ Rec'.params = Params[d]
  BY <1>2 DEF KeptAll, KeptNet, Written
<1>6. Becomes(d, Rec.params)'
  BY <1>3, <1>4, <1>5 DEF Becomes, Given
<1>7. \A u \in Requests : ~MessageDue(u)' /\ ~JobDue(u)'
  <2> SUFFICES ASSUME NEW u \in Requests, Kind[u] = "update"
               PROVE  pc'[u] # "publish" /\ pc'[Job(u)] \notin {"waiting", "update"}
    BY DEF MessageDue, JobDue
  <2>1. AtRest(u) /\ AtRest(Job(u))
    BY <1>3 DEF Updates
  <2>2. u \in Actors /\ u # Job(d) /\ Job(u) \in Actors
    BY ActorFacts DEF Queued
  <2>3. Job(u) # Job(d)
    BY ActorFacts DEF Creations
  <2>4. QED
    BY <1>2, <2>1, <2>2, <2>3 DEF AtRest, Ended
<1>8. QED
  BY <1>6, <1>7 DEF Agree

\* How the parameters of a record that keeps its Deployment change.
LEMMA ParamsChange ==
  ASSUME Happened, "submit" \notin faults', Rec # Nil, Rec' # Nil,
         Rec'.details = Rec.details, Deployed(Rec)
  PROVE  \/ Rec'.params = Rec.params
         \/ \E r \in Creations : DidRunning(r) /\ Written(STATUS_RUNNING, r, r)
         \/ \E u \in Queued : DidUpdate(u) /\ ParamsOnly(u)
  BY RecChanges
  DEF Ordered, StatusOnly, Written, Deployed

\* A record that names its Deployment goes on agreeing with its program.
LEMMA AgreeStays ==
  ASSUME Inv, BasicInv, AgreeInv, Stepped, Steady', NEW d \in Creations,
         deployment = d, Rec # Nil, Rec.details = d, Rec' # Nil, Rec'.details = d,
         \A r \in Creations : ~(DidRunning(r) /\ Written(STATUS_RUNNING, r, r))
  PROVE  Agree(d)'
<1>1. /\ TypeInv /\ TypeInv' /\ Inv' /\ Happened /\ session' = session
      /\ Steady
      /\ "submit" \notin faults'
      /\ DidRestart => ~Updating
  BY SteadySteps
<1>2. Agree(d) /\ UpdaterKnown
  BY <1>1 DEF AgreeInv, RecordAgrees
<1>3. \A u, v \in Updates : u = v
  BY <1>1, SteadyState
<1>4. \/ Rec'.params = Rec.params
      \/ \E u \in Queued : DidUpdate(u) /\ ParamsOnly(u)
  BY <1>1, ParamsChange, ActorFacts DEF Deployed
<1>5. CASE DidRestart
  <2>1. Updates = {} /\ \A u \in Requests : ~MessageDue(u) /\ ~JobDue(u)
    BY <1>1, <1>5, DueIsUnderWay DEF Updating
  <2>2. \A u \in Requests : Kind[u] = "update" =>
          AtRest(u) /\ AtRest(Job(u)) /\ Job(u) \in Jobs
    BY <2>1, ActorFacts DEF Updates, Queued
  <2>3. \A u \in Requests : ~MessageDue(u)' /\ ~JobDue(u)'
    BY <1>5, <2>2 DEF DidRestart, MessageDue, JobDue, AtRest, Ended
  <2>4. Becomes(d, Rec.params)
    BY <1>2, <2>1 DEF Agree
  <2>5. toPod' = toPod /\ pod' = pod /\ Rec' = Rec
    BY <1>5 DEF DidRestart, SameRec
  <2>6. Becomes(d, Rec.params)'
    BY <2>4, <2>5 DEF Becomes, Given
  <2>7. QED
    BY <2>3, <2>6 DEF Agree
<1>6. ASSUME ~DidRestart, NEW u \in Updates
      PROVE  Agree(d)'
  <2>0. u \in Requests /\ u \in Queued /\ Kind[u] = "update" /\ identity
    BY <1>2, <1>6 DEF Updates, UpdaterKnown, Queued
  <2>1. \A q \in Requests : q # u => ~MessageDue(q) /\ ~JobDue(q)
    BY <1>3, <1>6, DueIsUnderWay
  <2>2. \A q \in Requests : q # u => ~MessageDue(q)' /\ ~JobDue(q)'
    <3> SUFFICES ASSUME NEW q \in Requests, q # u
                 PROVE  ~MessageDue(q)' /\ ~JobDue(q)'
      OBVIOUS
    <3>1. q \notin Updates
      BY <1>3, <1>6
    <3>2. CASE Kind[q] = "update"
      BY <1>1, <1>6, <2>1, <3>1, <3>2, DueMoves
    <3>3. CASE Kind[q] # "update"
      BY <3>3 DEF MessageDue, JobDue
    <3>4. QED
      BY <3>2, <3>3
  <2>3. \A r \in Requests : DidPublish(r) /\ Kind[r] = "update" => r = u
    <3> SUFFICES ASSUME NEW r \in Requests, DidPublish(r), Kind[r] = "update"
                 PROVE  r = u
      OBVIOUS
    <3>1. MessageDue(r)
      BY DEF DidPublish, MessageDue
    <3>2. QED
      BY <2>1, <3>1
  <2>4. ~DidUpdate(u) => Rec'.params = Rec.params
    <3>1. ASSUME NEW q \in Queued, DidUpdate(q)
          PROVE  q = u
      <4>1. q \in Requests /\ JobDue(q)
        BY <3>1, ActorFacts DEF DidUpdate, JobDue
      <4>2. QED
        BY <2>1, <4>1
    <3>2. QED
      BY <1>4, <3>1
  <2>5. \A x : Becomes(d, x) /\ ~DidPublish(u) => Becomes(d, x)'
    <3> SUFFICES ASSUME NEW x, Becomes(d, x), ~DidPublish(u)
                 PROVE  Becomes(d, x)'
      OBVIOUS
    <3>1. QED
      BY <2>3, BecomesStays
  <2>6. CASE DidPublish(u)
    <3>1. Becomes(d, Params[u])'
      BY <1>1, <2>0, <2>6, BecomesUpdated
    <3>2. MessageDue(u) /\ ~DidUpdate(u)
      <4>1. MessageDue(u) /\ pc'[u] # pc[u]
        BY <2>0, <2>6, ActorFacts DEF DidPublish, MessageDue, Moved, Ended
      <4>2. DidUpdate(u) => pc'[u] = pc[u]
        BY <2>0, ActorFacts DEF DidUpdate, Submitted, Moved
      <4>3. QED
        BY <4>1, <4>2
    <3>3. ~MessageDue(u)' /\ (JobDue(u)' <=> JobDue(u))
      BY <1>1, <1>6, <2>0, <3>2, <2>6, DueMoves DEF DidPublish, MessageDue, JobDue, Moved, Ended
    <3>4. Rec'.params = Rec.params
      BY <2>4, <3>2
    <3>5. CASE JobDue(u)
      BY <2>0, <2>1, <2>2, <3>1, <3>3, <3>5 DEF Agree
    <3>6. CASE ~JobDue(u)
      <4>1. Rec.params = Params[u]
        BY <1>2, <2>0, <3>2, <3>6 DEF Agree
      <4>2. QED
        BY <2>1, <2>2, <3>1, <3>3, <3>4, <3>6, <4>1 DEF Agree
    <3>7. QED
      BY <3>5, <3>6
  <2>7. CASE DidUpdate(u) /\ ~DidPublish(u)
    <3>1. /\ JobDue(u) /\ ~JobDue(u)' /\ (MessageDue(u)' <=> MessageDue(u))
      <4>1. pc[Job(u)] = "update" /\ pc'[Job(u)] = "ok" /\ pc'[u] = pc[u]
        BY <2>0, <2>7, ActorFacts DEF DidUpdate, Submitted, Moved, Ended
      <4>2. QED
        BY <2>0, <4>1 DEF JobDue, MessageDue
    <3>2. ParamsOnly(u)
      BY <1>1, <2>0, <2>7 DEF DidUpdate, Submitted
    <3>3. Rec'.params = Params[u]
      <4>1. pc[u] # "new"
        BY <2>0, <3>1 DEF TypeInv, Places, JobsPlaced, Before, JobDue, Inv
      <4>2. Params[u] # Empty
        BY <1>1, <2>0, <4>1, SteadyState, ParamsFilled DEF BasicInv, Asked
      <4>3. Stringify(Params[u]) = Params[u]
        BY <4>2 DEF Stringify, Empty
      <4>4. QED
        BY <3>2, <4>3 DEF ParamsOnly
    <3>4. CASE MessageDue(u)
      BY <2>0, <2>1, <2>2, <3>1, <3>3, <3>4 DEF Agree
    <3>5. CASE ~MessageDue(u)
      <4>1. Becomes(d, Params[u])
        BY <1>2, <2>0, <3>1, <3>5 DEF Agree
      <4>2. Becomes(d, Params[u])'
        BY <2>5, <2>7, <4>1
      <4>3. QED
        BY <2>1, <2>2, <3>1, <3>3, <3>5, <4>2 DEF Agree
    <3>6. QED
      BY <3>4, <3>5
  <2>8. CASE ~DidUpdate(u) /\ ~DidPublish(u)
    <3>1. Rec'.params = Rec.params
      BY <2>4, <2>8
    <3>2. \/ ~MessageDue(u) /\ ~JobDue(u) /\ MessageDue(u)' /\ JobDue(u)'
          \/ (MessageDue(u)' <=> MessageDue(u)) /\ (JobDue(u)' <=> JobDue(u))
      BY <1>1, <1>6, <2>0, <2>8, DueMoves
    <3>3. CASE MessageDue(u) <=> JobDue(u)
      <4>1. Becomes(d, Rec.params)
        BY <1>2, <2>1, <3>3 DEF Agree
      <4>2. Becomes(d, Rec.params)'
        BY <2>5, <2>8, <3>1, <4>1
      <4>3. QED
        BY <2>2, <3>2, <3>3, <4>2 DEF Agree
    <3>4. CASE MessageDue(u) /\ ~JobDue(u)
      BY <1>2, <2>0, <2>2, <3>1, <3>2, <3>4 DEF Agree
    <3>5. CASE ~MessageDue(u) /\ JobDue(u)
      <4>1. Becomes(d, Params[u])
        BY <1>2, <2>0, <3>5 DEF Agree
      <4>2. Becomes(d, Params[u])'
        BY <2>5, <2>8, <4>1
      <4>3. QED
        BY <2>0, <2>2, <3>2, <3>5, <4>2 DEF Agree
    <3>6. QED
      BY <3>3, <3>4, <3>5
  <2>9. QED
    BY <2>6, <2>7, <2>8
<1>7. CASE ~DidRestart /\ Updates = {}
  <2>1. \A u \in Requests : ~MessageDue(u) /\ ~JobDue(u)
    BY <1>7, DueIsUnderWay
  <2>2. \A u \in Requests : ~MessageDue(u)' /\ ~JobDue(u)'
    <3> SUFFICES ASSUME NEW q \in Requests
                 PROVE  ~MessageDue(q)' /\ ~JobDue(q)'
      OBVIOUS
    <3>1. CASE Kind[q] = "update"
      BY <1>1, <1>7, <2>1, <3>1, DueMoves
    <3>2. CASE Kind[q] # "update"
      BY <3>2 DEF MessageDue, JobDue
    <3>3. QED
      BY <3>1, <3>2
  <2>3. \A r \in Requests : DidPublish(r) => Kind[r] # "update"
    BY <2>1 DEF DidPublish, MessageDue
  <2>4. Rec'.params = Rec.params
    BY <1>4, <2>1, ActorFacts DEF DidUpdate, JobDue
  <2>5. Becomes(d, Rec.params)
    BY <1>2, <2>1 DEF Agree
  <2>6. Becomes(d, Rec.params)'
    BY <2>3, <2>4, <2>5, BecomesStays
  <2>7. QED
    BY <2>2, <2>6 DEF Agree
<1>8. QED
  BY <1>5, <1>6, <1>7

\* Every step keeps that the record and the program come to agree.
LEMMA AgreeStep ==
  Inv /\ Calm /\ ShownInv /\ BasicInv /\ AgreeInv /\ Stepped => AgreeInv'
<1> SUFFICES ASSUME Inv, Calm, ShownInv, BasicInv, AgreeInv, Stepped, Steady'
             PROVE  (RecordAgrees /\ NewPodAgrees /\ UpdaterKnown)'
  BY DEF AgreeInv
<1>1. /\ TypeInv /\ TypeInv' /\ Inv' /\ Happened /\ session' = session
      /\ Steady /\ "pod" \notin faults'
      /\ DidRestart => ~Updating
  BY SteadySteps
<1>2. RecordAgrees /\ NewPodAgrees /\ UpdaterKnown
  BY <1>1 DEF AgreeInv
<1>3. ~Met /\ (Creating => ~Updating)
  BY <1>1, SteadyState
<1>4. ASSUME NEW d \in Creations, Rec' # Nil, Rec'.details = d
      PROVE  Agree(d)'
  <2>1. d \notin {NoDetails, NoDeployment}
    BY ActorFacts
  <2>2. \/ Rec # Nil /\ Rec.details = d
        \/ \E r \in Creations : DidRunning(r) /\ Rec'.details = r
    BY <1>1, <1>4, <2>1, DetailsChange
  <2>3. CASE \E r \in Creations : DidRunning(r) /\ Written(STATUS_RUNNING, r, r)
    <3>1. PICK r \in Creations : DidRunning(r) /\ Written(STATUS_RUNNING, r, r)
      BY <2>3
    <3>2. r = d
      BY <1>4, <3>1 DEF Written
    <3>3. QED
      BY <1>4, <3>1, <3>2, WrittenAgrees
  <2>4. CASE ~\E r \in Creations : DidRunning(r) /\ Written(STATUS_RUNNING, r, r)
    <3>1. Rec # Nil /\ Rec.details = d
      <4>1. ASSUME NEW r \in Creations, DidRunning(r), Rec'.details = r
            PROVE  Rec' = Rec
        BY <2>4, <4>1, <1>1, SteadySteps DEF DidRunning, Submitted, SameRec
      <4>2. QED
        BY <1>4, <2>2, <4>1
    <3>2. deployment = d
      BY <1>3, <2>1, <3>1 DEF Calm, RecordHasDeployment, Deployed
    <3>3. QED
      BY <1>4, <2>4, <3>1, <3>2, AgreeStays
  <2>5. QED
    BY <2>3, <2>4
<1>5. ASSUME NEW d \in Creations, pc'[Job(d)] \notin Ended, pod'[d].st # "none"
      PROVE  pod'[d].params = Params[d]
  <2>1. pc[Job(d)] \notin Ended
    BY <1>1, <1>5, CreationMoves
  <2>2. CASE pod' = pod
    BY <1>2, <1>5, <2>1, <2>2 DEF NewPodAgrees
  <2>3. CASE DidPodStarts
    BY <1>2, <1>5, <2>1, <2>3 DEF NewPodAgrees, DidPodStarts
  <2>4. CASE DidPod
    BY <1>2, <1>5, <2>1, <2>4 DEF NewPodAgrees, DidPod, PodGoesOn
  <2>5. CASE DidPodsReceive
    <3>1. pod'[d].st = pod[d].st /\ PodsTake(Head(toPod)) /\ toPod # <<>>
      BY <2>5 DEF DidPodsReceive, PodsTake
    <3>2. pod[d].params = Params[d]
      BY <1>2, <1>5, <2>1, <3>1 DEF NewPodAgrees
    <3>3. Creating
      BY <1>5, <2>1, <3>1 DEF BasicInv, PodHasJob, Creating
    <3>4. Head(toPod).cmd # "updateTV"
      BY <1>1, <1>3, <3>1, <3>3, HeadSent DEF Updating, UpdateSent
    <3>5. QED
      BY <3>1, <3>2, <3>4 DEF PodsTake
  <2>6. QED
    BY <1>1, <2>2, <2>3, <2>4, <2>5, PodChanges
<1>6. ASSUME Updates' # {}
      PROVE  identity'
  <2>1. PICK u \in Updates' : TRUE
    BY <1>6
  <2>2. u \in Requests
    BY <2>1 DEF Updates
  <2>3. CASE DidRestart
    <3>1. Updates = {} /\ Kind[u] = "update"
      BY <1>1, <2>1, <2>3 DEF Updating, Updates
    <3>2. AtRest(u) /\ AtRest(Job(u)) /\ Job(u) \in Jobs
      BY <2>2, <3>1, ActorFacts DEF Updates, Queued
    <3>3. AtRest(u)' /\ AtRest(Job(u))'
      BY <2>2, <2>3, <3>2 DEF DidRestart, AtRest
    <3>4. QED
      BY <2>1, <3>3 DEF Updates
  <2>4. CASE u \in Updates /\ ~DidRestart
    BY <1>1, <1>2, <2>4, IdentityStays DEF UpdaterKnown
  <2>5. CASE u \notin Updates /\ ~DidRestart
    <3>1. DidAccept(u)
      BY <1>1, <2>1, <2>2, <2>5, UpdatesMove
    <3>2. QED
      BY <3>1 DEF DidAccept, KeptAll, KeptCtl
  <2>6. QED
    BY <2>3, <2>4, <2>5
<1>7. QED
  BY <1>4, <1>5, <1>6 DEF RecordAgrees, NewPodAgrees, UpdaterKnown

\* There is neither a record nor a program at first.
LEMMA InitAgree == Init => AgreeInv
<1> SUFFICES ASSUME Init
             PROVE  RecordAgrees /\ NewPodAgrees /\ UpdaterKnown
  BY DEF AgreeInv
<1>1. /\ Rec = Nil /\ identity
      /\ \A r \in Creations : pod[r].st = "none"
  BY AtFirst DEF Init, InitWith, NoPod
<1>2. QED
  BY <1>1 DEF RecordAgrees, NewPodAgrees, UpdaterKnown

ParamsInv == OwnInv /\ BasicInv /\ AgreeInv

\* Every step keeps all of what ParametersAgree needs.
LEMMA ParamsStep == ParamsInv /\ Stepped => ParamsInv'
  BY OwnStep, BasicStep, AgreeStep DEF ParamsInv, OwnInv

\* All of it holds at first.
LEMMA InitParams == Init => ParamsInv
  BY InitOwn, InitBasic, InitAgree DEF ParamsInv

\* Once everything has settled no update is due.
LEMMA AgreeFollows == ParamsInv => ParamsAgree
<1> SUFFICES ASSUME ParamsInv, Settled, Is(STATUS_RUNNING), Steady,
                    NEW a \in Creations, pod[a].st = "up"
             PROVE  pod[a].params = Rec.params
  BY DEF ParamsAgree, Steady, UpdateCauses
<1>1. Inv /\ Calm /\ TypeInv /\ ~Met
  BY SteadyState DEF ParamsInv, OwnInv, Inv
<1>2. deployment = a /\ toPod = <<>> /\ \A b \in Actors : Quiet(b)
  BY DEF Settled, PodsMatch
<1>3. Rec # Nil /\ Deployed(Rec)
  BY DEF ParamsInv, BasicInv, RunningNamesIt, Is
<1>4. Rec.details = a
  BY <1>1, <1>2, <1>3 DEF Calm, RecordHasDeployment
<1>5. Agree(a)
  BY <1>3, <1>4 DEF ParamsInv, AgreeInv, RecordAgrees
<1>6. \A u \in Requests : ~MessageDue(u) /\ ~JobDue(u)
  <2>1. \A b \in Actors : pc[b] \notin {"publish", "waiting", "update"}
    BY <1>1, NothingLeft DEF Ended
  <2>2. \A u \in Requests : Kind[u] = "update" => u \in Actors /\ Job(u) \in Actors
    BY ActorFacts DEF Queued
  <2>3. QED
    BY <2>1, <2>2 DEF MessageDue, JobDue
<1>7. Becomes(a, Rec.params)
  BY <1>5, <1>6 DEF Agree
<1>8. ~LastUpdate(toPod, Rec.params)
  BY <1>2 DEF LastUpdate
<1>9. QED
  BY <1>7, <1>8 DEF Becomes, Given

\* The ledger and a program that takes updates agree on the parameters, unless
\* the update met the creation, another update or the program of a Deployment
\* already deleted, updateTV reached nobody, a transaction failed, or a restart
\* of the pod or of the controller came in between: updateThingVisor publishes
\* to the program and leaves the record to a job of its own.
THEOREM ParametersAgree == Spec => []ParamsAgree
<1>1. ParamsInv /\ [Next]_vars => ParamsInv'
  BY StepDoes, ParamsStep DEF ParamsInv, OwnInv
<1>2. QED
  BY <1>1, InitParams, AgreeFollows, PTL DEF Spec

-------------------------------------------------------------------------------
(***************************************************************************)
(* What the silo will be connected to once it has its messages.            *)
(***************************************************************************)
\* SetToSeq lists a finite set, each of its elements once.
LEMMA ListOf ==
  ASSUME NEW S, IsFiniteSet(S)
  PROVE  /\ Seqs!SetToSeq(S) \in Seq(S) /\ Elems(Seqs!SetToSeq(S)) = S
         /\ \A i, j \in 1..Len(Seqs!SetToSeq(S)) :
              Seqs!SetToSeq(S)[i] = Seqs!SetToSeq(S)[j] => i = j
<1> DEFINE n == Cardinality(S)
           s == Seqs!SetToSeq(S)
<1>1. n \in Nat
  BY FS_CardinalityType
<1>2. PICK f : f \in Bijection(1..n, S)
  BY FS_CardinalityType DEF ExistsBijection
<1>3. f \in [1..n -> S] /\ Seqs!IsInjective(f)
  BY <1>2 DEF Bijection, Injection, IsInjective, Seqs!IsInjective
<1>4. Seqs!Cardinality(S) = n
  BY DEF Seqs!Cardinality, Cardinality
<1>5. s \in [1..n -> S] /\ Seqs!IsInjective(s)
  BY <1>3, <1>4 DEF Seqs!SetToSeq
<1> HIDE DEF s
<1>6. s \in Seq(S) /\ Len(s) = n
  BY <1>1, <1>5
<1>7. s \in Surjection(1..n, Elems(s)) /\ s \in Injection(1..n, Elems(s))
  BY <1>5, <1>6 DEF Surjection, Injection, IsInjective, Seqs!IsInjective, Elems
<1>8. Elems(s) \subseteq S
  BY <1>5, <1>6 DEF Elems
<1>9. Cardinality(Elems(s)) = n
  BY <1>1, <1>7, FS_CountingElements DEF Bijection, ExistsBijection
<1>10. Elems(s) = S
  BY <1>8, <1>9, FS_Subset
<1>11. \A i, j \in 1..Len(s) : s[i] = s[j] => i = j
  BY <1>5, <1>6 DEF Seqs!IsInjective
<1>12. QED
  BY <1>6, <1>10, <1>11 DEF s

SiloMsg(c, v) == [cmd |-> c, vThing |-> v]

SiloMessages == {SiloMsg(c, v) : c \in {"addVThing", "deleteVThing"}, v \in VThingsOfTV}

About(v) == {SiloMsg("addVThing", v), SiloMsg("deleteVThing", v)}

Connects(v)    == \/ LastOf(toSilo, About(v), {SiloMsg("addVThing", v)})
                  \/ NoneOf(toSilo, About(v)) /\ v \in silo.data
Disconnects(v) == \/ LastOf(toSilo, About(v), {SiloMsg("deleteVThing", v)})
                  \/ NoneOf(toSilo, About(v)) /\ v \notin silo.data

Adding(v) == SiloMsg("addVThing", v) \in Elems(toSilo)

\* Where the silo and its messages are.
SiloTyped ==
  /\ toSilo \in Seq(SiloMessages)
  /\ silo \in [data : SUBSET VThingsOfTV, control : SUBSET VThingsOfTV]
  /\ silo.data \subseteq silo.control
  /\ \A v \in VThingsOfTV : Connects(v) \/ Disconnects(v)

\* A message is what it is made of.
LEMMA SiloMsgFields ==
  /\ \A c, v : SiloMsg(c, v).cmd = c /\ SiloMsg(c, v).vThing = v
  /\ \A c, v, d, u : SiloMsg(c, v) = SiloMsg(d, u) => c = d /\ v = u
  /\ \A m \in SiloMessages : /\ m.cmd \in {"addVThing", "deleteVThing"}
                             /\ m.vThing \in VThingsOfTV
                             /\ m = SiloMsg(m.cmd, m.vThing)
                             /\ \A v : m \in About(v) <=> m.vThing = v
<1>1. \A c, v : SiloMsg(c, v).cmd = c /\ SiloMsg(c, v).vThing = v
  BY DEF SiloMsg
<1>2. \A c, v, d, u : SiloMsg(c, v) = SiloMsg(d, u) => c = d /\ v = u
  BY <1>1
<1>3. QED
  BY <1>1, <1>2 DEF SiloMessages, About

\* That the last message about a vThing is a certain one.
LEMMA ToldLast ==
  ASSUME toSilo \in Seq(SiloMessages), NEW c, NEW v
  PROVE  Told(v, c) <=> LastOf(toSilo, About(v), {SiloMsg(c, v)})
<1>1. Len(toSilo) \in Nat /\ \A i \in 1..Len(toSilo) : toSilo[i] \in SiloMessages
  BY LenProperties, ElementOfSeq
<1>2. \A i \in 1..Len(toSilo) :
        /\ toSilo[i] \in About(v) <=> toSilo[i].vThing = v
        /\ toSilo[i] \in {SiloMsg(c, v)} <=> (toSilo[i].vThing = v /\ toSilo[i].cmd = c)
  BY <1>1, SiloMsgFields
<1>3. \A i \in 1..Len(toSilo) : \A j \in (i+1)..Len(toSilo) : j \in 1..Len(toSilo)
  BY <1>1
<1>4. QED
  BY <1>2, <1>3 DEF Told, LastOf

\* What a message to the silo changes: for the vThing it is about, and for no
\* other.
LEMMA SiloTold ==
  ASSUME SiloTyped, NEW c \in {"addVThing", "deleteVThing"}, NEW u \in VThingsOfTV,
         toSilo' = Append(toSilo, SiloMsg(c, u)), silo' = silo
  PROVE  /\ SiloTyped'
         /\ c = "addVThing" => Connects(u)'
         /\ c = "deleteVThing" => Disconnects(u)'
         /\ \A v \in VThingsOfTV : v # u \/ c = "addVThing" => (Connects(v) => Connects(v)')
         /\ \A v \in VThingsOfTV : v # u \/ c = "deleteVThing" => (Disconnects(v) => Disconnects(v)')
<1> DEFINE m == SiloMsg(c, u)
<1>1. m \in SiloMessages /\ toSilo \in Seq(SiloMessages)
  BY DEF SiloMessages, SiloTyped
<1>2. \A v : m \in About(v) <=> v = u
  BY <1>1, SiloMsgFields
<1>3. /\ c = "addVThing" => Connects(u)'
      /\ c = "deleteVThing" => Disconnects(u)'
  <2>1. LastOf(toSilo', About(u), {SiloMsg(c, u)})
    BY <1>1, LastAppended
  <2>2. QED
    BY <2>1 DEF Connects, Disconnects
<1>4. ASSUME NEW v \in VThingsOfTV, v # u
      PROVE  (Connects(v) => Connects(v)') /\ (Disconnects(v) => Disconnects(v)')
  BY <1>1, <1>2, <1>4, LastAppended DEF Connects, Disconnects
<1>5. SiloTyped'
  <2>1. toSilo' \in Seq(SiloMessages)
    BY <1>1, QueueTypes
  <2>2. \A v \in VThingsOfTV : Connects(v)' \/ Disconnects(v)'
    BY <1>3, <1>4 DEF SiloTyped
  <2>3. QED
    BY <2>1, <2>2 DEF SiloTyped
<1>6. QED
  BY <1>3, <1>4, <1>5

\* The message of a withdrawal reaches the silo for each vThing it listens to,
\* and changes nothing for the others.
LEMMA SiloWithdraws ==
  ASSUME SiloTyped, NEW vs \in SUBSET VThingsOfTV,
         toSilo' = toSilo \o Withdraw(vs), silo' = silo
  PROVE  /\ SiloTyped'
         /\ Elems(toSilo') \subseteq
              Elems(toSilo) \cup {SiloMsg("deleteVThing", v) : v \in VThingsOfTV}
         /\ \A v \in VThingsOfTV :
              /\ Disconnects(v) => Disconnects(v)'
              /\ v \in vs /\ ~Adding(v) => Disconnects(v)'
              /\ v \notin vs /\ Connects(v) => Connects(v)'
              /\ Connects(v) => \/ Connects(v)'
                                \/ LastOf(toSilo', About(v), {SiloMsg("deleteVThing", v)})
<1> DEFINE S == {SiloMsg("deleteVThing", v) : v \in vs \cap silo.control}
           w == Withdraw(vs)
<1>1. IsFiniteSet(S)
  <2>1. IsFiniteSet(vs \cap silo.control)
    BY SharingAssumption, FS_Subset DEF SharingAssumption
  <2> DEFINE f == [v \in vs \cap silo.control |-> SiloMsg("deleteVThing", v)]
  <2>2. f \in Surjection(vs \cap silo.control, S)
    BY DEF Surjection
  <2>3. QED
    BY <2>1, <2>2, FS_Surjection
<1>2. w = Seqs!SetToSeq(S)
  BY DEF Withdraw, SiloMsg
<1> HIDE DEF S, w
<1>3. /\ w \in Seq(S) /\ Elems(w) = S
      /\ \A i, j \in 1..Len(w) : w[i] = w[j] => i = j
  BY <1>1, <1>2, ListOf
<1>4. S \subseteq SiloMessages /\ toSilo \in Seq(SiloMessages)
  BY DEF S, SiloMessages, SiloTyped
<1>5. w \in Seq(SiloMessages)
  BY <1>3, <1>4
<1>6. toSilo' = toSilo \o w
  BY DEF w
<1>7. \A v : \A m \in S : m \in About(v) => m = SiloMsg("deleteVThing", v)
  BY <1>4, SiloMsgFields DEF S
<1>8. \A v : \A i, j \in 1..Len(w) : w[i] \in About(v) /\ w[j] \in About(v) => i = j
  BY <1>3, <1>7 DEF Elems
<1>9. ASSUME NEW v \in VThingsOfTV, v \in vs \cap silo.control
      PROVE  LastOf(toSilo', About(v), {SiloMsg("deleteVThing", v)})
  <2>1. SiloMsg("deleteVThing", v) \in Elems(w)
    BY <1>3, <1>9 DEF S
  <2>2. QED
    BY <1>4, <1>5, <1>6, <1>8, <2>1, LastSent DEF About
<1>10. ASSUME NEW v \in VThingsOfTV, v \notin vs \cap silo.control
       PROVE  (Connects(v) => Connects(v)') /\ (Disconnects(v) => Disconnects(v)')
  <2>1. \A m \in S : m \notin About(v)
    BY <1>4, <1>10, SiloMsgFields DEF S
  <2>2. NoneOf(w, About(v))
    BY <1>3, <2>1 DEF NoneOf, Elems
  <2>3. QED
    BY <1>4, <1>5, <1>6, <1>8, <2>2, LastSent DEF Connects, Disconnects
<1>11. ASSUME NEW v \in VThingsOfTV, v \notin silo.control, ~Adding(v)
       PROVE  Disconnects(v)
  <2>1. ~Connects(v)
    BY <1>11 DEF Connects, LastOf, Adding, Elems, SiloTyped
  <2>2. QED
    BY <2>1 DEF SiloTyped
<1>12. SiloTyped'
  <2>1. toSilo' \in Seq(SiloMessages)
    BY <1>4, <1>5, <1>6, QueueTypes
  <2>2. \A v \in VThingsOfTV : Connects(v)' \/ Disconnects(v)'
    BY <1>9, <1>10 DEF SiloTyped, Disconnects
  <2>3. QED
    BY <2>1, <2>2 DEF SiloTyped
<1>13. Elems(toSilo') = Elems(toSilo) \cup S
  BY <1>3, <1>4, <1>5, <1>6, QueueElems
<1>14. S \subseteq {SiloMsg("deleteVThing", v) : v \in VThingsOfTV}
  BY DEF S
<1>15. QED
  BY <1>9, <1>10, <1>11, <1>12, <1>13, <1>14 DEF Disconnects

\* When the silo takes a message, what it will be connected to stays the same.
LEMMA SiloTakes ==
  ASSUME SiloTyped, SiloReceives
  PROVE  /\ SiloTyped' /\ Elems(toSilo') \subseteq Elems(toSilo)
         /\ \A v \in VThingsOfTV :
              (Connects(v) => Connects(v)') /\ (Disconnects(v) => Disconnects(v)')
         /\ \A v \in VThingsOfTV : \A c :
              LastOf(toSilo', About(v), {SiloMsg(c, v)}) =>
                LastOf(toSilo, About(v), {SiloMsg(c, v)})
<1> DEFINE m == Head(toSilo)
<1>1. toSilo # <<>> /\ toSilo' = Tail(toSilo) /\ toSilo \in Seq(SiloMessages)
  BY DEF SiloReceives, SiloTyped
<1>2. /\ m \in SiloMessages /\ Tail(toSilo) \in Seq(SiloMessages)
      /\ Elems(toSilo) = {m} \cup Elems(Tail(toSilo))
  BY <1>1, QueueTypes, QueueElems
<1>3. /\ m.cmd \in {"addVThing", "deleteVThing"} /\ m.vThing \in VThingsOfTV
      /\ m = SiloMsg(m.cmd, m.vThing) /\ \A v : m \in About(v) <=> m.vThing = v
  BY <1>2, SiloMsgFields
<1>4. /\ silo' \in [data : SUBSET VThingsOfTV, control : SUBSET VThingsOfTV]
      /\ silo'.data \subseteq silo'.control
      /\ silo'.data = IF m.cmd = "addVThing" THEN silo.data \cup {m.vThing}
                      ELSE silo.data \ {m.vThing}
  BY <1>3 DEF SiloReceives, SiloTyped
<1> HIDE DEF m
<1>5. ASSUME NEW v \in VThingsOfTV
      PROVE  (Connects(v) => Connects(v)') /\ (Disconnects(v) => Disconnects(v)')
  <2>1. /\ NoneOf(toSilo, About(v)) => NoneOf(toSilo', About(v)) /\ m.vThing # v
        /\ \A c : LastOf(toSilo, About(v), {SiloMsg(c, v)}) =>
             \/ LastOf(toSilo', About(v), {SiloMsg(c, v)})
             \/ NoneOf(toSilo', About(v)) /\ m = SiloMsg(c, v)
    BY <1>1, <1>3, LastTaken DEF m
  <2>2. /\ m = SiloMsg("addVThing", v) => v \in silo'.data
        /\ m = SiloMsg("deleteVThing", v) => v \notin silo'.data
        /\ m.vThing # v => (v \in silo'.data <=> v \in silo.data)
    BY <1>3, <1>4, SiloMsgFields
  <2>3. QED
    BY <2>1, <2>2 DEF Connects, Disconnects
<1>6. SiloTyped'
  BY <1>1, <1>2, <1>4, <1>5 DEF SiloTyped
<1>7. \A v \in VThingsOfTV : \A c :
        LastOf(toSilo', About(v), {SiloMsg(c, v)}) =>
          LastOf(toSilo, About(v), {SiloMsg(c, v)})
  BY <1>1, LastTaken
<1>8. QED
  BY <1>1, <1>2, <1>5, <1>6, <1>7

\* When a message to the silo is lost, it is a loss of that command.
LEMMA SiloLoses ==
  ASSUME SiloTyped, LoseToSilo
  PROVE  /\ SiloTyped' /\ Elems(toSilo') \subseteq Elems(toSilo)
         /\ \E c \in {"addVThing", "deleteVThing"} :
              /\ c \in lost'
              /\ c = "addVThing" => \A v \in VThingsOfTV : Disconnects(v) => Disconnects(v)'
         /\ \A v \in VThingsOfTV : \A c :
              LastOf(toSilo', About(v), {SiloMsg(c, v)}) =>
                LastOf(toSilo, About(v), {SiloMsg(c, v)})
<1> DEFINE m == Head(toSilo)
<1>1. toSilo # <<>> /\ toSilo' = Tail(toSilo) /\ toSilo \in Seq(SiloMessages)
      /\ silo' = silo /\ m.cmd \in lost'
  BY DEF LoseToSilo, SiloTyped, ends
<1>2. /\ m \in SiloMessages /\ Tail(toSilo) \in Seq(SiloMessages)
      /\ Elems(toSilo) = {m} \cup Elems(Tail(toSilo))
  BY <1>1, QueueTypes, QueueElems
<1>3. /\ m.cmd \in {"addVThing", "deleteVThing"} /\ m.vThing \in VThingsOfTV
      /\ m = SiloMsg(m.cmd, m.vThing)
  BY <1>2, SiloMsgFields
<1> HIDE DEF m
<1>4. ASSUME NEW v \in VThingsOfTV
      PROVE  /\ m.cmd = "addVThing" => (Disconnects(v) => Disconnects(v)')
             /\ Connects(v)' \/ Disconnects(v)'
  <2>1. /\ NoneOf(toSilo, About(v)) => NoneOf(toSilo', About(v))
        /\ \A c : LastOf(toSilo, About(v), {SiloMsg(c, v)}) =>
             \/ LastOf(toSilo', About(v), {SiloMsg(c, v)})
             \/ NoneOf(toSilo', About(v)) /\ m = SiloMsg(c, v)
    BY <1>1, LastTaken DEF m
  <2>2. m = SiloMsg("deleteVThing", v) => m.cmd = "deleteVThing"
    BY SiloMsgFields
  <2>3. QED
    BY <1>1, <2>1, <2>2 DEF Connects, Disconnects, SiloTyped
<1>5. SiloTyped'
  BY <1>1, <1>2, <1>4 DEF SiloTyped
<1>6. \A v \in VThingsOfTV : \A c :
        LastOf(toSilo', About(v), {SiloMsg(c, v)}) =>
          LastOf(toSilo, About(v), {SiloMsg(c, v)})
  BY <1>1, LastTaken
<1>7. QED
  BY <1>1, <1>2, <1>3, <1>4, <1>5, <1>6

-------------------------------------------------------------------------------
(***************************************************************************)
(* What each step of a request about a vThing does.                        *)
(***************************************************************************)
EndpointKinds == {"setEndpoint", "delEndpoint"}

EndpointMsg(r) == [cmd |-> "endpoint", params |-> Endpoint(r), vThing |-> Target[r]]

\* What the transaction of such a request writes.
ShareWrites(r) ==
  /\ Rec' = Rec
  /\ Attached' = CASE Kind[r] = "attach" -> Attached \cup {Target[r]}
                   [] Kind[r] = "detach" -> Attached \ {Target[r]}
                   [] OTHER              -> Attached
  /\ Kind[r] \in EndpointKinds => db'[VThingTVKey(Target[r])] = Endpoint(r)
  /\ \A v \in VThings : Kind[r] \notin EndpointKinds \/ v # Target[r] =>
       db'[VThingTVKey(v)] = db[VThingTVKey(v)]

\* What such a request is about.
LEMMA ShareFacts ==
  /\ vSilo \in VSilos /\ VThingsOfTV \subseteq VThings /\ Nil \notin Details
  /\ \A r \in Sharing :
       /\ r \in Requests /\ r \in Actors /\ r \notin Jobs /\ r \notin Handlers
       /\ r \notin Own
       /\ Kind[r] \in SharingKinds /\ Target[r] \in VThingsOfTV
       /\ Endpoint(r) \in Details
       /\ EndpointMsg(r) \in Commands
  BY SharingAssumption, ProcessAssumption, ChaincodeAssumption, ActorFacts
  DEF SharingAssumption, ProcessAssumption, ChaincodeAssumption, Sharing, VThingsOfTV,
      Endpoint, EndpointMsg, Commands, Own, SharingKinds

\* Their transactions are never refused, and each writes one record of the
\* vThing's.
LEMMA ShareCalls ==
  ASSUME LedgerType(db), NEW r \in Sharing
  PROVE  /\ Call(r) \in Calls /\ Simulate(Call(r), db) # {}
         /\ Committed(Call(r)) => ShareWrites(r)
<1> DEFINE v == Target[r]
<1>1. /\ v \in VThings /\ vSilo \in VSilos /\ NoDetails \in Details /\ Endpoint(r) \in Details
      /\ NoDetails # Nil /\ Kind[r] \in SharingKinds
  BY ShareFacts, ChaincodeAssumption DEF ChaincodeAssumption
<1>2. /\ ThingVisorKey(tv) \in Keys
      /\ \A u \in VThings : /\ VThingTVKey(u) \in Keys
                            /\ VThingVSiloKey(vSilo, u) \in Keys
                            /\ VThingTVKey(u) # ThingVisorKey(tv)
                            /\ VThingVSiloKey(vSilo, u) # ThingVisorKey(tv)
                            /\ \A w \in VThings :
                                 /\ VThingVSiloKey(vSilo, u) # VThingTVKey(w)
                                 /\ u # w => /\ VThingTVKey(u) # VThingTVKey(w)
                                             /\ VThingVSiloKey(vSilo, u) # VThingVSiloKey(vSilo, w)
  BY KeyTypes, LifecycleAssumption, SharingAssumption
  DEF LifecycleAssumption, SharingAssumption, VThingTVKey, VThingVSiloKey, ThingVisorKey
<1>3. CASE Kind[r] = "attach"
  <2> DEFINE k == VThingVSiloKey(vSilo, v)
  <2>1. Call(r) = [fn |-> "AddVThingVSilo", vSilo |-> vSilo, vThing |-> v, details |-> NoDetails]
    BY <1>3 DEF Call
  <2>2. Call(r) \in Calls
    BY <1>1, <2>1 DEF Calls, VSiloCalls
  <2>3. Simulate(Call(r), db) = {Put(k, NoDetails)}
    BY <2>1, Dispatch DEF AddVThingVSilo
  <2>4. ASSUME Committed(Call(r))
        PROVE  /\ Rec' = Rec /\ db'[k] = NoDetails
               /\ \A u \in VThings : db'[VThingTVKey(u)] = db[VThingTVKey(u)]
               /\ \A u \in VThings : u # v => db'[VThingVSiloKey(vSilo, u)] = db[VThingVSiloKey(vSilo, u)]
    BY <1>1, <1>2, <2>3, <2>4 DEF Committed, LedgerType, Apply, Put, Rec
  <2>5. Committed(Call(r)) => Attached' = Attached \cup {v}
    BY <1>1, <2>4 DEF Attached
  <2>6. QED
    BY <1>3, <2>2, <2>3, <2>4, <2>5 DEF ShareWrites, EndpointKinds
<1>4. CASE Kind[r] = "detach"
  <2> DEFINE k == VThingVSiloKey(vSilo, v)
  <2>1. Call(r) = [fn |-> "DeleteVThingVSilo", vSilo |-> vSilo, vThing |-> v]
    BY <1>4 DEF Call
  <2>2. Call(r) \in Calls
    BY <1>1, <2>1 DEF Calls, VSiloCalls
  <2>3. Simulate(Call(r), db) = {Del({k})}
    BY <2>1, Dispatch DEF DeleteVThingVSilo
  <2>4. ASSUME Committed(Call(r))
        PROVE  /\ Rec' = Rec /\ db'[k] = Nil
               /\ \A u \in VThings : db'[VThingTVKey(u)] = db[VThingTVKey(u)]
               /\ \A u \in VThings : u # v => db'[VThingVSiloKey(vSilo, u)] = db[VThingVSiloKey(vSilo, u)]
    BY <1>1, <1>2, <2>3, <2>4 DEF Committed, LedgerType, Apply, Del, Rec
  <2>5. Committed(Call(r)) => Attached' = Attached \ {v}
    BY <1>1, <2>4 DEF Attached
  <2>6. QED
    BY <1>4, <2>2, <2>3, <2>4, <2>5 DEF ShareWrites, EndpointKinds
<1>5. CASE Kind[r] \in EndpointKinds
  <2> DEFINE k == VThingTVKey(v)
  <2>1. Call(r) = [fn |-> "UpdateVThingOfThingVisor", vThing |-> v, details |-> Endpoint(r)]
    BY <1>5 DEF Call, EndpointKinds
  <2>2. Call(r) \in Calls
    BY <1>1, <2>1 DEF Calls, VThingCalls
  <2>3. Simulate(Call(r), db) = {Put(k, Endpoint(r))}
    BY <2>1, Dispatch DEF UpdateVThingOfThingVisor
  <2>4. ASSUME Committed(Call(r))
        PROVE  /\ Rec' = Rec /\ db'[k] = Endpoint(r)
               /\ \A u \in VThings : u # v => db'[VThingTVKey(u)] = db[VThingTVKey(u)]
               /\ \A u \in VThings : db'[VThingVSiloKey(vSilo, u)] = db[VThingVSiloKey(vSilo, u)]
    BY <1>1, <1>2, <2>3, <2>4 DEF Committed, LedgerType, Apply, Put, Rec
  <2>5. Committed(Call(r)) => Attached' = Attached
    BY <2>4 DEF Attached
  <2>6. QED
    BY <1>5, <2>2, <2>3, <2>4, <2>5 DEF ShareWrites, EndpointKinds
<1>6. QED
  BY <1>1, <1>3, <1>4, <1>5 DEF SharingKinds, EndpointKinds

KeptToSilo == toSilo' = toSilo

FirstOf(kind) == CASE kind = "attach" -> "getVThing"
                   [] kind = "detach" -> "check"
                   [] OTHER           -> "getTV"

DidEnter(r) ==
  /\ pc[r] = "new" /\ r \in session.requests
  /\ Moved(r, FirstOf(Kind[r]), seen[r])
  /\ db' = db /\ KeptAll /\ KeptToSilo

DidGetRunning(r) ==
  /\ pc[r] = "getTV" /\ Kind[r] \in EndpointKinds
  /\ \/ Is(STATUS_RUNNING) /\ Moved(r, "getVThing", Rec)
     \/ ~Is(STATUS_RUNNING) /\ Moved(r, "failed", seen[r])
  /\ db' = db /\ KeptAll /\ KeptToSilo

DidGetVThing(r) ==
  /\ pc[r] = "getVThing" /\ Kind[r] # "detach"
  /\ \/ /\ Target[r] \in Registered
        /\ Moved(r, IF Kind[r] = "attach" THEN "check" ELSE "tell", db[VThingTVKey(Target[r])])
     \/ Moved(r, "failed", seen[r])
  /\ db' = db /\ KeptAll /\ KeptToSilo

DidCheck(r) ==
  /\ pc[r] = "check" /\ Kind[r] \in {"attach", "detach"}
  /\ \/ Kind[r] = "attach" /\ Target[r] \notin Attached /\ Moved(r, "tell", seen[r])
     \/ Kind[r] = "detach" /\ Target[r] \in Attached /\ Moved(r, "record", seen[r])
     \/ Moved(r, "failed", seen[r])
  /\ db' = db /\ KeptAll /\ KeptToSilo

DidTellProgram(r) ==
  /\ pc[r] = "tell" /\ Kind[r] \in EndpointKinds
  /\ Moved(r, "record", seen[r])
  /\ toPod' = Append(toPod, EndpointMsg(r))
  /\ db' = db /\ KeptCtl /\ UNCHANGED <<toCtl, lost>> /\ KeptCluster /\ pod' = pod /\ KeptToSilo

DidTellSilo(r) ==
  /\ pc[r] = "tell"
  /\ \/ /\ Kind[r] = "attach" /\ Moved(r, "record", seen[r])
        /\ toSilo' = Append(toSilo, SiloMsg("addVThing", Target[r]))
     \/ /\ Kind[r] = "detach" /\ Moved(r, "ok", seen[r])
        /\ toSilo' = Append(toSilo, SiloMsg("deleteVThing", Target[r]))
  /\ db' = db /\ KeptAll

DidRecord(r) ==
  /\ pc[r] = "record" /\ KeptAll /\ KeptToSilo
  /\ Submitted(r, IF Kind[r] = "detach" THEN "tell" ELSE "ok", "failed",
               ShareWrites(r), FALSE)

Shared(r) == \/ DidEnter(r) \/ DidGetRunning(r) \/ DidGetVThing(r) \/ DidCheck(r)
             \/ DidTellProgram(r) \/ DidTellSilo(r) \/ DidRecord(r)

\* Where a request about a vThing may stand.
LEMMA WhoShares ==
  ASSUME TypeInv, NEW r \in Sharing
  PROVE  /\ pc[r] \in {"new", "getTV", "getVThing", "check", "tell", "record", "ok", "failed"}
         /\ pc[r] = "getTV" => Kind[r] \in EndpointKinds
         /\ pc[r] = "getVThing" => Kind[r] # "detach"
         /\ pc[r] = "check" => Kind[r] \in {"attach", "detach"}
<1>1. pc[r] \in RequestLabels(Kind[r]) /\ Kind[r] \in SharingKinds
  BY ShareFacts DEF TypeInv, Places, RequestsPlaced
<1>2. QED
  BY <1>1 DEF RequestLabels, SharingKinds, EndpointKinds

\* Its steps are the ones described.
LEMMA SharingDoes ==
  ASSUME TypeInv, UNCHANGED pod, NEW r \in Requests,
         \/ AcceptSharing(r) /\ UNCHANGED toSilo
         \/ SharingRequest(r)
  PROVE  /\ r \in Sharing /\ Shared(r) /\ Stands' /\ faults \subseteq faults'
         /\ attempts' = attempts
<1> USE DEF KeptAll, KeptCtl, KeptNet, KeptCluster, rest, ctlVars, netVars, clusterVars,
            KeptToSilo
<1>0. Stands /\ r \in Actors
  BY ActorFacts DEF TypeInv
<1>1. CASE AcceptSharing(r) /\ UNCHANGED toSilo
  <2>1. /\ r \in Sharing /\ pc[r] = "new" /\ r \in session.requests
        /\ Goto(r, FirstOf(Kind[r])) /\ UNCHANGED <<db, rest, faults>>
    BY <1>1 DEF AcceptSharing, Start, FirstOf
  <2>2. QED
    BY <1>0, <1>1, <2>1, GotoMoves DEF Shared, DidEnter
<1>2. ASSUME pc[r] \in {"getTV", "getVThing", "check", "tell", "record"}
      PROVE  r \in Sharing
  <2>1. pc[r] \in RequestLabels(Kind[r]) /\ Kind[r] \in Kinds
    BY ProcessAssumption DEF ProcessAssumption, TypeInv, Places, RequestsPlaced
  <2>2. QED
    BY <1>2, <2>1 DEF RequestLabels, Sharing, SharingKinds
<1>3. CASE GetRunning(r) /\ UNCHANGED toSilo
  <2>1. r \in Sharing /\ Kind[r] \in EndpointKinds /\ pc[r] = "getTV"
    BY <1>2, <1>3, WhoShares DEF GetRunning
  <2>2. Is(STATUS_RUNNING) <=> IsRunning(tv, db)
    BY DEF Is, IsRunning, Rec
  <2>3. /\ IF Is(STATUS_RUNNING) THEN GoSeeing(r, "getVThing", Rec) ELSE Goto(r, "failed")
        /\ UNCHANGED <<db, rest, faults>>
    BY <1>3, <2>2 DEF GetRunning, Read, Is
  <2>4. QED
    BY <1>0, <1>3, <2>1, <2>3, GotoMoves, GoSeeingMoves DEF Shared, DidGetRunning
<1>4. CASE GetVThingByID(r) /\ UNCHANGED toSilo
  <2>1. r \in Sharing /\ Kind[r] # "detach" /\ pc[r] = "getVThing"
    BY <1>2, <1>4, WhoShares DEF GetVThingByID
  <2>2. /\ IF Target[r] \in Registered
           THEN GoSeeing(r, IF Kind[r] = "attach" THEN "check" ELSE "tell",
                         db[VThingTVKey(Target[r])])
           ELSE Goto(r, "failed")
        /\ UNCHANGED <<db, rest, faults>>
    BY <1>4, <2>1, ShareFacts DEF GetVThingByID, Read, Registered
  <2>3. QED
    BY <1>0, <1>4, <2>1, <2>2, GotoMoves, GoSeeingMoves DEF Shared, DidGetVThing
<1>5. CASE Check(r) /\ UNCHANGED toSilo
  <2>1. r \in Sharing /\ Kind[r] \in {"attach", "detach"} /\ pc[r] = "check"
    BY <1>2, <1>5, WhoShares DEF Check
  <2>2. /\ \/ Kind[r] = "attach" /\ Target[r] \notin Attached /\ Goto(r, "tell")
           \/ Kind[r] = "detach" /\ Target[r] \in Attached /\ Goto(r, "record")
           \/ Goto(r, "failed")
        /\ UNCHANGED <<db, rest, faults>>
    BY <1>5, <2>1 DEF Check
  <2>3. QED
    BY <1>0, <1>5, <2>1, <2>2, GotoMoves DEF Shared, DidCheck
<1>6. CASE TellProgram(r)
  <2>1. r \in Sharing /\ Kind[r] \in EndpointKinds /\ pc[r] = "tell"
    BY <1>2, <1>6 DEF TellProgram, EndpointKinds
  <2>2. /\ toPod' = Append(toPod, EndpointMsg(r)) /\ Goto(r, "record")
        /\ UNCHANGED <<db, attempts, ctlVars, toCtl, lost, clusterVars, faults, toSilo>>
    BY <1>6 DEF TellProgram, PublishTo, EndpointMsg
  <2>3. QED
    BY <1>0, <2>1, <2>2, GotoMoves DEF Shared, DidTellProgram
<1>7. CASE TellSilo(r)
  <2>1. r \in Sharing /\ Kind[r] \in {"attach", "detach"} /\ pc[r] = "tell"
    BY <1>2, <1>7 DEF TellSilo
  <2>2. /\ \/ /\ Kind[r] = "attach" /\ Goto(r, "record")
              /\ toSilo' = Append(toSilo, SiloMsg("addVThing", Target[r]))
           \/ /\ Kind[r] = "detach" /\ Goto(r, "ok")
              /\ toSilo' = Append(toSilo, SiloMsg("deleteVThing", Target[r]))
        /\ UNCHANGED <<db, rest, faults>>
    BY <1>7, <2>1 DEF TellSilo, SiloMsg
  <2>3. QED
    BY <1>0, <2>1, <2>2, GotoMoves DEF Shared, DidTellSilo
<1>8. CASE RecordIt(r) /\ UNCHANGED toSilo
  <2>1. r \in Sharing /\ pc[r] = "record"
    BY <1>2, <1>8 DEF RecordIt
  <2> DEFINE l == IF Kind[r] = "detach" THEN "tell" ELSE "ok"
  <2>2. Submit(r, Call(r), l, "failed") /\ UNCHANGED <<rest, toSilo>>
    BY <1>8 DEF RecordIt
  <2>3. /\ Call(r) \in Calls /\ Simulate(Call(r), db) # {}
        /\ Committed(Call(r)) => ShareWrites(r)
    BY <2>1, ShareCalls DEF TypeInv
  <2> HIDE DEF l
  <2>4. Submitted(r, l, "failed", Committed(Call(r)), Simulate(Call(r), db) = {})
    BY <1>0, <2>2, <2>3, SubmitDoes
  <2>5. Submitted(r, l, "failed", ShareWrites(r), FALSE)
    BY <2>3, <2>4 DEF Submitted
  <2>6. Stands' /\ faults \subseteq faults'
    BY <2>5 DEF Submitted
  <2>7. QED
    BY <2>1, <2>2, <2>5, <2>6 DEF Shared, DidRecord, l
<1>9. QED
  BY <1>1, <1>3, <1>4, <1>5, <1>6, <1>7, <1>8 DEF SharingRequest

\* A vThing's record, once there, stays.
LEMMA ShareKeepsRegistered ==
  ASSUME NEW r \in Sharing, ShareWrites(r)
  PROVE  Registered \subseteq Registered'
<1> SUFFICES ASSUME NEW v \in Registered PROVE v \in Registered'
  OBVIOUS
<1>1. v \in VThingsOfTV /\ v \in VThings /\ db[VThingTVKey(v)] # Nil
  BY ShareFacts DEF Registered
<1>2. db'[VThingTVKey(v)] # Nil
  <2>1. Endpoint(r) # Nil
    BY ShareFacts
  <2>2. QED
    BY <1>1, <2>1 DEF ShareWrites
<1>3. QED
  BY <1>1, <1>2 DEF Registered

\* A request that takes such a step shares, and leaves everything well typed.
LEMMA SharedTyped ==
  ASSUME TypeInv, NEW r \in Sharing, Shared(r), Stands', attempts' = attempts,
         UNCHANGED session
  PROVE  TypeInv' /\ DidShare(r)
<1> DEFINE Sites == {"new", "getTV", "getVThing", "check", "tell", "record"}
           Ways  == {"getTV", "getVThing", "check", "tell", "record", "ok", "failed"}
<1>0. /\ r \in Requests /\ r \in Actors /\ r \notin Jobs /\ r \notin Handlers
      /\ Kind[r] \in SharingKinds /\ Target[r] \in VThingsOfTV /\ Target[r] \in VThings
      /\ EndpointMsg(r) \in Commands /\ EndpointMsg(r).cmd = "endpoint"
      /\ \A q \in Queued : r # Job(q)
  BY ShareFacts, ActorFacts DEF EndpointMsg
<1>1. seen[r] \in Hand /\ Rec \in Hand /\ db[VThingTVKey(Target[r])] \in Hand
  <2>1. db[VThingTVKey(Target[r])] \in Details \cup {Nil}
    BY <1>0, KeyTypes DEF TypeInv, LedgerType
  <2>2. QED
    BY <1>0, <2>1, RecType DEF TypeInv, Places, HandsFull, Hand
<1>2. PICK l \in Ways, what \in Hand :
        /\ Moved(r, l, what) /\ l \in RequestLabels(Kind[r])
        /\ pc[r] \in Sites /\ (pc[r] = "new" => r \in session.requests)
  <2>1. CASE DidEnter(r)
    <3>1. FirstOf(Kind[r]) \in Ways /\ FirstOf(Kind[r]) \in RequestLabels(Kind[r])
      BY <1>0 DEF FirstOf, RequestLabels, SharingKinds
    <3>2. QED
      BY <1>1, <2>1, <3>1 DEF DidEnter
  <2>2. CASE DidGetRunning(r)
    <3>1. {"getVThing", "failed"} \subseteq RequestLabels(Kind[r])
      BY <2>2 DEF DidGetRunning, EndpointKinds, RequestLabels
    <3>2. QED
      BY <1>1, <2>2, <3>1 DEF DidGetRunning
  <2>3. CASE DidGetVThing(r)
    <3>1. /\ (IF Kind[r] = "attach" THEN "check" ELSE "tell") \in RequestLabels(Kind[r]) \cap Ways
          /\ "failed" \in RequestLabels(Kind[r])
      BY <1>0, <2>3 DEF DidGetVThing, SharingKinds, RequestLabels
    <3>2. QED
      BY <1>1, <2>3, <3>1 DEF DidGetVThing
  <2>4. CASE DidCheck(r)
    <3>1. {"tell", "record", "failed"} \subseteq RequestLabels(Kind[r])
      BY <2>4 DEF DidCheck, RequestLabels
    <3>2. QED
      BY <1>1, <2>4, <3>1 DEF DidCheck
  <2>5. CASE DidTellProgram(r)
    <3>1. "record" \in RequestLabels(Kind[r])
      BY <2>5 DEF DidTellProgram, EndpointKinds, RequestLabels
    <3>2. QED
      BY <1>1, <2>5, <3>1 DEF DidTellProgram
  <2>6. CASE DidTellSilo(r)
    <3>1. {"record", "ok"} \subseteq RequestLabels(Kind[r])
      BY <2>6 DEF DidTellSilo, RequestLabels
    <3>2. QED
      BY <1>1, <2>6, <3>1 DEF DidTellSilo
  <2>7. CASE DidRecord(r)
    <3>1. /\ {"ok", "failed"} \subseteq RequestLabels(Kind[r])
          /\ Kind[r] = "detach" => "tell" \in RequestLabels(Kind[r])
      BY DEF RequestLabels
    <3>2. \E l \in {IF Kind[r] = "detach" THEN "tell" ELSE "ok", "failed"} : Moved(r, l, seen[r])
      BY <2>7 DEF DidRecord, Submitted
    <3>3. QED
      BY <1>1, <2>7, <3>1, <3>2 DEF DidRecord
  <2>8. QED
    BY <2>1, <2>2, <2>3, <2>4, <2>5, <2>6, <2>7 DEF Shared
<1> HIDE DEF Sites, Ways
<1>3. /\ Rec' = Rec /\ Registered \subseteq Registered' /\ LedgerType(db')
      /\ KeptCtl /\ KeptCluster /\ pod' = pod /\ UNCHANGED <<toCtl, lost>>
      /\ toPod' = toPod \/ toPod' = Append(toPod, EndpointMsg(r))
  <2>1. CASE DidRecord(r)
    <3>1. KeptAll /\ LedgerType(db') /\ (SameRec \/ ShareWrites(r))
      BY <2>1 DEF DidRecord, Submitted
    <3>2. SameRec => Rec' = Rec /\ Registered \subseteq Registered'
      BY ShareFacts DEF SameRec, SameVThings, Registered
    <3>3. ShareWrites(r) => Rec' = Rec /\ Registered \subseteq Registered'
      BY ShareKeepsRegistered DEF ShareWrites
    <3>4. QED
      BY <3>1, <3>2, <3>3 DEF KeptAll, KeptNet
  <2>2. CASE ~DidRecord(r)
    <3>1. db' = db
      BY <2>2 DEF Shared, DidEnter, DidGetRunning, DidGetVThing, DidCheck, DidTellProgram,
                  DidTellSilo
    <3>2. /\ KeptCtl /\ KeptCluster /\ pod' = pod /\ UNCHANGED <<toCtl, lost>>
          /\ toPod' = toPod \/ toPod' = Append(toPod, EndpointMsg(r))
      BY <2>2 DEF Shared, DidEnter, DidGetRunning, DidGetVThing, DidCheck, DidTellProgram,
                  DidTellSilo, KeptAll, KeptNet
    <3>3. QED
      BY <3>1, <3>2 DEF TypeInv, Rec, Registered
  <2>3. QED
    BY <2>1, <2>2
<1>4. DidShare(r)
  BY <1>0, <1>2, <1>3 DEF DidShare, Sites, Ways
<1>5. RestTyped'
  <2>1. toPod' \in Seq(Commands)
    BY <1>0, <1>3, QueueTypes DEF TypeInv, RestTyped
  <2>2. QED
    BY <1>3, <2>1 DEF TypeInv, RestTyped, KeptCtl, KeptCluster
<1>6. Fits(r, l, what)
  BY <1>0, <1>2 DEF Fits, Before, Holding, Ways, SharingKinds
<1>7. AttemptsLeft'
  BY <1>0, <1>2, KeptAttempts
<1>8. TypeInv'
  BY <1>0, <1>2, <1>3, <1>5, <1>6, <1>7, StepTyped
<1>9. QED
  BY <1>4, <1>8

-------------------------------------------------------------------------------
(***************************************************************************)
(* What each step of the composed system does: a request about a vThing    *)
(* takes one of its own; or the life cycle takes one, and the silo and the *)
(* programs hear of it; or the silo does; or the controller restarts.      *)
(***************************************************************************)
\* Attachments change with the requests that attach and detach only, and the
\* record of a vThing with these, or when a callback registers it.
LEMMA LifeKeepsVThings ==
  ASSUME LifeStep \/ DidRestart
  PROVE  /\ Attached' = Attached
         /\ \/ SameVThings
            \/ \E h \in Handlers, v \in VThingsOfTV :
                 DidRegister(h) /\ Is(STATUS_RUNNING) /\ Announced(v)
<1> USE DEF SameRec
<1>1. CASE DidLogin \/ DidReceive \/ DidPodsReceive \/ DidPodStarts \/ DidPod \/ DidLose
           \/ DidRestart
  BY <1>1 DEF DidLogin, DidReceive, DidPodsReceive, DidPodStarts, DidPod, DidLose,
      DidRestart, SameVThings
<1>2. ASSUME NEW r \in Requests,
             \/ DidAccept(r) \/ DidCreate(r) \/ DidEnqueue(r) \/ DidStop(r)
             \/ DidPublish(r) \/ DidDebugDrop(r)
      PROVE  SameVThings
  BY <1>2
  DEF DidAccept, DidCreate, DidEnqueue, DidStop, DidPublish, DidDebugDrop,
      Submitted, Ordered, StatusOnly, Dropped
<1>3. ASSUME NEW r \in Queued, JobDid(r)
      PROVE  SameVThings
  BY <1>3
  DEF JobDid, DidBegin, DidPending, DidSubscribe, DidService, DidDeploy, DidRunning,
      DidUpdate, Submitted, Written, ParamsOnly
<1>4. ASSUME NEW a \in Actors, CallerDid(a)
      PROVE  SameVThings
  BY <1>4
  DEF CallerDid, DidGet, DidDrop, DidDeleteOnKubernetes, DidForget, Submitted, Dropped
<1>5. ASSUME NEW h \in Handlers, DidPoll(h) \/ DidPublishInit(h)
      PROVE  SameVThings
  BY <1>5 DEF DidPoll, DidPublishInit
<1>6. ASSUME NEW h \in Handlers, DidRegister(h)
      PROVE  SameVThings \/ \E v \in VThingsOfTV : Is(STATUS_RUNNING) /\ Announced(v)
  BY <1>6 DEF DidRegister, Submitted
<1>7. \A v : Announced(v) => Attached' = Attached
  BY DEF Announced
<1>8. SameVThings => Attached' = Attached
  BY DEF SameVThings
<1>9. QED
  BY <1>1, <1>2, <1>3, <1>4, <1>5, <1>6, <1>7, <1>8 DEF LifeStep, JobDid, CallerDid

\* The controller publishes commands of the life cycle, and takes reports.
LEMMA ControllerQueues ==
  ASSUME ControllerStep
  PROVE  /\ \/ toPod' = toPod
            \/ \E m \in Commands : m.cmd # "endpoint" /\ toPod' = Append(toPod, m)
         /\ \/ toCtl' = toCtl
            \/ toCtl # <<>> /\ toCtl' = Tail(toCtl)
<1> USE DEF rest, netVars
<1>0. \A r \in Requests : Message(r) \in Commands /\ Message(r).cmd # "endpoint"
  <2> SUFFICES ASSUME NEW r \in Requests
               PROVE  Message(r) \in Commands /\ Message(r).cmd # "endpoint"
    OBVIOUS
  <2>1. Message(r).cmd = (IF Kind[r] = "delete" THEN "destroyTV" ELSE "updateTV")
    BY MessageFields
  <2>2. QED
    BY <2>1, MessageTyped
<1>1. CASE Login \/ Receive
  BY <1>1 DEF Login, Receive
<1>2. ASSUME NEW r \in Requests,
             Create(r) \/ EnqueueJob(r) \/ Stop(r) \/ Publish(r) \/ DebugDrop(r)
      PROVE  /\ toCtl' = toCtl
             /\ toPod' = toPod \/ toPod' = Append(toPod, Message(r))
  BY <1>2 DEF Create, EnqueueJob, Enqueue, Stop, Publish, PublishTo, DebugDrop
<1>3. ASSUME NEW r \in Queued,
             BeginJob(r) \/ CreateThingVisorOnKubernetes(r) \/ UpdateJob(r)
      PROVE  toCtl' = toCtl /\ toPod' = toPod
  BY <1>3 DEF BeginJob, StartJob, CreateThingVisorOnKubernetes, WritePending, Subscribe,
      CreateService, CreateDeployment, WriteRunning, UpdateJob
<1>4. ASSUME NEW a \in Actors,
             Get(a) \/ Drop(a) \/ DeleteOnKubernetes(a) \/ ForgetThingVisor(a)
      PROVE  toCtl' = toCtl /\ toPod' = toPod
  BY <1>4 DEF Get, Read, Drop, DeleteOnKubernetes, DeleteDeployment, ForgetThingVisor, Cleanup
<1>5. ASSUME NEW h \in Handlers, PollRunning(h) \/ RegisterVThing(h) \/ PollInit(h)
      PROVE  toCtl' = toCtl /\ toPod' = toPod
  BY <1>5 DEF PollRunning, RegisterVThing, PollInit
<1>6. ASSUME NEW h \in Handlers, PublishInit(h)
      PROVE  /\ toCtl' = toCtl
             /\ \E m \in Commands : m.cmd # "endpoint" /\ toPod' = Append(toPod, m)
  <2> DEFINE m == [cmd |-> "createVThings", params |-> ""]
  <2>1. toPod' = Append(toPod, m) /\ toCtl' = toCtl
    BY <1>6 DEF PublishInit, PublishTo
  <2>2. m \in Commands /\ m.cmd # "endpoint"
    BY MessageTyped
  <2> HIDE DEF m
  <2>3. QED
    BY <2>1, <2>2
<1>7. QED
  BY <1>0, <1>1, <1>2, <1>3, <1>4, <1>5, <1>6 DEF ControllerStep

\* A withdrawal of nothing sends nothing.
LEMMA NothingWithdrawn ==
  ASSUME SiloTyped
  PROVE  toSilo \o Withdraw({}) = toSilo
<1> DEFINE S == {SiloMsg("deleteVThing", v) : v \in {} \cap silo.control}
           w == Withdraw({})
<1>1. S = {} /\ w = Seqs!SetToSeq(S)
  BY DEF Withdraw, SiloMsg
<1>2. IsFiniteSet({})
  BY FS_EmptySet
<1> HIDE DEF w, S
<1>3. w \in Seq({}) /\ Elems(w) = {}
  BY <1>1, <1>2, ListOf
<1>4. Len(w) = 0
  <2>1. Len(w) \in Nat
    BY <1>3, LenProperties
  <2>2. 1 \notin 1..Len(w)
    BY <1>3 DEF Elems
  <2>3. QED
    BY <2>1, <2>2
<1>5. w = <<>>
  BY <1>3, <1>4, EmptySeq
<1>6. QED
  BY <1>5, ConcatEmptySeq DEF SiloTyped, w

Listing == listed \in [Own -> SUBSET VThingsOfTV]
Telling == told \in [Creations -> [VThingsOfTV -> Details]]

\* What the silo hears of the life cycle.
LifeOfSilo ==
  /\ silo' = silo
  /\ \E vs \in SUBSET VThingsOfTV :
       /\ toSilo' = toSilo \o Withdraw(vs)
       /\ vs # {} => Deletes > 0
       /\ \A r \in Own :
            Kind[r] = "force" /\ pc[r] = "drop" /\ pc'[r] # "drop" => listed[r] \subseteq vs
       /\ Acknowledged' => Acknowledged \/ vs = VThingsOfTV
       /\ CommandSent /\ ~CommandSent' => vs = VThingsOfTV \/ "destroyTV" \in lost'
  /\ listed' = [r \in Own |-> IF pc[r] = "get" /\ pc'[r] = "drop" THEN Registered ELSE listed[r]]

\* A step that the silo does not hear of.
LEMMA SilentLife ==
  ASSUME SiloTyped, Listing, UNCHANGED <<toSilo, silo, listed>>,
         \A r \in Own : pc'[r] = pc[r] \/ pc[r] = "new",
         Acknowledged' => Acknowledged,
         CommandSent /\ ~CommandSent' => "destroyTV" \in lost'
  PROVE  LifeOfSilo
<1>1. toSilo' = toSilo \o Withdraw({}) /\ {} \in SUBSET VThingsOfTV
  BY NothingWithdrawn
<1>2. \A r \in Own : /\ ~(pc[r] = "drop" /\ pc'[r] # "drop")
                     /\ ~(pc[r] = "get" /\ pc'[r] = "drop")
  OBVIOUS
<1>3. listed' = [r \in Own |-> listed[r]]
  BY DEF Listing
<1>4. listed' = [r \in Own |-> IF pc[r] = "get" /\ pc'[r] = "drop" THEN Registered ELSE listed[r]]
  BY <1>2, <1>3
<1>5. QED
  BY <1>1, <1>2, <1>4 DEF LifeOfSilo

\* The controller withdraws for a forced delete what it has read with the
\* ThingVisor.
LEMMA ControllerToSilo ==
  ASSUME TypeInv, SiloTyped, Listing, ControllerActs
  PROVE  LifeOfSilo
<1> DEFINE dropping == {r \in Own : /\ Kind[r] = "force"
                                    /\ pc[r] = "drop" /\ pc'[r] # "drop"}
           vs == UNION {listed[r] : r \in dropping}
<1>1. /\ ControllerStep /\ toSilo' = toSilo \o Withdraw(vs) /\ silo' = silo
      /\ listed' = [r \in Own |-> IF pc[r] = "get" /\ pc'[r] = "drop"
                                  THEN Registered ELSE listed[r]]
  BY DEF ControllerActs
<1>2. vs \in SUBSET VThingsOfTV
  BY DEF Listing
<1>3. vs # {} => Deletes > 0
  <2>1. vs # {} => \E r \in Own : pc[r] = "drop"
    OBVIOUS
  <2>2. Own \subseteq Actors
    BY ActorFacts DEF Own
  <2>3. QED
    BY <2>1, <2>2, DeletingCounts DEF Deleting
<1>4. \A r \in Own :
        Kind[r] = "force" /\ pc[r] = "drop" /\ pc'[r] # "drop" => listed[r] \subseteq vs
  OBVIOUS
<1> HIDE DEF vs
<1>5. Acknowledged' => Acknowledged
  BY <1>1, ControllerQueues, QueueSteps DEF Acknowledged
<1>6. CommandSent => CommandSent'
  BY <1>1, ControllerQueues, QueueSteps DEF CommandSent
<1>7. QED
  BY <1>1, <1>2, <1>3, <1>4, <1>5, <1>6 DEF LifeOfSilo

\* A program that is told to stop withdraws all of its vThings before it
\* acknowledges.
LEMMA ProgramToSilo ==
  ASSUME TypeInv, SiloTyped, Listing, ProgramReceives
  PROVE  LifeOfSilo
<1> DEFINE m  == Head(toPod)
           vs == IF m.cmd = "destroyTV" /\ SomeUp THEN VThingsOfTV ELSE {}
<1>0. SomeUp <=> Up # {}
  BY DEF SomeUp, Up
<1>1. /\ PodsReceive /\ silo' = silo /\ listed' = listed
      /\ toSilo' = IF m.cmd = "destroyTV" /\ SomeUp
                   THEN toSilo \o Withdraw(VThingsOfTV) ELSE toSilo
  BY <1>0 DEF ProgramReceives
<1>2. toSilo' = toSilo \o Withdraw(vs)
  BY <1>1, NothingWithdrawn
<1>3. /\ toPod # <<>> /\ toPod' = Tail(toPod) /\ pc' = pc
      /\ \E acks \in Seq(Reports) :
           /\ toCtl' = toCtl \o acks
           /\ m.cmd # "destroyTV" => "destroyTVAck" \notin Elems(acks)
           /\ ~SomeUp => Elems(acks) = {}
      /\ SomeUp \/ m.cmd \in lost'
  BY <1>1, PodsReceiveDoes DEF procVars
<1> HIDE DEF m
<1>4. Elems(toPod) = {m} \cup Elems(toPod')
  BY <1>3, QueueSteps DEF m
<1>5. vs # {} => Deletes > 0
  BY <1>4, DeletingCounts DEF Deleting, CommandSent
<1>6. Acknowledged' => Acknowledged \/ vs = VThingsOfTV
  BY <1>3, QueueSteps DEF Acknowledged
<1>7. CommandSent /\ ~CommandSent' => vs = VThingsOfTV \/ "destroyTV" \in lost'
  BY <1>3, <1>4 DEF CommandSent
<1>8. listed' = [r \in Own |-> IF pc[r] = "get" /\ pc'[r] = "drop" THEN Registered ELSE listed[r]]
  <2>1. listed' = [r \in Own |-> listed[r]]
    BY <1>1 DEF Listing
  <2>2. QED
    BY <1>3, <2>1
<1>9. vs \in SUBSET VThingsOfTV
  OBVIOUS
<1> HIDE DEF vs
<1>10. QED
  BY <1>1, <1>2, <1>3, <1>5, <1>6, <1>7, <1>8, <1>9 DEF LifeOfSilo

NothingTold == [v \in VThingsOfTV |-> NoDetails]

\* What the programs know of the endpoints: one that starts knows none, those
\* that listen take a command, and otherwise a command is published or lost.
Begun(a) ==
  /\ deployment = a /\ pod[a].st = "none" /\ told'[a] = NothingTold
  /\ \A b \in Creations : b # a => told'[b] = told[b] /\ pod'[b] = pod[b]
  /\ "createVThing" \in Elems(toCtl') \/ "requestInit" \in Elems(toCtl')

Heard ==
  /\ toPod # <<>> /\ toPod' = Tail(toPod)
  /\ \A b \in Creations :
       told'[b] = IF Head(toPod).cmd = "endpoint" /\ b \in Up
                  THEN [told[b] EXCEPT ![Head(toPod).vThing] = Head(toPod).params]
                  ELSE told[b]

Untold ==
  /\ told' = told
  /\ \/ toPod' = toPod
     \/ \E m \in Commands : m.cmd # "endpoint" /\ toPod' = Append(toPod, m)
     \/ toPod # <<>> /\ toPod' = Tail(toPod) /\ Head(toPod).cmd \in lost'

NoneBegins == \A b \in Creations : pod'[b].st # "none" => pod[b].st # "none"

LifeOfTold == Telling' /\ (\/ \E a \in Creations : Begun(a)
                           \/ NoneBegins /\ (Heard \/ Untold))

\* The programs take a command.
LEMMA ProgramTold ==
  ASSUME TypeInv, Telling, ProgramReceives
  PROVE  LifeOfTold
<1>1. /\ PodsReceive
      /\ told' = [a \in Creations |->
                   IF Head(toPod).cmd = "endpoint" /\ a \in Up
                   THEN [told[a] EXCEPT ![Head(toPod).vThing] = Head(toPod).params]
                   ELSE told[a]]
  BY DEF ProgramReceives
<1>2. /\ toPod # <<>> /\ toPod' = Tail(toPod) /\ Head(toPod) \in Commands
      /\ PodsTake(Head(toPod))
  BY <1>1, PodsReceiveDoes
<1>3. Telling'
  <2>1. Head(toPod).cmd = "endpoint" => Head(toPod).params \in Details
    BY <1>2 DEF Commands
  <2>2. QED
    BY <1>1, <2>1 DEF Telling
<1>4. Heard
  BY <1>1, <1>2 DEF Heard
<1>5. NoneBegins
  BY <1>2 DEF PodsTake, NoneBegins
<1>6. QED
  BY <1>3, <1>4, <1>5 DEF LifeOfTold

\* A program starts.
LEMMA StartTold ==
  ASSUME TypeInv, Telling, NEW a \in Creations, ProgramStarts(a)
  PROVE  LifeOfTold
<1>1. /\ deployment = a /\ pod[a].st = "none"
      /\ \E m \in {"createVThing", "requestInit"} : toCtl' = Append(toCtl, m)
      /\ told' = [told EXCEPT ![a] = NothingTold]
      /\ pod' = [pod EXCEPT ![a] = [st     |-> IF RequestsInit THEN "up" ELSE "starting",
                                    params |-> Params[a]]]
  BY DEF ProgramStarts, PodStarts, NothingTold
<1>2. NothingTold \in [VThingsOfTV -> Details]
  BY Entries DEF NothingTold
<1>3. /\ Telling' /\ told'[a] = NothingTold
      /\ \A b \in Creations : b # a => told'[b] = told[b] /\ pod'[b] = pod[b]
  BY <1>1, <1>2 DEF Telling, TypeInv, RestTyped
<1>4. "createVThing" \in Elems(toCtl') \/ "requestInit" \in Elems(toCtl')
  BY <1>1, QueueSteps DEF Reports
<1>5. QED
  BY <1>1, <1>3, <1>4 DEF LifeOfTold, Begun

\* A step of the life cycle in which no program starts and none takes a command.
LEMMA SilentTold ==
  ASSUME Telling, told' = told, NoneBegins,
         \/ toPod' = toPod
         \/ \E m \in Commands : m.cmd # "endpoint" /\ toPod' = Append(toPod, m)
         \/ toPod # <<>> /\ toPod' = Tail(toPod) /\ Head(toPod).cmd \in lost'
  PROVE  LifeOfTold
<1>1. Telling'
  BY DEF Telling
<1>2. QED
  BY <1>1 DEF LifeOfTold, Untold

\* The silo takes a message, loses one, or restarts and is restored.
SiloStep ==
  /\ UNCHANGED <<db, pc, seen, toPod, toCtl, pod, deployment, listed, told>>
  /\ \/ SiloReceives
     \/ LoseToSilo
     \/ /\ SiloRestarts
        /\ Busy({"attach", "detach"}) # {} => "changeDuringRestore" \in races'

RestartStep ==
  /\ DidRestart /\ UNCHANGED <<toSilo, ends>>
  /\ Busy(SharingKinds) # {} => "changeInterrupted" \in races'
  /\ Registering => "registerInterrupted" \in races'

ShareStep(r) == Shared(r) /\ DidShare(r) /\ UNCHANGED ends

LifeOn == LifeStep /\ LifeOfSilo /\ LifeOfTold

SharingStep ==
  (\E r \in Sharing : ShareStep(r)) \/ LifeOn \/ SiloStep \/ RestartStep

SharingSeen == SharingWindows \subseteq races

ShareInv ==
  SiloTyped /\ Listing /\ Telling /\ Attached \subseteq VThingsOfTV /\ SharingSeen

\* A step of the life cycle is one the silo and the programs hear of.
LEMMA LifeGoesOn ==
  ASSUME TypeInv, TypeInv', ShareInv, session' = session,
         \/ ControllerActs
         \/ ProgramReceives
         \/ \E a \in Creations :
              \/ ProgramStarts(a)
              \/ (PodListens(a) \/ PodStops(a) \/ PodRestarts(a)) /\ UNCHANGED <<toSilo, ends>>
         \/ (Lose \/ \E r \in Requests : Accept(r)) /\ UNCHANGED <<pod, toSilo, ends>>
         \/ UNCHANGED sharingVars
  PROVE  LifeOn
<1> USE DEF ends, ShareInv
<1>1. CASE ControllerActs
  <2>1. ControllerStep /\ UNCHANGED <<pod, told>>
    BY <1>1 DEF ControllerActs
  <2>2. LifeStep
    BY <2>1, ControllerStepDoes
  <2>3. LifeOfTold
    BY <2>1, ControllerQueues, SilentTold DEF NoneBegins
  <2>4. QED
    BY <1>1, <2>2, <2>3, ControllerToSilo DEF LifeOn
<1>2. CASE ProgramReceives
  <2>1. LifeStep
    BY <1>2, OtherStepDoes DEF ProgramReceives, LifeStep
  <2>2. QED
    BY <1>2, <2>1, ProgramToSilo, ProgramTold DEF LifeOn
<1>3. ASSUME NEW a \in Creations, ProgramStarts(a)
      PROVE  LifeOn
  <2>1. /\ PodStarts(a) /\ UNCHANGED <<toSilo, silo, listed, pc, toPod>>
        /\ \E m \in {"createVThing", "requestInit"} : toCtl' = Append(toCtl, m)
    BY <1>3 DEF ProgramStarts, PodStarts, procVars
  <2>2. LifeStep
    BY <2>1, OtherStepDoes DEF LifeStep
  <2>3. Acknowledged' => Acknowledged
    BY <2>1, QueueSteps DEF Acknowledged, Reports
  <2>4. CommandSent => CommandSent'
    BY <2>1 DEF CommandSent
  <2>5. LifeOfSilo
    BY <2>1, <2>3, <2>4, SilentLife
  <2>6. QED
    BY <1>3, <2>2, <2>5, StartTold DEF LifeOn
<1>4. ASSUME NEW a \in Creations, PodListens(a) \/ PodStops(a) \/ PodRestarts(a),
             UNCHANGED <<toSilo, ends>>
      PROVE  LifeOn
  <2>1. DidPod
    BY <1>4, OtherStepDoes
  <2>2. UNCHANGED <<pc, toPod, toCtl>>
    BY <2>1 DEF DidPod, KeptPlaces
  <2>3. LifeOfSilo
    BY <1>4, <2>2, SilentLife DEF CommandSent, Acknowledged
  <2>4. NoneBegins
    BY <2>1 DEF DidPod, PodGoesOn, NoneBegins
  <2>5. QED
    BY <1>4, <2>1, <2>2, <2>3, <2>4, SilentTold DEF LifeOn, LifeStep
<1>5. CASE Lose /\ UNCHANGED <<pod, toSilo, ends>>
  <2>1. DidLose
    BY <1>5, OtherStepDoes
  <2>2. /\ pc' = pc
        /\ \/ toPod # <<>> /\ toPod' = Tail(toPod) /\ Head(toPod).cmd \in lost' /\ toCtl' = toCtl
           \/ toCtl # <<>> /\ toCtl' = Tail(toCtl) /\ toPod' = toPod
    BY <2>1 DEF DidLose, KeptPlaces
  <2>3. Acknowledged' => Acknowledged
    BY <2>2, QueueSteps DEF Acknowledged
  <2>4. CommandSent /\ ~CommandSent' => "destroyTV" \in lost'
    BY <2>2, QueueSteps DEF CommandSent
  <2>5. LifeOfSilo
    BY <1>5, <2>2, <2>3, <2>4, SilentLife
  <2>6. LifeOfTold
    BY <1>5, <2>2, SilentTold DEF NoneBegins
  <2>7. QED
    BY <2>1, <2>5, <2>6 DEF LifeOn, LifeStep
<1>6. ASSUME NEW r \in Requests, Accept(r), UNCHANGED <<pod, toSilo, ends>>
      PROVE  LifeOn
  <2>1. DidAccept(r)
    BY <1>6, RequestStepDoes
  <2>2. /\ UNCHANGED <<toPod, toCtl>>
        /\ \A q \in Own : pc'[q] = pc[q] \/ pc[q] = "new"
    BY <2>1, ActorFacts DEF DidAccept, KeptAll, KeptNet, Moved, Own
  <2>3. LifeOfSilo
    BY <1>6, <2>2, SilentLife DEF CommandSent, Acknowledged
  <2>4. LifeOfTold
    BY <1>6, <2>2, SilentTold DEF NoneBegins
  <2>5. QED
    BY <2>1, <2>3, <2>4 DEF LifeOn, LifeStep
<1>7. CASE UNCHANGED sharingVars
  <2>1. UNCHANGED vars /\ UNCHANGED <<toSilo, silo, listed, told, pc, toPod, toCtl, pod>>
    BY <1>7 DEF sharingVars, vars, controllerVars
  <2>2. DidPod
    BY <2>1, OtherStepDoes
  <2>3. LifeOfSilo
    BY <2>1, SilentLife DEF CommandSent, Acknowledged
  <2>4. LifeOfTold
    BY <2>1, SilentTold DEF NoneBegins
  <2>5. QED
    BY <2>2, <2>3, <2>4 DEF LifeOn, LifeStep
<1>8. QED
  BY <1>1, <1>2, <1>3, <1>4, <1>5, <1>6, <1>7

\* The types of what the silo and the programs know are kept.
SharersTyped == SiloTyped /\ Listing /\ Telling /\ Attached \subseteq VThingsOfTV

\* Every step keeps them.
LEMMA SharingKeepsTypes ==
  ASSUME TypeInv, ShareInv, SharingStep
  PROVE  SharersTyped'
<1> USE DEF ShareInv, ends
<1>1. ASSUME NEW r \in Sharing, ShareStep(r)
      PROVE  SharersTyped'
  <2>1. /\ Shared(r) /\ UNCHANGED <<silo, listed, told>>
        /\ Kind[r] \in SharingKinds /\ Target[r] \in VThingsOfTV
    BY <1>1, ShareFacts DEF ShareStep
  <2>2. Listing' /\ Telling'
    BY <2>1 DEF Listing, Telling
  <2>3. SiloTyped'
    <3>1. CASE DidTellSilo(r)
      BY <2>1, <3>1, SiloTold DEF DidTellSilo
    <3>2. CASE ~DidTellSilo(r)
      <4>1. UNCHANGED <<toSilo, silo>>
        BY <2>1, <3>2 DEF Shared, DidEnter, DidGetRunning, DidGetVThing, DidCheck,
           DidTellProgram, DidRecord, KeptToSilo
      <4>2. QED
        BY <4>1 DEF SiloTyped, Connects, Disconnects
    <3>3. QED
      BY <3>1, <3>2
  <2>4. Attached' \subseteq VThingsOfTV
    <3>1. CASE DidRecord(r)
      <4>1. Attached' = Attached \/ ShareWrites(r)
        BY <3>1 DEF DidRecord, Submitted, SameRec, SameVThings
      <4>2. QED
        BY <2>1, <4>1 DEF ShareWrites, SharingKinds
    <3>2. CASE ~DidRecord(r)
      <4>1. db' = db
        BY <2>1, <3>2 DEF Shared, DidEnter, DidGetRunning, DidGetVThing, DidCheck,
           DidTellProgram, DidTellSilo
      <4>2. QED
        BY <4>1 DEF Attached
    <3>3. QED
      BY <3>1, <3>2
  <2>5. QED
    BY <2>2, <2>3, <2>4 DEF SharersTyped
<1>2. CASE LifeOn
  <2>1. SiloTyped'
    BY <1>2, SiloWithdraws DEF LifeOn, LifeOfSilo
  <2>2. Listing'
    <3>1. Registered \subseteq VThingsOfTV
      BY DEF Registered
    <3>2. QED
      BY <1>2, <3>1 DEF LifeOn, LifeOfSilo, Listing
  <2>3. Attached' = Attached
    BY <1>2, LifeKeepsVThings DEF LifeOn
  <2>4. VThingsOfTV' = VThingsOfTV
    BY DEF VThingsOfTV
  <2>5. QED
    BY <1>2, <2>1, <2>2, <2>3, <2>4 DEF SharersTyped, LifeOn, LifeOfTold
<1>3. CASE SiloStep
  <2>1. UNCHANGED <<db, listed, told>>
    BY <1>3 DEF SiloStep
  <2>2. Attached' = Attached
    BY <2>1 DEF Attached
  <2>3. SiloTyped'
    <3>1. CASE SiloReceives
      BY <3>1, SiloTakes
    <3>2. CASE LoseToSilo
      BY <3>2, SiloLoses
    <3>3. CASE SiloRestarts
      <4>1. toSilo' = <<>> /\ silo' = [data |-> Attached, control |-> Attached]
        BY <3>3 DEF SiloRestarts
      <4>2. NoneOf(toSilo', {}) /\ toSilo' \in Seq(SiloMessages)
        BY <4>1, EmptySeq DEF NoneOf
      <4>3. \A v : NoneOf(toSilo', About(v))
        BY <4>1, EmptySeq DEF NoneOf
      <4>4. \A v : Connects(v)' \/ Disconnects(v)'
        BY <4>3 DEF Connects, Disconnects
      <4>5. QED
        BY <4>1, <4>2, <4>4 DEF SiloTyped
    <3>4. QED
      BY <1>3, <3>1, <3>2, <3>3 DEF SiloStep
  <2>4. QED
    BY <2>1, <2>2, <2>3 DEF SharersTyped, Listing, Telling
<1>4. CASE RestartStep
  <2>1. UNCHANGED <<toSilo, silo, listed, told>> /\ Attached' = Attached
    BY <1>4, LifeKeepsVThings DEF RestartStep
  <2>2. QED
    BY <2>1 DEF SharersTyped, SiloTyped, Connects, Disconnects, Listing, Telling
<1>5. QED
  BY <1>1, <1>2, <1>3, <1>4 DEF SharingStep

\* A restart of the controller opens no window of the requests about vThings.
LEMMA RestartOpensNoSharing ==
  ASSUME TypeInv, TypeInv', SiloTyped, DidRestart, session' = session,
         UNCHANGED <<toSilo, ends>>
  PROVE  SharingWindows' \subseteq SharingWindows
<1> USE ActorFacts
<1>1. \A kinds : Busy(kinds)' = {}
  BY DEF Busy, DidRestart, AtRest, Ended, Sharing
<1>2. /\ toPod' = toPod /\ (toCtl' = toCtl \/ toCtl' = <<>>)
      /\ UNCHANGED <<deployment, pod>> /\ Rec' = Rec /\ Attached' = Attached
      /\ \A h \in Handlers : pc'[h] = "idle"
      /\ \A r \in Requests : pc'[r] # "debugDrop"
  BY DEF DidRestart, KeptCluster, SameRec, SameVThings, AtRest, Ended
<1>3. Len(<<>>) = 0
  BY EmptySeq
<1>4. Due' => Due
  BY <1>2, <1>3 DEF Due
<1>5. Registering' => Registering
  BY <1>2, <1>4 DEF Registering, PodsMatch
<1>6. Settling' => Settling
  BY <1>1, <1>2 DEF Settling
<1>7. Attaching' => Attaching
  BY <1>1 DEF Attaching
<1>8. Withdrawing' => Withdrawing
  BY <1>2, RestartOpensNothing DEF Withdrawing
<1>9. (\E v \in Attached : Told(v, "deleteVThing"))' => \E v \in Attached : Told(v, "deleteVThing")
  BY <1>2 DEF Told
<1>10. ~(Cardinality(Busy(EndpointKinds)) > 1)'
  BY <1>1, FS_EmptySet
<1>11. QED
  BY <1>1, <1>5, <1>6, <1>7, <1>8, <1>9, <1>10 DEF SharingWindows, Labelled, EndpointKinds

\* Neither does a restart of the silo.
LEMMA SiloRestartOpensNothing ==
  ASSUME SiloRestarts
  PROVE  SharingWindows' \subseteq SharingWindows
<1>1. UNCHANGED <<db, pc, toPod, toCtl, pod, deployment>> /\ toSilo' = <<>>
  BY DEF SiloRestarts, procVars, clusterVars
<1>2. Len(<<>>) = 0
  BY EmptySeq
<1>3. \A kinds : Busy(kinds)' = Busy(kinds)
  BY <1>1 DEF Busy
<1>4. Settling' = Settling
  BY <1>1, <1>3 DEF Settling
<1>5. Due' = Due
  BY <1>1 DEF Due
<1>6. PodsMatch' = PodsMatch
  BY <1>1 DEF PodsMatch
<1>7. Registering' = Registering
  BY <1>5, <1>6 DEF Registering
<1>8. Attaching' => Attaching
  BY <1>1, <1>2, <1>3 DEF Attaching
<1>9. Deletes' = Deletes
  BY <1>1 DEF Deletes
<1>10. Withdrawing' = Withdrawing
  BY <1>1, <1>9 DEF Withdrawing
<1>11. Rec' = Rec
  BY <1>1 DEF Rec
<1>12. \A v : ~Told(v, "deleteVThing")'
  BY <1>1, <1>2 DEF Told
<1>13. QED
  BY <1>3, <1>4, <1>7, <1>8, <1>10, <1>11, <1>12 DEF SharingWindows, Labelled

\* A step of the silo is one the life cycle does not see, but for the losses.
LEMMA SiloGoesOn ==
  ASSUME TypeInv, session' = session,
         \/ SiloReceives \/ LoseToSilo
         \/ /\ SiloRestarts
            /\ races' = races \cup Labelled("changeDuringRestore",
                                            Busy({"attach", "detach"}) # {})
  PROVE  /\ TypeInv' /\ DidPod /\ SiloStep /\ Grows
         /\ Windows' = Windows
<1> USE DEF ends, procVars, ctlVars, netVars, clusterVars
<1>1. /\ UNCHANGED <<db, pc, seen, attempts, callback, subscribed, identity, doomed,
                     toPod, toCtl, deployment, service, pod, listed, told>>
      /\ faults \subseteq faults'
  BY FaultStays DEF SiloReceives, LoseToSilo, SiloRestarts
<1>2. RestTyped'
  BY <1>1 DEF TypeInv, RestTyped
<1>3. TypeInv'
  BY <1>1, <1>2, StillTyped
<1>4. DidPod
  BY <1>1, SameLedger DEF DidPod, PodGoesOn, KeptPlaces, KeptCtl, KeptCluster
<1>5. SiloStep
  BY <1>1 DEF SiloStep, Labelled
<1>6. Grows
  BY <1>1 DEF Grows, SiloReceives, LoseToSilo, SiloRestarts
<1>7. Windows' = Windows
  <2>1. Creating' = Creating /\ Updates' = Updates
    BY <1>1 DEF Creating, Updates, AtRest
  <2>2. Updating' = Updating
    BY <1>1, <2>1 DEF Updating
  <2>3. Deletes' = Deletes
    BY <1>1 DEF Deletes
  <2>4. QED
    BY <1>1, <2>1, <2>2, <2>3 DEF Windows
<1>8. QED
  BY <1>3, <1>4, <1>5, <1>6, <1>7

\* So is every step of the composed system: the life cycle sees one of its own,
\* and the basic invariants of both are kept.
LEMMA SharingGoesOn ==
  ASSUME Inv, ShareInv, [SharingNext]_sharingVars
  PROVE  Stepped /\ SharingStep /\ ShareInv'
<1>0. /\ TypeInv /\ session' = session /\ Windows \subseteq races
      /\ SharingWindows \subseteq races /\ SiloTyped
  BY DEF Inv, WindowsSeen, ShareInv, SharingSeen, SharingNext, sharingVars, vars,
         controllerVars
<1> DEFINE LifeActs ==
             \/ ControllerActs
             \/ ProgramReceives
             \/ \E a \in Creations :
                  \/ ProgramStarts(a)
                  \/ (PodListens(a) \/ PodStops(a) \/ PodRestarts(a)) /\ UNCHANGED <<toSilo, ends>>
             \/ (Lose \/ \E r \in Requests : Accept(r)) /\ UNCHANGED <<pod, toSilo, ends>>
           Opens == races' = races \cup Windows' \cup SharingWindows'
<1>1. ASSUME TypeInv', Happened, SharingStep, Grows, races \subseteq races',
             Windows' \subseteq races', SharingWindows' \subseteq races'
      PROVE  Stepped /\ SharingStep /\ ShareInv'
  <2>1. SharersTyped'
    BY <1>0, <1>1, SharingKeepsTypes
  <2>2. QED
    BY <1>0, <1>1, <2>1 DEF Stepped, Recorded, Grows, Inv, WindowsSeen, ShareInv, SharingSeen,
       SharersTyped
<1>2. CASE LifeActs /\ Opens
  <2>1. TypeInv'
    <3>1. CASE ControllerActs
      BY <1>0, <3>1, ControllerTyped DEF ControllerActs
    <3>2. CASE ProgramReceives
      BY <1>0, <3>2, PodsTyped DEF ProgramReceives
    <3>3. ASSUME NEW a \in Creations,
                 ProgramStarts(a) \/ PodListens(a) \/ PodStops(a) \/ PodRestarts(a)
          PROVE  TypeInv'
      BY <1>0, <3>3, PodsTyped DEF ProgramStarts
    <3>4. CASE (Lose \/ \E r \in Requests : Accept(r)) /\ UNCHANGED pod
      BY <1>0, <3>4, LoseTyped, AcceptTyped
    <3>5. QED
      BY <1>2, <3>1, <3>2, <3>3, <3>4
  <2>2. LifeOn
    BY <1>0, <1>2, <2>1, LifeGoesOn
  <2>3. Grows
    <3>1. CASE ControllerActs
      BY <3>1, HistoryGrows DEF ControllerActs, Step
    <3>2. CASE ProgramReceives
      BY <3>2, HistoryGrows DEF ProgramReceives, Step, PodStep
    <3>3. ASSUME NEW a \in Creations,
                 ProgramStarts(a) \/ PodListens(a) \/ PodStops(a) \/ PodRestarts(a)
          PROVE  Grows
      BY <3>3, HistoryGrows DEF ProgramStarts, Step, PodStep
    <3>4. CASE Lose \/ \E r \in Requests : Accept(r)
      BY <3>4, HistoryGrows
    <3>5. QED
      BY <1>2, <3>1, <3>2, <3>3, <3>4
  <2>4. races \subseteq races' /\ Windows' \subseteq races' /\ SharingWindows' \subseteq races'
    BY <1>2
  <2>5. QED
    BY <1>1, <2>1, <2>2, <2>3, <2>4 DEF Happened, DidStep, LifeOn, SharingStep
<1>3. ASSUME NEW r \in Requests, UNCHANGED <<pod, ends>>, Opens,
             (AcceptSharing(r) /\ UNCHANGED toSilo) \/ SharingRequest(r)
      PROVE  Stepped /\ SharingStep /\ ShareInv'
  <2>1. r \in Sharing /\ Shared(r) /\ Stands' /\ faults \subseteq faults' /\ attempts' = attempts
    BY <1>0, <1>3, SharingDoes
  <2>2. TypeInv' /\ DidShare(r)
    BY <1>0, <2>1, SharedTyped
  <2>3. ShareStep(r) /\ Grows
    BY <1>3, <2>1, <2>2 DEF ShareStep, DidShare, Grows
  <2>4. races \subseteq races' /\ Windows' \subseteq races' /\ SharingWindows' \subseteq races'
    BY <1>3
  <2>5. QED
    BY <1>1, <2>1, <2>2, <2>3, <2>4 DEF Happened, DidStep, SharingStep
<1>4. CASE (SiloReceives \/ LoseToSilo) /\ Opens
  <2>1. TypeInv' /\ DidPod /\ SiloStep /\ Grows
    BY <1>0, <1>4, SiloGoesOn
  <2>2. races \subseteq races' /\ Windows' \subseteq races' /\ SharingWindows' \subseteq races'
    BY <1>4
  <2>3. QED
    BY <1>1, <2>1, <2>2 DEF Happened, DidStep, LifeStep, SharingStep
<1>5. CASE /\ SiloRestarts
           /\ races' = races \cup Labelled("changeDuringRestore",
                                           Busy({"attach", "detach"}) # {})
  <2>1. TypeInv' /\ DidPod /\ SiloStep /\ Grows /\ Windows' = Windows
    BY <1>0, <1>5, SiloGoesOn
  <2>2. SharingWindows' \subseteq SharingWindows
    BY <1>5, SiloRestartOpensNothing
  <2>3. races \subseteq races' /\ Windows' \subseteq races' /\ SharingWindows' \subseteq races'
    BY <1>0, <1>5, <2>1, <2>2
  <2>4. QED
    BY <1>1, <2>1, <2>3 DEF Happened, DidStep, LifeStep, SharingStep
<1>6. CASE /\ Restart /\ UNCHANGED <<pod, toSilo, ends>>
           /\ races' = races \cup Interrupted
                \cup Labelled("changeInterrupted", Busy(SharingKinds) # {})
                \cup Labelled("registerInterrupted", Registering)
  <2>1. TypeInv' /\ Interrupted \subseteq races'
    BY <1>0, <1>6, RestartTyped
  <2>2. DidRestart
    BY <1>0, <1>6, <2>1, OtherStepDoes
  <2>3. Grows
    BY <1>6 DEF Restart, Fault, Grows
  <2>4. RestartStep
    BY <1>6, <2>2 DEF RestartStep, Labelled
  <2>5. Windows' \subseteq Windows /\ SharingWindows' \subseteq SharingWindows
    BY <1>0, <1>6, <2>1, <2>2, RestartOpensNothing, RestartOpensNoSharing
  <2>6. races \subseteq races' /\ Windows' \subseteq races' /\ SharingWindows' \subseteq races'
    BY <1>0, <1>6, <2>5
  <2>7. QED
    BY <1>1, <2>1, <2>2, <2>3, <2>4, <2>6 DEF Happened, SharingStep
<1>7. CASE UNCHANGED sharingVars
  <2>1. UNCHANGED vars /\ UNCHANGED <<toSilo, silo, listed, told>>
    BY <1>7 DEF sharingVars
  <2>2. Stepped
    BY <2>1, StepDoes
  <2>3. TypeInv'
    BY <2>2 DEF Stepped, Inv
  <2>4. LifeOn
    BY <1>0, <1>7, <2>3, LifeGoesOn
  <2>5. SharingWindows' = SharingWindows /\ races' = races
    <3>1. UNCHANGED <<db, pc, toPod, toCtl, pod, deployment, toSilo, races>>
      BY <2>1 DEF vars, controllerVars
    <3>2. \A kinds : Busy(kinds)' = Busy(kinds)
      BY <3>1 DEF Busy
    <3>3. /\ Settling' = Settling /\ Registering' = Registering /\ Attaching' = Attaching
          /\ Withdrawing' = Withdrawing /\ Rec' = Rec /\ Attached' = Attached
      BY <3>1, <3>2 DEF Settling, Registering, PodsMatch, Due, Attaching, Withdrawing, Deletes,
         Rec, Attached
    <3>4. \A v : Told(v, "deleteVThing")' = Told(v, "deleteVThing")
      BY <3>1 DEF Told
    <3>5. QED
      BY <3>1, <3>2, <3>3, <3>4 DEF SharingWindows
  <2>6. SharersTyped'
    BY <1>0, <2>4, SharingKeepsTypes DEF SharingStep
  <2>7. QED
    BY <1>0, <2>2, <2>4, <2>5, <2>6 DEF SharingStep, ShareInv, SharingSeen, SharersTyped
<1>8. QED
  BY <1>2, <1>3, <1>4, <1>5, <1>6, <1>7 DEF SharingNext

\* Nobody shares anything at first.
LEMMA InitShare == SharingInit => Inv /\ ShareInv
<1> SUFFICES ASSUME SharingInit PROVE Inv /\ ShareInv
  OBVIOUS
<1>1. /\ Init /\ silo = [data |-> {}, control |-> {}] /\ toSilo = <<>>
      /\ listed = [r \in Own |-> {}] /\ told = [a \in Creations |-> NothingTold]
  BY DEF SharingInit, NothingTold
<1>2. Inv /\ TypeInv
  BY <1>1, InitInv DEF Inv
<1>3. /\ Rec = Nil /\ toPod = <<>> /\ toCtl = <<>>
      /\ \A r \in Requests : pc[r] = "new"
      /\ \A h \in Handlers : pc[h] = "idle"
  BY <1>1, AtFirst
<1>4. Len(<<>>) = 0
  BY EmptySeq
<1>5. Attached = {}
  <2>1. \A v \in VThings : VThingVSiloKey(vSilo, v) \in Keys
    BY SharingAssumption, KeyTypes DEF SharingAssumption
  <2>2. db = [k \in Keys |-> Nil]
    BY <1>1 DEF Init, InitWith
  <2>3. QED
    BY <2>1, <2>2 DEF Attached
<1>6. SiloTyped
  <2>1. \A v \in VThingsOfTV : NoneOf(toSilo, About(v))
    BY <1>1, <1>4 DEF NoneOf
  <2>2. toSilo \in Seq(SiloMessages)
    BY <1>1, EmptySeq
  <2>3. QED
    BY <1>1, <2>1, <2>2 DEF SiloTyped, Connects, Disconnects
<1>7. Listing /\ Telling
  <2>1. NothingTold \in [VThingsOfTV -> Details]
    BY Entries DEF NothingTold
  <2>2. QED
    BY <1>1, <2>1 DEF Listing, Telling
<1>8. SharingSeen
  <2>1. \A kinds : Busy(kinds) = {}
    BY <1>3 DEF Busy, Sharing
  <2>2. ~Settling /\ ~Attaching
    BY <1>1, <1>3, <1>4, <2>1 DEF Settling, Attaching
  <2>3. ~(Cardinality(Busy(EndpointKinds)) > 1)
    BY <2>1, FS_EmptySet
  <2>4. SharingWindows = {}
    BY <1>5, <2>1, <2>2, <2>3 DEF SharingWindows, Labelled, EndpointKinds
  <2>5. QED
    BY <2>4 DEF SharingSeen
<1>9. QED
  BY <1>2, <1>5, <1>6, <1>7, <1>8 DEF ShareInv

\* The type invariant of the runs follows from these.
LEMMA ShareTypes == Inv /\ ShareInv => SharingTypeOK
<1> SUFFICES ASSUME TypeInv, ShareInv PROVE SharingTypeOK
  BY DEF Inv
<1> DEFINE All == Labels \cup {"getTV", "getVThing", "check", "tell", "record"}
<1>1. \A r \in Requests : pc[r] \in All
  BY DEF TypeInv, Places, RequestsPlaced, RequestLabels, Labels, Ended
<1>2. \A r \in Queued : pc[Job(r)] \in All
  BY DEF TypeInv, Places, JobsPlaced, JobLabels, Labels, Ended
<1>3. \A h \in Handlers : pc[h] \in All
  BY DEF TypeInv, Places, HandlersPlaced, HandlerLabels, Labels, Ended
<1> HIDE DEF All
<1>4. \A a \in Actors : pc[a] \in All
  BY <1>1, <1>2, <1>3, ActorFacts DEF Actors
<1>5. pc \in [Actors -> All]
  BY <1>4 DEF TypeInv, Stands
<1>6. \A a \in Actors : seen[a] \in ThingVisorRecord \cup Details \cup {Nil}
  BY DEF TypeInv, Places, HandsFull, Hand
<1>7. \A i \in 1..Len(toSilo) :
        toSilo[i] \in [cmd : {"addVThing", "deleteVThing"}, vThing : VThingsOfTV]
  <2>1. \A i \in 1..Len(toSilo) : toSilo[i] \in SiloMessages
    BY ElementOfSeq DEF ShareInv, SiloTyped
  <2>2. QED
    BY <2>1 DEF SiloMessages, SiloMsg
<1>8. QED
  BY <1>5, <1>6, <1>7 DEF SharingTypeOK, TypeInv, ShareInv, SiloTyped, Listing, Telling, All

\* The requests about vThings, the silo and what the programs know keep their
\* types, through restarts and losses; the silo listens to what it is sent data
\* of (SiloReceives: on_message_add_vThing subscribes to both topics).
THEOREM SharingTyped == SharingSpec => []SharingTypeOK
<1>1. Inv /\ ShareInv /\ [SharingNext]_sharingVars => (Inv /\ ShareInv)'
  BY SharingGoesOn DEF Stepped
<1>2. QED
  BY <1>1, InitShare, ShareTypes, PTL DEF SharingSpec

-------------------------------------------------------------------------------
(***************************************************************************)
(* The silo will be connected to what is attached to it: an attachment is  *)
(* told before it is recorded, a detachment after that.                    *)
(***************************************************************************)
At(kind, l, v) == \E r \in Sharing : Kind[r] = kind /\ pc[r] = l /\ Target[r] = v

ConnectCauses == {"withdrawn", "attachDuringDelete", "attachDuringDetach",
                  "changeDuringRestore", "addVThing", "deleteVThing", "submit",
                  "changeInterrupted"}

Follows(v) ==
  /\ v \in Attached \/ At("attach", "record", v) => Connects(v)
  /\ v \notin Attached /\ ~At("attach", "record", v) =>
       Disconnects(v) \/ At("detach", "tell", v)
  /\ At("detach", "tell", v) => v \notin Attached

ConnectedInv == Without(ConnectCauses) => \A v \in VThingsOfTV : Follows(v)

\* What has not been in the way: no attachment meets a detachment, none meets a
\* delete, and none is withdrawn.
LEMMA ConnectedSteps ==
  ASSUME Inv, ShareInv, Stepped, ShareInv', Without(ConnectCauses)'
  PROVE  /\ Without(ConnectCauses)
         /\ Busy({"attach"}) = {} \/ Busy({"detach"}) = {}
         /\ Busy({"attach"}) # {} => ~(Deletes > 0)
         /\ \A v \in Attached' : ~Told(v, "deleteVThing")'
         /\ "submit" \notin faults' /\ "addVThing" \notin lost' /\ "deleteVThing" \notin lost'
         /\ "changeInterrupted" \notin races' /\ "changeDuringRestore" \notin races'
<1>1. Without(ConnectCauses)
  BY WithoutBefore DEF Stepped, Recorded
<1>2. /\ Busy({"attach"}) = {} \/ Busy({"detach"}) = {}
      /\ Busy({"attach"}) # {} => ~(Deletes > 0)
  BY <1>1 DEF ShareInv, SharingSeen, SharingWindows, Labelled, Without, ConnectCauses,
     Attaching, Withdrawing
<1>3. \A v \in Attached' : ~Told(v, "deleteVThing")'
  BY DEF ShareInv, SharingSeen, SharingWindows, Labelled, Without, ConnectCauses
<1>4. QED
  BY <1>1, <1>2, <1>3 DEF Without, ConnectCauses

\* A step of a request about a vThing keeps that the silo follows.
LEMMA SharerFollows ==
  ASSUME Inv, ShareInv, ConnectedInv, Stepped, ShareInv', Without(ConnectCauses)',
         NEW r \in Sharing, ShareStep(r), NEW v \in VThingsOfTV
  PROVE  Follows(v)'
<1>1. Follows(v) /\ SiloTyped
  BY ConnectedSteps DEF ConnectedInv, ShareInv
<1>2. /\ Shared(r) /\ silo' = silo /\ Kind[r] \in SharingKinds
      /\ Target[r] \in VThingsOfTV /\ Target[r] \in VThings /\ v \in VThings
      /\ r \in Requests /\ r \in Actors /\ r \notin Handlers /\ TypeInv
      /\ \A q \in Sharing : q \in Actors
  BY ShareFacts DEF ShareStep, ends, Inv
<1>3. \A q \in Sharing : q # r => pc'[q] = pc[q]
  BY <1>2, ShareFacts DEF ShareStep, DidShare, Moved
<1>4. ASSUME NEW kind, NEW l, v # Target[r] \/ Kind[r] # kind \/ (pc[r] # l /\ pc'[r] # l)
      PROVE  At(kind, l, v)' <=> At(kind, l, v)
  BY <1>3, <1>4 DEF At
<1>5. ASSUME ~DidTellSilo(r), ~DidRecord(r)
      PROVE  Follows(v)'
  <2>1. /\ UNCHANGED <<toSilo, silo, db>>
        /\ pc[r] \in {"new", "getTV", "getVThing", "check"} \/ Kind[r] \in EndpointKinds
        /\ \/ pc'[r] \in {"getTV", "getVThing", "check", "tell", "failed"}
           \/ Kind[r] \in EndpointKinds
           \/ Kind[r] = "detach" /\ pc'[r] = "record" /\ pc[r] = "check"
    <3>1. CASE DidEnter(r)
      BY <1>2, <3>1 DEF DidEnter, KeptToSilo, Moved, FirstOf
    <3>2. CASE DidGetRunning(r)
      BY <1>2, <3>2 DEF DidGetRunning, KeptToSilo
    <3>3. CASE DidGetVThing(r)
      BY <1>2, <3>3 DEF DidGetVThing, KeptToSilo, Moved, Ended
    <3>4. CASE DidCheck(r)
      BY <1>2, <3>4 DEF DidCheck, KeptToSilo, Moved, Ended
    <3>5. CASE DidTellProgram(r)
      BY <1>2, <3>5 DEF DidTellProgram, KeptToSilo
    <3>6. QED
      BY <1>2, <1>5, <3>1, <3>2, <3>3, <3>4, <3>5 DEF Shared
  <2>2. Attached' = Attached
    BY <2>1 DEF Attached
  <2>3. At("attach", "record", v)' <=> At("attach", "record", v)
    BY <1>4, <2>1 DEF EndpointKinds
  <2>4. At("detach", "tell", v)' <=> At("detach", "tell", v)
    <3>1. Kind[r] # "detach" \/ (pc[r] # "tell" /\ pc'[r] # "tell")
      <4>1. pc[r] = "getVThing" => Kind[r] # "detach"
        BY <1>2, WhoShares
      <4>2. Kind[r] = "detach" => pc'[r] # "tell"
        BY <1>2, <1>5, <4>1 DEF Shared, DidEnter, DidGetRunning, DidGetVThing, DidCheck,
           DidTellProgram, Moved, Ended, FirstOf, EndpointKinds
      <4>3. QED
        BY <2>1, <4>2 DEF EndpointKinds
    <3>2. QED
      BY <1>4, <3>1
  <2>5. QED
    BY <1>1, <2>1, <2>2, <2>3, <2>4 DEF Follows, Connects, Disconnects
<1>6. CASE DidTellSilo(r)
  <2>1. Attached' = Attached
    BY <1>6 DEF DidTellSilo, Attached
  <2>2. CASE Kind[r] = "attach"
    <3>1. toSilo' = Append(toSilo, SiloMsg("addVThing", Target[r])) /\ pc'[r] = "record"
      BY <1>2, <1>6, <2>2 DEF DidTellSilo, Moved, Ended
    <3>2. /\ Connects(Target[r])'
          /\ Connects(v) => Connects(v)'
          /\ v # Target[r] => (Disconnects(v) => Disconnects(v)')
      BY <1>1, <1>2, <3>1, SiloTold
    <3>3. At("detach", "tell", v)' <=> At("detach", "tell", v)
      BY <1>4, <2>2
    <3>4. v # Target[r] => (At("attach", "record", v)' <=> At("attach", "record", v))
      BY <1>4
    <3>5. v = Target[r] => At("attach", "record", v)'
      BY <2>2, <3>1 DEF At
    <3>6. QED
      BY <1>1, <2>1, <3>2, <3>3, <3>4, <3>5 DEF Follows
  <2>3. CASE Kind[r] = "detach"
    <3>1. toSilo' = Append(toSilo, SiloMsg("deleteVThing", Target[r])) /\ pc[r] = "tell"
      BY <1>2, <1>6, <2>3 DEF DidTellSilo, Moved, Ended
    <3>2. /\ Disconnects(Target[r])'
          /\ Disconnects(v) => Disconnects(v)'
          /\ v # Target[r] => (Connects(v) => Connects(v)')
      BY <1>1, <1>2, <3>1, SiloTold
    <3>3. At("attach", "record", v)' <=> At("attach", "record", v)
      BY <1>4, <2>3
    <3>4. v # Target[r] => (At("detach", "tell", v)' <=> At("detach", "tell", v))
      BY <1>4
    <3>5. At("detach", "tell", Target[r])
      BY <2>3, <3>1 DEF At
    <3>6. ~At("attach", "record", v)
      <4>1. r \in Busy({"detach"})
        BY <2>3, <3>1 DEF Busy
      <4>2. Busy({"attach"}) = {}
        BY <4>1, ConnectedSteps
      <4>3. QED
        BY <4>2 DEF At, Busy
    <3>7. At("detach", "tell", v)' => At("detach", "tell", v)
      <4>1. pc'[r] = "ok"
        BY <1>2, <1>6, <2>3 DEF DidTellSilo, Moved, Ended
      <4>2. QED
        BY <1>3, <4>1 DEF At
    <3>8. QED
      BY <1>1, <2>1, <3>2, <3>3, <3>4, <3>5, <3>6, <3>7 DEF Follows
  <2>4. QED
    BY <1>6, <2>2, <2>3 DEF DidTellSilo
<1>7. CASE DidRecord(r)
  <2>1. UNCHANGED <<toSilo, silo>> /\ pc[r] = "record"
    BY <1>2, <1>7 DEF DidRecord, KeptToSilo
  <2>2. (Connects(v)' <=> Connects(v)) /\ (Disconnects(v)' <=> Disconnects(v))
    BY <2>1 DEF Connects, Disconnects
  <2>3. /\ ShareWrites(r)
        /\ pc'[r] = IF Kind[r] = "detach" THEN "tell" ELSE "ok"
    <3>1. "submit" \notin faults'
      BY ConnectedSteps
    <3>2. QED
      BY <1>2, <1>7, <3>1 DEF DidRecord, Submitted, Moved, Ended
  <2>4. CASE Kind[r] = "attach"
    <3>1. Attached' = Attached \cup {Target[r]}
      BY <2>3, <2>4 DEF ShareWrites
    <3>2. At("attach", "record", Target[r])
      BY <2>1, <2>4 DEF At
    <3>3. At("detach", "tell", v)' <=> At("detach", "tell", v)
      BY <1>4, <2>4
    <3>4. v # Target[r] => (At("attach", "record", v)' <=> At("attach", "record", v))
      BY <1>4
    <3>5. At("attach", "record", v)' => At("attach", "record", v)
      BY <1>3, <2>3, <2>4 DEF At
    <3>6. ~At("detach", "tell", v)
      <4>1. r \in Busy({"attach"})
        BY <2>1, <2>4 DEF Busy
      <4>2. Busy({"detach"}) = {}
        BY <4>1, ConnectedSteps
      <4>3. QED
        BY <4>2 DEF At, Busy
    <3>7. QED
      BY <1>1, <2>2, <3>1, <3>2, <3>3, <3>4, <3>5, <3>6 DEF Follows
  <2>5. CASE Kind[r] = "detach"
    <3>1. Attached' = Attached \ {Target[r]}
      BY <2>3, <2>5 DEF ShareWrites
    <3>2. At("detach", "tell", Target[r])'
      BY <2>3, <2>5 DEF At
    <3>3. At("attach", "record", v)' <=> At("attach", "record", v)
      BY <1>4, <2>5
    <3>4. v # Target[r] => (At("detach", "tell", v)' <=> At("detach", "tell", v))
      BY <1>4
    <3>5. ~At("attach", "record", v)
      <4>1. r \in Busy({"detach"})
        BY <2>1, <2>5 DEF Busy
      <4>2. Busy({"attach"}) = {}
        BY <4>1, ConnectedSteps
      <4>3. QED
        BY <4>2 DEF At, Busy
    <3>6. QED
      BY <1>1, <2>2, <3>1, <3>2, <3>3, <3>4, <3>5 DEF Follows
  <2>6. CASE Kind[r] \in EndpointKinds
    <3>1. Attached' = Attached
      BY <2>3, <2>6 DEF ShareWrites, EndpointKinds
    <3>2. /\ At("attach", "record", v)' <=> At("attach", "record", v)
          /\ At("detach", "tell", v)' <=> At("detach", "tell", v)
      BY <1>4, <2>6 DEF EndpointKinds
    <3>3. QED
      BY <1>1, <2>2, <3>1, <3>2 DEF Follows
  <2>7. QED
    BY <1>2, <2>4, <2>5, <2>6 DEF SharingKinds, EndpointKinds
<1>8. QED
  BY <1>5, <1>6, <1>7

TellsLast == \A c, v : Told(v, c) <=> LastOf(toSilo, About(v), {SiloMsg(c, v)})

\* That the last message about a vThing is a certain one, in any state.
LEMMA TellsItLast == SiloTyped => TellsLast
BY ToldLast DEF SiloTyped, TellsLast

\* In a step of the life cycle nobody moves who is about a vThing.
LEMMA SharersAt ==
  ASSUME LifeOn \/ SiloStep, TypeInv
  PROVE  /\ \A r \in Sharing : pc'[r] = pc[r]
         /\ \A kind, l, v : At(kind, l, v)' <=> At(kind, l, v)
<1>1. \A r \in Sharing : pc'[r] = pc[r]
  BY ShareFacts, SharersStay DEF LifeOn, SiloStep, Still
<1>2. QED
  BY <1>1 DEF At

\* Whoever is at such a place is busy.
LEMMA WhoIsBusy ==
  ASSUME NEW kind, NEW l \in {"getVThing", "check", "tell", "record"}, NEW v, At(kind, l, v)
  PROVE  Busy({kind}) # {}
BY DEF At, Busy

\* The life cycle keeps that the silo follows: a vThing that is attached is not
\* withdrawn, and none is being attached while one is withdrawn.
LEMMA LifeFollows ==
  ASSUME Inv, ShareInv, ConnectedInv, Stepped, ShareInv', Without(ConnectCauses)',
         LifeOn, NEW v \in VThingsOfTV
  PROVE  Follows(v)'
<1>1. /\ Follows(v) /\ SiloTyped /\ TypeInv
      /\ Busy({"attach"}) # {} => ~(Deletes > 0)
      /\ \A u \in Attached' : ~Told(u, "deleteVThing")'
  BY ConnectedSteps DEF ConnectedInv, ShareInv, Inv
<1>2. PICK vs \in SUBSET VThingsOfTV :
        /\ toSilo' = toSilo \o Withdraw(vs) /\ silo' = silo
        /\ vs # {} => Deletes > 0
  BY DEF LifeOn, LifeOfSilo
<1>3. Attached' = Attached
  BY LifeKeepsVThings DEF LifeOn
<1>4. \A kind, l : At(kind, l, v)' <=> At(kind, l, v)
  BY <1>1, SharersAt
<1>5. /\ Disconnects(v) => Disconnects(v)'
      /\ v \notin vs /\ Connects(v) => Connects(v)'
      /\ Connects(v) => \/ Connects(v)'
                        \/ LastOf(toSilo', About(v), {SiloMsg("deleteVThing", v)})
  BY <1>1, <1>2, SiloWithdraws
<1>6. TellsLast'
  BY TellsItLast, PTL DEF ShareInv
<1>7. Told(v, "deleteVThing")' <=> LastOf(toSilo', About(v), {SiloMsg("deleteVThing", v)})
  BY <1>6 DEF TellsLast
<1>8. v \in Attached => Connects(v)'
  BY <1>1, <1>3, <1>5, <1>7 DEF Follows
<1>9. At("attach", "record", v) => Connects(v)'
  <2>1. At("attach", "record", v) => v \notin vs
    BY <1>1, <1>2, WhoIsBusy
  <2>2. QED
    BY <1>1, <1>5, <2>1 DEF Follows
<1>10. QED
  BY <1>1, <1>3, <1>4, <1>5, <1>8, <1>9 DEF Follows

\* So does the silo: it takes what it is sent, and no change is under way when
\* it is restored.
LEMMA SiloFollows ==
  ASSUME Inv, ShareInv, ConnectedInv, Stepped, ShareInv', Without(ConnectCauses)',
         SiloStep, NEW v \in VThingsOfTV
  PROVE  Follows(v)'
<1>1. /\ Follows(v) /\ SiloTyped /\ TypeInv
      /\ "addVThing" \notin lost' /\ "deleteVThing" \notin lost'
      /\ "changeDuringRestore" \notin races'
  BY ConnectedSteps DEF ConnectedInv, ShareInv, Inv
<1>2. Attached' = Attached
  BY DEF SiloStep, Attached
<1>3. \A kind, l : At(kind, l, v)' <=> At(kind, l, v)
  BY <1>1, SharersAt
<1>4. CASE SiloReceives
  <2>1. (Connects(v) => Connects(v)') /\ (Disconnects(v) => Disconnects(v)')
    BY <1>1, <1>4, SiloTakes
  <2>2. QED
    BY <1>1, <1>2, <1>3, <2>1 DEF Follows
<1>5. ~LoseToSilo
  BY <1>1, SiloLoses
<1>6. CASE SiloRestarts /\ (Busy({"attach", "detach"}) # {} => "changeDuringRestore" \in races')
  <2>1. Busy({"attach", "detach"}) = {}
    BY <1>1, <1>6
  <2>2. ~At("attach", "record", v) /\ ~At("detach", "tell", v)
    BY <2>1 DEF At, Busy
  <2>3. toSilo' = <<>> /\ silo' = [data |-> Attached, control |-> Attached]
    BY <1>6 DEF SiloRestarts
  <2>4. NoneOf(toSilo', About(v)) /\ silo'.data = Attached
    BY <2>3, EmptySeq DEF NoneOf
  <2>5. QED
    BY <1>2, <1>3, <2>2, <2>4 DEF Follows, Connects, Disconnects
<1>7. QED
  BY <1>4, <1>5, <1>6 DEF SiloStep

\* So does a restart of the controller that interrupts no change.
LEMMA RestartFollows ==
  ASSUME Inv, ShareInv, ConnectedInv, Stepped, ShareInv', Without(ConnectCauses)',
         RestartStep, NEW v \in VThingsOfTV
  PROVE  Follows(v)'
<1>1. Follows(v) /\ "changeInterrupted" \notin races'
  BY ConnectedSteps DEF ConnectedInv
<1>2. Busy(SharingKinds) = {}
  BY <1>1 DEF RestartStep
<1>3. ~At("attach", "record", v) /\ ~At("detach", "tell", v)
  BY <1>2 DEF At, Busy, SharingKinds
<1>4. ~At("attach", "record", v)' /\ ~At("detach", "tell", v)'
  BY ShareFacts DEF At, RestartStep, DidRestart, AtRest, Ended
<1>5. UNCHANGED <<toSilo, silo>> /\ Attached' = Attached
  BY LifeKeepsVThings DEF RestartStep, ends
<1>6. QED
  BY <1>1, <1>3, <1>4, <1>5 DEF Follows, Connects, Disconnects

\* Every step keeps that the silo follows.
LEMMA ConnectedStep ==
  Inv /\ ShareInv /\ ConnectedInv /\ Stepped /\ SharingStep /\ ShareInv' => ConnectedInv'
<1> SUFFICES ASSUME Inv, ShareInv, ConnectedInv, Stepped, SharingStep, ShareInv',
                    Without(ConnectCauses)'
             PROVE  (\A v \in VThingsOfTV : Follows(v))'
  BY DEF ConnectedInv
<1>1. \A v \in VThingsOfTV : Follows(v)'
  BY SharerFollows, LifeFollows, SiloFollows, RestartFollows DEF SharingStep
<1>2. VThingsOfTV' = VThingsOfTV
  BY DEF VThingsOfTV
<1>3. QED
  BY <1>1, <1>2

\* Nothing is attached at first, and the silo is connected to nothing.
LEMMA InitConnected == SharingInit => ConnectedInv
<1> SUFFICES ASSUME SharingInit, NEW v \in VThingsOfTV PROVE Follows(v)
  BY DEF ConnectedInv
<1>1. /\ Init /\ silo = [data |-> {}, control |-> {}] /\ toSilo = <<>>
  BY DEF SharingInit
<1>2. \A r \in Sharing : pc[r] = "new"
  BY <1>1, AtFirst DEF Sharing
<1>3. NoneOf(toSilo, About(v)) /\ v \notin silo.data
  BY <1>1, EmptySeq DEF NoneOf
<1>4. v \notin Attached
  <2>1. VThingVSiloKey(vSilo, v) \in Keys
    BY ShareFacts, KeyTypes
  <2>2. db = [k \in Keys |-> Nil]
    BY <1>1 DEF Init, InitWith
  <2>3. QED
    BY <2>1, <2>2 DEF Attached
<1>5. QED
  BY <1>2, <1>3, <1>4 DEF Follows, At, Disconnects

\* The silo is connected to what the ledger has attached to it, once both have
\* settled: vsilo.ts tells the silo before it records an attachment, and after
\* it has recorded a detachment.  Not so if a change met a delete, another
\* change or the restore of the silo, a vThing was withdrawn with its
\* ThingVisor, or a message, a transaction or the controller failed in between.
THEOREM SiloFollowsLedger == SharingSpec => []ConnectedUnlessWithdrawn
<1>1. /\ SharingInit => Inv /\ ShareInv /\ ConnectedInv
      /\ Inv /\ ShareInv /\ ConnectedInv /\ [SharingNext]_sharingVars =>
           (Inv /\ ShareInv /\ ConnectedInv)'
  BY InitShare, InitConnected, SharingGoesOn, ConnectedStep DEF Stepped
<1>2. Inv /\ ShareInv /\ ConnectedInv => ConnectedUnlessWithdrawn
  <2> SUFFICES ASSUME Inv, ShareInv, ConnectedInv, AllSettled, Without(ConnectCauses)
               PROVE  silo.data = Attached
    BY DEF ConnectedUnlessWithdrawn, ConnectCauses
  <2>1. TypeInv /\ Settled /\ toSilo = <<>>
    BY DEF Inv, AllSettled
  <2>2. \A r \in Sharing : pc[r] \notin {"record", "tell"}
    BY <2>1, NothingLeft, ShareFacts DEF Ended
  <2>3. \A v : NoneOf(toSilo, About(v)) /\ ~LastOf(toSilo, About(v), {SiloMsg("addVThing", v)})
                 /\ ~LastOf(toSilo, About(v), {SiloMsg("deleteVThing", v)})
    BY <2>1, EmptySeq DEF NoneOf, LastOf
  <2>4. \A v \in VThingsOfTV : v \in Attached <=> v \in silo.data
    BY <2>2, <2>3 DEF ConnectedInv, Follows, At, Connects, Disconnects
  <2>5. Attached \subseteq VThingsOfTV /\ silo.data \subseteq VThingsOfTV
    BY DEF ShareInv, SiloTyped
  <2>6. QED
    BY <2>4, <2>5
<1>3. QED
  BY <1>1, <1>2, PTL DEF SharingSpec

-------------------------------------------------------------------------------
(***************************************************************************)
(* Once the record of a ThingVisor is gone the silo will not be connected  *)
(* to its vThings: whoever takes the record away has withdrawn them, or,   *)
(* in debug mode, has told the program to.  A vThing nobody has registered *)
(* has not been attached, and none is attached while the ThingVisor is     *)
(* being deleted.                                                          *)
(***************************************************************************)
OfferCauses == {"attachDuringDelete", "attachAfterDelete", "siloPod", "deleteVThing"}

Reliable == Without(OfferCauses) /\ (DebugMode => Without({"destroyTV"}))

AllGone == \A v \in VThingsOfTV : Disconnects(v)

DebugDropping == \E r \in Requests : pc[r] = "debugDrop"

\* The record is gone or about to go, and the program may still have to hear it.
GoneTold == Rec = Nil \/ DebugDropping => AllGone \/ (DebugMode /\ CommandSent)

\* The callback deletes after the program has withdrawn its vThings.
AckTold == (\E h \in Handlers : pc[h] \in {"get", "drop"}) \/ Acknowledged => AllGone

\* A forced delete will withdraw those it has read; there were no others.
ForcedTold ==
  \A r \in Own : Kind[r] = "force" /\ pc[r] = "drop" =>
    \A v \in VThingsOfTV : v \in listed[r] \/ Disconnects(v)

OnlyRegistered == \A v \in VThingsOfTV : v \notin Registered => Disconnects(v)

AttachesRegistered ==
  \A r \in Sharing : Kind[r] = "attach" /\ pc[r] \in {"check", "tell", "record"} =>
    Target[r] \in Registered

OfferedInv ==
  Reliable => GoneTold /\ AckTold /\ ForcedTold /\ OnlyRegistered /\ AttachesRegistered

AllStay == \A v \in VThingsOfTV : Disconnects(v) => Disconnects(v)'

\* How a callback comes to delete.
LEMMA GetMoves ==
  ASSUME TypeInv, Happened, NEW h \in Handlers, pc'[h] = "get"
  PROVE  pc[h] = "get" \/ Acknowledged
<1>1. Still(h) => pc[h] = "get"
  BY DEF Still
<1>2. ~CallerDid(h)
  BY ActorFacts
  DEF CallerDid, DidGet, DidDrop, DidDeleteOnKubernetes, DidForget, AfterGet, Moved, Ended,
      Submitted
<1>3. ~HandlerDid(h) /\ ~DidRestart
  BY ActorFacts DEF HandlerDid, DidPoll, DidRegister, DidPublishInit, DidRestart, Moved, Ended, Submitted
<1>4. h \notin Requests /\ h \in Actors /\ \A r \in Queued : h # Job(r)
  BY ActorFacts
<1>5. ASSUME DidReceive
      PROVE  pc[h] = "get" \/ Acknowledged
  <2>1. CASE Head(toCtl) = "destroyTVAck"
    BY <1>5, <2>1, QueueSteps DEF DidReceive, Acknowledged
  <2>2. CASE Head(toCtl) # "destroyTVAck"
    <3>1. FirstStep(Head(toCtl)) \in {"poll", "pollInit"}
      BY <1>5, <2>2 DEF DidReceive, Reports, FirstStep
    <3>2. QED
      BY <1>4, <1>5, <3>1, MovedStill, ActorFacts DEF DidReceive, KeptPlaces, Moved, Ended, Still
  <2>3. QED
    BY <2>1, <2>2
<1>6. QED
  BY <1>1, <1>2, <1>3, <1>4, <1>5, Moves

\* How a delete comes to drop the record itself: in debug mode, when it has told
\* the program.
LEMMA DebugMoves ==
  ASSUME TypeInv, TypeInv', Happened, session' = session,
         NEW r \in Requests, pc'[r] = "debugDrop"
  PROVE  pc[r] = "debugDrop" \/ (DebugMode /\ CommandSent')
<1>1. DebugMode
  BY DEF TypeInv, Places, RequestsPlaced, DebugMode
<1>2. r \in Actors /\ r \notin Handlers /\ \A q \in Queued : r # Job(q)
  BY ActorFacts
<1>3. Still(r) => pc[r] = "debugDrop"
  BY DEF Still
<1>4. ~CallerDid(r) /\ ~DidRestart
  BY <1>2 DEF CallerDid, DidGet, DidDrop, DidDeleteOnKubernetes, DidForget, AfterGet, Moved,
     Ended, Submitted, DidRestart, AtRest, Caller
<1>5. RequestDid(r) => DidPublish(r)
  BY <1>2 DEF RequestDid, DidAccept, DidCreate, DidEnqueue, DidStop, DidDebugDrop,
     DidShare, Moved, Ended, Submitted
<1>6. ASSUME DidPublish(r)
      PROVE  CommandSent'
  <2>1. Kind[r] = "delete"
    BY <1>2, <1>6 DEF DidPublish, Moved, Ended
  <2>2. /\ Message(r).cmd = "destroyTV" /\ Message(r) \in Commands
        /\ toPod' = Append(toPod, Message(r))
    BY <1>6, <2>1, MessageFields DEF DidPublish
  <2>3. Message(r) \in Elems(toPod')
    BY <2>2, QueueSteps
  <2>4. QED
    BY <2>2, <2>3 DEF CommandSent
<1>7. QED
  BY <1>1, <1>2, <1>3, <1>4, <1>5, <1>6, Moves

\* What has not been in the way of those who take a vThing away.
LEMMA OfferSteps ==
  ASSUME Inv, ShareInv, Stepped, ShareInv', Reliable'
  PROVE  /\ Reliable /\ TypeInv /\ TypeInv' /\ Happened /\ SiloTyped
         /\ session' = session /\ DebugMode' = DebugMode
         /\ Attaching => ~DebugDropping /\ ~Deleting /\ ~(Deletes > 0)
         /\ Busy({"attach"}) # {} => Rec # Nil
         /\ "siloPod" \notin faults' /\ "deleteVThing" \notin lost'
         /\ DebugMode => "destroyTV" \notin lost'
<1>0. session' = session /\ DebugMode' = DebugMode
  BY DEF Stepped, Recorded, DebugMode
<1>1. Reliable
  BY <1>0, WithoutBefore DEF Stepped, Recorded, Reliable
<1>2. /\ Attaching => ~DebugDropping /\ ~(Deletes > 0)
      /\ Busy({"attach"}) # {} => Rec # Nil
  BY <1>1 DEF Reliable, Without, OfferCauses, ShareInv, SharingSeen, SharingWindows, Labelled,
     Withdrawing, DebugDropping
<1>3. TypeInv /\ TypeInv' /\ Happened /\ SiloTyped
  BY DEF Inv, Stepped, ShareInv
<1>4. Attaching => ~Deleting
  BY <1>2, <1>3, DeletingCounts
<1>5. QED
  BY <1>0, <1>1, <1>2, <1>3, <1>4 DEF Reliable, Without, OfferCauses

\* A step of a request about a vThing keeps this: an attachment that is told is
\* of a vThing that is registered, and nobody is deleting.
LEMMA SharerOffers ==
  ASSUME Inv, ShareInv, OfferedInv, Stepped, ShareInv', Reliable',
         NEW r \in Sharing, ShareStep(r)
  PROVE  (GoneTold /\ AckTold /\ ForcedTold /\ OnlyRegistered /\ AttachesRegistered)'
<1>1. /\ GoneTold /\ AckTold /\ ForcedTold /\ OnlyRegistered /\ AttachesRegistered
      /\ TypeInv /\ SiloTyped /\ VThingsOfTV' = VThingsOfTV /\ DebugMode' = DebugMode
  BY OfferSteps DEF OfferedInv, VThingsOfTV
<1>2. /\ Shared(r) /\ UNCHANGED <<silo, listed, toCtl>> /\ Rec' = Rec
      /\ Registered \subseteq Registered'
      /\ \/ toPod' = toPod
         \/ \E m \in Commands : m.cmd = "endpoint" /\ toPod' = Append(toPod, m)
      /\ \E l, what : Moved(r, l, what)
      /\ r \in Actors /\ r \notin Handlers /\ r \notin Own
      /\ pc'[r] \in {"getTV", "getVThing", "check", "tell", "record", "ok", "failed"}
      /\ \A h \in Handlers : h \in Actors
      /\ \A q \in Requests : q \in Actors
      /\ Target[r] \in VThingsOfTV
  BY ShareFacts, ActorFacts DEF ShareStep, DidShare, ends, Moved, Ended
<1>3. \A b \in Actors : b # r => pc'[b] = pc[b]
  BY <1>2 DEF Moved
<1>4. /\ Acknowledged' = Acknowledged /\ (CommandSent => CommandSent')
      /\ DebugDropping' => DebugDropping
      /\ (\E h \in Handlers : pc[h] \in {"get", "drop"})' =>
           \E h \in Handlers : pc[h] \in {"get", "drop"}
  <2>1. CommandSent => CommandSent'
    BY <1>1, <1>2, QueueSteps DEF CommandSent
  <2>2. DebugDropping' => DebugDropping
    BY <1>2, <1>3 DEF DebugDropping
  <2>3. \A h \in Handlers : pc'[h] = pc[h]
    BY <1>2, <1>3
  <2>4. QED
    BY <1>2, <2>1, <2>2, <2>3 DEF Acknowledged
<1>5. AttachesRegistered'
  <2> SUFFICES ASSUME NEW q \in Sharing, Kind[q] = "attach",
                      pc'[q] \in {"check", "tell", "record"}
               PROVE  Target[q] \in Registered
    BY <1>2 DEF AttachesRegistered
  <2>1. CASE q # r
    BY <1>1, <1>3, <2>1, ShareFacts DEF AttachesRegistered
  <2>2. CASE q = r
    <3>1. DidGetVThing(r) \/ DidCheck(r) \/ DidTellSilo(r)
      BY <1>2, <2>2 DEF Shared, DidEnter, DidGetRunning, DidTellProgram, DidRecord, Moved, Ended,
         FirstOf, Submitted, EndpointKinds
    <3>2. CASE DidGetVThing(r)
      BY <2>2, <3>2 DEF DidGetVThing, Moved, Ended
    <3>3. CASE DidCheck(r) \/ DidTellSilo(r)
      BY <1>1, <2>2, <3>3 DEF DidCheck, DidTellSilo, AttachesRegistered
    <3>4. QED
      BY <3>1, <3>2, <3>3
  <2>3. QED
    BY <2>1, <2>2
<1>6. CASE AllStay
  <2>1. AllGone => AllGone'
    BY <1>1, <1>6 DEF AllGone, AllStay
  <2>2. GoneTold' /\ AckTold'
    BY <1>1, <1>2, <1>4, <2>1 DEF GoneTold, AckTold
  <2>3. ForcedTold'
    <3>1. \A q \in Own : pc'[q] = pc[q]
      BY <1>2, <1>3, ActorFacts DEF Own
    <3>2. QED
      BY <1>1, <1>2, <1>6, <3>1 DEF ForcedTold, AllStay
  <2>4. OnlyRegistered'
    BY <1>1, <1>2, <1>6 DEF OnlyRegistered, AllStay
  <2>5. QED
    BY <1>5, <2>2, <2>3, <2>4
<1>7. CASE DidTellSilo(r) /\ Kind[r] = "attach"
  <2>1. /\ toSilo' = Append(toSilo, SiloMsg("addVThing", Target[r])) /\ pc[r] = "tell"
    BY <1>7 DEF DidTellSilo
  <2>2. r \in Busy({"attach"})
    BY <1>7, <2>1 DEF Busy
  <2>3. ~DebugDropping /\ ~Deleting /\ Rec # Nil
    BY <2>2, OfferSteps DEF Attaching
  <2>4. GoneTold'
    BY <1>2, <1>4, <2>3 DEF GoneTold
  <2>5. /\ ~Acknowledged /\ ~\E h \in Handlers : pc[h] \in {"get", "drop"}
        /\ \A q \in Own : pc[q] # "drop"
    BY <2>3, ActorFacts DEF Deleting, Own
  <2>6. AckTold' /\ ForcedTold'
    <3>1. \A q \in Own : pc'[q] # "drop"
      BY <1>2, <1>3, <2>5 DEF Own
    <3>2. QED
      BY <1>4, <2>5, <3>1 DEF AckTold, ForcedTold
  <2>7. OnlyRegistered'
    <3>1. Target[r] \in Registered
      BY <1>1, <1>7, <2>1 DEF AttachesRegistered
    <3>2. \A v \in VThingsOfTV : v # Target[r] => (Disconnects(v) => Disconnects(v)')
      BY <1>1, <1>2, <2>1, SiloTold
    <3>3. QED
      BY <1>1, <1>2, <3>1, <3>2 DEF OnlyRegistered
  <2>8. QED
    BY <1>5, <2>4, <2>6, <2>7
<1>8. AllStay \/ (DidTellSilo(r) /\ Kind[r] = "attach")
  <2>1. CASE ~DidTellSilo(r)
    <3>1. UNCHANGED <<toSilo, silo>>
      BY <1>2, <2>1 DEF Shared, DidEnter, DidGetRunning, DidGetVThing, DidCheck,
         DidTellProgram, DidRecord, KeptToSilo
    <3>2. QED
      BY <3>1 DEF AllStay, Disconnects
  <2>2. CASE DidTellSilo(r) /\ Kind[r] # "attach"
    <3>1. toSilo' = Append(toSilo, SiloMsg("deleteVThing", Target[r]))
      BY <2>2 DEF DidTellSilo
    <3>2. QED
      BY <1>1, <1>2, <3>1, SiloTold DEF AllStay
  <2>3. QED
    BY <2>1, <2>2
<1>9. QED
  BY <1>6, <1>7, <1>8

\* A step of the life cycle keeps it: the record goes with a delete that has
\* had the vThings withdrawn, or withdraws them now.
LEMMA LifeOffers ==
  ASSUME Inv, ShareInv, OfferedInv, Stepped, ShareInv', Reliable', LifeOn
  PROVE  (GoneTold /\ AckTold /\ ForcedTold /\ OnlyRegistered /\ AttachesRegistered)'
<1>1. /\ GoneTold /\ AckTold /\ ForcedTold /\ OnlyRegistered /\ AttachesRegistered
      /\ TypeInv /\ TypeInv' /\ SiloTyped /\ Happened /\ VThingsOfTV' = VThingsOfTV
      /\ session' = session /\ DebugMode' = DebugMode
  BY OfferSteps DEF OfferedInv, VThingsOfTV
<1>2. PICK vs \in SUBSET VThingsOfTV :
        /\ toSilo' = toSilo \o Withdraw(vs) /\ silo' = silo
        /\ vs # {} => Deletes > 0
        /\ \A r \in Own :
             Kind[r] = "force" /\ pc[r] = "drop" /\ pc'[r] # "drop" => listed[r] \subseteq vs
        /\ Acknowledged' => Acknowledged \/ vs = VThingsOfTV
        /\ CommandSent /\ ~CommandSent' => vs = VThingsOfTV \/ "destroyTV" \in lost'
  BY DEF LifeOn, LifeOfSilo
<1>3. listed' = [r \in Own |-> IF pc[r] = "get" /\ pc'[r] = "drop" THEN Registered ELSE listed[r]]
  BY DEF LifeOn, LifeOfSilo
<1>4. AllStay /\ \A v \in vs : Disconnects(v)'
  <2>1. ASSUME NEW v \in vs
        PROVE  ~Adding(v)
    <3>1. ~Attaching
      BY <1>2, <2>1, OfferSteps
    <3>2. \A i \in 1..Len(toSilo) : toSilo[i].cmd # "addVThing"
      BY <3>1 DEF Attaching
    <3>3. QED
      BY <3>2, SiloMsgFields DEF Adding, Elems
  <2>2. QED
    BY <1>1, <1>2, <2>1, SiloWithdraws DEF AllStay
<1>5. (AllGone => AllGone') /\ (vs = VThingsOfTV => AllGone')
  BY <1>1, <1>4 DEF AllGone, AllStay
<1>6. Registered \subseteq Registered'
  BY <1>1, RegisteredStays
<1>7. GoneTold'
  <2>1. Rec = Nil \/ DebugDropping => AllGone' \/ (DebugMode /\ CommandSent')
    BY <1>1, <1>2, <1>5, OfferSteps DEF GoneTold
  <2>2. DebugDropping' => DebugDropping \/ (DebugMode /\ CommandSent')
    BY <1>1, DebugMoves DEF DebugDropping
  <2>3. Rec' = Nil => Rec = Nil \/ DebugDropping \/ AllGone'
    <3>1. \/ Rec' = Rec \/ Rec' # Nil
          \/ \E r \in Requests : DidDebugDrop(r)
          \/ \E a \in Actors : DidDrop(a)
      BY <1>1, RecChanges DEF Ordered, StatusOnly, Written, ParamsOnly
    <3>2. (\E r \in Requests : DidDebugDrop(r)) => DebugDropping
      BY DEF DidDebugDrop, DebugDropping
    <3>3. ASSUME NEW a \in Handlers, DidDrop(a)
          PROVE  AllGone'
      BY <1>1, <1>5, <3>3 DEF AckTold, DidDrop
    <3>4. ASSUME NEW a \in Requests, DidDrop(a), Kind[a] = "force"
          PROVE  AllGone'
      <4>1. a \in Own /\ pc[a] = "drop" /\ pc'[a] # "drop"
        BY <3>4, ActorFacts DEF Own, DidDrop, Submitted, Moved, Ended
      <4>2. \A v \in VThingsOfTV : v \in vs \/ Disconnects(v)
        BY <1>1, <1>2, <3>4, <4>1 DEF ForcedTold
      <4>3. QED
        BY <1>1, <1>4, <4>2 DEF AllGone, AllStay
    <3>5. QED
      BY <3>1, <3>2, <3>3, <3>4 DEF DidDrop, Caller
  <2>4. QED
    BY <1>1, <2>1, <2>2, <2>3 DEF GoneTold
<1>8. AckTold'
  <2>1. ASSUME NEW h \in Handlers, pc'[h] \in {"get", "drop"}
        PROVE  AllGone
    <3>1. pc'[h] = "get" => pc[h] = "get" \/ Acknowledged
      BY <1>1, GetMoves
    <3>2. pc'[h] = "drop" => pc[h] \in {"get", "drop"}
      BY <1>1, DropMoves, ActorFacts DEF Dropping, Still
    <3>3. QED
      BY <1>1, <2>1, <3>1, <3>2 DEF AckTold
  <2>2. Acknowledged' => AllGone \/ vs = VThingsOfTV
    BY <1>1, <1>2 DEF AckTold
  <2>3. QED
    BY <1>5, <2>1, <2>2 DEF AckTold
<1>9. ForcedTold'
  <2> SUFFICES ASSUME NEW r \in Own, Kind[r] = "force", pc'[r] = "drop",
                      NEW v \in VThingsOfTV
               PROVE  v \in listed'[r] \/ Disconnects(v)'
    BY <1>1 DEF ForcedTold
  <2>1. pc[r] \in {"get", "drop"}
    BY <1>1, DropMoves, ActorFacts DEF Dropping, Still, Own
  <2>2. CASE pc[r] = "get"
    <3>1. listed'[r] = Registered
      BY <1>3, <2>2
    <3>2. QED
      BY <1>1, <1>4, <3>1 DEF OnlyRegistered, AllStay
  <2>3. CASE pc[r] = "drop"
    <3>1. listed'[r] = listed[r]
      BY <1>3, <2>3
    <3>2. QED
      BY <1>1, <1>4, <2>3, <3>1 DEF ForcedTold, AllStay
  <2>4. QED
    BY <2>1, <2>2, <2>3
<1>10. OnlyRegistered'
  BY <1>1, <1>4, <1>6 DEF OnlyRegistered, AllStay
<1>11. AttachesRegistered'
  BY <1>1, <1>6, SharersAt DEF AttachesRegistered
<1>12. QED
  BY <1>7, <1>8, <1>9, <1>10, <1>11

\* The silo and a restart of the controller keep it.
LEMMA OthersOffer ==
  ASSUME Inv, ShareInv, OfferedInv, Stepped, ShareInv', Reliable', SiloStep \/ RestartStep
  PROVE  (GoneTold /\ AckTold /\ ForcedTold /\ OnlyRegistered /\ AttachesRegistered)'
<1>1. /\ GoneTold /\ AckTold /\ ForcedTold /\ OnlyRegistered /\ AttachesRegistered
      /\ TypeInv /\ SiloTyped /\ Happened /\ VThingsOfTV' = VThingsOfTV
      /\ DebugMode' = DebugMode
      /\ "siloPod" \notin faults' /\ "deleteVThing" \notin lost'
  BY OfferSteps DEF OfferedInv, VThingsOfTV
<1>2. CASE SiloStep
  <2>1. AllStay
    <3>1. CASE SiloReceives
      BY <1>1, <3>1, SiloTakes DEF AllStay
    <3>2. CASE LoseToSilo
      BY <1>1, <3>2, SiloLoses DEF AllStay
    <3>3. ~SiloRestarts
      BY <1>1 DEF SiloRestarts, Fault
    <3>4. QED
      BY <1>2, <3>1, <3>2, <3>3 DEF SiloStep
  <2>2. /\ UNCHANGED <<pc, toPod, toCtl, listed>>
        /\ Rec' = Rec /\ Registered' = Registered
    BY <1>2 DEF SiloStep, Rec, Registered
  <2>3. AllGone => AllGone'
    BY <1>1, <2>1 DEF AllGone, AllStay
  <2>4. GoneTold' /\ AckTold'
    BY <1>1, <2>2, <2>3 DEF GoneTold, AckTold, DebugDropping, CommandSent, Acknowledged
  <2>5. ForcedTold' /\ OnlyRegistered' /\ AttachesRegistered'
    BY <1>1, <2>1, <2>2 DEF ForcedTold, OnlyRegistered, AttachesRegistered, AllStay
  <2>6. QED
    BY <2>4, <2>5
<1>3. CASE RestartStep
  <2>1. UNCHANGED <<toSilo, silo, listed, toPod>> /\ DidRestart
    BY <1>3 DEF RestartStep, ends, DidRestart
  <2>2. \A v : Disconnects(v)' <=> Disconnects(v)
    BY <2>1 DEF Disconnects
  <2>3. Rec' = Rec /\ Registered \subseteq Registered'
    BY <1>1, <2>1, RegisteredStays DEF DidRestart, SameRec
  <2>4. /\ \A r \in Requests : pc'[r] \notin {"debugDrop", "drop", "check", "tell", "record"}
        /\ \A h \in Handlers : pc'[h] = "idle"
    BY <2>1 DEF DidRestart, AtRest, Ended
  <2>5. Acknowledged' => Acknowledged
    BY <1>1, <2>1, QueueSteps DEF DidRestart, Acknowledged
  <2>6. AllGone => AllGone'
    BY <1>1, <2>2 DEF AllGone
  <2>7. GoneTold' /\ AckTold'
    BY <1>1, <2>1, <2>3, <2>4, <2>5, <2>6 DEF GoneTold, AckTold, DebugDropping, CommandSent
  <2>8. ForcedTold' /\ AttachesRegistered'
    BY <2>4, ShareFacts DEF ForcedTold, AttachesRegistered, Own
  <2>9. OnlyRegistered'
    BY <1>1, <2>2, <2>3 DEF OnlyRegistered
  <2>10. QED
    BY <2>7, <2>8, <2>9
<1>4. QED
  BY <1>2, <1>3

\* Every step keeps that what is not offered will not be connected.
LEMMA OfferedStep ==
  Inv /\ ShareInv /\ OfferedInv /\ Stepped /\ SharingStep /\ ShareInv' => OfferedInv'
<1> SUFFICES ASSUME Inv, ShareInv, OfferedInv, Stepped, SharingStep, ShareInv', Reliable'
             PROVE  (GoneTold /\ AckTold /\ ForcedTold /\ OnlyRegistered /\ AttachesRegistered)'
  BY DEF OfferedInv
<1>1. QED
  BY SharerOffers, LifeOffers, OthersOffer DEF SharingStep

\* The silo is connected to nothing at first.
LEMMA InitOffered == SharingInit => OfferedInv
<1> SUFFICES ASSUME SharingInit
             PROVE  GoneTold /\ AckTold /\ ForcedTold /\ OnlyRegistered /\ AttachesRegistered
  BY DEF OfferedInv
<1>1. /\ Init /\ silo = [data |-> {}, control |-> {}] /\ toSilo = <<>>
  BY DEF SharingInit
<1>2. \A r \in Requests : pc[r] = "new"
  BY <1>1, AtFirst
<1>3. AllGone
  <2>1. \A v \in VThingsOfTV : NoneOf(toSilo, About(v)) /\ v \notin silo.data
    BY <1>1, EmptySeq DEF NoneOf
  <2>2. QED
    BY <2>1 DEF AllGone, Disconnects
<1>4. QED
  BY <1>2, <1>3, ShareFacts DEF AllGone, GoneTold, AckTold, ForcedTold, OnlyRegistered,
     AttachesRegistered, Own

\* Once everything has settled and the ThingVisor is not in the ledger, the silo
\* is connected to none of its vThings: thingvisor.ts withdraws those it has
\* read before a forced delete, and leaves it to the program otherwise.  Not so
\* if one was attached while the ThingVisor was deleted or after that, the silo
\* was restored from the attachments, or the message to the silo, or in debug
\* mode the command to the program, was lost.
THEOREM OfferedOnly == SharingSpec => []ConnectedMeansOffered
<1>1. /\ SharingInit => Inv /\ ShareInv /\ OfferedInv
      /\ Inv /\ ShareInv /\ OfferedInv /\ [SharingNext]_sharingVars =>
           (Inv /\ ShareInv /\ OfferedInv)'
  BY InitShare, InitOffered, SharingGoesOn, OfferedStep DEF Stepped
<1>2. Inv /\ ShareInv /\ OfferedInv => ConnectedMeansOffered
  <2> SUFFICES ASSUME Inv, ShareInv, OfferedInv, AllSettled, Rec = Nil, Reliable
               PROVE  silo.data = {}
    BY DEF ConnectedMeansOffered, Reliable, OfferCauses
  <2>1. TypeInv /\ Settled /\ toSilo = <<>>
    BY DEF Inv, AllSettled
  <2>2. ~CommandSent
    BY <2>1, NothingLeft DEF CommandSent
  <2>3. AllGone
    BY <2>2 DEF OfferedInv, GoneTold
  <2>4. \A v : ~LastOf(toSilo, About(v), {SiloMsg("deleteVThing", v)})
    BY <2>1, EmptySeq DEF LastOf
  <2>5. \A v \in VThingsOfTV : v \notin silo.data
    BY <2>3, <2>4 DEF AllGone, Disconnects
  <2>6. silo.data \subseteq VThingsOfTV
    BY DEF ShareInv, SiloTyped
  <2>7. QED
    BY <2>5, <2>6
<1>3. QED
  BY <1>1, <1>2, PTL DEF SharingSpec

-------------------------------------------------------------------------------
(***************************************************************************)
(* From the start of a program to the record of its vThing: who is waiting *)
(* for what, and how it comes and goes.                                    *)
(***************************************************************************)
Announcing ==
  \/ "createVThing" \in Elems(toCtl) \/ "requestInit" \in Elems(toCtl)
  \/ \E h \in Handlers : pc[h] \in {"poll", "pollInit"}

Awaited == \/ InitAsked \/ Announcing
           \/ \E h \in Handlers : pc[h] \in {"register", "init"}

\* Only a program that asks first is asked for.
RequestsAsked ==
  \/ InitAsked \/ "requestInit" \in Elems(toCtl)
  \/ \E h \in Handlers : pc[h] \in {"pollInit", "init"}
  => RequestsInit

NotLost == {"createVThing", "createVThings", "requestInit"} \cap lost' = {}

\* The window of a registration, said with what is queued.
LEMMA DueIs == Due <=> Awaited
BY DEF Due, Awaited, Announcing, InitAsked, Elems

\* Who may have put what is queued there.
LEMMA QueueOrigins ==
  ASSUME TypeInv, DidStep
  PROVE  /\ InitAsked' => InitAsked \/ \E h \in Handlers : pc[h] = "init"
         /\ "createVThing" \in Elems(toCtl') =>
              "createVThing" \in Elems(toCtl) \/ InitAsked \/ DidPodStarts
         /\ "requestInit" \in Elems(toCtl') =>
              "requestInit" \in Elems(toCtl) \/ (DidPodStarts /\ RequestsInit)
<1> USE DEF KeptAll, KeptNet
<1>1. CASE DidLogin \/ DidPod
  BY <1>1 DEF DidLogin, DidPod, InitAsked
<1>2. CASE DidReceive
  BY <1>2, QueueSteps DEF DidReceive, InitAsked
<1>3. CASE DidPodsReceive
  <2>1. PICK acks \in Seq(Reports) :
          /\ toCtl' = toCtl \o acks /\ "requestInit" \notin Elems(acks)
          /\ "createVThing" \in Elems(acks) => Head(toPod).cmd = "createVThings"
    BY <1>3 DEF DidPodsReceive
  <2>2. /\ Elems(toPod) = {Head(toPod)} \cup Elems(toPod')
        /\ Elems(toCtl') = Elems(toCtl) \cup Elems(acks)
    BY <1>3, <2>1, QueueSteps DEF DidPodsReceive
  <2>3. QED
    BY <2>1, <2>2 DEF InitAsked
<1>4. CASE DidPodStarts
  BY <1>4, QueueSteps DEF DidPodStarts, InitAsked, Reports
<1>5. CASE DidLose
  BY <1>5, QueueSteps DEF DidLose, InitAsked
<1>6. ASSUME NEW r \in Requests,
             \/ DidAccept(r) \/ DidCreate(r) \/ DidEnqueue(r) \/ DidStop(r) \/ DidDebugDrop(r)
      PROVE  toPod' = toPod /\ toCtl' = toCtl
  BY <1>6 DEF DidAccept, DidCreate, DidEnqueue, DidStop, DidDebugDrop
<1>7. ASSUME NEW r \in Requests, DidPublish(r) \/ DidShare(r)
      PROVE  (InitAsked' => InitAsked) /\ toCtl' = toCtl
  <2>1. Message(r).cmd # "createVThings"
    BY MessageFields
  <2>2. QED
    BY <1>7, <2>1, QueueSteps DEF DidPublish, DidShare, InitAsked
<1>8. ASSUME NEW r \in Queued, JobDid(r)
      PROVE  toPod' = toPod /\ toCtl' = toCtl
  BY <1>8 DEF JobDid, DidBegin, DidPending, DidSubscribe, DidService, DidDeploy, DidRunning,
     DidUpdate
<1>9. ASSUME NEW a \in Actors, CallerDid(a)
      PROVE  toPod' = toPod /\ toCtl' = toCtl
  BY <1>9 DEF CallerDid, DidGet, DidDrop, DidDeleteOnKubernetes, DidForget
<1>10. ASSUME NEW h \in Handlers, DidPoll(h) \/ DidRegister(h)
       PROVE  toPod' = toPod /\ toCtl' = toCtl
  BY <1>10 DEF DidPoll, DidRegister
<1>11. ASSUME NEW h \in Handlers, DidPublishInit(h)
       PROVE  pc[h] = "init" /\ toCtl' = toCtl
  BY <1>11 DEF DidPublishInit
<1>12. toPod' = toPod => (InitAsked' => InitAsked)
  BY DEF InitAsked
<1>13. QED
  BY <1>1, <1>2, <1>3, <1>4, <1>5, <1>6, <1>7, <1>8, <1>9, <1>10, <1>11, <1>12
  DEF DidStep, LifeStep, JobDid, CallerDid

\* How a callback has come to wait or to register.
LEMMA WaiterComes ==
  ASSUME TypeInv, DidStep, NEW h \in Handlers
  PROVE  /\ pc'[h] = "poll" => pc[h] = "poll" \/ "createVThing" \in Elems(toCtl)
         /\ pc'[h] = "pollInit" => pc[h] = "pollInit" \/ "requestInit" \in Elems(toCtl)
         /\ pc'[h] = "register" => pc[h] \in {"poll", "register"}
         /\ pc'[h] = "init" => pc[h] \in {"pollInit", "init"}
<1>1. h \in Actors /\ h \notin Requests /\ \A r \in Queued : h # Job(r)
  BY ActorFacts
<1>2. Still(h) \/ CallerDid(h) \/ HandlerDid(h) \/ DidReceive
  BY <1>1, StepMoves
<1>3. CASE Still(h)
  BY <1>3 DEF Still
<1>4. CallerDid(h) => pc'[h] \notin {"poll", "pollInit", "register", "init"}
  BY <1>1
  DEF CallerDid, DidGet, DidDrop, DidDeleteOnKubernetes, DidForget, AfterGet, Moved, Ended,
      Submitted
<1>5. CASE HandlerDid(h)
  BY <1>5 DEF HandlerDid, DidPoll, DidRegister, DidPublishInit, Moved, Ended, Submitted
<1>6. CASE DidReceive
  <2>1. CASE KeptPlaces
    BY <2>1 DEF KeptPlaces
  <2>2. CASE ~KeptPlaces
    <3>1. PICK g \in Handlers : Moved(g, FirstStep(Head(toCtl)), seen[g])
      BY <1>6, <2>2 DEF DidReceive
    <3>2. CASE g # h
      BY <1>1, <3>1, <3>2 DEF Moved
    <3>3. CASE g = h
      <4>1. Head(toCtl) \in Reports /\ Head(toCtl) \in Elems(toCtl)
        BY <1>6, QueueSteps DEF DidReceive
      <4>2. pc'[h] = FirstStep(Head(toCtl))
        BY <3>1, <3>3, <4>1 DEF Moved, FirstStep, Ended, Reports
      <4>3. QED
        BY <4>1, <4>2 DEF FirstStep, Reports
    <3>4. QED
      BY <3>2, <3>3
  <2>3. QED
    BY <2>1, <2>2
<1>7. QED
  BY <1>2, <1>3, <1>4, <1>5, <1>6

\* A registration is due from when a program starts.
LEMMA AwaitedComes ==
  ASSUME TypeInv, DidStep
  PROVE  Awaited' => Awaited \/ DidPodStarts
BY QueueOrigins, WaiterComes DEF Awaited, Announcing

\* Every step keeps that only a program that asks first is asked for.
LEMMA AskedStep == Inv /\ RequestsAsked /\ Stepped => RequestsAsked'
<1> SUFFICES ASSUME Inv, RequestsAsked, Stepped
             PROVE  RequestsAsked'
  OBVIOUS
<1>1. TypeInv /\ Happened /\ RequestsInit' = RequestsInit
  BY DEF Inv, Stepped, Recorded, RequestsInit
<1>2. CASE DidStep
  BY <1>1, <1>2, QueueOrigins, WaiterComes DEF RequestsAsked
<1>3. CASE DidRestart
  <2>1. /\ \A h \in Handlers : pc'[h] = "idle"
        /\ InitAsked' => InitAsked
        /\ "requestInit" \in Elems(toCtl') => "requestInit" \in Elems(toCtl)
    BY <1>1, <1>3, QueueSteps DEF DidRestart, InitAsked
  <2>2. QED
    BY <1>1, <2>1 DEF RequestsAsked
<1>4. QED
  BY <1>1, <1>2, <1>3 DEF Happened

\* A registration stays due until a callback has made it, if no message is lost.
LEMMA AwaitedStays ==
  ASSUME TypeInv, DidStep, RequestsAsked, NotLost, Awaited
  PROVE  Awaited' \/ \E h \in Handlers : pc[h] = "register" /\ DidRegister(h)
<1>1. ASSUME NEW m \in Elems(toPod), m.cmd = "createVThings"
      PROVE  Awaited'
  <2>1. RequestsInit
    BY <1>1 DEF RequestsAsked, InitAsked
  <2>2. CASE m \in Elems(toPod')
    BY <1>1, <2>2 DEF Awaited, InitAsked
  <2>3. CASE DidPodsReceive /\ m = Head(toPod)
    <3>1. SomeUp
      BY <1>1, <2>3 DEF DidPodsReceive, NotLost
    <3>2. PICK acks \in Seq(Reports) :
            toCtl' = toCtl \o acks /\ "createVThing" \in Elems(acks)
      BY <1>1, <2>1, <2>3, <3>1 DEF DidPodsReceive
    <3>3. "createVThing" \in Elems(toCtl')
      BY <3>2, QueueSteps
    <3>4. QED
      BY <3>3 DEF Awaited, Announcing
  <2>4. QED
    BY <1>1, <2>2, <2>3, QueueKeeps DEF NotLost
<1>2. ASSUME NEW m \in {"createVThing", "requestInit"}, m \in Elems(toCtl)
      PROVE  Announcing'
  <2>1. CASE m \in Elems(toCtl')
    BY <1>2, <2>1 DEF Announcing
  <2>2. CASE DidReceive /\ m = Head(toCtl)
    <3>1. PICK h \in Handlers : Moved(h, FirstStep(m), seen[h])
      BY <1>2, <2>2 DEF DidReceive, NotLost
    <3>2. pc'[h] \in {"poll", "pollInit"}
      BY <1>2, <3>1 DEF Moved, FirstStep, Ended
    <3>3. QED
      BY <3>2 DEF Announcing
  <2>3. QED
    BY <1>2, <2>1, <2>2, QueueKeeps DEF NotLost
<1>3. ASSUME NEW h \in Handlers, pc[h] \in {"poll", "pollInit", "register", "init"},
             ~(pc[h] = "register" /\ DidRegister(h))
      PROVE  Awaited'
  <2>1. Still(h) => Awaited'
    BY <1>3 DEF Still, Awaited, Announcing
  <2>2. pc'[h] \in {"register", "init"} => Awaited'
    BY DEF Awaited
  <2>3. ASSUME DidPublishInit(h)
        PROVE  InitAsked'
    <3>1. PICK m \in Commands : m.cmd = "createVThings" /\ toPod' = Append(toPod, m)
      BY <2>3 DEF DidPublishInit
    <3>2. m \in Elems(toPod')
      BY <3>1, QueueSteps
    <3>3. QED
      BY <3>1, <3>2 DEF InitAsked
  <2>4. QED
    BY <1>3, <2>1, <2>2, <2>3, WaiterMoves DEF Awaited
<1>4. QED
  BY <1>1, <1>2, <1>3 DEF Awaited, Announcing, InitAsked

\* An announcement waits for the record to be running.
LEMMA AnnouncingStays ==
  ASSUME TypeInv, DidStep, NotLost, Announcing, ~Is(STATUS_RUNNING)
  PROVE  Announcing'
<1>1. ASSUME NEW m \in {"createVThing", "requestInit"}, m \in Elems(toCtl)
      PROVE  Announcing'
  <2>1. CASE m \in Elems(toCtl')
    BY <1>1, <2>1 DEF Announcing
  <2>2. CASE DidReceive /\ m = Head(toCtl)
    <3>1. PICK h \in Handlers : Moved(h, FirstStep(m), seen[h])
      BY <1>1, <2>2 DEF DidReceive, NotLost
    <3>2. pc'[h] \in {"poll", "pollInit"}
      BY <1>1, <3>1 DEF Moved, FirstStep, Ended
    <3>3. QED
      BY <3>2 DEF Announcing
  <2>3. QED
    BY <1>1, <2>1, <2>2, QueueKeeps DEF NotLost
<1>2. ASSUME NEW h \in Handlers, pc[h] \in {"poll", "pollInit"}
      PROVE  Announcing'
  <2>1. Still(h)
    BY <1>2, WaiterMoves DEF DidPublishInit
  <2>2. QED
    BY <1>2, <2>1 DEF Still, Announcing
<1>3. QED
  BY <1>1, <1>2 DEF Announcing

\* A set that counts no more than one has one member at most.
LEMMA NoneBeside ==
  ASSUME NEW S, IsFiniteSet(S), ~(Cardinality(S) > 1), NEW x \in S, NEW y \in S
  PROVE  x = y
<1> SUFFICES ASSUME x # y PROVE FALSE
  OBVIOUS
<1>1. /\ IsFiniteSet({x}) /\ Cardinality({x}) = 1 /\ {x} \subseteq S /\ {x} # S
  BY FS_Singleton
<1>2. Cardinality({x}) < Cardinality(S) /\ Cardinality(S) \in Nat
  BY <1>1, FS_Subset, FS_CardinalityType
<1>3. QED
  BY <1>1, <1>2

\* A job that still has to write its record does not find a running one.
LEMMA RunningAfterJob ==
  ASSUME Calm, ShownInv, BasicInv, ~Met, NEW a \in Creations, pc[Job(a)] = "running"
  PROVE  deployment = a /\ ~Is(STATUS_RUNNING)
<1>1. deployment = a
  BY DEF Calm, JobHasDeployment
<1>2. ASSUME Is(STATUS_RUNNING)
      PROVE  FALSE
  <2>1. Rec # Nil /\ Deployed(Rec)
    BY <1>2 DEF BasicInv, RunningNamesIt, Is
  <2>2. Rec.details = a
    BY <1>1, <2>1 DEF Calm, RecordHasDeployment
  <2>3. pc[Job(a)] \in Ended
    BY <2>1, <2>2 DEF ShownInv, ShownIsEnded, Shown
  <2>4. QED
    BY <2>3 DEF Ended
<1>3. QED
  BY <1>1, <1>2

-------------------------------------------------------------------------------
(***************************************************************************)
(* What the program of the Deployment will know of the vThing's endpoint:  *)
(* nothing until its registration is in the ledger, and from then on, when *)
(* the ThingVisor is running, what the ledger has or is about to have.     *)
(***************************************************************************)
EndpointCauses == {"twoEndpoints", "endpointDuringRegister", "endpoint",
                   "createVThing", "createVThings", "requestInit", "submit",
                   "deleteDuringCreate", "changeInterrupted",
                   "registerInterrupted"}

Endpoints == {m \in Commands : m.cmd = "endpoint"}

\* The last endpoint of a queue of commands, or else the one known before.
Latest(queue, known, d) == \/ LastOf(queue, Endpoints, {m \in Endpoints : m.params = d})
                           \/ NoneOf(queue, Endpoints) /\ known = d

Recording == {r \in Sharing : Kind[r] \in EndpointKinds /\ pc[r] = "record"}

Runs(a) == deployment = a /\ pod[a].st # "none"

KnowsNothing(a) == Runs(a) /\ Awaited => told[a] = NothingTold

KnowsLedger(a, v) ==
  Runs(a) /\ ~Awaited /\ Is(STATUS_RUNNING) =>
    /\ \A r \in Recording : Latest(toPod, told[a][v], Endpoint(r))
    /\ v \in Registered /\ Recording = {} => Latest(toPod, told[a][v], db[VThingTVKey(v)])

JobAnnounces(a) == Runs(a) /\ pc[Job(a)] = "running" => Announcing

Informed(a, v) == KnowsNothing(a) /\ KnowsLedger(a, v) /\ JobAnnounces(a)

EndpointInv(v) ==
  Without(EndpointCauses) => PodsExplained /\ \A a \in Creations : Informed(a, v)

\* What is known before a step that was not disturbed, and what it was not.
LEMMA EndpointSteps ==
  ASSUME Inv, ShareInv, Stepped, NEW v, EndpointInv(v), Without(EndpointCauses)'
  PROVE  /\ PodsExplained /\ \A a \in Creations : Informed(a, v)
         /\ TypeInv /\ TypeInv' /\ session' = session /\ Telling
         /\ ~Met /\ NotLost /\ "submit" \notin faults' /\ "endpoint" \notin lost'
         /\ "changeInterrupted" \notin races' /\ "registerInterrupted" \notin races'
         /\ ~PodsMatch \/ Awaited => ~Settling
         /\ \A r, q \in Busy(EndpointKinds) : r = q
<1>1. Without(EndpointCauses)
  BY WithoutBefore DEF Stepped, Recorded
<1>2. PodsExplained /\ \A a \in Creations : Informed(a, v)
  BY <1>1 DEF EndpointInv
<1>3. TypeInv /\ TypeInv' /\ session' = session /\ Telling
  BY DEF Inv, Stepped, Recorded, ShareInv
<1>4. /\ ~Met /\ NotLost /\ "submit" \notin faults' /\ "endpoint" \notin lost'
      /\ "changeInterrupted" \notin races' /\ "registerInterrupted" \notin races'
  BY <1>1 DEF Without, EndpointCauses, Met, NotLost
<1>5. ~PodsMatch \/ Awaited => ~Settling
  BY <1>1, DueIs DEF ShareInv, SharingSeen, SharingWindows, Labelled, Without, EndpointCauses,
     Registering
<1>6. ~(Cardinality(Busy(EndpointKinds)) > 1)
  BY <1>1 DEF ShareInv, SharingSeen, SharingWindows, Labelled, Without, EndpointCauses,
     EndpointKinds
<1>7. IsFiniteSet(Busy(EndpointKinds))
  BY ActorAssumption, FS_Subset DEF ActorAssumption, Busy, Sharing
<1>8. QED
  BY <1>2, <1>3, <1>4, <1>5, <1>6, <1>7, NoneBeside

\* What a program will know it will know when the commands go on, if it listens
\* to those that are about endpoints.
LEMMA LatestStays ==
  ASSUME TypeInv, Telling, Telling', "endpoint" \notin lost', Heard \/ Untold,
         NEW v, VThingsOfTV = {v}, NEW a \in Creations, Settling => a \in Up,
         NEW d, Latest(toPod, told[a][v], d)
  PROVE  Latest(toPod', told'[a][v], d)
<1> DEFINE such == {m \in Endpoints : m.params = d}
<1>1. /\ toPod \in Seq(Commands) /\ \A m \in such : m \in Endpoints /\ m.params = d
      /\ \A m \in Commands : m \in Endpoints <=> m.cmd = "endpoint"
  BY DEF TypeInv, RestTyped, Endpoints
<1>2. \/ LastOf(toPod, Endpoints, such)
      \/ NoneOf(toPod, Endpoints) /\ told[a][v] = d
  BY DEF Latest
<1>3. SUFFICES \/ LastOf(toPod', Endpoints, such)
               \/ NoneOf(toPod', Endpoints) /\ told'[a][v] = d
  BY DEF Latest
<1> HIDE DEF such
<1>4. ASSUME toPod # <<>>
      PROVE  /\ Head(toPod) \in Commands
             /\ Head(toPod).cmd = "endpoint" => Settling
  <2>1. 1 \in 1..Len(toPod) /\ Head(toPod) = toPod[1]
    BY <1>1, <1>4, HeadTailProperties, LenProperties, EmptySeq
  <2>2. Head(toPod) \in Commands
    BY <1>1, <2>1, ElementOfSeq
  <2>3. QED
    BY <2>1, <2>2 DEF Settling
<1>5. CASE Heard
  <2>1. /\ toPod # <<>> /\ toPod' = Tail(toPod)
        /\ told'[a] = IF Head(toPod).cmd = "endpoint" /\ a \in Up
                      THEN [told[a] EXCEPT ![Head(toPod).vThing] = Head(toPod).params]
                      ELSE told[a]
    BY <1>5 DEF Heard
  <2>2. /\ NoneOf(toPod, Endpoints) => NoneOf(toPod', Endpoints) /\ Head(toPod) \notin Endpoints
        /\ LastOf(toPod, Endpoints, such) =>
             \/ LastOf(toPod', Endpoints, such)
             \/ NoneOf(toPod', Endpoints) /\ Head(toPod) \in such
    BY <1>1, <2>1, LastTaken
  <2>3. ASSUME Head(toPod) \in such
        PROVE  told'[a][v] = d
    <3>1. /\ Head(toPod).cmd = "endpoint" /\ Head(toPod).params = d /\ a \in Up
          /\ Head(toPod) \in Commands
      BY <1>1, <1>4, <2>1, <2>3
    <3>2. Head(toPod).vThing = v
      BY <3>1 DEF Commands
    <3>3. v \in VThingsOfTV /\ told[a] \in [VThingsOfTV -> Details]
      BY DEF Telling
    <3>4. QED
      BY <2>1, <3>1, <3>2, <3>3
  <2>4. NoneOf(toPod, Endpoints) => told'[a] = told[a]
    BY <1>1, <1>4, <2>1, <2>2
  <2>5. QED
    BY <1>2, <2>2, <2>3, <2>4
<1>6. CASE Untold
  <2>1. CASE toPod' = toPod
    BY <1>2, <1>6, <2>1 DEF Untold
  <2>2. ASSUME NEW m \in Commands, m.cmd # "endpoint", toPod' = Append(toPod, m)
        PROVE  /\ NoneOf(toPod, Endpoints) => NoneOf(toPod', Endpoints)
               /\ LastOf(toPod, Endpoints, such) => LastOf(toPod', Endpoints, such)
    BY <1>1, <2>2, LastAppended
  <2>3. ASSUME toPod # <<>>, toPod' = Tail(toPod), Head(toPod).cmd \in lost'
        PROVE  /\ NoneOf(toPod, Endpoints) => NoneOf(toPod', Endpoints)
               /\ LastOf(toPod, Endpoints, such) => LastOf(toPod', Endpoints, such)
    <3>1. Head(toPod) \notin such
      BY <1>1, <1>4, <2>3
    <3>2. QED
      BY <1>1, <2>3, <3>1, LastTaken
  <2>4. QED
    BY <1>2, <1>6, <2>1, <2>2, <2>3 DEF Untold
<1>7. QED
  BY <1>5, <1>6

\* The program of the Deployment ran already, unless one starts.
LEMMA RanBefore ==
  ASSUME TypeInv, TypeInv', Happened, PodsExplained, NEW a \in Creations, Runs(a)',
         pod[a].st # "none"
  PROVE  Runs(a) /\ ~DidDeploy(a)
<1>1. ~DidDeploy(a)
  BY DEF PodsExplained, DidDeploy, Ended
<1>2. deployment = a
  BY <1>1, DeploymentChanges, ActorFacts DEF Runs
<1>3. QED
  BY <1>1, <1>2 DEF Runs

\* A step of the life cycle keeps what the program of the Deployment will know.
LEMMA LifeInforms ==
  ASSUME Inv, ShareInv, Calm, ShownInv, BasicInv, RequestsAsked, Stepped, ShareInv',
         NEW v, VThingsOfTV = {v}, EndpointInv(v), Without(EndpointCauses)', LifeOn,
         NEW a \in Creations
  PROVE  Informed(a, v)'
<1>1. /\ TypeInv /\ TypeInv' /\ Happened /\ DidStep /\ PodsExplained
      /\ ~Met /\ NotLost /\ "submit" \notin faults' /\ "endpoint" \notin lost'
      /\ ~PodsMatch \/ Awaited => ~Settling
      /\ Telling /\ Telling' /\ Informed(a, v)
  BY EndpointSteps DEF Stepped, LifeOn, DidStep, LifeOfTold
<1>2. CASE \E b \in Creations : Begun(b)
  <2>1. PICK b \in Creations : Begun(b)
    BY <1>2
  <2>2. Announcing'
    BY <2>1 DEF Begun, Announcing
  <2>3. KnowsNothing(a)'
    <3>1. ASSUME Runs(a)', a # b
          PROVE  FALSE
      <4>1. pod[a].st # "none" /\ deployment # a
        BY <2>1, <3>1 DEF Begun, Runs
      <4>2. QED
        BY <1>1, <3>1, <4>1, RanBefore DEF Runs
    <3>2. QED
      BY <2>1, <3>1 DEF KnowsNothing, Begun, NothingTold
  <2>4. QED
    BY <2>2, <2>3 DEF Informed, KnowsLedger, JobAnnounces, Awaited
<1>3. CASE NoneBegins /\ (Heard \/ Untold)
  <2>1. Runs(a)' => Runs(a) /\ ~DidDeploy(a)
    BY <1>1, <1>3, RanBefore DEF NoneBegins, Runs
  <2>2. ~DidPodStarts
    BY <1>3 DEF DidPodStarts, NoneBegins
  <2>3. Awaited' => Awaited
    BY <1>1, <2>2, AwaitedComes
  <2>4. ~Settling => told' = told \/ \A b \in Creations : told'[b] = told[b]
    <3>1. ASSUME Heard, ~Settling
          PROVE  Head(toPod).cmd # "endpoint"
      <4>1. toPod \in Seq(Commands) /\ toPod # <<>>
        BY <1>1, <3>1 DEF TypeInv, RestTyped, Heard
      <4>2. 1 \in 1..Len(toPod) /\ Head(toPod) = toPod[1]
        BY <4>1, HeadTailProperties, LenProperties, EmptySeq
      <4>3. QED
        BY <3>1, <4>2 DEF Settling
    <3>2. QED
      BY <1>3, <3>1 DEF Heard, Untold
  <2>5. KnowsNothing(a)'
    BY <1>1, <2>1, <2>3, <2>4 DEF KnowsNothing, Informed, NothingTold
  <2>6. ASSUME Runs(a), pc[Job(a)] = "running"
        PROVE  Announcing'
    BY <1>1, <2>6, RunningAfterJob, AnnouncingStays DEF Informed, JobAnnounces
  <2>7. JobAnnounces(a)'
    BY <1>1, <2>1, <2>6, CreationMoves DEF JobAnnounces
  <2>8. ASSUME Runs(a)', ~Awaited', Is(STATUS_RUNNING)'
        PROVE  Is(STATUS_RUNNING)
    <3>1. STATUS_RUNNING # STATUS_PENDING /\ STATUS_RUNNING # STATUS_STOPPING
      BY DEF STATUS_RUNNING, STATUS_PENDING, STATUS_STOPPING
    <3>2. Is(STATUS_RUNNING) \/ \E r \in Creations : DidRunning(r)
      BY <1>1, <2>8, <3>1, RecChanges DEF Is, Ordered, StatusOnly, Written, ParamsOnly
    <3>3. ASSUME NEW r \in Creations, DidRunning(r)
          PROVE  FALSE
      <4>1. pc[Job(r)] = "running" /\ Runs(a)
        BY <2>1, <2>8, <3>3 DEF DidRunning
      <4>2. r = a
        BY <1>1, <4>1, RunningAfterJob DEF Runs
      <4>3. Announcing'
        BY <2>6, <4>1, <4>2
      <4>4. QED
        BY <2>8, <4>3 DEF Awaited
    <3>4. QED
      BY <3>2, <3>3
  <2>9. /\ Recording' = Recording
    BY <1>1, SharersAt DEF Recording, LifeOn
  <2>10. KnowsLedger(a, v)'
    <3> SUFFICES ASSUME Runs(a)', ~Awaited', Is(STATUS_RUNNING)'
                 PROVE  /\ \A r \in Recording : Latest(toPod', told'[a][v], Endpoint(r))
                        /\ v \in Registered' /\ Recording = {} =>
                             Latest(toPod', told'[a][v], db'[VThingTVKey(v)])
      BY <2>9 DEF KnowsLedger, Endpoint
    <3>1. Runs(a) /\ Is(STATUS_RUNNING)
      BY <2>1, <2>8
    <3>2. CASE Awaited
      <4>1. PICK h \in Handlers : DidRegister(h)
        BY <1>1, <3>2, AwaitedStays
      <4>2. Announced(v) /\ toPod' = toPod
        BY <1>1, <3>1, <4>1 DEF DidRegister, Submitted, KeptAll, KeptNet
      <4>3. db'[VThingTVKey(v)] = NoDetails
        BY <4>2 DEF Announced
      <4>4. ~Settling
        BY <1>1, <3>2
      <4>5. Recording = {}
        BY <4>4 DEF Settling, Busy, Recording, EndpointKinds
      <4>6. NoneOf(toPod', Endpoints)
        BY <4>2, <4>4 DEF Settling, NoneOf, Endpoints
      <4>7. told'[a] = NothingTold
        BY <1>1, <2>4, <3>1, <3>2, <4>4 DEF Informed, KnowsNothing
      <4>8. told'[a][v] = NoDetails
        BY <4>7 DEF NothingTold
      <4>9. QED
        BY <4>3, <4>5, <4>6, <4>8 DEF Latest
    <3>3. CASE ~Awaited
      <4>1. /\ \A r \in Recording : Latest(toPod, told[a][v], Endpoint(r))
            /\ v \in Registered /\ Recording = {} =>
                 Latest(toPod, told[a][v], db[VThingTVKey(v)])
        BY <1>1, <3>1, <3>3 DEF Informed, KnowsLedger
      <4>2. SameVThings
        BY <3>3, LifeKeepsVThings DEF LifeOn, DidRegister, Awaited
      <4>3. Registered' = Registered /\ db'[VThingTVKey(v)] = db[VThingTVKey(v)]
        BY <4>2, ShareFacts DEF SameVThings, Registered
      <4>4. Settling => a \in Up
        BY <1>1, <3>1 DEF PodsMatch, Runs, Up
      <4>5. \A d : Latest(toPod, told[a][v], d) => Latest(toPod', told'[a][v], d)
        BY <1>1, <1>3, <4>4, LatestStays
      <4>6. QED
        BY <4>1, <4>3, <4>5
    <3>4. QED
      BY <3>2, <3>3
  <2>11. QED
    BY <2>5, <2>7, <2>10 DEF Informed
<1>4. QED
  BY <1>2, <1>3 DEF LifeOn, LifeOfTold

\* So does a request about an endpoint: it tells the program before it records.
LEMMA SharerInforms ==
  ASSUME Inv, ShareInv, Stepped, ShareInv',
         NEW v, VThingsOfTV = {v}, EndpointInv(v), Without(EndpointCauses)',
         NEW r \in Sharing, ShareStep(r), NEW a \in Creations
  PROVE  Informed(a, v)'
<1>1. /\ TypeInv /\ "submit" \notin faults' /\ Informed(a, v)
      /\ \A p, q \in Busy(EndpointKinds) : p = q
  BY EndpointSteps
<1>2. /\ Shared(r) /\ DidShare(r) /\ told' = told
      /\ r \in Actors /\ r \notin Handlers /\ r \notin Jobs /\ Target[r] = v
      /\ v \in VThings /\ EndpointMsg(r) \in Commands
      /\ \A q \in Sharing : q \in Actors
  BY ShareFacts DEF ShareStep, ends
<1>3. PICK l \in {"getTV", "getVThing", "check", "tell", "record", "ok", "failed"} :
        pc'[r] = l /\ \A b \in Actors \ {r} : pc'[b] = pc[b]
  BY <1>2 DEF DidShare, Moved
<1>4. /\ UNCHANGED <<toCtl, pod, deployment, told>> /\ Rec' = Rec
      /\ \A h \in Handlers : pc'[h] = pc[h]
      /\ pc'[Job(a)] = pc[Job(a)]
      /\ Runs(a)' = Runs(a) /\ Is(STATUS_RUNNING)' = Is(STATUS_RUNNING)
  BY <1>2, <1>3, ActorFacts DEF DidShare, KeptCluster, Runs, Is
<1>5. InitAsked' <=> InitAsked
  <2>1. \/ toPod' = toPod
        \/ \E m \in Commands : m.cmd = "endpoint" /\ Elems(toPod') = Elems(toPod) \cup {m}
    BY <1>1, <1>2, QueueSteps DEF DidShare
  <2>2. QED
    BY <2>1 DEF InitAsked
<1>6. (Announcing' <=> Announcing) /\ (Awaited' <=> Awaited)
  BY <1>4, <1>5 DEF Announcing, Awaited
<1>7. KnowsNothing(a)' /\ JobAnnounces(a)'
  BY <1>1, <1>4, <1>6 DEF Informed, KnowsNothing, JobAnnounces, NothingTold
<1>8. \A q \in Recording : q \in Busy(EndpointKinds)
  BY DEF Recording, Busy
<1>9. KnowsLedger(a, v)'
  <2> SUFFICES ASSUME Runs(a), ~Awaited, Is(STATUS_RUNNING)
               PROVE  /\ \A q \in Recording' : Latest(toPod', told[a][v], Endpoint(q))
                      /\ v \in Registered' /\ Recording' = {} =>
                           Latest(toPod', told[a][v], db'[VThingTVKey(v)])
    BY <1>4, <1>6 DEF KnowsLedger, Endpoint
  <2>1. /\ \A q \in Recording : Latest(toPod, told[a][v], Endpoint(q))
        /\ v \in Registered /\ Recording = {} => Latest(toPod, told[a][v], db[VThingTVKey(v)])
    BY <1>1 DEF Informed, KnowsLedger
  <2>2. CASE DidTellProgram(r)
    <3>1. /\ pc[r] = "tell" /\ Kind[r] \in EndpointKinds /\ pc'[r] = "record"
          /\ toPod' = Append(toPod, EndpointMsg(r))
      BY <2>2 DEF DidTellProgram, Moved, Ended
    <3>2. r \in Busy(EndpointKinds)
      BY <3>1 DEF Busy
    <3>3. Recording' = {r}
      BY <1>1, <1>2, <1>3, <1>8, <3>1, <3>2 DEF Recording
    <3>4. EndpointMsg(r) \in {m \in Endpoints : m.params = Endpoint(r)}
      BY <1>2 DEF EndpointMsg, Endpoints
    <3>5. Latest(toPod', told[a][v], Endpoint(r))
      BY <1>1, <1>2, <3>1, <3>4, LastAppended DEF Latest, TypeInv, RestTyped
    <3>6. QED
      BY <3>3, <3>5
  <2>3. CASE DidRecord(r) /\ Kind[r] \in EndpointKinds
    <3>1. /\ pc[r] = "record" /\ pc'[r] = "ok" /\ ShareWrites(r) /\ toPod' = toPod
      <4>1. Kind[r] # "detach" /\ r \notin Handlers
        BY <1>2, <2>3 DEF EndpointKinds
      <4>2. /\ pc[r] = "record" /\ toPod' = toPod
            /\ Submitted(r, "ok", "failed", ShareWrites(r), FALSE)
        BY <2>3, <4>1 DEF DidRecord, KeptAll, KeptNet
      <4>3. Moved(r, "ok", seen[r]) /\ ShareWrites(r)
        BY <1>1, <4>2 DEF Submitted
      <4>4. QED
        BY <4>1, <4>2, <4>3 DEF Moved
    <3>2. db'[VThingTVKey(v)] = Endpoint(r)
      BY <1>2, <2>3, <3>1 DEF ShareWrites
    <3>3. r \in Recording
      BY <2>3, <3>1 DEF Recording
    <3>4. Recording' = {}
      BY <1>1, <1>2, <1>3, <1>8, <3>1, <3>3 DEF Recording
    <3>5. QED
      BY <2>1, <3>1, <3>2, <3>3, <3>4
  <2>4. CASE ~DidTellProgram(r) /\ ~(DidRecord(r) /\ Kind[r] \in EndpointKinds)
    <3>1. /\ toPod' = toPod /\ db'[VThingTVKey(v)] = db[VThingTVKey(v)]
          /\ Kind[r] \in EndpointKinds => pc[r] # "record" /\ pc'[r] # "record"
      <4>1. CASE DidEnter(r) \/ DidGetRunning(r) \/ DidGetVThing(r)
        BY <4>1 DEF DidEnter, DidGetRunning, DidGetVThing, KeptAll, KeptNet, Moved, Ended,
           FirstOf
      <4>2. CASE DidCheck(r) \/ DidTellSilo(r)
        BY <4>2 DEF DidCheck, DidTellSilo, KeptAll, KeptNet, EndpointKinds
      <4>3. CASE DidRecord(r) /\ Kind[r] \notin EndpointKinds
        BY <1>1, <1>2, <4>3 DEF DidRecord, Submitted, ShareWrites, KeptAll, KeptNet
      <4>4. QED
        BY <1>2, <2>4, <4>1, <4>2, <4>3 DEF Shared
    <3>2. Recording' = Recording
      BY <1>2, <1>3, <3>1 DEF Recording
    <3>3. Registered' = Registered
      <4>1. v \in Registered' <=> v \in Registered
        BY <1>2, <3>1 DEF Registered
      <4>2. QED
        BY <4>1 DEF Registered
    <3>4. QED
      BY <2>1, <3>1, <3>2, <3>3
  <2>5. QED
    BY <2>2, <2>3, <2>4
<1>10. QED
  BY <1>7, <1>9 DEF Informed

\* A step of the silo changes nothing of that.
LEMMA SiloInforms ==
  ASSUME Inv, ShareInv, Stepped, NEW v, EndpointInv(v), Without(EndpointCauses)', SiloStep
  PROVE  PodsExplained' /\ \A a \in Creations : Informed(a, v)'
<1>1. PodsExplained /\ \A a \in Creations : Informed(a, v)
  BY EndpointSteps
<1>2. UNCHANGED <<db, pc, toPod, toCtl, pod, deployment, told>> /\ session' = session
  BY DEF SiloStep, Stepped, Recorded
<1>3. PodsExplained'
  BY <1>1, <1>2 DEF PodsExplained, RequestsInit
<1>4. /\ Awaited' = Awaited /\ Announcing' = Announcing /\ Recording' = Recording
      /\ Is(STATUS_RUNNING)' = Is(STATUS_RUNNING) /\ Registered' = Registered
  BY <1>2 DEF Awaited, Announcing, InitAsked, Recording, Is, Rec, Registered
<1>5. ASSUME NEW a \in Creations
      PROVE  Informed(a, v)'
  <2>1. Informed(a, v) /\ Runs(a)' = Runs(a)
    BY <1>1, <1>2 DEF Runs
  <2>2. KnowsNothing(a)' /\ JobAnnounces(a)'
    BY <1>2, <1>4, <2>1 DEF Informed, KnowsNothing, JobAnnounces, NothingTold
  <2>3. KnowsLedger(a, v)'
    BY <1>2, <1>4, <2>1 DEF Informed, KnowsLedger, Endpoint
  <2>4. QED
    BY <2>2, <2>3 DEF Informed
<1>6. QED
  BY <1>3, <1>5

\* A restart of the controller neither: it met no registration and no request.
LEMMA RestartInforms ==
  ASSUME Inv, ShareInv, Stepped, NEW v, VThingsOfTV = {v}, EndpointInv(v),
         Without(EndpointCauses)', RestartStep
  PROVE  PodsExplained' /\ \A a \in Creations : Informed(a, v)'
<1>1. /\ PodsExplained /\ (\A a \in Creations : Informed(a, v)) /\ TypeInv
      /\ "changeInterrupted" \notin races' /\ "registerInterrupted" \notin races'
  BY EndpointSteps
<1>2. /\ DidRestart /\ told' = told /\ session' = session
      /\ Busy(SharingKinds) = {} /\ PodsMatch /\ ~Awaited
  BY <1>1, DueIs DEF RestartStep, ends, Registering, Stepped, Recorded
<1>3. /\ toPod' = toPod /\ UNCHANGED <<deployment, pod>> /\ Rec' = Rec /\ SameVThings
      /\ \A h \in Handlers : pc'[h] = "idle"
      /\ \A r \in Creations : pc'[Job(r)] = IF AtRest(Job(r)) THEN pc[Job(r)] ELSE "waiting"
      /\ \A r \in Sharing : pc'[r] = IF AtRest(r) THEN pc[r] ELSE "failed"
  BY <1>2, ActorFacts, ShareFacts DEF DidRestart, SameRec, KeptCluster
<1>4. ~Awaited'
  <2>1. Elems(toCtl') \subseteq Elems(toCtl)
    BY <1>1, <1>2, QueueSteps DEF DidRestart
  <2>2. QED
    BY <1>2, <1>3, <2>1 DEF Awaited, Announcing, InitAsked
<1>5. Recording = {} /\ Recording' = {}
  <2>1. Recording = {}
    BY <1>2 DEF Recording, Busy, Sharing
  <2>2. \A r \in Sharing : pc'[r] # "record"
    BY <1>3 DEF AtRest, Ended
  <2>3. QED
    BY <2>1, <2>2 DEF Recording
<1>6. ASSUME NEW a \in Creations, deployment = a \/ pod[a].st # "none"
      PROVE  pc'[Job(a)] \in Ended
  <2>1. Runs(a)
    BY <1>2, <1>6 DEF Runs, PodsMatch
  <2>2. pc[Job(a)] # "running"
    BY <1>1, <1>2, <2>1 DEF Informed, JobAnnounces, Awaited
  <2>3. pc[Job(a)] \in Ended
    BY <1>1, <1>6, <2>2 DEF PodsExplained
  <2>4. QED
    BY <1>3, <2>3 DEF AtRest
<1>7. PodsExplained'
  BY <1>1, <1>2, <1>3, <1>6 DEF PodsExplained, RequestsInit
<1>8. ASSUME NEW a \in Creations
      PROVE  Informed(a, v)'
  <2>1. /\ Informed(a, v) /\ Runs(a)' = Runs(a) /\ Is(STATUS_RUNNING)' = Is(STATUS_RUNNING)
    BY <1>1, <1>3 DEF Runs, Is
  <2>2. JobAnnounces(a)'
    BY <1>6, <2>1 DEF JobAnnounces, Runs, Ended
  <2>3. Registered' = Registered /\ db'[VThingTVKey(v)] = db[VThingTVKey(v)]
    BY <1>3, ShareFacts DEF SameVThings, Registered
  <2>4. KnowsLedger(a, v)'
    BY <1>2, <1>3, <1>5, <2>1, <2>3 DEF Informed, KnowsLedger
  <2>5. QED
    BY <1>4, <2>2, <2>4 DEF Informed, KnowsNothing
<1>9. QED
  BY <1>7, <1>8

\* Every step keeps what the program of the Deployment will know.
LEMMA EndpointStep ==
  ASSUME NEW v, VThingsOfTV = {v},
         Inv, ShareInv, Calm, ShownInv, BasicInv, RequestsAsked, EndpointInv(v),
         Stepped, SharingStep, ShareInv'
  PROVE  EndpointInv(v)'
<1> SUFFICES ASSUME Without(EndpointCauses)'
             PROVE  PodsExplained' /\ \A a \in Creations : Informed(a, v)'
  BY DEF EndpointInv
<1>1. TypeInv /\ TypeInv' /\ PodsExplained /\ session' = session
  BY EndpointSteps
<1>2. CASE LifeOn
  <2>1. DidStep
    BY <1>2 DEF LifeOn, DidStep
  <2>2. PodsExplained'
    BY <1>1, <2>1, PodsExplainedStep
  <2>3. \A a \in Creations : Informed(a, v)'
    BY <1>2, LifeInforms
  <2>4. QED
    BY <2>2, <2>3
<1>3. ASSUME NEW r \in Sharing, ShareStep(r)
      PROVE  PodsExplained' /\ \A a \in Creations : Informed(a, v)'
  <2>1. DidStep
    BY <1>3, ShareFacts DEF ShareStep, DidStep
  <2>2. PodsExplained'
    BY <1>1, <2>1, PodsExplainedStep
  <2>3. \A a \in Creations : Informed(a, v)'
    BY <1>3, SharerInforms
  <2>4. QED
    BY <2>2, <2>3
<1>4. QED
  BY <1>2, <1>3, SiloInforms, RestartInforms DEF SharingStep

\* No program has been started at first.
LEMMA InitEndpoint ==
  ASSUME NEW v, SharingInit
  PROVE  RequestsAsked /\ EndpointInv(v)
<1>1. Init /\ Inv /\ TypeInv
  BY InitShare DEF SharingInit, Inv
<1>2. /\ deployment = NoDeployment /\ toPod = <<>> /\ toCtl = <<>>
      /\ \A h \in Handlers : pc[h] = "idle"
  BY <1>1, AtFirst
<1>3. \A r \in Creations : pod[r].st = "none" /\ deployment # r
  BY <1>1, <1>2, ActorFacts DEF Init, NoPod
<1>4. Elems(toPod) = {} /\ Elems(toCtl) = {}
  BY <1>1, <1>2, QueueSteps
<1>5. RequestsAsked
  BY <1>2, <1>4 DEF RequestsAsked, InitAsked
<1>6. PodsExplained
  BY <1>3 DEF PodsExplained
<1>7. \A a \in Creations : ~Runs(a)
  BY <1>3 DEF Runs
<1>8. QED
  BY <1>5, <1>6, <1>7 DEF EndpointInv, Informed, KnowsNothing, KnowsLedger, JobAnnounces

\* The endpoint in the ledger is the one the running program was told last, once
\* everything has settled: vthings.ts tells the program before it records, and
\* a registration, which writes no endpoint, comes before any that the program
\* is told.  The program has one vThing, as those modelled do.
THEOREM EndpointsAgree ==
  ASSUME NEW v, VThingsOfTV = {v}
  PROVE  SharingSpec => []EndpointAgrees
<1> DEFINE I == /\ Inv /\ ShareInv /\ Calm /\ ShownInv /\ BasicInv /\ RequestsAsked
                /\ EndpointInv(v)
<1>1. SharingInit => I
  <2>1. SharingInit => Init
    BY DEF SharingInit
  <2>2. QED
    BY <2>1, InitShare, InitOwn, InitBasic, InitEndpoint DEF OwnInv
<1>2. I /\ [SharingNext]_sharingVars => I'
  <2> SUFFICES ASSUME I, [SharingNext]_sharingVars
               PROVE  I'
    OBVIOUS
  <2>1. Stepped /\ SharingStep /\ ShareInv'
    BY SharingGoesOn
  <2>2. Calm' /\ ShownInv' /\ BasicInv' /\ RequestsAsked'
    BY <2>1, CalmStep, ShownStep, BasicStep, AskedStep
  <2>3. EndpointInv(v)'
    BY <2>1, EndpointStep
  <2>4. QED
    BY <2>1, <2>2, <2>3 DEF Stepped
<1>3. I => EndpointAgrees
  <2> SUFFICES ASSUME I, AllSettled, Is(STATUS_RUNNING), Without(EndpointCauses),
                      NEW a \in Up, NEW u \in Registered
               PROVE  told[a][u] = db[VThingTVKey(u)]
    BY DEF EndpointAgrees, EndpointCauses
  <2>1. TypeInv /\ Settled /\ a \in Creations /\ pod[a].st = "up" /\ u = v
    BY DEF Inv, AllSettled, Up, Registered
  <2>2. /\ \A b \in Actors : pc[b] \in Ended \cup {"new", "none", "idle", "poll", "pollInit"}
        /\ Elems(toPod) = {} /\ Elems(toCtl) = {}
    BY <2>1, NothingLeft
  <2>3. Runs(a)
    BY <2>1 DEF Settled, PodsMatch, Runs
  <2>4. ASSUME NEW h \in Handlers
        PROVE  pc[h] \notin {"poll", "pollInit", "register", "init"}
    <3>1. h \in Actors /\ Quiet(h)
      BY <2>1, ActorFacts DEF Settled
    <3>2. IsRunning(tv, db)
      BY DEF IsRunning, Is, Rec
    <3>3. AtRest(h)
      BY <3>1, <3>2 DEF Quiet
    <3>4. QED
      BY <3>3 DEF AtRest, Ended
  <2>5. ~Awaited
    BY <2>2, <2>4 DEF Awaited, Announcing, InitAsked
  <2>6. Recording = {}
    BY <2>2, ShareFacts DEF Recording, Ended
  <2>7. Latest(toPod, told[a][v], db[VThingTVKey(v)])
    BY <2>1, <2>3, <2>5, <2>6 DEF EndpointInv, Informed, KnowsLedger
  <2>8. ~LastOf(toPod, Endpoints, {m \in Endpoints : m.params = db[VThingTVKey(v)]})
    BY <2>1, EmptySeq DEF LastOf, Settled
  <2>9. QED
    BY <2>1, <2>7, <2>8 DEF Latest
<1>4. QED
  BY <1>1, <1>2, <1>3, PTL DEF SharingSpec

-------------------------------------------------------------------------------
(***************************************************************************)
(* The life cycle of a ThingVisor whose vThings are shared.  None of its   *)
(* invariants needs that nobody else writes to the ledger or to the topic  *)
(* of the program: each is kept by whatever is one of the steps described. *)
(***************************************************************************)
SharedInv == ShareInv /\ FullInv /\ ParamsInv /\ StoppingInv /\ PendingInv /\ AckInv

\* Every step of the composed system keeps them, and is one that deletes what
\* it may.
LEMMA SharedStep ==
  ASSUME SharedInv, [SharingNext]_sharingVars
  PROVE  /\ SharedInv'
         /\ [\A a \in Actors : DeletesOwn(a)]_vars
         /\ [\A h \in Handlers : DeletesStopping(h)]_vars
<1>1. Inv /\ OwnInv
  BY DEF SharedInv, FullInv, ParamsInv
<1>2. Stepped /\ ShareInv'
  BY <1>1, SharingGoesOn DEF SharedInv
<1>3. FullInv' /\ ParamsInv' /\ StoppingInv' /\ PendingInv' /\ AckInv'
  BY <1>1, <1>2, FullStep, ParamsStep, StoppingStep, PendingStep, AckStep DEF SharedInv
<1>4. QED
  BY <1>1, <1>2, <1>3, OwnFollows, AckFollows DEF SharedInv

\* They hold at first.
LEMMA InitShared == SharingInit => SharedInv
<1>1. SharingInit => Init
  BY DEF SharingInit
<1>2. QED
  BY <1>1, InitShare, InitFull, InitParams, InitPending, InitStopper, AtFirst
  DEF SharedInv, StoppingInv, Is, AckInv

\* What has settled is explained, and deletes remove what they are about, as
\* without those who share its vThings: they write none of the ThingVisor's
\* record (updateVThingOfThingVisor, addVThingVSilo and deleteVThingVSilo put
\* other keys), and what they publish to the program no callback acts upon.
THEOREM LifeCycleShared ==
  SharingSpec => /\ [](/\ DeletedMeansGone /\ StoppingIsExplained
                       /\ PendingIsExplained /\ ParamsAgree)
                 /\ OwnDeployment /\ AckDeletesStopping
<1>1. SharedInv => /\ DeletedMeansGone /\ StoppingIsExplained
                   /\ PendingIsExplained /\ ParamsAgree
  BY GoneFollows, StoppingFollows, PendingFollows, AgreeFollows DEF SharedInv, FullInv
<1>2. SharedInv /\ [SharingNext]_sharingVars =>
        /\ SharedInv'
        /\ [\A a \in Actors : DeletesOwn(a)]_vars
        /\ [\A h \in Handlers : DeletesStopping(h)]_vars
  BY SharedStep
<1>3. QED
  BY <1>1, <1>2, InitShared, PTL
  DEF SharingSpec, OwnDeployment, DeletesOwn, AckDeletesStopping, DeletesStopping

\* A ThingVisor that stays running is served, also when its vThings are shared.
\* The program has one vThing, as those modelled do.
THEOREM ServedWhileShared ==
  ASSUME NEW v, VThingsOfTV = {v}
  PROVE  SharingSpec => []RunningMeansServed
<1>1. SharingInit => ServedInv /\ ShareInv
  BY InitServed, InitShare DEF SharingInit
<1>2. ServedInv /\ ShareInv /\ [SharingNext]_sharingVars => (ServedInv /\ ShareInv)'
  BY SharingGoesOn, ServedStep DEF ServedInv, FullInv
<1>3. QED
  BY <1>1, <1>2, ServedFollows, PTL DEF SharingSpec
-------------------------------------------------------------------------------
(***************************************************************************)
(* The life cycle works on a registry that is nothing but the contract's:  *)
(* each step is one accepted call on the ledger as it is, of those the     *)
(* controller makes, or leaves it.                                         *)
(***************************************************************************)
\* None of the records it hands over is stopping.
LEMMA CallsOfController ==
  /\ CreateCall \in ControllerCalls /\ StopCall \in ControllerCalls
  /\ \A vs \in SUBSET VThings : DeleteCall(vs) \in ControllerCalls
  /\ \A r \in Requests :
       /\ WriteCall(STATUS_PENDING, r, NoDeployment) \in ControllerCalls
       /\ WriteCall(STATUS_RUNNING, r, r) \in ControllerCalls
       /\ PartialCall(r) \in ControllerCalls
  /\ \A v \in VThingsOfTV : AddCall(v) \in ControllerCalls
  BY CallsTyped
  DEF ControllerCalls, CreateCall, StopCall, DeleteCall, WriteCall, PartialCall,
      AddCall, Entry

\* Nor is one of those about a vThing.
LEMMA ShareCallsOfController ==
  ASSUME NEW r \in Sharing
  PROVE  Call(r) \in ControllerCalls
<1>1. /\ Target[r] \in VThings /\ vSilo \in VSilos /\ NoDetails \in Details
      /\ Endpoint(r) \in Details
  BY ShareFacts, ChaincodeAssumption DEF ChaincodeAssumption
<1>2. CASE Kind[r] = "attach"
  BY <1>1, <1>2 DEF Call, ControllerCalls, Calls, VSiloCalls
<1>3. CASE Kind[r] = "detach"
  BY <1>1, <1>3 DEF Call, ControllerCalls, Calls, VSiloCalls
<1>4. CASE Kind[r] \notin {"attach", "detach"}
  BY <1>1, <1>4 DEF Call, ControllerCalls, Calls, VThingCalls
<1>5. QED
  BY <1>2, <1>3, <1>4

\* What the controller does of itself calls the contract or leaves the ledger.
LEMMA ControllerInvokes == ControllerStep => Invoked
<1> USE OthersKeepLedger, CallsOfController DEF Invoked
<1>1. CASE Login \/ Receive
  BY <1>1
<1>2. ASSUME NEW r \in Requests,
             Create(r) \/ EnqueueJob(r) \/ Stop(r) \/ Publish(r) \/ DebugDrop(r)
      PROVE  Invoked
  <2>1. DeleteCall({}) \in ControllerCalls
    OBVIOUS
  <2>2. CASE Create(r) \/ Stop(r) \/ DebugDrop(r)
    BY <2>1, <2>2, SubmitInvokes DEF Create, Stop, DebugDrop
  <2>3. CASE EnqueueJob(r) \/ Publish(r)
    BY <2>3 DEF EnqueueJob, Publish
  <2>4. QED
    BY <1>2, <2>2, <2>3
<1>3. ASSUME NEW r \in Queued, BeginJob(r) \/ CreateThingVisorOnKubernetes(r) \/ UpdateJob(r)
      PROVE  Invoked
  <2>1. r \in Requests
    BY DEF Queued
  <2>2. CASE BeginJob(r)
    BY <2>2 DEF BeginJob
  <2>3. CASE CreateThingVisorOnKubernetes(r)
    BY <2>1, <2>3, SubmitInvokes DEF CreateThingVisorOnKubernetes, WriteRunning
  <2>4. CASE UpdateJob(r)
    BY <2>1, <2>4, SubmitInvokes DEF UpdateJob
  <2>5. QED
    BY <1>3, <2>2, <2>3, <2>4
<1>4. ASSUME NEW a \in Actors,
             Get(a) \/ Drop(a) \/ DeleteOnKubernetes(a) \/ ForgetThingVisor(a)
      PROVE  Invoked
  <2>1. DeleteCall(Registered) \in ControllerCalls
    BY DEF Registered, VThingsOfTV
  <2>2. CASE Drop(a)
    BY <2>1, <2>2, SubmitInvokes DEF Drop
  <2>3. CASE Get(a) \/ DeleteOnKubernetes(a) \/ ForgetThingVisor(a)
    BY <2>3 DEF Get, DeleteOnKubernetes, ForgetThingVisor
  <2>4. QED
    BY <1>4, <2>2, <2>3
<1>5. ASSUME NEW h \in Handlers,
             PollRunning(h) \/ RegisterVThing(h) \/ PollInit(h) \/ PublishInit(h)
      PROVE  Invoked
  <2>1. CASE RegisterVThing(h)
    <3>1. PICK v \in VThingsOfTV : Submit(h, AddCall(v), "ok", "failed")
      BY <2>1 DEF RegisterVThing, AddCall
    <3>2. QED
      BY <3>1, SubmitInvokes
  <2>2. CASE PollRunning(h) \/ PollInit(h) \/ PublishInit(h)
    BY <2>2 DEF PollRunning, PollInit, PublishInit, PublishTo
  <2>3. QED
    BY <1>5, <2>1, <2>2
<1>6. QED
  BY <1>1, <1>2, <1>3, <1>4, <1>5 DEF ControllerStep

\* Neither the programs nor the cluster reach the ledger.
LEMMA ProgramsKeepLedger ==
  /\ PodsReceive => UNCHANGED db
  /\ \A a : PodStarts(a) \/ PodListens(a) \/ PodStops(a) \/ PodRestarts(a) => UNCHANGED db
<1>1. PodsReceive => UNCHANGED db
  BY DEF PodsReceive
<1>2. \A a : PodStarts(a) \/ PodListens(a) \/ PodStops(a) \/ PodRestarts(a) => UNCHANGED db
  BY DEF PodStarts, PodListens, PodStops, PodRestarts
<1>3. QED
  BY <1>1, <1>2

\* The ledger of a ThingVisor's life is the registry of the calls the
\* controller makes, none of which hands over a stopping record: createThingVisor
\* of controller.ts and the jobs of thingvisor.ts, each decided on the ledger
\* as it is when the call commits.
THEOREM LifecycleCallsContract == Spec => Contract!Spec
<1>1. Init => Contract!Init
  BY ContractIsChaincode DEF Init, InitWith, Contract!Init
<1>2. [Next]_vars => [Contract!Next]_db
  <2> SUFFICES ASSUME [Next]_vars PROVE Invoked
    BY DEF Invoked
  <2>1. CASE UNCHANGED vars
    BY <2>1 DEF vars, controllerVars, Invoked
  <2>2. CASE ControllerStep
    BY <2>2, ControllerInvokes
  <2>3. CASE PodStep \/ \E a \in Creations : PodRestarts(a)
    BY <2>3, ProgramsKeepLedger DEF PodStep, Invoked
  <2>4. CASE Lose \/ Restart \/ \E r \in Requests : Accept(r)
    BY <2>4, OthersKeepLedger DEF Accept, Invoked
  <2>5. QED
    BY <2>1, <2>2, <2>3, <2>4 DEF Next, Step
<1>3. QED
  BY <1>1, <1>2, PTL DEF Spec, Contract!Spec

\* So is that of a ThingVisor whose vThings are shared: attachments and
\* endpoints are written by calls of the contract too, and a silo program
\* writes nothing.
THEOREM SharingCallsContract == SharingSpec => Contract!Spec
<1>1. SharingInit => Contract!Init
  BY ContractIsChaincode DEF SharingInit, Init, InitWith, Contract!Init
<1>2. Inv /\ ShareInv /\ [SharingNext]_sharingVars => (Inv /\ ShareInv)'
  BY SharingGoesOn DEF Stepped
<1>3. Inv /\ ShareInv /\ [SharingNext]_sharingVars => [Contract!Next]_db
  <2> SUFFICES ASSUME TypeInv, [SharingNext]_sharingVars PROVE Invoked
    BY DEF Invoked, Inv
  <2>1. CASE UNCHANGED sharingVars
    BY <2>1 DEF sharingVars, vars, controllerVars, Invoked
  <2>2. CASE ControllerActs
    BY <2>2, ControllerInvokes DEF ControllerActs
  <2>3. CASE ProgramReceives \/ \E a \in Creations :
               ProgramStarts(a) \/ PodListens(a) \/ PodStops(a) \/ PodRestarts(a)
    BY <2>3, ProgramsKeepLedger DEF ProgramReceives, ProgramStarts, Invoked
  <2>4. CASE Lose \/ Restart \/ \E r \in Requests : Accept(r) \/ AcceptSharing(r)
    BY <2>4, OthersKeepLedger DEF Accept, AcceptSharing, Invoked
  <2>5. ASSUME NEW r \in Requests, SharingRequest(r)
        PROVE  Invoked
    <3>1. CASE RecordIt(r)
      <4>1. pc[r] \in RequestLabels(Kind[r]) /\ Kind[r] \in Kinds
        BY ProcessAssumption DEF ProcessAssumption, TypeInv, Places, RequestsPlaced
      <4>2. r \in Sharing
        BY <3>1, <4>1 DEF RecordIt, RequestLabels, Sharing, SharingKinds
      <4>3. QED
        BY <3>1, <4>2, ShareCallsOfController, SubmitInvokes DEF RecordIt
    <3>2. CASE ~RecordIt(r)
      BY <2>5, <3>2, OthersKeepLedger
      DEF SharingRequest, GetRunning, GetVThingByID, Check, TellProgram, TellSilo, Invoked
    <3>3. QED
      BY <3>1, <3>2
  <2>6. CASE SiloReceives \/ LoseToSilo \/ SiloRestarts
    BY <2>6 DEF SiloReceives, LoseToSilo, SiloRestarts, Invoked
  <2>7. QED
    BY <2>1, <2>2, <2>3, <2>4, <2>5, <2>6 DEF SharingNext
<1>4. QED
  BY <1>1, <1>2, <1>3, InitShare, PTL DEF SharingSpec, Contract!Spec
================================================================================
