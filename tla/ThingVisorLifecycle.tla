------------------------- MODULE ThingVisorLifecycle -------------------------
(***************************************************************************)
(* The life of one ThingVisor: the REST handlers of controller.ts that add,*)
(* update and delete it, the background jobs and Kubernetes calls of       *)
(* thingvisor.ts, the MQTT callbacks of mqttcallback.ts and the ThingVisor *)
(* program in its pod.  They share the ledger record, the callback table   *)
(* of the controller process, the broker and the cluster, and nothing      *)
(* serialises them.                                                        *)
(***************************************************************************)
EXTENDS Controller

CONSTANTS
  tv,           \* the ThingVisor
  Params        \* the "params" field of a request; "" when the body has none

Own == {r \in Requests : Kind[r] \in {"add", "update", "delete", "force"}}

ASSUME LifecycleAssumption ==
  /\ tv \in ThingVisors
  /\ Params \in [Requests -> Texts] /\ "quotes" \in Texts
  /\ \A r \in Requests : Kind[r] = "add" => Params[r] # ""
  /\ \A s \in Sessions : {s.asks, s.debug} \subseteq BOOLEAN

VARIABLE pod    \* state of the pod of each add request's Deployment

RequestsInit == session.asks   \* the program asks first (as vWeather does)
DebugMode    == session.debug  \* the record's debug_mode

vars == <<controllerVars, pod>>

\* A pod runs with the parameters of its environment until an updateTV.
NoPod == [st |-> "none", params |-> ""]

(***************************************************************************)
(* Records and calls.                                                      *)
(***************************************************************************)
Rec == db[ThingVisorKey(tv)]

Entry(st, params, details) ==
  [status |-> st, tvDescription |-> "", params |-> params, details |-> details]

\* The entry addThingVisor writes has no debug_mode yet.
InDebug(rec) == DebugMode /\ rec.details # NoDetails

VThingsOfTV == {v \in VThings : VThingPrefix[v] = tv}

Registered == {v \in VThingsOfTV : db[VThingTVKey(v)] # Nil}

CreateCall    == [fn |-> "CreateThingVisor", tv |-> tv,
                  rec |-> Entry(STATUS_PENDING, "", NoDetails)]
StopCall      == [fn |-> "StopThingVisor", tv |-> tv]
DeleteCall(vs) == [fn |-> "DeleteThingVisor", tv |-> tv, vThings |-> vs]
WriteCall(st, r, details) ==
  [fn |-> "UpdateThingVisor", tv |-> tv, rec |-> Entry(st, Params[r], details)]

\* The body carries params as an object (the program reads its "rate"), the
\* ledger its JSON text: one value stands for both.  JSON.stringify turns an
\* absent field into two quotes, which the chaincode takes for a new value.
Stringify(p) == IF p = "" THEN "quotes" ELSE p

PartialCallDescriptionOnly(r) ==
  [fn |-> "UpdateThingVisorPartial", tv |-> tv, tvDescription |-> "",
   params |-> ""]

PartialCall(r) ==
  [fn |-> "UpdateThingVisorPartial", tv |-> tv, tvDescription |-> "",
   params |-> Stringify(Params[r])]

(***************************************************************************)
(* When nothing is under way.                                              *)
(***************************************************************************)
Quiet(a) == \/ AtRest(a)
            \/ pc[a] \in {"poll", "pollInit"} /\ ~IsRunning(tv, db)

PodsMatch ==
  \A a \in Creations : pod[a].st = (IF deployment = a THEN "up" ELSE "none")

\* Nothing is left to happen but new requests and faults.
Settled ==
  /\ \A a \in Actors : Quiet(a)
  /\ toPod = <<>> /\ toCtl = <<>>
  /\ PodsMatch
  /\ ~doomed

Init ==
  /\ InitWith([k \in Keys |-> Nil])
  /\ pod = [a \in Creations |-> NoPod]

(***************************************************************************)
(* REST handlers.                                                          *)
(***************************************************************************)
Accept(r) ==
  /\ r \in Own
  /\ Sequential => Settled
  /\ Start(r, IF Kind[r] = "add" THEN "create" ELSE "get")

Create(r) ==
  /\ pc[r] = "create"
  /\ Submit(r, CreateCall, "enqueue", "failed")
  /\ UNCHANGED rest

\* addBackgroundJob; an update is published once its job is queued.
EnqueueJob(r) == Enqueue(r, Nil, IF Kind[r] = "add" THEN "ok" ELSE "publish")

AfterGet(a) ==
  IF a \in Handlers THEN "drop"
  ELSE CASE Kind[a] = "update" -> "enqueue"
         [] Kind[a] = "delete" -> "stop"
         [] Kind[a] = "force"  -> "drop"

GetWithoutStop(a) ==
  /\ pc[a] = "get"
  /\ Read(a, Rec, IF AfterGet(a) = "stop" THEN "publish" ELSE AfterGet(a))

\* GetThingVisor, for update, delete, force and the destroyTVAck callback.
Get(a) ==
  /\ pc[a] = "get"
  /\ Read(a, Rec, AfterGet(a))

StopQuietly(r) ==
  /\ pc[r] = "stop"
  /\ Submit(r, StopCall, "ok", "failed")
  /\ UNCHANGED rest

Stop(r) ==
  /\ pc[r] = "stop"
  /\ Submit(r, StopCall, "publish", "failed")
  /\ UNCHANGED rest

Message(r) ==
  [cmd    |-> IF Kind[r] = "delete" THEN "destroyTV" ELSE "updateTV",
   params |-> Params[r]]

PublishAndWait(r) ==
  /\ pc[r] = "publish"
  /\ PublishTo(r, Message(r), "ok")

\* destroyTV after a stop, updateTV after an update.
Publish(r) ==
  /\ pc[r] = "publish"
  /\ PublishTo(r, Message(r), IF Kind[r] = "delete" /\ InDebug(seen[r])
                              THEN "debugDrop" ELSE "ok")

\* In debug mode the handler does not wait for the acknowledgement.
DebugDrop(r) ==
  /\ pc[r] = "debugDrop"
  /\ Submit(r, DeleteCall({}), "ok", "failed")
  /\ UNCHANGED rest

(***************************************************************************)
(* The end of a forced delete and of the destroyTVAck callback: the record,*)
(* then the cluster, then the callback.  Of the vThing IDs the contract    *)
(* checks the prefix only.  The deleteVThing a forced delete publishes     *)
(* goes to the Virtual Silos.                                              *)
(***************************************************************************)
Drop(a) ==
  /\ pc[a] = "drop"
  /\ Submit(a, DeleteCall(Registered),
            IF InDebug(seen[a]) THEN "cleanup" ELSE "k8s", "failed")
  /\ UNCHANGED rest

DeleteOnKubernetes(a) ==
  DeleteDeployment(a, deployment # NoDeployment, "cleanup")

\* The names of the Services were stored as those of additional deployments.
\* Deleting these fails later, in a promise nobody awaits.
LeavesRejection(rec) == HasService /\ ~InDebug(rec) /\ Deployed(rec)

ForgetThingVisor(a) ==
  /\ Cleanup(a)
  /\ doomed' = (doomed \/ LeavesRejection(seen[a]))

(***************************************************************************)
(* Background jobs.  updateThingVisor has nothing outside its try block.   *)
(***************************************************************************)
BeginJob(r) == StartJob(r, IF Kind[r] = "add" THEN "pending" ELSE "update")

\* Both writes of createThingVisorOnKubernetes are made of the values the job
\* started with.
CreateThingVisorOnKubernetes(r) ==
  \/ WritePending(r, WriteCall(STATUS_PENDING, r, NoDeployment))
  \/ Subscribe(r) \/ CreateService(r) \/ CreateDeployment(r)
  \/ WriteRunning(r, WriteCall(STATUS_RUNNING, r, r))

UpdateJob(r) ==
  /\ pc[Job(r)] = "update"
  /\ \/ ~identity /\ Goto(Job(r), "ok") /\ UNCHANGED <<db, faults>>
     \/ identity /\ Submit(Job(r), PartialCall(r), "ok", "ok")
  /\ UNCHANGED rest

(***************************************************************************)
(* Callbacks.  The poll has no end: it goes on until the ThingVisor is     *)
(* running.                                                                *)
(***************************************************************************)
PollRunning(h) ==
  /\ pc[h] = "poll"
  /\ IsRunning(tv, db)
  /\ Goto(h, "register")
  /\ UNCHANGED <<db, rest, faults>>

RegisterVThing(h) ==
  /\ pc[h] = "register"
  /\ \E v \in VThingsOfTV :
       Submit(h, [fn |-> "AddVThingToThingVisor", tv |-> tv, vThing |-> v,
                  details |-> NoDetails], "ok", "failed")
  /\ UNCHANGED rest

\* The request's own wait: what it found is 100 ms old when it publishes.
PollInit(h) ==
  /\ pc[h] = "pollInit"
  /\ IsRunning(tv, db)
  /\ Goto(h, "init")
  /\ UNCHANGED <<db, rest, faults>>

PublishInit(h) ==
  /\ pc[h] = "init"
  /\ PublishTo(h, [cmd |-> "createVThings", params |-> ""], "ok")

(***************************************************************************)
(* The ThingVisor program.  HelloWorld registers its vThing when it starts *)
(* and subscribes to c_in afterwards; vWeather subscribes, asks, and waits *)
(* to be told.                                                             *)
(***************************************************************************)
PodStarts(a) ==
  /\ deployment = a
  /\ pod[a].st = "none"
  /\ LET first == IF RequestsInit THEN "up" ELSE "starting"
     IN  pod' = [pod EXCEPT ![a] = [st |-> first, params |-> Params[a]]]
  /\ toCtl' = Append(toCtl, IF RequestsInit THEN "requestInit"
                            ELSE "createVThing")
  /\ UNCHANGED <<db, procVars, ctlVars, toPod, lost, deployment, service,
                 faults>>

PodListens(a) ==
  /\ pod[a].st = "starting"
  /\ pod' = [pod EXCEPT ![a].st = "up"]
  /\ UNCHANGED <<db, procVars, ctlVars, netVars, deployment, service, faults>>

\* After acknowledging destroyTV the program goes on; only the end of its
\* Deployment stops it.
PodsReceive ==
  LET m     == Head(toPod)
      up    == {a \in Creations : pod[a].st = "up"}
      reply == CASE m.cmd = "destroyTV"     -> {"destroyTVAck"}
                 [] m.cmd = "createVThings" ->
                      IF RequestsInit THEN {"createVThing"} ELSE {}
                 [] OTHER                   -> {}
  IN  /\ toPod # <<>>
      /\ toPod' = Tail(toPod)
      /\ lost' = IF up = {} THEN lost \cup {m.cmd} ELSE lost
      /\ toCtl' = toCtl \o [i \in 1..Cardinality(reply \X up) |->
                              CHOOSE x \in reply : TRUE]
      /\ pod' = [a \in Creations |->
                  IF /\ a \in up
                     /\ m.cmd = "updateTV" /\ ~RequestsInit
                     /\ m.params # ""     \* else jres['params']['rate'] raises
                  THEN [pod[a] EXCEPT !.params = m.params] ELSE pod[a]]
      /\ UNCHANGED <<db, procVars, ctlVars, deployment, service, faults>>

PodStops(a) ==
  /\ deployment # a
  /\ pod[a].st # "none"
  /\ pod' = [pod EXCEPT ![a] = NoPod]
  /\ UNCHANGED <<db, procVars, ctlVars, netVars, deployment, service, faults>>

(***************************************************************************)
(* What is under way.  A creation is, from the record to the last write of *)
(* the job; a delete is, from its stop or, if it is forced, from its read  *)
(* of the record, to its end, and an update until its job has ended and the*)
(* program has its message, the messages in between included.              *)
(***************************************************************************)
Creating == \E r \in Creations : \/ pc[r] = "enqueue"
                                 \/ pc[Job(r)] \notin Ended \cup {"none"}

Updates == {r \in Requests : /\ Kind[r] = "update"
                             /\ ~(AtRest(r) /\ AtRest(Job(r)))}

Updating == Updates # {} \/ \E i \in 1..Len(toPod) : toPod[i].cmd = "updateTV"

Deletes ==
  Cardinality({a \in Actors : \/ pc[a] \in {"drop", "k8s", "cleanup"}
                              \/ pc[a] = "publish" /\ Kind[a] = "delete"
                              \/ pc[a] = "get" /\ a \in Handlers})
    + Cardinality({i \in 1..Len(toPod) : toPod[i].cmd = "destroyTV"})
    + Cardinality({i \in 1..Len(toCtl) : toCtl[i] = "destroyTVAck"})

(***************************************************************************)
(* The pod may be restarted by the cluster.                                *)
(***************************************************************************)
PodRestarts(a) ==
  /\ deployment = a
  /\ pod[a].st # "none"
  /\ Fault("pod")
  /\ pod' = [pod EXCEPT ![a] = NoPod]
  /\ UNCHANGED <<db, procVars, ctlVars, netVars, deployment, service>>

(***************************************************************************)
(* Windows in which requests are in each other's way, or a restart in the  *)
(* way of one.                                                             *)
(***************************************************************************)
Windows ==
  Labelled("updateDuringCreate", Creating /\ Updating)
    \cup Labelled("deleteDuringCreate",
           Creating /\ \E a \in Actors : pc[a] \in {"drop", "k8s", "cleanup"})
    \cup Labelled("stopDuringCreate",
           Creating /\ \E r \in Requests : pc[r] = "stop")
    \cup Labelled("leftoverService",
           service /\ \E r \in Creations : pc[Job(r)] = "service")
    \cup Labelled("twoDeletes", Deletes > 1)
    \cup Labelled("twoUpdates", \E r, q \in Updates : r # q)
    \cup Labelled("updateWithOldPod",
           Updating /\ \E a \in Creations : /\ pod[a].st # "none"
                                            /\ deployment # a)

Interrupted ==
  {"restart"}
    \cup Labelled("createInterrupted", Creating)
    \cup Labelled("updateInterrupted", Updating)
    \cup Labelled("deleteInterrupted", Deletes > 0)

\* What the controller does of itself, and what a client or a fault does.
ControllerStep ==
  \/ Login
  \/ \E r \in Requests :
       Create(r) \/ EnqueueJob(r) \/ Stop(r) \/ Publish(r) \/ DebugDrop(r)
  \/ \E r \in Queued :
       BeginJob(r) \/ CreateThingVisorOnKubernetes(r) \/ UpdateJob(r)
  \/ \E a \in Actors :
       Get(a) \/ Drop(a) \/ DeleteOnKubernetes(a) \/ ForgetThingVisor(a)
  \/ \E h \in Handlers :
       PollRunning(h) \/ RegisterVThing(h) \/ PollInit(h) \/ PublishInit(h)
  \/ Receive

PodStep ==
  \/ PodsReceive
  \/ \E a \in Creations : PodStarts(a) \/ PodListens(a) \/ PodStops(a)

Step == (ControllerStep /\ UNCHANGED pod) \/ PodStep

Next ==
  /\ \/ /\ \/ Step
           \/ (Lose \/ \E r \in Requests : Accept(r)) /\ UNCHANGED pod
           \/ \E a \in Creations : PodRestarts(a)
        /\ races' = races \cup Windows'
     \/ /\ Restart /\ UNCHANGED pod
        /\ races' = races \cup Interrupted
  /\ UNCHANGED session

Spec == Init /\ [][Next]_vars

(***************************************************************************)
(* Type invariant; a job is attempted at most MaxAttempts times.           *)
(***************************************************************************)
Labels == Ended \cup
  {"new", "none", "idle", "create", "enqueue", "get", "stop", "publish",
   "debugDrop", "drop", "k8s", "cleanup", "waiting", "pending", "subscribe",
   "service", "deploy", "running", "update", "poll", "pollInit", "register",
   "init"}

TypeOK ==
  /\ LedgerType(db)
  /\ pc \in [Actors -> Labels]
  /\ seen \in [Actors -> ThingVisorRecord \cup {Nil}]
  /\ attempts \in [Jobs -> 0..MaxAttempts]
  /\ {callback, subscribed, identity, doomed, service} \subseteq BOOLEAN
  /\ toPod \in Seq([cmd : {"destroyTV", "updateTV", "createVThings"},
                    params : Texts])
  /\ toCtl \in Seq({"createVThing", "requestInit", "destroyTVAck"})
  /\ deployment \in Creations \cup {NoDeployment}
  /\ pod \in [Creations -> [st : {"none", "starting", "up"}, params : Texts]]

Is(st) == Rec # Nil /\ Rec.status = st

(***************************************************************************)
(* Once everything has settled, a ThingVisor that is not in the ledger has *)
(* no Deployment in the cluster, no callback and no subscription.  A leak  *)
(* takes a delete that meets a creation (the delete reads a record without *)
(* a deploymentName, or the job goes on and installs everything after the  *)
(* record has gone), or a failure or restart in the middle of one of them; *)
(* a lost message, a failed enqueue or a restart at rest never leaks.      *)
(***************************************************************************)
DeletedMeansGone ==
  /\ Settled
  /\ Rec = Nil
  /\ ~DebugMode
  /\ Without({"deleteDuringCreate", "k8s", "submit", "createInterrupted",
              "deleteInterrupted"})
  => deployment = NoDeployment /\ ~callback /\ ~subscribed

(***************************************************************************)
(* A ThingVisor that stays "running" is served: its Deployment is the one  *)
(* its record was written for, the controller hears it, and its vThings    *)
(* are registered although the program may have announced them before the  *)
(* record was running. Not so after a delete met the creation, a           *)
(* transaction failed, a message was lost, or the controller was restarted *)
(* (the callback is gone).                                                 *)
(***************************************************************************)
RunningMeansServed ==
  /\ Settled
  /\ Is(STATUS_RUNNING)
  /\ Without({"deleteDuringCreate", "submit", "restart", "loss"})
  => /\ deployment = Rec.details
     /\ callback /\ subscribed
     /\ Registered = VThingsOfTV

(***************************************************************************)
(* No ThingVisor stays "pending" for another reason than a job that was    *)
(* not queued, a failed call, an interrupted request, a delete that met    *)
(* the creation, or the Service that an earlier one left behind.  In debug *)
(* mode there is one more: a delete leaves its Deployment in the cluster,  *)
(* and the job that finds it there stops.                                  *)
(***************************************************************************)
PendingIsExplained ==
  /\ Settled
  /\ Is(STATUS_PENDING)
  /\ ~DebugMode
  => ~Without({"deleteDuringCreate", "enqueue", "k8s", "submit",
               "leftoverService", "createInterrupted", "deleteInterrupted"})

(***************************************************************************)
(* No ThingVisor stays "stopping" unless destroyTV or its acknowledgement  *)
(* reached nobody, a transaction failed or a restart hit the delete.       *)
(* Nothing retries a stop: such a record needs a forced delete.            *)
(***************************************************************************)
StoppingIsExplained ==
  /\ Settled
  /\ Is(STATUS_STOPPING)
  => ~Without({"destroyTV", "destroyTVAck", "submit", "deleteInterrupted"})

(***************************************************************************)
(* Every update of the session has parameters. One without is stored as    *)
(* two quotes, and the program takes nothing from it.                      *)
(***************************************************************************)
UpdatesHaveParams ==
  \A r \in session.requests : Kind[r] = "update" => Params[r] # ""

(***************************************************************************)
(* The ledger and a program that takes updates agree on the parameters,    *)
(* unless the update met the creation (whose last write restores the old   *)
(* ones) or another update (their jobs and their messages may come in      *)
(* different orders), a delete met the creation (a job of long ago may     *)
(* then write its own), updateTV reached nobody or the program of a        *)
(* Deployment already deleted, a transaction failed, the pod was restarted *)
(* with its first environment, or the controller within an update.         *)
(***************************************************************************)
ParamsAgree ==
  /\ Settled
  /\ Is(STATUS_RUNNING)
  /\ ~RequestsInit /\ UpdatesHaveParams
  /\ Without({"updateDuringCreate", "twoUpdates", "updateWithOldPod",
              "deleteDuringCreate", "updateTV", "submit", "pod",
              "updateInterrupted"})
  => \A a \in Creations : pod[a].st = "up" => pod[a].params = Rec.params

(***************************************************************************)
(* The destroyTVAck callback deletes only a ThingVisor that is "stopping". *)
(* It does not look: DeleteThingVisor takes any status, so an old          *)
(* acknowledgement can delete a ThingVisor that was added again.  In debug *)
(* mode, where the handler does not wait for it, every one is old.         *)
(***************************************************************************)
AckDeletesStopping ==
  [][\A h \in Handlers :
       pc[h] = "drop" /\ Rec # Nil /\ Rec' = Nil /\ pc'[h] # "drop"
         => \/ Is(STATUS_STOPPING)
            \/ DebugMode
            \/ ~Without({"twoDeletes", "deleteDuringCreate"})]_vars

(***************************************************************************)
(* A delete removes the Deployment of the record it read and not that of   *)
(* a ThingVisor of the same name added later, unless two deletes overlap   *)
(* and a creation meets them.                                              *)
(***************************************************************************)
OwnDeployment ==
  [][\A a \in Actors :
       pc[a] = "k8s" /\ deployment # deployment' /\ pc'[a] # "k8s"
         => \/ deployment = seen[a].details
            \/ {"twoDeletes", "deleteDuringCreate"} \subseteq races]_vars

(***************************************************************************)
(* thingvisor.ts:192 announces that Deployment and Service are stopped: a  *)
(* deleted ThingVisor leaves no Service behind.                            *)
(***************************************************************************)
ServiceIsDeleted == Settled /\ Rec = Nil => ~service

(***************************************************************************)
(* Fairness: the process, its worker, the broker and the pod go on while   *)
(* they have something to do; a promise that rejects does reject.  Clients *)
(* need not send anything and faults need not happen.                      *)
(***************************************************************************)
Fairness ==
  WF_vars(/\ \/ Step /\ races' = races \cup Windows'
             \/ doomed /\ Restart /\ UNCHANGED pod
                  /\ races' = races \cup Interrupted
          /\ UNCHANGED session)

FairSpec == Spec /\ Fairness

(***************************************************************************)
(* A queued creation ends in a running ThingVisor with its vThings         *)
(* registered, by way of the messages between program and controller, if   *)
(* clients wait until then.                                                *)
(***************************************************************************)
AddedRuns ==
  \A r \in Creations :
    Sequential /\ pc[Job(r)] = "waiting"
      ~> Is(STATUS_RUNNING) /\ Registered = VThingsOfTV

(***************************************************************************)
(* A ThingVisor that is "stopping" leaves the ledger.  In debug mode it    *)
(* does so even if destroyTV is lost, unless the handler read the record   *)
(* before the creation had stored the debug_mode.                          *)
(***************************************************************************)
StoppedGoes ==
  Is(STATUS_STOPPING) ~> (Rec = Nil \/ "stopDuringCreate" \in races)
==============================================================================
