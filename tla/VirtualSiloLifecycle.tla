------------------------- MODULE VirtualSiloLifecycle -------------------------
(***************************************************************************)
(* The life of one Virtual Silo: the REST handlers of controller.ts that   *)
(* create and destroy it, attach vThings to it and detach them, and that   *)
(* add and delete its flavour; the jobs of silo.ts and flavour.ts, the     *)
(* callbacks of mqttcallback.ts and the silo program in its pod.  What a   *)
(* silo is connected to is kept twice, in the ledger by the controller and *)
(* as subscriptions by the program, and messages are all that keeps the    *)
(* two together.                                                           *)
(***************************************************************************)
EXTENDS Controller

CONSTANTS
  vSilo,      \* the Virtual Silo
  flavour,    \* the flavour it is created from
  Yaml,       \* details of a flavour that has its YAML files
  NoYaml,     \* details of a silo whose flavour had none: deploymentName "error"
  Target      \* the vThings a request is about

ASSUME SiloAssumption ==
  /\ vSilo \in VSilos /\ flavour \in Flavours
  /\ \A r \in Requests : Kind[r] \in {"create", "destroy", "forceDestroy",
                                     "attach", "detach",
                                     "addFlavour", "deleteFlavour"}
  /\ Target \in [Requests -> SUBSET VThings]
  /\ \A r \in Requests : Kind[r] \in {"attach", "detach"}
                          => \E v \in VThings : Target[r] = {v}
  /\ {Yaml, NoYaml} \subseteq Details \ (Requests \cup {NoDetails, NoDeployment})

VARIABLE pod    \* state of the pod of each create request's Deployment

vars == <<controllerVars, pod>>

\* The program listens to vSilo/<vSiloID>/c_in until it has been told to
\* destroy itself; data and control are the vThings whose data_out and c_out
\* topics it is subscribed to.
NoPod == [st |-> "none", data |-> {}, control |-> {}]

(***************************************************************************)
(* Records and calls.                                                      *)
(***************************************************************************)
Silo    == db[VSiloKey(vSilo)]
Flavour == db[FlavourKey(flavour)]

Attached == {v \in VThings : db[VThingVSiloKey(vSilo, v)] # Nil}

AddFlavourCall    == [fn |-> "AddFlavour", flavour |-> flavour]
DeleteFlavourCall == [fn |-> "DeleteFlavour", flavour |-> flavour]
FlavourCall(st) ==
  [fn |-> "UpdateFlavour", flavour |-> flavour,
   rec |-> [status |-> st, details |-> Yaml]]

AddSiloCall     == [fn |-> "AddVirtualSilo", vSilo |-> vSilo]
DropCall(vs)    == [fn |-> "DeleteVirtualSilo", vSilo |-> vSilo, vThings |-> vs]
SiloCall(st, details) ==
  [fn |-> "UpdateVirtualSilo", vSilo |-> vSilo,
   rec |-> [status |-> st, details |-> details]]

AttachCall(v) == [fn |-> "AddVThingVSilo", vSilo |-> vSilo, vThing |-> v,
                  details |-> NoDetails]
DetachCall(v) == [fn |-> "DeleteVThingVSilo", vSilo |-> vSilo, vThing |-> v]

(***************************************************************************)
(* When nothing is under way.                                              *)
(***************************************************************************)
PodsMatch ==
  \A a \in Creations : deployment = a <=> pod[a].st # "none"

Settled ==
  /\ \A a \in Actors : AtRest(a)
  /\ toPod = <<>> /\ toCtl = <<>>
  /\ PodsMatch
  /\ ~doomed

\* The vThings exist, and so does the flavour unless a request adds it.
Init ==
  /\ InitWith([k \in Keys |->
       CASE k \in {VThingTVKey(v) : v \in VThings} -> NoDetails
         [] k = FlavourKey(flavour)
              /\ \A r \in session.requests : Kind[r] # "addFlavour"
              -> [status |-> "ready", details |-> Yaml]
         [] OTHER -> Nil])
  /\ pod = [a \in Creations |-> NoPod]

(***************************************************************************)
(* REST handlers.                                                          *)
(***************************************************************************)
FirstOf(kind) == CASE kind = "addFlavour"    -> "addFlavour"
                   [] kind = "deleteFlavour" -> "deleteFlavour"
                   [] kind = "create"        -> "getFlavour"
                   [] kind = "attach"        -> "getSilo"
                   [] kind = "detach"        -> "check"
                   [] OTHER                  -> "get"

Accept(r) ==
  /\ Sequential => Settled
  /\ Start(r, FirstOf(Kind[r]))

Add(r) ==
  /\ pc[r] = "addFlavour"
  /\ Submit(r, AddFlavourCall, "enqueue", "failed")
  /\ UNCHANGED rest

Delete(r) ==
  /\ pc[r] = "deleteFlavour"
  /\ Submit(r, DeleteFlavourCall, "ok", "failed")
  /\ UNCHANGED rest

\* siloCreate takes a flavour in whatever state it is.
GetFlavour(r) ==
  /\ pc[r] = "getFlavour"
  /\ Read(r, Flavour, "create")

Create(r) ==
  /\ pc[r] = "create"
  /\ Submit(r, AddSiloCall, "enqueue", "failed")
  /\ UNCHANGED rest

\* The job of a create carries the flavour the handler has read.
EnqueueJob(r) == Enqueue(r, seen[r], "ok")

\* GetVirtualSilo, for both ways to destroy and the destroyVSiloAck callback.
Get(a) ==
  /\ pc[a] = "get"
  /\ Read(a, Silo, IF a \in Requests /\ Kind[a] = "destroy" THEN "publish"
                   ELSE "k8s")

\* siloDestroy leaves the record as it is.
Message(r) ==
  [cmd     |-> CASE Kind[r] = "destroy" -> "destroyVSilo"
                 [] Kind[r] = "attach"  -> "addVThing"
                 [] Kind[r] = "detach"  -> "deleteVThing",
   vThings |-> Target[r]]

Publish(r) ==
  /\ pc[r] = "publish"
  /\ PublishTo(r, Message(r), IF Kind[r] = "attach" THEN "submit" ELSE "ok")

(***************************************************************************)
(* addVThing tells the program first and the ledger second; deleteVThing   *)
(* does it the other way round.  Both check first.                         *)
(***************************************************************************)
GetSilo(r) ==
  /\ pc[r] = "getSilo"
  /\ Read(r, IF Silo # Nil /\ Silo.status = STATUS_RUNNING THEN Silo ELSE Nil,
          "check")

Check(r) ==
  LET attached == Target[r] \subseteq Attached
  IN  /\ pc[r] = "check"
      /\ Goto(r, CASE Kind[r] = "attach" /\ ~attached -> "publish"
                   [] Kind[r] = "detach" /\ attached  -> "submit"
                   [] OTHER                           -> "failed")
      /\ UNCHANGED <<db, rest, faults>>

SubmitAttachment(r) ==
  /\ pc[r] = "submit"
  /\ \E v \in Target[r] :
       IF Kind[r] = "attach" THEN Submit(r, AttachCall(v), "ok", "failed")
       ELSE Submit(r, DetachCall(v), "publish", "failed")
  /\ UNCHANGED rest

(***************************************************************************)
(* The end of a forced destroy and of the destroyVSiloAck callback: the    *)
(* cluster, then the record with the attachments listed before, then the   *)
(* callback.                                                               *)
(***************************************************************************)
DeleteOnKubernetes(a) ==
  DeleteDeployment(a, deployment # NoDeployment /\ seen[a].details # NoYaml,
                   "list")

\* The names of the Services were stored as those of additional deployments.
\* Deleting these fails later, in a promise nobody awaits.
List(a) ==
  /\ pc[a] = "list"
  /\ doomed' = (doomed \/ (HasService /\ Deployed(seen[a])))
  /\ GoSeeing(a, "drop", [vThings |-> Attached])
  /\ UNCHANGED <<db, attempts, callback, subscribed, identity, netVars,
                 clusterVars, faults>>

Drop(a) ==
  /\ pc[a] = "drop"
  /\ Submit(a, DropCall(seen[a].vThings), "cleanup", "failed")
  /\ UNCHANGED rest

Forget(a) == Cleanup(a) /\ UNCHANGED doomed

(***************************************************************************)
(* Background jobs.  A flavour without YAML files makes a silo without a   *)
(* Deployment, whose deploymentName still is the "error" it starts as.     *)
(***************************************************************************)
BeginJob(r) == StartJob(r, IF Kind[r] = "create" THEN "pending" ELSE "flavour")

HasYaml(r) == seen[Job(r)].details # NoDetails

WithoutYaml(r) ==
  /\ pc[Job(r)] = "service" /\ ~HasYaml(r)
  /\ Goto(Job(r), "running")
  /\ UNCHANGED <<db, rest, faults>>

CreateVirtualSiloOnKubernetes(r) ==
  \/ WritePending(r, SiloCall(STATUS_PENDING, NoDeployment))
  \/ Subscribe(r)
  \/ WithoutYaml(r)
  \/ CreateService(r) /\ HasYaml(r)
  \/ CreateDeployment(r)
  \/ WriteRunning(r, SiloCall(STATUS_RUNNING, IF HasYaml(r) THEN r ELSE NoYaml))

WriteFlavourTwice(r) ==
  /\ pc[Job(r)] = "flavour"
  /\ \/ ~identity /\ Retry(Job(r)) /\ UNCHANGED <<db, faults>>
     \/ /\ identity
        /\ Submit(Job(r), FlavourCall("ready"), "flavourError", "flavourError")
        /\ UNCHANGED attempts
  /\ UNCHANGED <<ctlVars, netVars, clusterVars>>

WriteFlavour(r) ==
  /\ pc[Job(r)] = "flavour"
  /\ \/ ~identity /\ Retry(Job(r)) /\ UNCHANGED <<db, faults>>
     \/ /\ identity
        /\ Submit(Job(r), FlavourCall("ready"), "ok", "flavourError")
        /\ UNCHANGED attempts
  /\ UNCHANGED <<ctlVars, netVars, clusterVars>>

WriteFlavourError(r) ==
  /\ pc[Job(r)] = "flavourError"
  /\ Submit(Job(r), FlavourCall("error"), "ok", "ok")
  /\ UNCHANGED rest

CreateFlavourOnKubernetes(r) == WriteFlavour(r) \/ WriteFlavourError(r)

(***************************************************************************)
(* The restoreVThingsAck callback sends a program that has started what it *)
(* is to be connected to.                                                  *)
(***************************************************************************)
Restore(h) ==
  /\ pc[h] = "restore"
  /\ GoSeeing(h, "restored", [vThings |-> Attached])
  /\ UNCHANGED <<db, rest, faults>>

PublishRestore(h) ==
  /\ pc[h] = "restored"
  /\ PublishTo(h, [cmd |-> "restoreVThings", vThings |-> seen[h].vThings], "ok")

(***************************************************************************)
(* The silo program.  It subscribes to its topic, asks to be restored, and *)
(* takes one message after the other.                                      *)
(***************************************************************************)
PodStarts(a) ==
  /\ deployment = a
  /\ pod[a].st = "none"
  /\ pod' = [pod EXCEPT ![a].st = "up"]
  /\ toCtl' = Append(toCtl, "restoreVThingsAck")
  /\ UNCHANGED <<db, procVars, ctlVars, toPod, lost, deployment, service,
                 faults>>

OnDeleteControlOnly(p, vs) == [p EXCEPT !.control = @ \ vs]

\* on_message_delete_vThing unsubscribes from vThing/<id>/out_control, a topic
\* nobody has subscribed to, and stays subscribed to vThing/<id>/c_out.
OnDelete(p, vs) == [p EXCEPT !.data = @ \ vs]

\* on_message_restore_virtual_things adds to what there is.
OnAdd(p, vs) == [p EXCEPT !.data = @ \cup vs, !.control = @ \cup vs]

\* The control client disconnects; the process goes on without it.
OnDestroy(p) == [p EXCEPT !.st = "deaf"]

PodsReceive ==
  LET m  == Head(toPod)
      up == {a \in Creations : pod[a].st = "up"}
  IN  /\ toPod # <<>>
      /\ toPod' = Tail(toPod)
      /\ lost' = IF up = {} THEN lost \cup {m.cmd} ELSE lost
      /\ pod' = [a \in Creations |->
           IF a \notin up THEN pod[a]
           ELSE CASE m.cmd \in {"addVThing", "restoreVThings"}
                       -> OnAdd(pod[a], m.vThings)
                  [] m.cmd = "deleteVThing" -> OnDelete(pod[a], m.vThings)
                  [] m.cmd = "destroyVSilo" -> OnDestroy(pod[a])]
      /\ toCtl' = IF m.cmd = "destroyVSilo"
                  THEN toCtl \o [i \in 1..Cardinality(up) |-> "destroyVSiloAck"]
                  ELSE toCtl
      /\ UNCHANGED <<db, procVars, ctlVars, deployment, service, faults>>

PodStops(a) ==
  /\ deployment # a
  /\ pod[a].st # "none"
  /\ pod' = [pod EXCEPT ![a] = NoPod]
  /\ UNCHANGED <<db, procVars, ctlVars, netVars, deployment, service, faults>>

\* The pod may be restarted by the cluster.
PodRestarts(a) ==
  /\ deployment = a
  /\ pod[a].st # "none"
  /\ Fault("pod")
  /\ pod' = [pod EXCEPT ![a] = NoPod]
  /\ UNCHANGED <<db, procVars, ctlVars, netVars, deployment, service>>

(***************************************************************************)
(* Windows in which requests are in each other's way, or a restart in the  *)
(* way of one.  A creation is under way from its record to the last write  *)
(* of its job; a destruction from the message, or from the read of the     *)
(* record, to its end; an attachment and a detachment from their checks.   *)
(***************************************************************************)
Creating == \E r \in Creations : \/ pc[r] = "enqueue"
                                 \/ pc[Job(r)] \notin Ended \cup {"none"}

FromPendingFlavour ==
  \E r \in Creations : pc[r] \in {"create", "enqueue"} /\ seen[r].details # Yaml

AddingFlavour ==
  \E r \in Requests : /\ Kind[r] = "addFlavour"
                      /\ pc[r] = "enqueue" \/ ~AtRest(Job(r))

Tearing == {"k8s", "list", "drop", "cleanup"}

Deletes ==
  Cardinality({a \in Actors : \/ pc[a] \in Tearing
                              \/ pc[a] = "get" /\ a \in Handlers})
    + Cardinality({i \in 1..Len(toPod) : toPod[i].cmd = "destroyVSilo"})
    + Cardinality({i \in 1..Len(toCtl) : toCtl[i] = "destroyVSiloAck"})

Busy(kind) == {r \in Requests : /\ Kind[r] = kind
                                /\ pc[r] \in {"check", "publish", "submit"}}

Restoring == \E h \in Handlers : pc[h] \in {"restore", "restored"}

\* A message that tells the program to connect, or a restore that will send one.
Connecting ==
  \/ Restoring
  \/ \E i \in 1..Len(toPod) : toPod[i].cmd \in {"addVThing", "restoreVThings"}

Windows ==
  Labelled("deleteDuringCreate",
           Creating /\ \E a \in Actors : pc[a] \in Tearing)
    \cup Labelled("twoDeletes", Deletes > 1)
    \cup Labelled("attachDuringDelete",
           Busy("attach") # {} /\ \E a \in Actors : pc[a] \in Tearing)
    \cup Labelled("attachDuringDetach",
           Busy("attach") # {} /\ Busy("detach") # {})
    \cup Labelled("changeDuringRestore",
           Restoring /\ Busy("attach") \cup Busy("detach") # {})
    \cup Labelled("connectDuringDelete",
                  Connecting /\ \E a \in Actors : pc[a] \in Tearing)
    \cup Labelled("pendingFlavour", FromPendingFlavour)
    \cup Labelled("flavourDeletedDuringAdd",
                  AddingFlavour /\ \E r \in Requests : pc[r] = "deleteFlavour")
    \cup Labelled("leftoverService",
                  service /\ \E r \in Creations : pc[Job(r)] = "service")

Interrupted ==
  {"restart"}
    \cup Labelled("createInterrupted", Creating)
    \cup Labelled("deleteInterrupted", Deletes > 0)
    \cup Labelled("changeInterrupted", Busy("attach") \cup Busy("detach") # {})
    \cup Labelled("restoreInterrupted", Restoring)
    \cup Labelled("flavourInterrupted", AddingFlavour)

\* What the controller does of itself, and what a client or a fault does.
ControllerStep ==
  \/ Login
  \/ \E r \in Requests :
       \/ Add(r) \/ Delete(r) \/ GetFlavour(r) \/ Create(r) \/ EnqueueJob(r)
       \/ Publish(r) \/ GetSilo(r) \/ Check(r) \/ SubmitAttachment(r)
  \/ \E r \in Queued :
       \/ BeginJob(r) \/ CreateVirtualSiloOnKubernetes(r)
       \/ CreateFlavourOnKubernetes(r)
  \/ \E a \in Actors :
       Get(a) \/ DeleteOnKubernetes(a) \/ List(a) \/ Drop(a) \/ Forget(a)
  \/ \E h \in Handlers : Restore(h) \/ PublishRestore(h)
  \/ Receive

PodStep ==
  \/ PodsReceive
  \/ \E a \in Creations : PodStarts(a) \/ PodStops(a)

Step == (ControllerStep /\ UNCHANGED pod) \/ PodStep

Next ==
  /\ \/ /\ \/ Step
           \/ (Lose \/ \E r \in Requests : Accept(r)) /\ UNCHANGED pod
           \/ \E a \in Creations : PodRestarts(a)
        /\ races' = races \cup Windows'
     \/ /\ Restart /\ UNCHANGED pod
        /\ races' = races \cup Interrupted
  /\ UNCHANGED session

Spec == Init /\ [][Next]_vars

(***************************************************************************)
(* Type invariant; a job is attempted at most MaxAttempts times.           *)
(***************************************************************************)
Labels == Ended \cup Tearing \cup
  {"new", "none", "idle", "addFlavour", "deleteFlavour", "getFlavour",
   "create", "enqueue", "get", "publish", "getSilo", "check", "submit",
   "waiting", "pending", "subscribe", "service", "deploy", "running",
   "flavour", "flavourError", "restore", "restored"}

TypeOK ==
  /\ LedgerType(db)
  /\ pc \in [Actors -> Labels]
  /\ seen \in [Actors -> Record \cup [vThings : SUBSET VThings] \cup {Nil}]
  /\ attempts \in [Jobs -> 0..MaxAttempts]
  /\ {callback, subscribed, identity, doomed, service} \subseteq BOOLEAN
  /\ toPod \in Seq([cmd : {"addVThing", "deleteVThing", "destroyVSilo",
                           "restoreVThings"}, vThings : SUBSET VThings])
  /\ toCtl \in Seq({"restoreVThingsAck", "destroyVSiloAck"})
  /\ deployment \in Creations \cup {NoDeployment}
  /\ pod \in [Creations -> [st : {"none", "up", "deaf"},
                            data : SUBSET VThings, control : SUBSET VThings]]

Is(st) == Silo # Nil /\ Silo.status = st

(***************************************************************************)
(* Once everything has settled, a Virtual Silo that is not in the ledger   *)
(* has no Deployment, no callback, no subscription and no attachment: the  *)
(* next silo of that name would be restored with it. Not so after a vThing *)
(* was attached, or the silo created, while it was being destroyed; after  *)
(* a transaction failed or timed out; and after a restart within a         *)
(* creation or a destruction.                                              *)
(***************************************************************************)
SiloIsGone ==
  /\ Settled
  /\ Silo = Nil
  /\ Without({"attachDuringDelete", "deleteDuringCreate", "submit",
              "createInterrupted", "deleteInterrupted"})
  => deployment = NoDeployment /\ ~callback /\ ~subscribed /\ Attached = {}

(***************************************************************************)
(* A silo that stays "running" is served by its own program, which listens *)
(* and is heard. Not so if a destruction met the creation, the flavour was *)
(* pending (there is no Deployment), the acknowledgement of destroyVSilo   *)
(* was lost (the program has stopped listening), a Kubernetes call or      *)
(* transaction failed, or the controller was restarted (the callback is    *)
(* gone).                                                                  *)
(***************************************************************************)
RunningSiloIsServed ==
  /\ Settled
  /\ Is(STATUS_RUNNING)
  /\ Without({"deleteDuringCreate", "pendingFlavour", "destroyVSiloAck",
              "k8s", "submit", "restart"})
  => /\ deployment = Silo.details
     /\ pod[Silo.details].st = "up"
     /\ callback /\ subscribed

(***************************************************************************)
(* A silo can be destroyed: the Deployment its record names is there.      *)
(* Every way to destroy it begins with deleting that Deployment and ends   *)
(* where this fails, and a new silo of the name is refused. Not so for a   *)
(* silo made from a pending flavour, and where a destruction ended between *)
(* the Deployment and the record. Two destructions at a time may take it   *)
(* away under a creation whose last write falls on the record of the next  *)
(* one, if that stops short of its own: not queued, failed on Kubernetes   *)
(* or interrupted.                                                         *)
(***************************************************************************)
SiloCanBeDestroyed ==
  /\ Settled
  /\ Silo # Nil
  /\ Without({"pendingFlavour", "submit", "deleteInterrupted"})
  /\ \/ Without({"twoDeletes"})
     \/ Without({"enqueue", "k8s", "createInterrupted"})
  => (Deployed(Silo) => deployment # NoDeployment /\ Silo.details # NoYaml)

(***************************************************************************)
(* No silo stays "pending" for another reason than these: a destruction    *)
(* during its creation, a job that was not queued, a Kubernetes call or    *)
(* transaction of the job that failed, the Service that an earlier silo    *)
(* left behind, a restart within the job.                                  *)
(***************************************************************************)
PendingSiloIsExplained ==
  /\ Settled
  /\ Is(STATUS_PENDING)
  => ~Without({"deleteDuringCreate", "enqueue", "k8s", "submit",
               "leftoverService", "createInterrupted"})

(***************************************************************************)
(* The program is connected to the vThings the ledger says it is attached  *)
(* to. Not so after a vThing was attached and detached at the same time,   *)
(* or either while a restore was under way; when one of the four messages  *)
(* was lost; when a transaction failed between message and ledger; when a  *)
(* message to connect, or a restore that will send one, outlived the silo  *)
(* it was meant for and met the next; when a destruction met the creation; *)
(* and after a restart within a creation, a change or a restore.           *)
(***************************************************************************)
ConnectedAsAttached ==
  /\ Settled
  /\ Is(STATUS_RUNNING)
  /\ Without({"attachDuringDetach", "changeDuringRestore", "addVThing",
              "deleteVThing", "restoreVThings", "restoreVThingsAck", "submit",
              "deleteDuringCreate", "connectDuringDelete", "createInterrupted",
              "changeInterrupted", "restoreInterrupted"})
  => \A a \in Creations : pod[a].st = "up" => pod[a].data = Attached

(***************************************************************************)
(* A flavour that has been added becomes "ready", unless its job was not   *)
(* queued, a transaction failed (then it may be "error" for ever), it was  *)
(* deleted while its job was under way (the job of the first writes its    *)
(* error into the second) or a restart came in the way.                    *)
(***************************************************************************)
FlavourGetsReady ==
  /\ Settled
  /\ Flavour # Nil
  /\ Without({"enqueue", "submit", "flavourDeletedDuringAdd",
              "flavourInterrupted"})
  => Flavour.status = "ready"

(***************************************************************************)
(* raw_vSilo_controller.py:143 announces that deleting a vThing removes    *)
(* subscriptions and callbacks: the program keeps no topic of a vThing it  *)
(* is not connected to.                                                    *)
(***************************************************************************)
DetachedIsUnsubscribed ==
  Settled => \A a \in Creations : pod[a].control = pod[a].data

(***************************************************************************)
(* Fairness: the process, its worker, the broker and the pod go on while   *)
(* they have something to do; a promise that rejects does reject.  Clients *)
(* need not send anything and faults need not happen.                      *)
(***************************************************************************)
Fairness ==
  WF_vars(/\ \/ Step /\ races' = races \cup Windows'
             \/ doomed /\ Restart /\ UNCHANGED pod
                  /\ races' = races \cup Interrupted
          /\ UNCHANGED session)

FairSpec == Spec /\ Fairness

(***************************************************************************)
(* When destroyVSilo reaches the program of a running silo, the silo       *)
(* leaves the ledger, by way of the acknowledgement and the callback or of *)
(* a forced destruction in between; unless a destruction met its creation. *)
(***************************************************************************)
DestroyedGoes ==
  /\ toPod # <<>> /\ Head(toPod).cmd = "destroyVSilo"
  /\ Is(STATUS_RUNNING)
  /\ \E a \in Creations : Silo.details = a /\ pod[a].st = "up"
  ~> Silo = Nil \/ "deleteDuringCreate" \in races
===============================================================================
