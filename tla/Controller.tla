------------------------------ MODULE Controller ------------------------------
(***************************************************************************)
(* What the handlers, jobs and callbacks of the controller have in common, *)
(* whether they work on a ThingVisor or on a Virtual Silo: how one moves   *)
(* from step to step, submits a transaction, retries a job and calls       *)
(* Kubernetes, and what a restart of the process takes away.               *)
(*                                                                         *)
(* A step ends where the code awaits a call that leaves the process.  A    *)
(* submitTransaction is one step on the ledger: module Ledger shows that   *)
(* commits are atomic, and a commit refused for a read conflict is one of  *)
(* the failures "submit" stands for.                                       *)
(*                                                                         *)
(* The programs in the pods differ; the modules that extend this one have  *)
(* a variable of their own for them.                                       *)
(***************************************************************************)
EXTENDS Chaincode, Integers, Sequences, FiniteSets

CONSTANTS
  NoDeployment, \* details of an entry whose deploymentName is not known yet
  Requests,     \* REST requests clients may send, each of them once
  Kind,         \* what each request asks for
  Handlers,     \* bound: MQTT callbacks running at the same time
  MaxAttempts,  \* attempts of a job (config.submitJobAttempts)
  MaxFaults,    \* bound: faults in a behaviour
  Sessions      \* the settings a behaviour may have

Kinds == {"add", "update", "delete", "force",
          "create", "destroy", "forceDestroy", "attach", "detach",
          "addFlavour", "deleteFlavour", "setEndpoint", "delEndpoint"}

ASSUME ProcessAssumption ==
  /\ Kind \in [Requests -> Kinds]
  /\ Requests \cup {NoDeployment} \subseteq Details
  /\ {NoDetails, NoDeployment} \cap Requests = {} /\ NoDetails # NoDeployment
  /\ MaxAttempts \in Nat \ {0} /\ MaxFaults \in Nat
  /\ \A s \in Sessions : /\ s.requests \subseteq Requests
                         /\ {s.sequential, s.service} \subseteq BOOLEAN

VARIABLES
  session,    \* what clients and faults may do, and what is deployed
  db,         \* the ledger
  pc,         \* where each request, job and callback stands
  seen,       \* what it has read and keeps; the data of a job
  attempts,   \* failed attempts of each job
  callback,   \* mqttCallBack has the c_out topic
  subscribed, \* the broker forwards the c_out topic to the controller
  identity,   \* the user's identity is in the in-memory wallet
  doomed,     \* a promise nobody awaits is going to reject
  toPod,      \* messages published on the c_in topic
  toCtl,      \* messages published on the c_out topic
  deployment, \* request that created the Deployment, or NoDeployment
  service,    \* the Service exists
  lost,       \* history: commands nobody received
  faults,     \* history: faults that happened
  races       \* history: race windows that were open at some time

\* The requests clients may send and the faults that may happen; whether
\* clients wait until everything has settled; whether the YAML has a Service.
\* A session never changes.
FaultKinds == session.faults
Sequential == session.sequential
HasService == session.service

procVars    == <<pc, seen, attempts>>
ctlVars     == <<callback, subscribed, identity, doomed>>
netVars     == <<toPod, toCtl, lost>>
clusterVars == <<deployment, service>>
rest        == <<attempts, ctlVars, netVars, clusterVars>>
controllerVars ==
  <<session, db, pc, seen, attempts, callback, subscribed, identity, doomed,
    toPod, toCtl, deployment, service, lost, faults, races>>

Creations == {r \in Requests : Kind[r] \in {"add", "create"}}
Queued    == {r \in Requests :                         \* those with a job
               Kind[r] \in {"add", "update", "create", "addFlavour"}}
Job(r)    == <<"job", r>>
Jobs      == {Job(r) : r \in Queued}
Actors    == Requests \cup Jobs \cup Handlers

\* A request, a job and a callback are different things, and there are never
\* infinitely many of them.
ASSUME ActorAssumption ==
  /\ Requests \cap Handlers = {} /\ Jobs \cap (Requests \cup Handlers) = {}
  /\ IsFiniteSet(Requests) /\ IsFiniteSet(Handlers)

Ended == {"ok", "failed"}

AtRest(a) == pc[a] \in Ended \cup {"new", "none", "idle"}

(***************************************************************************)
(* Steps of an actor.  A callback that ends leaves its slot free.          *)
(***************************************************************************)
GoSeeing(a, l, what) ==
  LET idle == l \in Ended /\ a \in Handlers
  IN  /\ pc'   = [pc EXCEPT ![a] = IF idle THEN "idle" ELSE l]
      /\ seen' = [seen EXCEPT ![a] = IF l \in Ended THEN Nil ELSE what]

Goto(a, l) == GoSeeing(a, l, seen[a])

Fault(kind) ==
  /\ kind \in FaultKinds \ faults
  /\ Cardinality(faults) < MaxFaults
  /\ faults' = faults \cup {kind}

\* submitTransaction: the call commits, the contract refuses it, or it throws
\* for another reason, a timeout among them: then it may have committed.
Submit(a, tx, ok, err) ==
  \/ /\ \E w \in Simulate(tx, db) : db' = Apply(w, db)
     /\ Goto(a, ok)
     /\ UNCHANGED faults
  \/ /\ Simulate(tx, db) = {}
     /\ Goto(a, err)
     /\ UNCHANGED <<db, faults>>
  \/ /\ Fault("submit")
     /\ db' \in {db} \cup {Apply(w, db) : w \in Simulate(tx, db)}
     /\ Goto(a, err)

InitWith(ledger) ==
  /\ session \in Sessions
  /\ db = ledger
  /\ pc = [a \in Actors |-> IF a \in Requests THEN "new"
                            ELSE IF a \in Jobs THEN "none" ELSE "idle"]
  /\ seen = [a \in Actors |-> Nil]
  /\ attempts = [j \in Jobs |-> 0]
  /\ callback = FALSE /\ subscribed = FALSE /\ identity = TRUE /\ doomed = FALSE
  /\ toPod = <<>> /\ toCtl = <<>>
  /\ deployment = NoDeployment /\ service = FALSE
  /\ lost = {} /\ faults = {} /\ races = {}

(***************************************************************************)
(* Requests.  authenticateAPI needs the user's identity in the wallet      *)
(* before it lets one through; login puts it there.                        *)
(***************************************************************************)
Login ==
  /\ ~identity
  /\ identity' = TRUE
  /\ UNCHANGED <<db, procVars, callback, subscribed, doomed, netVars,
                 clusterVars, faults>>

Start(r, l) ==
  /\ pc[r] = "new" /\ r \in session.requests
  /\ identity
  /\ Goto(r, l)
  /\ UNCHANGED <<db, rest, faults>>

\* evaluateTransaction of a read of one record; it throws if there is none.
Read(a, rec, l) ==
  /\ IF rec = Nil THEN Goto(a, "failed") ELSE GoSeeing(a, l, rec)
  /\ UNCHANGED <<db, rest, faults>>

PublishTo(a, msg, l) ==
  /\ toPod' = Append(toPod, msg)
  /\ Goto(a, l)
  /\ UNCHANGED <<db, attempts, ctlVars, toCtl, lost, clusterVars, faults>>

(***************************************************************************)
(* Background jobs.  BullMQ hands a job with its data to the worker and    *)
(* retries it when it throws.                                              *)
(***************************************************************************)
Enqueue(r, data, l) ==
  /\ pc[r] = "enqueue"
  /\ \/ /\ pc' = [pc EXCEPT ![Job(r)] = "waiting", ![r] = l]
        /\ seen' = [seen EXCEPT ![Job(r)] = data, ![r] = Nil]
        /\ UNCHANGED faults
     \/ Fault("enqueue") /\ Goto(r, "failed")
  /\ UNCHANGED <<db, rest>>

StartJob(r, l) ==
  /\ pc[Job(r)] = "waiting"
  /\ Goto(Job(r), l)
  /\ UNCHANGED <<db, rest, faults>>

RetryForever(j) ==
  /\ attempts' = [attempts EXCEPT ![j] = @ + 1]
  /\ Goto(j, "waiting")

Retry(j) ==
  /\ attempts' = [attempts EXCEPT ![j] = @ + 1]
  /\ Goto(j, IF attempts[j] + 1 < MaxAttempts THEN "waiting" ELSE "failed")

(***************************************************************************)
(* The creation jobs; createVirtualSiloOnKubernetes is a copy of           *)
(* createThingVisorOnKubernetes.  In both only getContract and the first   *)
(* transaction are outside the try block: what fails there is retried,     *)
(* what fails later ends the job and leaves the record pending.  An object *)
(* of that name that exists already is such a failure.                     *)
(***************************************************************************)
WritePending(r, tx) ==
  /\ pc[Job(r)] = "pending"
  /\ \/ /\ ~identity \/ Simulate(tx, db) = {}
        /\ Retry(Job(r))
        /\ UNCHANGED <<db, faults>>
     \/ /\ identity
        /\ \E w \in Simulate(tx, db) : db' = Apply(w, db)
        /\ Goto(Job(r), "subscribe")
        /\ UNCHANGED <<attempts, faults>>
     \/ /\ Fault("submit")
        /\ db' \in {db} \cup {Apply(w, db) : w \in Simulate(tx, db)}
        /\ Retry(Job(r))
  /\ UNCHANGED <<ctlVars, netVars, clusterVars>>

SubscribeCallbackOnly(r) ==
  /\ pc[Job(r)] = "subscribe"
  /\ callback' = TRUE
  /\ Goto(Job(r), "service")
  /\ UNCHANGED <<db, attempts, subscribed, identity, doomed, netVars,
                 clusterVars, faults>>

Subscribe(r) ==
  /\ pc[Job(r)] = "subscribe"
  /\ callback' = TRUE /\ subscribed' = TRUE
  /\ Goto(Job(r), "service")
  /\ UNCHANGED <<db, attempts, identity, doomed, netVars, clusterVars,
                 faults>>

CreateService(r) ==
  /\ pc[Job(r)] = "service"
  /\ \/ /\ ~(HasService /\ service)
        /\ service' = HasService
        /\ Goto(Job(r), "deploy")
        /\ UNCHANGED faults
     \/ /\ HasService /\ service
        /\ Goto(Job(r), "ok")
        /\ UNCHANGED <<service, faults>>
     \/ Fault("k8s") /\ Goto(Job(r), "ok") /\ UNCHANGED service
  /\ UNCHANGED <<db, attempts, ctlVars, netVars, deployment>>

CreateDeploymentTolerant(r) ==
  /\ pc[Job(r)] = "deploy"
  /\ deployment' = IF deployment = NoDeployment THEN r ELSE deployment
  /\ Goto(Job(r), "running")
  /\ UNCHANGED <<db, attempts, ctlVars, netVars, service, faults>>

CreateDeployment(r) ==
  /\ pc[Job(r)] = "deploy"
  /\ \/ /\ deployment = NoDeployment
        /\ deployment' = r
        /\ Goto(Job(r), "running")
        /\ UNCHANGED faults
     \/ /\ deployment # NoDeployment
        /\ Goto(Job(r), "ok")
        /\ UNCHANGED <<deployment, faults>>
     \/ Fault("k8s") /\ Goto(Job(r), "ok") /\ UNCHANGED deployment
  /\ UNCHANGED <<db, attempts, ctlVars, netVars, service>>

WriteNothing(r, tx) ==
  /\ pc[Job(r)] = "running"
  /\ Goto(Job(r), "ok")
  /\ UNCHANGED <<db, rest, faults>>

WriteRunning(r, tx) ==
  /\ pc[Job(r)] = "running"
  /\ Submit(Job(r), tx, "ok", "ok")
  /\ UNCHANGED rest

(***************************************************************************)
(* Deleting the Deployment a record names: by name, whoever created it.    *)
(***************************************************************************)
Deployed(rec) == rec.details \notin {NoDetails, NoDeployment}

DeleteDeployment(a, exists, l) ==
  /\ pc[a] = "k8s"
  /\ \/ /\ ~Deployed(seen[a])
        /\ Goto(a, l)
        /\ UNCHANGED <<deployment, faults>>
     \/ /\ Deployed(seen[a]) /\ ~exists
        /\ Goto(a, "failed")
        /\ UNCHANGED <<deployment, faults>>
     \/ /\ Deployed(seen[a]) /\ exists
        /\ deployment' = NoDeployment
        /\ Goto(a, l)
        /\ UNCHANGED faults
     \/ /\ Fault("k8s")
        /\ Goto(a, "failed")
        /\ UNCHANGED deployment
  /\ UNCHANGED <<db, attempts, ctlVars, netVars, service>>

CleanupKeepingSubscription(a) ==
  /\ pc[a] = "cleanup"
  /\ callback' = FALSE
  /\ Goto(a, "ok")
  /\ UNCHANGED <<db, attempts, subscribed, identity, netVars, clusterVars,
                 faults>>

Cleanup(a) ==
  /\ pc[a] = "cleanup"
  /\ callback' = FALSE /\ subscribed' = FALSE
  /\ Goto(a, "ok")
  /\ UNCHANGED <<db, attempts, identity, netVars, clusterVars, faults>>

(***************************************************************************)
(* Messages to the controller.  One that is not forwarded, has no callback *)
(* or finds no identity in the wallet is dropped.                          *)
(***************************************************************************)
FirstStep(m) == CASE m = "createVThing"      -> "poll"
                  [] m = "requestInit"       -> "pollInit"
                  [] m = "restoreVThingsAck" -> "restore"
                  [] m \in {"destroyTVAck", "destroyVSiloAck"} -> "get"

Receive ==
  /\ toCtl # <<>>
  /\ toCtl' = Tail(toCtl)
  /\ IF subscribed /\ callback /\ identity
     THEN /\ \E h \in Handlers :
               pc[h] = "idle" /\ Goto(h, FirstStep(Head(toCtl)))
          /\ UNCHANGED lost
     ELSE /\ lost' = lost \cup {Head(toCtl)}
          /\ UNCHANGED <<pc, seen>>
  /\ UNCHANGED <<db, attempts, ctlVars, toPod, clusterVars, faults>>

(***************************************************************************)
(* Faults.  Everything is published with QoS 0.                            *)
(***************************************************************************)
Lose ==
  /\ Fault("loss")
  /\ \/ /\ toPod # <<>>
        /\ toPod' = Tail(toPod)
        /\ lost' = lost \cup {Head(toPod).cmd}
        /\ UNCHANGED toCtl
     \/ /\ toCtl # <<>>
        /\ toCtl' = Tail(toCtl)
        /\ lost' = lost \cup {Head(toCtl)}
        /\ UNCHANGED toPod
  /\ UNCHANGED <<db, procVars, ctlVars, clusterVars>>

\* The process ends, on a fault or on the rejection nobody handles, and is
\* started again.  Requests and callbacks die with it, and so do the callback
\* table and the wallet; the queue hands active jobs out again; the broker
\* keeps the subscription of a clean:false client but no messages.
Restart ==
  /\ \/ doomed /\ UNCHANGED faults
     \/ Fault("restart")
  /\ pc' = [a \in Actors |->
             IF a \in Handlers THEN "idle"
             ELSE IF AtRest(a) THEN pc[a]
             ELSE IF a \in Jobs THEN "waiting" ELSE "failed"]
  /\ seen' = [a \in Actors |-> IF a \in Jobs THEN seen[a] ELSE Nil]
  /\ callback' = FALSE /\ identity' = FALSE /\ doomed' = FALSE
  /\ toCtl' \in {toCtl, <<>>}
  /\ lost' = lost \cup {toCtl[i] : i \in 1..(Len(toCtl) - Len(toCtl'))}
  /\ UNCHANGED <<db, attempts, subscribed, toPod, clusterVars>>

(***************************************************************************)
(* History: windows that are open, and what has not been in the way.       *)
(***************************************************************************)
Labelled(label, open) == IF open THEN {label} ELSE {}

\* None of these faults, windows and lost commands was part of the behaviour.
Without(causes) == (faults \cup races \cup lost) \cap causes = {}
===============================================================================
