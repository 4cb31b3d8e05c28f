# A TLA+ model of the VirIoT blockchain controller

VirIoT rents virtual things. *Providers* run **ThingVisors**, programs in pods
that announce **vThings**; *consumers* (tenants) run **Virtual Silos**, brokers
in pods made from a **Flavour**, and attach vThings to them. A **master
controller** (`src/master-controller`, TypeScript) serves the REST API. It keeps
what exists in a Hyperledger Fabric **ledger** through a **smart contract**
(`src/chaincode`, Go), creates and deletes pods through **Kubernetes**, talks to
the programs over an **MQTT** broker and does the slow work in **background
jobs** of a BullMQ queue. A **transaction monitor** (`src/transaction-monitor`)
listens to the events of the contract and draws who has what. Nothing serialises
these: there is no lock, no transaction spanning ledger, cluster, broker, user
database and certificate authority, and most errors are only logged. The
questions of this project are what that leaves behind, and through which race
windows and faults only.

## 1. The system

| Part | State it keeps | Operations | Talks to |
|---|---|---|---|
| Smart contract, `chaincode/assetTransfer.go` | none of its own; five private data collections | 16 writing and some 15 reading functions, an event from each | ledger |
| Ledger (Fabric, external) | collections, version of each key | endorse, order, validate, commit | every controller |
| ThingVisor handlers, `controller.ts` | none; each holds the record it read across awaits | add, update, delete, forced delete, list, inspect | ledger, queue, broker, cluster |
| ThingVisor jobs, `thingvisor.ts`, `jobs.ts`, `k8s.ts` | attempts of the job (in Redis) | create_thingvisor, update_thingvisor | ledger, cluster, broker |
| MQTT callbacks, `mqttcallback.ts` | `mqttCallBack` (in memory), subscriptions (in the broker) | createVThing, requestInit, destroyTVAck, destroyVSiloAck, restoreVThingsAck | ledger, cluster, broker |
| ThingVisor programs, `ThingVisor/*` | parameters, subscription of `c_in` | start, createVThings, updateTV, destroyTV | broker, silo programs |
| Virtual Silo handlers, job, callback, `controller.ts`, `silo.ts` | as for ThingVisors | siloCreate, siloDestroy (forced or not), create_vsilo | ledger, queue, broker, cluster |
| Virtual Silo controller, `Flavours/*` | subscriptions of the attached vThings | addVThing, deleteVThing, restoreVThings, destroyVSilo | broker |
| Names of Virtual Silos, `controller.ts`, `assetTransfer.go` | the keys of silos and attachments | `tenantID + "_" + name`, and back with `split("_")` | ledger |
| vThing attachment and endpoints, `controller.ts` | none | addVThing, deleteVThing, setVThingEndpoint, delVThingEndpoint | ledger, broker |
| Flavour handlers and job, `flavour.ts` | none | addFlavour, deleteFlavour, create_flavour | ledger, queue |
| Users, tokens, wallet, `user.ts`, `middleware.ts`, `fabric.ts`, `controller.ts` | Mongo documents, certificate authority, in-memory wallet, blacklist of tokens | register, unregister, login, logout, createAdmin, the check before every request | every request and job |
| Transaction monitor, `transaction-monitor/src/app.ts` | the list `log-cache` in a Redis of its own pod | flush, listen from block 0, serve the graph | ledger |

What is hard about it, by kind (every entry is listed with its source line in
`PROJECT.json`, `hazards`):

* **Races between handlers** (interleaving, atomicity, stale state). Two
  requests for one name, a delete that meets the creation job, a job whose last
  write is a blind overwrite, two endpoints set at once. Correct means: every
  transition of a record is decided on the record as it is at the commit, and
  what a delete leaves is nothing.
* **Messages** (ordering, unreliable delivery). Programs announce vThings before
  the record is `running`; `destroyTV`, its acknowledgement and all others are
  QoS 0; a program that has not subscribed hears nothing. Correct means: a
  running ThingVisor gets its vThings registered, a stopped one goes away.
* **Several copies.** What a silo is attached to is in the ledger and in the
  subscriptions of its program; an endpoint is in the ledger and in what the
  ThingVisor program was sent; a user is in Mongo, in the certificate authority and in
  the wallet; the history is in the ledger and in the monitor's list. Correct
  means: once nothing is under way they agree.
* **Partial failure.** Record, Deployment, Service, callback and subscription
  change in separate calls, and so do document, registration and wallet; a
  failing call abandons the rest, and nothing cleans up.
* **Crash and restart.** Queue, broker subscription, ledger and users survive a
  restart of the controller; callback table, wallet and running handlers do not.
  The monitor survives nothing and replays.
* **Names.** Identifiers are glued together and cut apart at `"_"`; nothing
  keeps that character out of a name. Correct means: requests of one tenant
  never reach the silo of another.

## 2. Modules

```
Chaincode ── Registry               abstract: one accepted call at a time
    │  ├──── Ledger ── MCLedger     endorsement, version check, commit
    │  │         └──── Ledger_proofs
    │  ├──── Monitor ── Monitor_proofs
    │  │       │  └─ Follower       abstract: what a reader of the graph relies on
    │  │       └──── MonitorGraph ── MCMonitor
    │  └──── Controller             steps, jobs, Kubernetes calls, faults
    │            ├── ThingVisorLifecycle ── MCThingVisorLifecycle
    │            │        └── VThingSharing ── MCVThingSharing
    │            │                 └── ThingVisor_proofs   about both
    │            └── VirtualSiloLifecycle ── MCVirtualSiloLifecycle
    │                     └── VirtualSilo_proofs
Identity ── MCIdentity, Identity_proofs
SiloNames ── MCSiloNames, SiloNames_proofs
    └────── SiloRegistry            abstract: silos told apart by tenant and name

Chaincode_proofs  lemmas for Ledger_proofs, Monitor_proofs and Controller_proofs
Controller_proofs lemmas for ThingVisor_proofs and VirtualSilo_proofs, and
                  Registry for the calls of the controller
```

**Chaincode** has one operator per writing function of the contract. A function
is translated to the *set of write sets* it can return on a ledger: empty when
the code returns an error, a singleton when it succeeds; `Reads` names the keys
it passes to `GetPrivateData`. `Simulate` dispatches. A record keeps the fields
a property tells apart (status, description, parameters, for the cluster one
opaque `details`); the JSON around them is left out. What is easy to miss in the
Go code and is in the operators: `UpdateThingVisor`, `UpdateVThingOfThingVisor`,
`AddVThingVSilo` and the deletes of ThingVisors, silos and attachments read
nothing; `DeleteThingVisor` checks a prefix and does not delete the vThings; an
empty argument of `UpdateThingVisorPartial` keeps the old text.

**Registry** is the abstract specification: what `submitTransaction` looks like
to a caller, one shared registry to which each accepted call applies in one step.

**Ledger** is what happens instead. `Endorse` runs the function on the current
collections and keeps read versions and writes; `Commit` applies them later, if
every version read is still the current one; `Discard` stands for a read conflict
and for a transaction that never reaches a block. Any other transaction may
commit in between. Fabric is not in `src/`: `Endorse`, `Commit` and `Discard`
are marked external and modelled from how `fabric.ts` submits transactions.

**Controller** is what all handlers, jobs and callbacks have in common. Every
actor (request, job, callback) has a program counter and the record it read; *a
step ends where the code awaits a call that leaves the process*, so any other
actor may move between two awaits and none between two lines without one. A
`submitTransaction` is one step on `db`: `Ledger` shows that it behaves like
one. The module has the steps of the two creation jobs, which are copies of each
other in the code (`WritePending` to `WriteRunning`), the deletion of a
Deployment, the last lines of every delete (`Cleanup`), the dispatch of incoming
messages, and the faults.

What happens *to* the system in a behaviour is its `session`, a variable that
`Init` chooses from the constant `Sessions` and no step changes: the requests
clients may send, whether they wait for one another (`sequential`), the kinds of
fault, and properties of the ThingVisor (its YAML has a Service, its program asks
with `requestInit`, it is in debug mode). So one run covers several scenarios,
each as deep as its state space allows, with the same invariants. Faults are
actions that a session allows and the model counts: `submit` (a transaction
throws and has or has not committed: timeouts and read conflicts), `enqueue`,
`k8s`, `pod` (a pod is restarted), `loss` (a message), `restart` (the
controller). `races` and `lost` are history variables: they collect the windows
in which two requests were in each other's way and the messages nobody heard, so
that an invariant can say *which* of them a bad state needs.

Two decisions a reader should know of. `deployment` is the request whose job
created the Deployment: Kubernetes finds it by its name, whoever created it, and the
value only serves the properties. And a promise nobody awaits
(`deleteAdditionalDeployments`) that is going to reject is the variable
`doomed`: Node ends the process on it, so `Restart` is enabled without any fault.

**ThingVisorLifecycle** is the life of one ThingVisor: three request handlers
with their forced and debug-mode branches, both jobs with their retries, the
MQTT callbacks, the two shapes a ThingVisor program has (HelloWorld announces at
once and subscribes afterwards, vWeather subscribes and asks with `requestInit`),
the Deployment and the Service in the cluster. A callback that waits for the
ThingVisor to be running finds it running in one step and acts on that in the
next, 100 ms later (`poll` and `register`, `pollInit` and `init`): a stop, a delete
or another life may come between.

**VirtualSiloLifecycle** is the life of one Virtual Silo: the flavour it is made
from, its creation, the two ways to destroy it, the attachment of vThings and
the program in its pod, whose `data` and `control` are the vThings whose topics
it is subscribed to. It differs from the life of a ThingVisor where the code
does: a destroy by message leaves the record `running`; the Deployment goes
first and the record last; `addVThing` publishes before it submits and
`deleteVThing` after; a program that starts asks for its attachments with
`restoreVThingsAck` and adds them to what it has; and one that is told to
destroy itself stops listening (`deaf`) while its pod goes on.

**VThingSharing** composes the life of a ThingVisor with those who use its
vThings: a silo that attaches and detaches one, and the requests that set and
delete its endpoint. It takes the steps of ThingVisorLifecycle and says what
they mean for the others: `ProgramReceives` (a program that gets `destroyTV`
withdraws its vThings with `deleteVThing` on `c_out`), `ControllerActs` (a forced
delete withdraws those it has `listed`), `ProgramStarts` (a program that starts
knows of no endpoint). Neither way of deleting touches the attachments in the
ledger, nor the records of the vThings. `told` is the endpoint of the last
command that reached each program; the programs in the repository print
`setVThingEndpoint` and do nothing with it, so `EndpointAgrees` is about what a
program that has a branch for it would know. Here the silo is always running; its own life, and a restore in steps,
are in VirtualSiloLifecycle.

**Monitor** is the process of the transaction monitor and its list: it flushes
(`FlushCache`), asks for the events from block 0 (`Listen`), and appends
(`Deliver`); the stream may break off, which leaves a process that answers
queries and hears nothing (`EndStream`), and process or Redis may end (`Crash`).
The ledger it listens to takes any call of Chaincode, with any timestamp.
**Follower** is what a reader of the graph relies on: a beginning of the history
that grows by the next event or begins again. **MonitorGraph** adds the links
each function of the contract puts into its event (one operator for each list the
contract has, and `GraphOf`, which chooses among them), the fold over them that
`/api/graph/data` does, and its interval of time. `misled` is a history variable:
the nodes of which the last call that named them told something else than the
ledger holds.

**Identity** has the three places a user is kept in: documents in MongoDB, the
certificate authority, the wallet. A registration is named by the request that
made it, and certificate, document and wallet entry hold that name, so that a
user who was unregistered and registered again is told apart from the first one.
The Mongo session the handlers open is passed to no operation: nothing is rolled
back, and each write is a step. `authenticateAPI` is three steps of every
request (token, document, wallet). `createAdmin` runs at every start and nobody
awaits it; when it throws, the process ends.

**SiloNames** is about the identifiers that VirtualSiloLifecycle has as model
values. A name is the sequence of its pieces between `"_"`, gluing is
concatenation, and the ledger's key is the first two pieces of the identifier. A
request takes one step and leaves `request` and `answer`, so that the answers
are part of what **SiloRegistry**, the registry by tenant and name, prescribes.

Which label (of `pc`) is which line:

| Label | Code | Label | Code |
|---|---|---|---|
| `create`, `enqueue` | addThingVisor | `pending` … `running` | create_thingvisor and create_vsilo jobs, in order |
| `get`, `enqueue`, `publish` | updateThingVisor | `update` | update_thingvisor job |
| `get`, `stop`, `publish`, `debugDrop` | deleteThingVisor | `poll`, `register` | createVThing callback |
| `get`, `drop`, `k8s`, `cleanup` | forced delete; destroyTVAck callback | `pollInit`, `init` | requestInit callback |
| `getFlavour`, `create`, `enqueue` | siloCreate | `addFlavour`, `enqueue`; `deleteFlavour` | addFlavour; deleteFlavour |
| `get`, `publish` | siloDestroy | `flavour`, `flavourError` | create_flavour job, its catch block |
| `get`, `k8s`, `list`, `drop`, `cleanup` | forced siloDestroy; destroyVSiloAck callback | `restore`, `restored` | restoreVThingsAck callback |
| `getSilo`, `check`, `publish`, `submit` | addVThing (silo's life) | `check`, `submit`, `publish` | deleteVThing (silo's life) |
| `getVThing`, `check`, `tell`, `record` | addVThing (VThingSharing) | `check`, `record`, `tell` | deleteVThing (VThingSharing) |
| `getTV`, `getVThing`, `tell`, `record` | setVThingEndpoint, delVThingEndpoint | `find`, `connect` | authenticateAPI |
| `register`, `enroll`, `save` | /register; the last two also createAdmin | `deleteOne`, `caDelete`, `remove` | /unregister |
| `lookup`, `put` | /login; getUserByID | `call`; `blacklist` | a tenant's contract; /logout |

## 3. What the runs check

| Run | Instance | Checks |
|---|---|---|
| `ledger` | nine calls on a ThingVisor and its vThing, or eight on a flavour, a silo and an attachment; two in flight, six blocks (253,658 states) | types; versions identify values; a valid transaction is decided on the current ledger; refinement of Registry; `stopping` only from `running`; vThings only for running ThingVisors; deleted flavours and silos are not brought back by late updates |
| `thingvisor` | ten sessions: two creations, a delete and a forced one at the same time, without and with a Service; an update against two creations and a forced delete; two updates at once; two life cycles with an update whose client waits, with any two of six faults, and of a program that asks first; such a program, two creations and either kind of delete at the same time; debug mode with a lost message, and with a second creation (1,768,520 states) | what a deleted ThingVisor leaves, who serves a running one, why one stays pending or stopping; ledger and program agree on the parameters; an acknowledgement deletes only a stopping one; a delete removes its own Deployment |
| `thingvisor_live` | two life cycles of a program that asks first, clients wait, no fault; debug mode with a lost message (32,345 states) | liveness: a queued creation is running with its vThings; a stopped ThingVisor goes |
| `leftover` | add and delete of a ThingVisor with a Service | **violated**: the Service is never deleted |
| `silo` | six sessions: two creations, a destruction by message and a forced one; creation, forced destruction, two attachments and a detachment; flavour, two creations, destruction, attachment, detachment with waiting clients, any two of six faults; two creations, a forced destruction and an attachment; a flavour added twice and deleted; two creations with a Service, a forced destruction, any two faults (1,325,878 states) | what a destroyed silo leaves, who serves a running one, why one stays pending, that none becomes indestructible; ledger and subscriptions agree; a flavour becomes ready |
| `silo_live` | the first of these sessions (334,994 states) | liveness: a `destroyVSilo` the program receives ends the silo |
| `silo_detached` | attach and detach one vThing | **violated**: the control topic stays subscribed |
| `sharing` | seven sessions: endpoints set and deleted while the ThingVisor is added and deleted; attachments against each kind of delete; two lives with waiting clients, without faults and with any two of five; a program that asks first, and one in debug mode, with lost messages (789,535 states) | the endpoint in the ledger is the one the ThingVisor program was sent last; no silo is connected to a vThing whose ThingVisor has gone; ledger and silo agree on the attachments |
| `monitor` | three sessions: five events on a ThingVisor and its vThing; four on flavours, a silo and an attachment; four at three times with two restarts (89,161 states) | refinement of Follower; liveness: the monitor catches up; the graph tells what the ledger holds; an interval shows its events |
| `monitor_named` | two flavours, one silo, four events; one is enough, the deletion of a silo, which the contract does not look up | **violated**: the graph has a flavour node that no flavour has |
| `users` | two registrations, unregistrations and logins of one user, a logout, a tenant lookup, two logins of the administrator, any two of three faults (572,330 states) | a document is that of the registration the authority has; a registration has a document; the wallet holds only stored users |
| `names` | tenants and silo names with and without `"_"` (9,994 states) | a request changes silos of its tenant only; refinement of SiloRegistry |

*Reading the conditional invariants.* The invariants of the life cycles
(`DeletedMeansGone`, `RunningMeansServed`, `PendingIsExplained`,
`StoppingIsExplained`, `ParamsAgree`; `SiloIsGone`, `RunningSiloIsServed`,
`SiloCanBeDestroyed`, `PendingSiloIsExplained`, `ConnectedAsAttached`,
`FlavourGetsReady`) and of VThingSharing (`EndpointAgrees`,
`ConnectedMeansOffered`, `ConnectedUnlessWithdrawn`) speak of settled states
(nothing under way but new requests and faults), and name the faults and windows
after which the code gives no guarantee. Those of Identity
(`DocumentIsRegistered`, `RegistrationIsStored`, `WalletIsCurrent`),
`GraphShowsLedger` with its `misled` and `OthersUntouched` with its `Confused`
are of the same kind. Each list is minimal: without any one of its entries there
is a counterexample. So they are both a guarantee (*only* these)
and a diagnosis: a lost message never leaks a Deployment; a failed enqueue leaves
a pending record and nothing else. They do not say that the windows they name
are harmless: of the hazards listed in `PROJECT.json`, those of a forced
destruction during a creation and of an attachment during a destruction, of an
unregister that fails in the middle and of a login it overtakes, of a vThing
withdrawn with its ThingVisor, of the calls with misleading links and of an
early event in an interval are named by the properties as causes, and their
notes say so. The run itself finds the counterexample except for five entries
that take a third creation, which is too much for sessions that are explored
whole: `twoDeletes` (with one of `enqueue`, `k8s` and `createInterrupted`) in
`SiloCanBeDestroyed`, `deleteDuringCreate` and `createInterrupted` in
`ConnectedAsAttached`, `deleteDuringCreate` in `ParamsAgree` and in
`EndpointAgrees`.
For these TLC finds it in sessions of three creations and two or three forced
deletes (for one, also a flavour that is added again and an attachment; for
`EndpointAgrees`, one endpoint, a restarted pod and a lost message), explored
along the behaviours that have none of the other causes; these are not among the
runs. The same holds for the window of
`StoppedGoes`: in debug mode the handler deletes the record itself, if the
record it read before stopping said `debug_mode`, and a record read before the
creation job has written it does not.

Some of what the lists say.

* *ThingVisors.* Two updates at once may leave ledger and program with different
  parameters: their jobs and their messages come in different orders. So may one
  update that reaches the program of a Deployment already deleted. In debug mode a
  delete leaves its Deployment behind, and the ThingVisor, added again, stays pending.
* *Silos.* A silo becomes indestructible in three ways: a destruction ends between
  Deployment and record (a transaction that fails, a restart), and every later
  one then fails on the missing Deployment and every creation on the record;
  the silo was made from a flavour that is still pending; or two destructions
  overlap, the second of them takes away the Deployment and the record of a second
  creation, and what that creation writes last, "running" with the name of its
  Deployment, falls on the record of a third, which stops short of its own. Where silos have a
  Service only the first two can happen: no second creation comes to a Deployment. A `restoreVThings` that outlives the silo it was
  sent for connects the next silo of that name. The job of a flavour that was
  deleted and added again writes its error into the new record. A lost `destroyVSilo`
  is harmless; a lost `destroyVSiloAck` leaves a running silo whose program is
  deaf. A restart of the controller while nothing is under way leaves the
  attachments right and costs a running silo its callback.
* *Shared vThings.* Endpoints agree unless two requests overlapped, or one and
  the registration of the vThing, which overwrites the record; or one of the two
  sides was lost. A program that starts again knows of no endpoint, and it is the
  registration it asks for that makes the ledger forget it too: if its
  announcement or its `requestInit` is lost, or if the record it would be
  registered in is `stopping` when it arrives and `running` again afterwards (by
  the job of a creation that a delete has met), the ledger keeps the old
  endpoint. In debug mode the record goes without waiting for the program: if the
  `destroyTV` is lost, a silo stays connected to the vThing of a ThingVisor that has
  gone. An attachment outlives its ThingVisor (`withdrawn`), and
  refuses another one when the ThingVisor has come back; an attach request
  succeeds after the ThingVisor has gone (`attachAfterDelete`), for the record
  of the vThing stays.
* *Users.* Registration stores the document last and unregistration deletes it
  first: no fault leaves a document without a registration, only two
  requests that overlap do. The other way round any fault may leave a
  registration without a document, and nobody can register that user until an
  unregister names them. The wallet keeps the certificate of an
  unregistered user if a login or a lookup had read the document before, or
  if unregister failed at the certificate authority: repeating it fails there
  too and never comes to the wallet.
* *Monitor.* The list is the history without a gap or a repetition
  across any restarts, because it is flushed before the stream is
  opened; a broken stream is never reopened. A node of the graph is right unless
  the last call that named it was one of six kinds, such as the delete that
  marks vThings as deleted which stay in the ledger. An interval shows the right
  events if no event is earlier than its start and the timestamps are in block
  order: `app.ts:201` leaves the loop at the first event outside.
* *Names.* A request reaches the silo of another tenant only if one of the two
  names has a `"_"` and both begin with the same piece. Without `"_"` in any
  name, handlers and contract together are the registry by tenant and name.

*The findings.* `thingvisor.ts:126` declares a second `serviceName` inside the
loop, so the outer one stays empty, and line 177 stores the names of the
Services as `additionalDeploymentsNames`. A delete therefore never deletes a
Service, tries to delete a *Deployment* of that name, and the rejection ends the
process. Adding the ThingVisor again meets the old Service and stays pending.
The log message of line 192 promises the opposite.

`raw_vSilo_controller.py:149` unsubscribes from `vThing/<id>/out_control`, a
topic nobody has subscribed to; `on_message_add_vThing` subscribed
`vThing/<id>/c_out`. The comment above promises the removal of subscriptions and
callbacks; the control topic keeps both.

`assetTransfer.go:692` says that the second part of a vSiloID is the flavourID,
and line 827 names the flavour node of a deleted silo by it. The second part is
the name of the silo: the graph gets a flavour node that no flavour has, or
shows another flavour as deleted.

*Bounds.* `MaxHeight` = 6 blocks and two slots: an endorsement, a commit in
between and the three calls before it (create, set running, stop) fit, and a key
can be created, deleted and created again between an endorsement and its commit.
The two halves of the contract's calls touch different keys, so a behaviour of
`ledger` has calls of one half. In the life cycle: one ThingVisor with one vThing
(records of different names share nothing), two creations (a second life that
meets leftovers of the first), `Handlers` = 2 callbacks at once (one in
`sharing`), `MaxAttempts` = 2 (one retry), each fault kind at most once and two
in a behaviour: some states need one to break the silo and one to keep it from
being repaired. In the silo runs: one silo, one vThing (attachments of different
vThings touch different keys and topics) and two attach requests, so that one
finds what the other has done. Each request is sent at most once. `silo` is
reduced by the symmetry of the two creations and of the two attachments, `users`
by that of requests of one kind; both have no liveness property. In `monitor`
five events are enough for a creation, a registration, an endpoint and both
deletes, and two restarts for one in a replay after another; restarts and
timestamps are looked at with few calls, since the list does not depend on what
an event says. In `users` one user is registered and unregistered twice: users
share nothing but the administrator. In `names` the tenants include two whose
names begin with the same piece. Deadlock is checked in `ledger` and `names`
and off in the others: clients have a finite set of requests and may stop.

*Fairness.* One weak-fairness condition on everything the controller, broker
and pods do by themselves: they go on while they have something to do, and a
rejected promise does reject. Node's event loop takes one enabled callback after
the other, so nothing that stays enabled is passed over for ever; a single
condition is the weakest that says so, and it is enough because each request has
finitely many steps. The monitor has one on its own steps: a process that is up
takes the next event. Clients, transactions and faults are not fair.

## 4. What is proved

All of it by TLAPS, for every value of the constants that satisfies the named
assumptions; the runs are where each formula, and each inductive invariant, was
first looked at on a small instance.

| Module | Theorems (property, where a run checks it) |
|---|---|
| `Ledger_proofs` | `TypeCorrect` (`TypeOK`), `VersionsAreFaithful` (`VersionsIdentifyValues`), `CommitsAreCurrent` (`ValidMeansCurrent`), `LedgerIsSerialisable` (`Serialisable`), `StopsAreOfRunning` (`StoppingOnlyFromRunning`), `VThingsJoinRunning` (`VThingNeedsRunning`), `NothingIsResurrected` (`BornPending`) |
| `Monitor_proofs` | `MonitorTypeCorrect` (`TypeOK`), `MonitorFollows` (`Follows`) |
| `Identity_proofs` | `IdentityTypeCorrect` (`TypeOK`), `DocumentsAreRegistered` (`DocumentIsRegistered`), `RegistrationsAreStored` (`RegistrationIsStored`), `WalletsAreCurrent` (`WalletIsCurrent`) |
| `SiloNames_proofs` | `KeysAreOwn`, `TenantsAreApart` (`OthersUntouched`), `NamesImplementRegistry` (`ImplementsRegistry`) |
| `ThingVisor_proofs` | `LifecycleTyped` (`TypeOK`), `StoppingExplained` (`StoppingIsExplained`), `DeletesOwnDeployment` (`OwnDeployment`), `AckDeletesOwn` (`AckDeletesStopping`), `GoneForGood` (`DeletedMeansGone`), `PendingExplained` (`PendingIsExplained`), `ServedWhileRunning` (`RunningMeansServed`), `ParametersAgree` (`ParamsAgree`), `LifecycleCallsContract`; about shared vThings `SharingTyped` (`SharingTypeOK`), `SiloFollowsLedger` (`ConnectedUnlessWithdrawn`), `OfferedOnly` (`ConnectedMeansOffered`), `EndpointsAgree` (`EndpointAgrees`), `LifeCycleShared` and `ServedWhileShared` (what is above, for VThingSharing), `SharingCallsContract` |
| `VirtualSilo_proofs` | `SiloTyped` (`TypeOK`), `FlavoursGetReady` (`FlavourGetsReady`), `PendingSiloExplained` (`PendingSiloIsExplained`), `NothingStays` (`SiloIsGone`), `SilosCanBeDestroyed` (`SiloCanBeDestroyed`), `ServedWhileRunning` (`RunningSiloIsServed`), `ConnectedToAttached` (`ConnectedAsAttached`), `SiloCallsContract` |

So every safety property of `ledger`, `thingvisor`, `silo`, `sharing`, `users` and
`names` is a theorem as well. `Chaincode_proofs` and `Controller_proofs` hold the lemmas
the others share: what a call reads and writes; which actor a step moves, what a
transaction, a fault and a restart may have done, what is in a queue.

**The ledger.** The inductive invariant is `IInv == TypeOK /\
VersionsIdentifyValues /\ DecidedOnSeen`. `ValidMeansCurrent` alone is not
inductive: a transaction that is not valid now could become valid again if
versions could come back. They cannot: a write takes `height + 1`, above every
version recorded anywhere, and absence is version 0 on both sides. So a version
still current means the value is still the one the chaincode was shown
(`VersionsIdentifyValues`), and what is in flight was decided on that value
(`DecidedOnSeen`). The lemma between the two is that a function decides on the
keys in `Reads` only (lemma `SimulateLocal` of `Chaincode_proofs`, one case per
function): two ledgers that agree there yield the same write sets. From these, a
commit is a step of Registry and every other step a stutter, and the action
properties are those of one call of `Simulate` on the current ledger.

**The monitor.** That the list is a prefix of the history is not inductive: the
event appended next has to be the one after the last. `MInv` adds where the stream
stands (`StreamAgrees`): a process that has flushed has an empty list, and one
that listens is told next the event after the last of its list.

**Users.** `RegInv` says, as long as no registration and unregistration of a user
have overlapped, that a registration between its first and last write holds the
identity (`RegisteringHolds`), so that the document it stores is right, and that
no document is left when an unregistration comes to the authority (`NoneLeft`).
Either part without the other is lost at the next step of the other request.
`StoreInv` is the converse for behaviours without a fault: an identity the
authority has is stored, or the very request that registered it stands between
`enroll` and `save`, or an unregistration is at `caDelete`. That every identity
stands under its own user's name (`OwnNames`) is a part of both. `WalletInv`
says what keeps a stale entry from being for good: what the wallet has and no
document has any more belongs to a user whose unregistration is still to come to
the wallet (`WalletIsStored`, `UnknownIsRemoved`). The second part is about two
unregistrations: the one that finds the identity gone ends without removing
anything, and then the one that deleted it is about to.

**Names.** `NamesImplementRegistry` rests on `KeysAreOwn`: two entries with the
same key would otherwise be one silo to the code and two to the registry. From
`KeysInv`, gluing is injective on names of one piece (lemma `KeyOfNames`), and
each operation maps to its counterpart.

**The life cycles** (`ThingVisor_proofs`, `VirtualSilo_proofs`) are argued in four
layers.

1. *Types.* `TypeInv` adds to `TypeOK` where each actor may stand and what it then
   holds (`Places`): what the next call carries was decided two awaits ago. A
   step that takes its actor where it may go keeps the invariant (`StepTyped`).
2. *What a step does.* `Happened` restates every action of Next for single actors,
   record fields and queues (`DidCreate`, `DidDeploy`, ...), once; the invariants
   go through these cases and not through the actions. Lemmas on top of it say who
   changes the record, the Deployment and the callback, and that everybody else
   stays (`Still`).
3. *History.* `Inv == TypeInv /\ WindowsSeen`: a window that is open is recorded. A
   property conditional on causes is proved from an invariant under the same
   condition, and since the history only grows, the condition held at every
   earlier step (`WithoutBefore`). That a restart opens no window, and that deletes
   under way are counted right (`Counted`, a sum of three cardinalities), is
   what makes `twoDeletes` usable as "one actor at most".
4. *The invariant of each property*, which says what the settled property means
   while things are under way.

For a ThingVisor: `StoppingInv` (who will end the deletion), `Calm` (as long as no
delete has met a creation, the Deployment a record or an actor names is the one
that is there), `ShownInv` (a creation that anybody has seen in a record has
ended, so no one will deploy for it again), `SingleDelete` (without two deletes
the same holds even if a delete meets a creation: this is what makes
`OwnDeployment` need *both* causes), `Alone` and `StopperInv` (a creation is the
only one; what leads to an acknowledged delete is about a stopping record),
`GentleInv` (who is going to take away Deployment and callback of a record that
has gone), `PendingInv` with the identity of the creator (`CreatorKnown`),
`HeardInv` and `AnnouncedInv` (the announcement of the vThing is handed on from
the pod to the message, to the callback that polls, to the ledger), and
`AgreeInv`. The last one is why `ParamsAgree` holds although an update's job and
its message overtake each other: if only the message is still to be sent, the record
has its parameters already; if only the job is left, the program has or will have
them; and while both or neither are left, record and program agree.

For a silo: `FlavourBody`, `CreationInv` (creations and destructions kept apart:
`CreatorHasRecord`, `OneCreator`, `WhoDeployed`, `SawSilo`, `TornDown` and the rest
only hold together), `PendingInv`, `GoneBody` (attachments are listed completely
before the record is dropped), `YamlInv`, `OneBody`, `CanBody` and `ServiceBody` (three arguments for
`SiloCanBeDestroyed`: with one destruction at a time; with calls that do not
throw; and where silos have a Service, which only one creation ever gets past), `ServedBody` (a program that has gone deaf has its acknowledgement under
way), and `ConnectBody`. The last one relates the ledger with the subscriptions
by what the queue is going to make of them: `WillConnect(toPod, v)` and
`WillDisconnect(toPod, v)` say what the last message about `v` is, and each
difference between ledger and program belongs to an attachment that has told the
program first, a detachment that has told the ledger first, or a program that has
just started and waits for its restore. `SiloIsGone`, `ConnectedAsAttached` and the
others follow in settled states, where the queues are empty and nobody stands in
between.

**Shared vThings.** The lemmas about a ThingVisor's life ask of a step only that it
`Happened`, which is said of single actors, record and queues. What a request
about a vThing does to these is one more such case (`DidShare`), so every
invariant above is kept by the steps of VThingSharing as well and the properties of
the life cycle hold of both specifications (`LifeCycleShared`). What the silo and
the endpoints add is `ShareInv` (types, places, and that each open window of
VThingSharing is recorded) and three invariants.

* `ConnectedInv`: the last message on its way to the silo about a vThing, or, when
  there is none, the subscription, is what the ledger says of the attachment, but for
  an attachment that has told the silo first and a detachment that has told the
  ledger first (`Follows`). It rests on lemmas about the last message of a queue
  (`LastAppended`, `LastTaken`, `LastSent` of `Controller_proofs`).
* `OfferedInv`: when the record has gone, the last the silo hears of every vThing is
  that it is withdrawn, or, in debug mode, the command that makes the program say so
  is still on its way (`GoneTold`). Each way a record goes comes to that: an
  acknowledgement follows the withdrawal (`AckTold`), a forced delete will withdraw
  those it has read, and there were no others (`ForcedTold`, `OnlyRegistered`).
* `EndpointInv`: what the running program will have been told is what the ledger
  holds (`KnowsLedger`), with the command a setting is about to send (`Recording`,
  `Latest`) counted as sent; a program that has just started knows nothing, and
  neither will the ledger, for the registration that empties the endpoint is on its
  way (`KnowsNothing`, `Awaited`, `JobAnnounces`). This half needs to follow an
  announcement through pod, message, callback and ledger, as `RunningMeansServed`
  does, and with it its hypothesis.

**One registry.** `Controller` takes a `submitTransaction` for one step on `db`.
`Contract` is module Registry for `ControllerCalls`, the calls of the contract in
which no ThingVisor record handed over is `stopping`. `LifecycleCallsContract` and
`SharingCallsContract` show that the ledger of a ThingVisor's life is that
registry: each step is one of these calls or leaves the ledger alone, also if a
call throws. So what the life cycles take a transaction for is the abstract
specification that `LedgerIsSerialisable` shows endorsement and commit to
implement, and `ControllerAssumption`, under which `StopsAreOfRunning` is proved,
is a fact about the modelled handlers. `SiloCallsContract` says the same of the
steps of a silo's life; its initial ledger is not empty (the vThings are there,
and in some sessions the flavour), so it is not the registry from the start.

*Assumptions.* `ChaincodeAssumption` (prefixes are ThingVisors, `Nil` is not a
record), `LedgerAssumption` and `MonitorAssumption` (requests are calls of the
contract, times are numbers); for `StopsAreOfRunning` `ControllerAssumption`
(nobody hands the contract a record that is already `stopping`: `controller.ts`
and `thingvisor.ts` build `pending` and `running` records only, as the
`CallsContract` theorems show of the model; the contract itself would accept it); `ProcessAssumption` and `ActorAssumption` (requests, jobs
and callbacks are different actors and finitely many); `LifecycleAssumption`
(updates and creations carry texts, a creation's parameters are not empty: a
record always has a JSON text there); `SiloAssumption` (a request that attaches or
detaches is about one vThing: `controller.ts:1021`, `:1086`);
`SharingAssumption` (the silo is one, a request is of the life cycle or about one
of the ThingVisor's vThings, which are finitely many; of it the theorems about
ThingVisorLifecycle use the silo's type only); `IdentityAssumption` (each request has a kind and a user; those about the
administrator's account log in or out); `SiloNamesAssumption` (names have at least
one piece). All are evaluated by the runs. `ServedWhileRunning` of a ThingVisor,
`ServedWhileShared` and `EndpointsAgree` have
a hypothesis of their own: the ThingVisor has one vThing, like HelloWorld. A program
of the model announces once when it starts, and the message does not say which
vThing it is about. vWeather announces several, each in a message that meets
its own callback; they share nothing but the record they wait for.

*What the proofs changed.* Several causes in the lists of section 3 come from steps
the prover could not do, which turned out to be behaviours that the sessions of
that time did not contain. Where two creations are enough the sessions now do, and
the run shows them; the five that take a third are listed there.
Among those shown: a `restoreVThings` sent for a silo that is destroyed reaches the next
silo of the name (`connectDuringDelete`); the job of a flavour that was deleted
meanwhile writes its error into the record of the next one
(`flavourDeletedDuringAdd`); the Service an earlier silo or ThingVisor left
behind stops a creation (`leftoverService`); two updates whose jobs and messages
come in different orders (`twoUpdates`); an update taken by the program of a
Deployment that is already deleted (`updateWithOldPod`). With shared vThings: a lost
`createVThings` or `requestInit` of a program that starts again
(`EndpointAgrees`), a lost `destroyTV` in debug mode (`ConnectedMeansOffered`); the
sessions with a program that asks and in debug mode came with them. The windows
of VThingSharing were drawn exactly: a registration is under way from the start of the
program to the record of its vThing, an attachment until its message has reached the
silo, a delete in debug mode until the record has gone, and a vThing is withdrawn
while the last message about it says so.

*Only model-checked.* Liveness (`AddedRuns`, `StoppedGoes`, `DestroyedGoes`,
`CatchesUp`), which the prover cannot express (fairness, ENABLED); what the graph
shows (`GraphShowsLedger`, `IntervalGraph`): the graph is a fold over a sequence,
and what a fold computes for every input takes an induction the prover cannot do.

## 5. What is not modelled

* Reads that change nothing (list and inspect requests other than those of
  SiloNames), certificates, TLS, configuration, logging, the shell scripts and
  manifests that set the platform up. `config.ts`, `errors.ts`, `server.ts` and the
  monitor's `connect.ts` and `config.ts` keep no state of the system.
* `thingVisor_generic_module.py`, which reads a MongoDB this version does not
  have any more; the lamps of the Philips Hue ThingVisor, whose control thread is
  that of vWeather; the data the vThings publish and the context requests
  (`fetch_last_context`) of a silo program.
* Fabric's ordering and gossip, which are one step.
* Node labels and deploy zones, which only make a creation fail before it starts.
* The names of Kubernetes objects: `silo.ts:83` joins tenant and silo name with
  `"-"` in lower case, so that two silos may ask for one Deployment. A refused
  Deployment is the fault `k8s`.
* Requests about the administrator's own account, the expiry of tokens, and
  `listUsers`.
* The history in the collections of `SetHistory`, other than the links of the
  graph.

## 6. Plan

Done: contract, ledger and its proofs; the life cycles of ThingVisors and silos
with flavours, and the proofs of their safety properties; attachment and endpoints
across both, with theirs; that the controller's calls are steps of Registry; users
and wallet with their proofs; names of silos with theirs; the transaction monitor
and its graph. Left, in this order:

1. **Names of Kubernetes objects**, as a second function on the names of
   SiloNames.
2. **A stale poll** of the createVThing callback that registers an outdated
   description.
