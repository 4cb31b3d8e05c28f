---------------------------- MODULE VThingSharing ----------------------------
(***************************************************************************)
(* A ThingVisor's vThings in the hands of others: the life cycle of the    *)
(* ThingVisor composed with a Virtual Silo that attaches and detaches its  *)
(* vThings, and with the requests that set and delete their endpoints.     *)
(*                                                                         *)
(* What the ledger, the silo program and the ThingVisor program know of a  *)
(* vThing is kept together by messages only.  Whoever deletes a ThingVisor *)
(* tells the silos on the topic vThing/<id>/c_out: the program itself when *)
(* it gets destroyTV, the controller in a forced delete.  Neither touches  *)
(* the attachments in the ledger.                                          *)
(*                                                                         *)
(* The silo is running throughout; module VirtualSiloLifecycle is about    *)
(* its own life, and about a restore in steps.                             *)
(***************************************************************************)
EXTENDS ThingVisorLifecycle

Seqs == INSTANCE SequencesExt

CONSTANTS
  vSilo,    \* the Virtual Silo
  Target    \* the vThing each of the requests below is about

SharingKinds == {"attach", "detach", "setEndpoint", "delEndpoint"}

Sharing == {r \in Requests : Kind[r] \in SharingKinds}

ASSUME SharingAssumption ==
  /\ vSilo \in VSilos
  /\ Requests = Own \cup Sharing
  /\ Target \in [Sharing -> VThingsOfTV]
  /\ IsFiniteSet(VThingsOfTV)

VARIABLES
  silo,     \* the vThings the program has subscribed to data_out and c_out of
  toSilo,   \* messages on their way to the silo program
  listed,   \* vThings a forced delete has read with the ThingVisor
  told      \* per vThing, the endpoint each ThingVisor program was sent last

sharingVars == <<vars, silo, toSilo, listed, told>>
ends        == <<silo, listed, told>>

Attached == {v \in VThings : db[VThingVSiloKey(vSilo, v)] # Nil}

\* Both programs have what was published for them.
AllSettled == Settled /\ toSilo = <<>>

SharingInit ==
  /\ Init
  /\ silo = [data |-> {}, control |-> {}]
  /\ toSilo = <<>>
  /\ listed = [r \in Own |-> {}]
  /\ told = [a \in Creations |-> [v \in VThingsOfTV |-> NoDetails]]

(***************************************************************************)
(* addVThing, deleteVThing, setVThingEndpoint and delVThingEndpoint: the   *)
(* checks, then the message and the transaction, in this order except for  *)
(* deleteVThing.  The endpoints are checked against the ThingVisor's       *)
(* status, an attachment against the vThing's record only.                 *)
(***************************************************************************)
AcceptSharing(r) ==
  /\ r \in Sharing
  /\ Sequential => AllSettled
  /\ Start(r, CASE Kind[r] = "attach" -> "getVThing"
                [] Kind[r] = "detach" -> "check"
                [] OTHER              -> "getTV")

GetRunning(r) ==
  /\ pc[r] = "getTV"
  /\ Read(r, IF IsRunning(tv, db) THEN Rec ELSE Nil, "getVThing")

GetVThingByID(r) ==
  /\ pc[r] = "getVThing"
  /\ Read(r, db[VThingTVKey(Target[r])],
          IF Kind[r] = "attach" THEN "check" ELSE "tell")

Check(r) ==
  LET attached == Target[r] \in Attached
  IN  /\ pc[r] = "check"
      /\ Goto(r, CASE Kind[r] = "attach" /\ ~attached -> "tell"
                   [] Kind[r] = "detach" /\ attached  -> "record"
                   [] OTHER                           -> "failed")
      /\ UNCHANGED <<db, rest, faults>>

\* The endpoint a request asks for is named by the request.
Endpoint(r) == IF Kind[r] = "setEndpoint" THEN r ELSE NoDetails

TellProgram(r) ==
  /\ pc[r] = "tell" /\ Kind[r] \in {"setEndpoint", "delEndpoint"}
  /\ PublishTo(r, [cmd |-> "endpoint", params |-> Endpoint(r),
                   vThing |-> Target[r]], "record")
  /\ UNCHANGED toSilo

TellAttachOnly(r) ==
  /\ pc[r] = "tell" /\ Kind[r] \in {"attach", "detach"}
  /\ toSilo' = IF Kind[r] = "detach" THEN toSilo
               ELSE Append(toSilo, [cmd |-> "addVThing", vThing |-> Target[r]])
  /\ Goto(r, IF Kind[r] = "attach" THEN "record" ELSE "ok")
  /\ UNCHANGED <<db, rest, faults>>

TellSilo(r) ==
  /\ pc[r] = "tell" /\ Kind[r] \in {"attach", "detach"}
  /\ toSilo' = Append(toSilo,
       [cmd    |-> IF Kind[r] = "attach" THEN "addVThing" ELSE "deleteVThing",
        vThing |-> Target[r]])
  /\ Goto(r, IF Kind[r] = "attach" THEN "record" ELSE "ok")
  /\ UNCHANGED <<db, rest, faults>>

Call(r) ==
  CASE Kind[r] = "attach" -> [fn |-> "AddVThingVSilo", vSilo |-> vSilo,
                              vThing |-> Target[r], details |-> NoDetails]
    [] Kind[r] = "detach" -> [fn |-> "DeleteVThingVSilo", vSilo |-> vSilo,
                              vThing |-> Target[r]]
    [] OTHER -> [fn |-> "UpdateVThingOfThingVisor", vThing |-> Target[r],
                 details |-> Endpoint(r)]

RecordNothing(r) ==
  /\ pc[r] = "record"
  /\ Goto(r, IF Kind[r] = "detach" THEN "tell" ELSE "ok")
  /\ UNCHANGED <<db, rest, faults>>

RecordIt(r) ==
  /\ pc[r] = "record"
  /\ Submit(r, Call(r), IF Kind[r] = "detach" THEN "tell" ELSE "ok", "failed")
  /\ UNCHANGED rest

SharingRequest(r) ==
  \/ /\ \/ GetRunning(r) \/ GetVThingByID(r) \/ Check(r) \/ RecordIt(r)
     /\ UNCHANGED toSilo
  \/ TellProgram(r)
  \/ TellSilo(r)

(***************************************************************************)
(* What the life cycle's own steps mean for the silo.  A message on c_out  *)
(* reaches the programs that have subscribed to it when it is published.   *)
(***************************************************************************)
KeepSilos(vs) == <<>>

Withdraw(vs) ==
  Seqs!SetToSeq({[cmd |-> "deleteVThing", vThing |-> v] : v \in vs \cap silo.control})

\* A forced delete reads the vThings with the ThingVisor and, before it
\* submits, withdraws those it has read.
ControllerActs ==
  LET dropping == {r \in Own : /\ Kind[r] = "force"
                               /\ pc[r] = "drop" /\ pc'[r] # "drop"}
  IN  /\ ControllerStep
      /\ listed' = [r \in Own |-> IF pc[r] = "get" /\ pc'[r] = "drop"
                                  THEN Registered ELSE listed[r]]
      /\ toSilo' = toSilo \o Withdraw(UNION {listed[r] : r \in dropping})
      /\ UNCHANGED <<pod, silo, told>>

Up == {a \in Creations : pod[a].st = "up"}

\* On destroyTV every program that is up withdraws its vThings and then
\* acknowledges.  An endpoint command arrives: on_message_in_control_TV of the
\* programs in the repository prints it and has no branch for it, so that told
\* is what a program that has one would know.
ProgramReceives ==
  LET m == Head(toPod)
  IN  /\ PodsReceive
      /\ toSilo' = IF m.cmd = "destroyTV" /\ Up # {}
                   THEN toSilo \o Withdraw(VThingsOfTV) ELSE toSilo
      /\ told' = [a \in Creations |->
                   IF m.cmd = "endpoint" /\ a \in Up
                   THEN [told[a] EXCEPT ![m.vThing] = m.params] ELSE told[a]]
      /\ UNCHANGED <<silo, listed>>

\* A program that starts knows of no endpoint.
ProgramStarts(a) ==
  /\ PodStarts(a)
  /\ told' = [told EXCEPT ![a] = [v \in VThingsOfTV |-> NoDetails]]
  /\ UNCHANGED <<silo, toSilo, listed>>

(***************************************************************************)
(* The silo program: on_message_add_vThing subscribes to both topics,      *)
(* on_message_delete_vThing unsubscribes from the data only.  A restarted  *)
(* pod is restored from the attachments in the ledger, whatever has become *)
(* of their ThingVisors.                                                   *)
(***************************************************************************)
SiloReceivesDataOnly ==
  /\ toSilo # <<>>
  /\ toSilo' = Tail(toSilo)
  /\ LET m == Head(toSilo)
     IN  silo' = IF m.cmd = "addVThing"
                 THEN [silo EXCEPT !.data = @ \cup {m.vThing}]
                 ELSE [silo EXCEPT !.data = @ \ {m.vThing}]
  /\ UNCHANGED <<db, procVars, ctlVars, netVars, clusterVars, faults, pod,
                 listed, told>>

SiloReceives ==
  /\ toSilo # <<>>
  /\ toSilo' = Tail(toSilo)
  /\ LET m == Head(toSilo)
     IN  silo' = IF m.cmd = "addVThing"
                 THEN [data    |-> silo.data \cup {m.vThing},
                       control |-> silo.control \cup {m.vThing}]
                 ELSE [silo EXCEPT !.data = @ \ {m.vThing}]
  /\ UNCHANGED <<db, procVars, ctlVars, netVars, clusterVars, faults, pod,
                 listed, told>>

SiloRestarts ==
  /\ Fault("siloPod")
  /\ silo' = [data |-> Attached, control |-> Attached]
  /\ toSilo' = <<>>
  /\ lost' = lost \cup {toSilo[i].cmd : i \in 1..Len(toSilo)}
  /\ UNCHANGED <<db, procVars, ctlVars, toPod, toCtl, clusterVars, pod,
                 listed, told>>

LoseToSilo ==
  /\ Fault("loss")
  /\ toSilo # <<>>
  /\ toSilo' = Tail(toSilo)
  /\ lost' = lost \cup {Head(toSilo).cmd}
  /\ UNCHANGED <<db, procVars, ctlVars, toPod, toCtl, clusterVars, pod, ends>>

(***************************************************************************)
(* Windows in which these requests are in each other's way or in that of   *)
(* the ThingVisor's, and what makes them so.                               *)
(***************************************************************************)
Busy(kinds) == {r \in Sharing :
                 Kind[r] \in kinds /\ pc[r] \in {"getVThing", "check", "tell", "record"}}

Settling == \/ Busy({"setEndpoint", "delEndpoint"}) # {}
            \/ \E i \in 1..Len(toPod) : toPod[i].cmd = "endpoint"

\* From the start of a program to the record of its vThing.
Due == \/ \E i \in 1..Len(toPod) : toPod[i].cmd = "createVThings"
       \/ \E i \in 1..Len(toCtl) : toCtl[i] \in {"createVThing", "requestInit"}
       \/ \E h \in Handlers : pc[h] \in {"poll", "pollInit", "register", "init"}

Registering == ~PodsMatch \/ Due

\* The last of the messages about v is such a one.
Told(v, cmd) ==
  \E i \in 1..Len(toSilo) :
    /\ toSilo[i].vThing = v /\ toSilo[i].cmd = cmd
    /\ \A j \in (i+1)..Len(toSilo) : toSilo[j].vThing # v

Attaching == \/ Busy({"attach"}) # {}
             \/ \E i \in 1..Len(toSilo) : toSilo[i].cmd = "addVThing"

\* A delete in debug mode takes the record away in the end, as a callback does.
Withdrawing == Deletes > 0 \/ \E r \in Requests : pc[r] = "debugDrop"

SharingWindows ==
  Labelled("twoEndpoints",
           Cardinality(Busy({"setEndpoint", "delEndpoint"})) > 1)
    \cup Labelled("endpointDuringRegister", Registering /\ Settling)
    \cup Labelled("attachDuringDelete", Attaching /\ Withdrawing)
    \cup Labelled("attachDuringDetach",
           Busy({"attach"}) # {} /\ Busy({"detach"}) # {})
    \cup Labelled("attachAfterDelete", Busy({"attach"}) # {} /\ Rec = Nil)
    \cup Labelled("withdrawn",
           \E v \in Attached : Told(v, "deleteVThing"))

SharingNext ==
  /\ \/ /\ \/ ControllerActs
           \/ ProgramReceives
           \/ \E a \in Creations :
                \/ ProgramStarts(a)
                \/ /\ PodListens(a) \/ PodStops(a) \/ PodRestarts(a)
                   /\ UNCHANGED <<toSilo, ends>>
           \/ \E r \in Requests :
                \/ /\ Accept(r) \/ AcceptSharing(r)
                   /\ UNCHANGED <<pod, toSilo, ends>>
                \/ SharingRequest(r) /\ UNCHANGED <<pod, ends>>
           \/ Lose /\ UNCHANGED <<pod, toSilo, ends>>
           \/ SiloReceives \/ LoseToSilo
        /\ races' = races \cup Windows' \cup SharingWindows'
     \/ /\ Restart /\ UNCHANGED <<pod, toSilo, ends>>
        /\ races' = races \cup Interrupted
             \cup Labelled("changeInterrupted", Busy(SharingKinds) # {})
             \cup Labelled("registerInterrupted", Registering)
     \/ /\ SiloRestarts
        /\ races' = races \cup Labelled("changeDuringRestore",
                              Busy({"attach", "detach"}) # {})
  /\ UNCHANGED session

SharingSpec == SharingInit /\ [][SharingNext]_sharingVars

-------------------------------------------------------------------------------
(***************************************************************************)
(* Types; the programs' subscriptions are to vThings of the ThingVisor.    *)
(***************************************************************************)
SharingTypeOK ==
  /\ LedgerType(db)
  /\ pc \in [Actors -> Labels \cup {"getTV", "getVThing", "check", "tell",
                                    "record"}]
  /\ \A a \in Actors : seen[a] \in ThingVisorRecord \cup Details \cup {Nil}
  /\ silo \in [data : SUBSET VThingsOfTV, control : SUBSET VThingsOfTV]
  /\ silo.data \subseteq silo.control
  /\ \A i \in 1..Len(toSilo) :
       toSilo[i] \in [cmd : {"addVThing", "deleteVThing"}, vThing : VThingsOfTV]
  /\ listed \in [Own -> SUBSET VThingsOfTV]
  /\ told \in [Creations -> [VThingsOfTV -> Details]]

(***************************************************************************)
(* The endpoint in the ledger is the one the program was told last.  Not   *)
(* so if two requests overlapped (one is published first and recorded      *)
(* last), or one and a registration of the vThing, which overwrites the    *)
(* record; if the command reached nobody, or one of the messages by which  *)
(* a restarted program gets its vThing registered did not; if a delete met *)
(* a creation, whose job may much later make a stopping record "running"   *)
(* that has just refused the registration; or a transaction failed, or a   *)
(* restart came between message and ledger, or between a program's start   *)
(* and the record of its vThing.                                           *)
(***************************************************************************)
EndpointAgrees ==
  /\ AllSettled
  /\ Is(STATUS_RUNNING)
  /\ Without({"twoEndpoints", "endpointDuringRegister", "endpoint",
              "createVThing", "createVThings", "requestInit", "submit",
              "deleteDuringCreate", "changeInterrupted",
              "registerInterrupted"})
  => \A a \in Up, v \in Registered : told[a][v] = db[VThingTVKey(v)]

(***************************************************************************)
(* Once a ThingVisor is out of the ledger, no silo is connected to one of  *)
(* its vThings.  Not so if a vThing was attached while the ThingVisor was  *)
(* being deleted or after that, for its record is still there to be found; *)
(* if the silo was restored from an attachment that outlived the vThing;   *)
(* or the message was lost.  In debug mode the handler deletes the record  *)
(* whether or not destroyTV has reached the program that would tell.       *)
(***************************************************************************)
ConnectedMeansOffered ==
  /\ AllSettled
  /\ Rec = Nil
  /\ Without({"attachDuringDelete", "attachAfterDelete", "siloPod",
              "deleteVThing"})
  /\ DebugMode => Without({"destroyTV"})
  => silo.data = {}

(***************************************************************************)
(* The silo is connected to the vThings the ledger has attached to it,     *)
(* unless a vThing was withdrawn with its ThingVisor: the attachment stays *)
(* and refuses another, also when the ThingVisor has been added again.     *)
(***************************************************************************)
ConnectedUnlessWithdrawn ==
  /\ AllSettled
  /\ Without({"withdrawn", "attachDuringDelete", "attachDuringDetach",
              "changeDuringRestore", "addVThing", "deleteVThing", "submit",
              "changeInterrupted"})
  => silo.data = Attached
===============================================================================
