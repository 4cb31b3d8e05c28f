------------------------------ MODULE MonitorGraph ------------------------------
(***************************************************************************)
(* The graph the transaction monitor draws: the links each function of the *)
(* contract puts into its event (the LogGraph arguments of SetHistory),    *)
(* what /api/graph/data makes of the cached events, and how far the        *)
(* picture agrees with the ledger.                                         *)
(***************************************************************************)
EXTENDS Monitor, SequencesExt

CONSTANTS
  FlavourOf,   \* the flavourID AddVirtualSilo is given for a silo
  SiloName     \* strings.Split(vSiloID, "_")[1] of each silo

ASSUME GraphAssumption == FlavourOf \in [VSilos -> Flavours]

VARIABLE misled   \* history: nodes the last call to name them drew wrongly

graphVars == <<monitorVars, misled>>

(***************************************************************************)
(* Nodes.  The pairs of links between an organisation and its user, which  *)
(* every event has, are left out: nothing changes them.                    *)
(***************************************************************************)
UserNode       == <<"user">>
TenantNode     == <<"tenant">>
ThingVisorNode(t) == <<"thingvisor", t>>
VThingNode(v)  == <<"vthing", v>>
FlavourNode(f) == <<"flavour", f>>
SiloNode(s)    == <<"silo", s>>

AssetNodes ==
  {ThingVisorNode(t) : t \in ThingVisors} \cup {VThingNode(v) : v \in VThings}
    \cup {FlavourNode(f) : f \in Flavours} \cup {SiloNode(s) : s \in VSilos}

Nodes ==
  AssetNodes \cup {UserNode, TenantNode}
    \cup {FlavourNode(SiloName[s]) : s \in VSilos}

(***************************************************************************)
(* A link of an event.                                                     *)
(***************************************************************************)
Link(source, sourceType, target, targetType) ==
  [source |-> source, sourceType |-> sourceType,
   target |-> target, targetType |-> targetType]

ByUser(node, type)   == Link(UserNode, "user", node, type)
ByTenant(node, type) == Link(TenantNode, "user", node, type)

\* One link to each vThing ID of the call; both its ends are deleted.
Dropping(node, vs) ==
  LET ids == SetToSeq(vs)
  IN  [i \in 1..Len(ids) |->
         Link(node, "deleted", VThingNode(ids[i]), "deleted")]

(***************************************************************************)
(* What each function of the contract links.  Creating, updating (also in  *)
(* part) and stopping a ThingVisor say the same; so do adding and updating *)
(* a flavour, and adding a vThing to a silo and deleting it there.         *)
(***************************************************************************)
ThingVisorLinks(t) == <<ByUser(ThingVisorNode(t), "thingvisor")>>

DeleteThingVisorLinks(t, vs) ==
  <<ByUser(ThingVisorNode(t), "deleted")>> \o Dropping(ThingVisorNode(t), vs)

AddVThingLinks(t, v) ==
  <<ByUser(ThingVisorNode(t), "thingvisor"),
    Link(ThingVisorNode(t), "thingvisor", VThingNode(v), "vthing")>>

\* Its second link says "user" of the ThingVisor.
UpdateVThingLinks(v) ==
  LET node == ThingVisorNode(VThingPrefix[v])
  IN  <<ByUser(node, "thingvisor"), Link(node, "user", VThingNode(v), "vthing")>>

DeleteVThingLinks(t, v) ==
  <<Link(ThingVisorNode(t), "thingvisor", VThingNode(v), "deleted")>>

FlavourLinks(f) == <<ByUser(FlavourNode(f), "flavour")>>

DeleteFlavourLinks(f) == <<ByUser(FlavourNode(f), "deleted")>>

AddVirtualSiloLinks(s) ==
  <<ByTenant(SiloNode(s), "virtualsilo"),
    Link(FlavourNode(FlavourOf[s]), "flavour", SiloNode(s), "virtualsilo")>>

UpdateVirtualSiloLinks(s) == <<ByTenant(SiloNode(s), "virtualsilo")>>

\* The flavour is read from the name of the silo.
DeleteVirtualSiloLinks(s, vs) ==
  <<ByTenant(SiloNode(s), "deleted"),
    Link(FlavourNode(SiloName[s]), "deleted", SiloNode(s), "deleted")>>
    \o Dropping(SiloNode(s), vs)

VThingVSiloLinks(s, v) ==
  <<ByTenant(SiloNode(s), "virtualsilo"),
    Link(SiloNode(s), "virtualsilo", VThingNode(v), "vthing")>>

GraphOf(tx) ==
  CASE tx.fn \in {"CreateThingVisor", "UpdateThingVisor",
                  "UpdateThingVisorPartial", "StopThingVisor"}
                                              -> ThingVisorLinks(tx.tv)
    [] tx.fn = "DeleteThingVisor"             -> DeleteThingVisorLinks(tx.tv, tx.vThings)
    [] tx.fn = "AddVThingToThingVisor"        -> AddVThingLinks(tx.tv, tx.vThing)
    [] tx.fn = "UpdateVThingOfThingVisor"     -> UpdateVThingLinks(tx.vThing)
    [] tx.fn = "DeleteVThingFromThingVisor"   -> DeleteVThingLinks(tx.tv, tx.vThing)
    [] tx.fn \in {"AddFlavour", "UpdateFlavour"}
                                              -> FlavourLinks(tx.flavour)
    [] tx.fn = "DeleteFlavour"                -> DeleteFlavourLinks(tx.flavour)
    [] tx.fn = "AddVirtualSilo"               -> AddVirtualSiloLinks(tx.vSilo)
    [] tx.fn = "UpdateVirtualSilo"            -> UpdateVirtualSiloLinks(tx.vSilo)
    [] tx.fn = "DeleteVirtualSilo"            -> DeleteVirtualSiloLinks(tx.vSilo, tx.vThings)
    [] tx.fn \in {"AddVThingVSilo", "DeleteVThingVSilo"}
                                              -> VThingVSiloLinks(tx.vSilo, tx.vThing)

(***************************************************************************)
(* The query: a node has the type the last link gave it, an edge counts    *)
(* the links that did not delete their target.                             *)
(***************************************************************************)
EmptyGraph == [type  |-> [n \in Nodes |-> "none"],
               count |-> [p \in Nodes \X Nodes |-> 0]]

DrawLiveOnly(graph, l) ==
  IF l.targetType = "deleted" THEN graph
  ELSE [type  |-> [graph.type EXCEPT ![l.source] = l.sourceType,
                                     ![l.target] = l.targetType],
        count |-> [graph.count EXCEPT ![<<l.source, l.target>>] = @ + 1]]

Draw(graph, l) ==
  [type  |-> [graph.type EXCEPT ![l.source] = l.sourceType,
                                ![l.target] = l.targetType],
   count |-> IF l.targetType = "deleted" THEN graph.count
             ELSE [graph.count EXCEPT ![<<l.source, l.target>>] = @ + 1]]

Graph(events) ==
  FoldLeft(LAMBDA graph, e : FoldLeft(Draw, graph, GraphOf(e.tx)),
           EmptyGraph, events)

\* start_time and end_time: sets of at most one time, as each may be missing.
Bounds == {{}} \cup {{time} : time \in Times}

OutsideOrAtEnd(time, start, end) ==
  (\E s \in start : time < s) \/ (\E e \in end : time >= e)

Outside(time, start, end) ==
  (\E s \in start : time < s) \/ (\E e \in end : time > e)

\* The loop over the list ends at the first event outside the interval.
Considered(events, start, end) ==
  LET outside == {i \in 1..Len(events) : Outside(events[i].time, start, end)}
  IN  SubSeq(events, 1,
             IF outside = {} THEN Len(events) ELSE Min(outside) - 1)

(***************************************************************************)
(* The calls whose links tell something else than the ledger: an endpoint  *)
(* makes its ThingVisor a user, and there need not be a ThingVisor; the    *)
(* vThings a ThingVisor or a silo is deleted with stay in the ledger; with *)
(* a silo goes the flavour of the silo's own name; and nobody checks what  *)
(* a silo is made of and connected to.                                     *)
(***************************************************************************)
Held(key) == db[key] # Nil

InLedger ==
  {ThingVisorNode(t) : t \in {u \in ThingVisors : Held(ThingVisorKey(u))}}
    \cup {VThingNode(v) : v \in {u \in VThings : Held(VThingTVKey(u))}}
    \cup {FlavourNode(f) : f \in {u \in Flavours : Held(FlavourKey(u))}}
    \cup {SiloNode(s) : s \in {u \in VSilos : Held(VSiloKey(u))}}

Misleading(tx) ==
  CASE tx.fn = "UpdateVThingOfThingVisor"
         -> {ThingVisorNode(VThingPrefix[tx.vThing])}
    [] tx.fn = "DeleteThingVisor"
         -> InLedger \cap {VThingNode(v) : v \in tx.vThings}
    [] tx.fn = "AddVirtualSilo"
         -> {FlavourNode(FlavourOf[tx.vSilo])} \ InLedger
    [] tx.fn = "DeleteVirtualSilo"
         -> InLedger \cap ({VThingNode(v) : v \in tx.vThings}
                            \cup {FlavourNode(SiloName[tx.vSilo])})
    [] tx.fn \in {"AddVThingVSilo", "DeleteVThingVSilo"}
         -> {SiloNode(tx.vSilo), VThingNode(tx.vThing)} \ InLedger
    [] OTHER -> {}

Named(tx) == UNION {{l.source, l.target} : l \in ToSet(GraphOf(tx))}

GraphInit == Init /\ misled = {}

CommitDrawing(tx, time) ==
  /\ Commit(tx, time)
  /\ misled' = (misled \ Named(tx)) \cup Misleading(tx)

GraphNext ==
  \/ \E tx \in Requests, time \in Times : CommitDrawing(tx, time)
  \/ (Listener \/ EndStream \/ Crash) /\ UNCHANGED misled

(***************************************************************************)
(* Once all events have been shown, an asset that is in the ledger is      *)
(* drawn as what it is, and one that is not is missing or drawn as         *)
(* deleted, unless the last call that named it was one of those that       *)
(* mislead.                                                                *)
(***************************************************************************)
DrawnAs(n) == IF n[1] = "silo" THEN "virtualsilo" ELSE n[1]

GraphShowsLedger ==
  cache = log =>
    \A n \in AssetNodes \ misled :
      Graph(cache).type[n] \in IF n \in InLedger THEN {DrawnAs(n)}
                               ELSE {"none", "deleted"}

(***************************************************************************)
(* A query for an interval shows the events of that interval, if no event  *)
(* is earlier and the timestamps are in the order of the blocks.  Else the *)
(* loop at app.ts:201 ends too early: with an earlier event, at the first. *)
(***************************************************************************)
Within(time, start, end) ==
  (\A s \in start : s <= time) /\ (\A e \in end : time <= e)

InOrder(events) ==
  \A i, j \in 1..Len(events) : i < j => events[i].time <= events[j].time

IntervalGraph ==
  \A start, end \in Bounds :
    /\ InOrder(cache)
    /\ \A i \in 1..Len(cache), s \in start : s <= cache[i].time
    => Graph(Considered(cache, start, end))
         = Graph(SelectSeq(cache, LAMBDA e : Within(e.time, start, end)))

(***************************************************************************)
(* assetTransfer.go:692 says of the second part of a vSiloID that it is    *)
(* the flavourID, and DeleteVirtualSilo names the flavour node by it: a    *)
(* flavour node in the graph is that of a flavourID.                       *)
(***************************************************************************)
FlavourNodesAreFlavours ==
  \A n \in Nodes :
    n[1] = "flavour" /\ Graph(cache).type[n] # "none" => n[2] \in Flavours
================================================================================
