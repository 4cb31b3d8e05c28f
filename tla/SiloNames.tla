------------------------------- MODULE SiloNames -------------------------------
(***************************************************************************)
(* The names of Virtual Silos.  The controller puts the identifier of a    *)
(* silo together from its tenant and its name, tenantID + "_" + name, and  *)
(* the contract and the controller take it apart again at each "_": the    *)
(* ledger's keys are the first two pieces, the owner the controller asks   *)
(* for is the first.  A request is served here in one step; the            *)
(* interleaving of its steps is in module VirtualSiloLifecycle, where a    *)
(* silo's identifier is a model value.                                     *)
(*                                                                         *)
(* A name is the sequence of its pieces, those between one "_" and the     *)
(* next: "a" is <<"a">>, "a_b" is <<"a", "b">>, and tenant + "_" + name is *)
(* a concatenation.                                                        *)
(***************************************************************************)
EXTENDS Sequences, Naturals, Functions

CONSTANTS
  Pieces,     \* texts without "_"
  Admin,      \* the administrator, who may act for every tenant
  VThings,
  Sessions    \* the registered users and the silo names they choose

Names == {n \in Seq(Pieces) : Len(n) > 0}

ASSUME SiloNamesAssumption ==
  /\ Admin \in Names
  /\ \A s \in Sessions : s.users \subseteq Names /\ s.titles \subseteq Names

VARIABLES
  session,    \* the one of Sessions the behaviour is about
  silos,      \* the collection of silos: key to entry
  things,     \* keys of the collection of attachments, with the vThing
  request,    \* the last request: <<operation, tenant, name, ...>>
  answer      \* and its answer

nameVars == <<session, silos, things, request, answer>>

VSiloID(t, n) == t \o n

Key(id) == <<id[1], id[2]>>

Exists(id) == Key(id) \in DOMAIN silos

\* GetVThingVSilosByVSiloID.
ThingsOf(id) == {v \in VThings : <<Key(id), v>> \in things}

\* The partial key without the tenant.
AllSilos(t) == DOMAIN silos

\* GetVirtualSilosByTenantID asks for the keys whose first part is the
\* tenant's whole name.
SilosOfTenant(t) == {k \in DOMAIN silos : <<k[1]>> = t}

\* The check each handler starts with.
MayActFor(c, t) == c = t \/ (c = Admin /\ t \in session.users)

Init ==
  /\ session \in Sessions
  /\ silos = <<>> /\ things = {}
  /\ request = <<>> /\ answer = "ok"

Refuse ==
  /\ answer' = "refused"
  /\ UNCHANGED <<silos, things>>

(***************************************************************************)
(* siloCreate: AddVirtualSilo checks that the key is free, and the job     *)
(* then writes the entry.                                                  *)
(***************************************************************************)
Create(c, t, n) ==
  LET id == VSiloID(t, n) IN
  /\ MayActFor(c, t)
  /\ request' = <<"create", t, n>>
  /\ IF Exists(id) THEN Refuse
     ELSE /\ silos' = [k \in DOMAIN silos \cup {Key(id)} |->
                         IF k = Key(id) THEN [tenant |-> t, title |-> n] ELSE silos[k]]
          /\ answer' = "ok"
          /\ UNCHANGED things
  /\ UNCHANGED session

\* Destroy takes the silo of the one who asks instead of the tenant's.
DestroyCallers(c, t, n, force) ==
  LET id == VSiloID(c, n) IN
  /\ MayActFor(c, t)
  /\ request' = <<"destroy", t, n>>
  /\ IF ~Exists(id) THEN Refuse
     ELSE /\ silos' = Restrict(silos, DOMAIN silos \ {Key(id)})
          /\ things' = things \ {<<Key(id), v>> : v \in ThingsOf(id)}
          /\ answer' = "ok"
  /\ UNCHANGED session

(***************************************************************************)
(* siloDestroy.  Forced, the handler deletes the silo and its attachments  *)
(* under the key; otherwise it publishes destroyVSilo for the identifier,  *)
(* and the program deployed under exactly that identifier, if there is     *)
(* one, has the controller do so.                                          *)
(***************************************************************************)
Destroy(c, t, n, force) ==
  LET id    == VSiloID(t, n)
      entry == silos[Key(id)]
  IN
  /\ MayActFor(c, t)
  /\ request' = <<"destroy", t, n>>
  /\ IF ~Exists(id) THEN Refuse
     ELSE /\ answer' = "ok"
          /\ IF force \/ VSiloID(entry.tenant, entry.title) = id
             THEN /\ silos' = Restrict(silos, DOMAIN silos \ {Key(id)})
                  /\ things' = things \ {<<Key(id), v>> : v \in ThingsOf(id)}
             ELSE UNCHANGED <<silos, things>>
  /\ UNCHANGED session

\* addVThing.
Attach(c, t, n, v) ==
  LET id == VSiloID(t, n) IN
  /\ MayActFor(c, t)
  /\ request' = <<"attach", t, n, v>>
  /\ IF ~Exists(id) \/ v \in ThingsOf(id) THEN Refuse
     ELSE /\ things' = things \cup {<<Key(id), v>>}
          /\ answer' = "ok"
          /\ UNCHANGED silos
  /\ UNCHANGED session

\* deleteVThing, which does not look at the silo.
Detach(c, t, n, v) ==
  LET id == VSiloID(t, n) IN
  /\ MayActFor(c, t)
  /\ request' = <<"detach", t, n, v>>
  /\ IF v \notin ThingsOf(id) THEN Refuse
     ELSE /\ things' = things \ {<<Key(id), v>>}
          /\ answer' = "ok"
          /\ UNCHANGED silos
  /\ UNCHANGED session

\* inspectVirtualSilo takes the identifier and asks for its first piece.
Inspect(c, t, n) ==
  LET id == VSiloID(t, n) IN
  /\ MayActFor(c, <<id[1]>>)
  /\ request' = <<"inspect", t, n>>
  /\ answer' = IF Exists(id) THEN ThingsOf(id) ELSE "refused"
  /\ UNCHANGED <<session, silos, things>>

\* inspectTenant.
List(c, t) ==
  /\ MayActFor(c, t)
  /\ request' = <<"list", t>>
  /\ answer' = {silos[k].title : k \in SilosOfTenant(t)}
  /\ UNCHANGED <<session, silos, things>>

Next ==
  \E c, t \in session.users :
    \/ List(c, t)
    \/ \E n \in session.titles :
         \/ Create(c, t, n)
         \/ \E force \in BOOLEAN : Destroy(c, t, n, force)
         \/ Inspect(c, t, n)
         \/ \E v \in VThings : Attach(c, t, n, v) \/ Detach(c, t, n, v)

Spec == Init /\ [][Next]_nameVars

-------------------------------------------------------------------------------
(***************************************************************************)
(* Properties.  Nothing in the program keeps an "_" out of the name of a   *)
(* user or of a silo.                                                      *)
(***************************************************************************)
Plain(n) == Len(n) = 1

\* "a_b" and "a", or "a_b" and "a_c": tenants whose keys have the same owner.
Confused(t, u) == t[1] = u[1] /\ (~Plain(t) \/ ~Plain(u))

Untouched(k) ==
  /\ k \in DOMAIN silos'
  /\ silos'[k] = silos[k]
  /\ \A v \in VThings : <<k, v>> \in things' <=> <<k, v>> \in things

LeavesOthers ==
  \A k \in DOMAIN silos :
    \/ Untouched(k)
    \/ silos[k].tenant = request'[2]
    \/ Confused(silos[k].tenant, request'[2])

(***************************************************************************)
(* A request for a tenant creates, changes and deletes silos and           *)
(* attachments of this tenant only (siloCreate, siloDestroy, addVThing,    *)
(* deleteVThing), unless one of the two tenants has an "_" in its name and *)
(* both begin with the same piece.                                         *)
(***************************************************************************)
OthersUntouched == [][LeavesOthers]_nameVars

(***************************************************************************)
(* Among users and silos without an "_" in their names, the requests do    *)
(* exactly what SiloRegistry says: two silos of different tenants or       *)
(* different names are two, each request reaches the one it names, and the *)
(* lists are right.  A session with other names is the registry that       *)
(* nobody uses.                                                            *)
(***************************************************************************)
OwnedSilos == {<<silos[k].tenant, silos[k].title>> : k \in DOMAIN silos}

OwnedThings == {<<silos[a[1]].tenant, silos[a[1]].title, a[2]>> : a \in things}

PlainSession == \A n \in session.users \cup session.titles : Plain(n)

OnlyPlain(value, otherwise) == IF PlainSession THEN value ELSE otherwise

Registry == INSTANCE SiloRegistry WITH
  Tenants  <- UNION {s.users : s \in Sessions},
  Titles   <- UNION {s.titles : s \in Sessions},
  owned    <- OnlyPlain(OwnedSilos, {}),
  attached <- OnlyPlain(OwnedThings, {}),
  request  <- OnlyPlain(request, <<>>),
  answer   <- OnlyPlain(answer, "ok")

ImplementsRegistry == Registry!Spec
===============================================================================
