--------------------------- MODULE SiloNames_proofs ---------------------------
(***************************************************************************)
(* Proofs about the names of Virtual Silos, for every set of users, silo   *)
(* names and vThings: requests for one tenant leave the others' silos      *)
(* alone, and without an "_" in the names the ledger's keys implement the  *)
(* registry of SiloRegistry.                                               *)
(***************************************************************************)
EXTENDS SiloNames, SequenceTheorems, TLAPS

Entries == [tenant : Names, title : Names]

OwnKey(entry) == Key(VSiloID(entry.tenant, entry.title))

(***************************************************************************)
(* Every silo is stored under the key of its own tenant and name, and      *)
(* every attachment under the key of a silo that is there.                 *)
(***************************************************************************)
KeysInv ==
  /\ session \in Sessions
  /\ silos = [k \in DOMAIN silos |-> silos[k]]
  /\ \A k \in DOMAIN silos :
       /\ silos[k] \in Entries
       /\ silos[k].tenant \in session.users /\ silos[k].title \in session.titles
       /\ k = OwnKey(silos[k])
  /\ \A a \in things : \E k \in DOMAIN silos, v \in VThings : a = <<k, v>>

(***************************************************************************)
(* The identifier of a silo begins with its tenant's pieces.               *)
(***************************************************************************)
LEMMA KeyOfNames ==
  ASSUME NEW t \in Names, NEW n \in Names
  PROVE  /\ Key(VSiloID(t, n))[1] = t[1]
         /\ Plain(t) => Key(VSiloID(t, n)) = <<t[1], n[1]>>
  <1>1. t \in Seq(Pieces) /\ n \in Seq(Pieces) /\ Len(t) > 0 /\ Len(n) > 0
    BY DEF Names
  <1>2. Len(t) \in Nat /\ Len(n) \in Nat
    BY <1>1
  <1>3. (t \o n)[1] = t[1]
    BY <1>1, <1>2
  <1>4. ASSUME Plain(t) PROVE (t \o n)[2] = n[1]
    <2>1. Len(t) = 1 /\ 2 \in 1 .. Len(t) + Len(n)
      BY <1>1, <1>2, <1>4 DEF Plain
    <2>2. (t \o n)[2] = IF 2 <= Len(t) THEN t[2] ELSE n[2 - Len(t)]
      <3>1. \A i \in 1 .. Len(t) + Len(n) : (t \o n)[i] =
                IF i <= Len(t) THEN t[i] ELSE n[i - Len(t)]
        BY <1>1, ConcatProperties
      <3> QED BY <2>1, <3>1
    <2>3. ~(2 <= Len(t)) /\ 2 - Len(t) = 1
      BY <2>1
    <2> QED BY <2>2, <2>3
  <1> QED BY <1>3, <1>4 DEF Key, VSiloID

\* A name without a separator is the sequence of its one part.
LEMMA PlainName ==
  ASSUME NEW t \in Names, Plain(t)
  PROVE  t = <<t[1]>>
  BY DEF Names, Plain

\* The users and names of a session are names.
LEMMA Users ==
  ASSUME SiloNamesAssumption, session \in Sessions
  PROVE  session.users \subseteq Names /\ session.titles \subseteq Names
  BY DEF SiloNamesAssumption

-------------------------------------------------------------------------------
\* Every key is one some silo can have, at first.
LEMMA KeysInit ==
  ASSUME SiloNamesAssumption, Init
  PROVE  KeysInv
  <1>1. DOMAIN silos = {} /\ silos = [k \in DOMAIN silos |-> silos[k]]
    BY DEF Init
  <1> QED BY <1>1 DEF Init, KeysInv

\* A request that leaves the two collections alone.
LEMMA KeysUnchanged ==
  ASSUME KeysInv, UNCHANGED <<session, silos, things>>
  PROVE  KeysInv'
  BY DEF KeysInv, OwnKey, Key, VSiloID, Entries, Names

\* Creating a silo adds only a key a silo can have.
LEMMA KeysCreate ==
  ASSUME SiloNamesAssumption, KeysInv,
         NEW c \in session.users, NEW t \in session.users, NEW n \in session.titles,
         Create(c, t, n)
  PROVE  KeysInv'
  <1> DEFINE id == VSiloID(t, n)
  <1>1. t \in Names /\ n \in Names
    BY Users DEF KeysInv
  <1>2. CASE Exists(id)
    BY <1>2, KeysUnchanged DEF Create, Refuse
  <1>3. CASE ~Exists(id)
    <2>1. /\ session' = session /\ things' = things
          /\ silos' = [k \in DOMAIN silos \cup {Key(id)} |->
                         IF k = Key(id) THEN [tenant |-> t, title |-> n] ELSE silos[k]]
      BY <1>3 DEF Create
    <2>2. /\ DOMAIN silos' = DOMAIN silos \cup {Key(id)}
          /\ silos'[Key(id)] = [tenant |-> t, title |-> n]
          /\ \A k \in DOMAIN silos : silos'[k] = silos[k]
      BY <1>3, <2>1 DEF Exists
    <2>3. silos' = [k \in DOMAIN silos' |-> silos'[k]]
      BY <2>1
    <2>4. ASSUME NEW k \in DOMAIN silos'
          PROVE  /\ silos'[k] \in Entries
                 /\ silos'[k].tenant \in session.users /\ silos'[k].title \in session.titles
                 /\ k = OwnKey(silos'[k])
      <3>1. CASE k = Key(id)
        BY <1>1, <2>2, <3>1 DEF Entries, OwnKey
      <3>2. CASE k \in DOMAIN silos
        BY <2>2, <3>2 DEF KeysInv
      <3> QED BY <2>2, <3>1, <3>2
    <2>5. \A a \in things' : \E k \in DOMAIN silos', v \in VThings : a = <<k, v>>
      BY <2>1, <2>2 DEF KeysInv
    <2>6. session' \in Sessions
      BY <2>1 DEF KeysInv
    <2> QED BY <2>1, <2>3, <2>4, <2>5, <2>6 DEF KeysInv, OwnKey, Key, VSiloID, Entries, Names
  <1> QED BY <1>2, <1>3

\* Destroying a silo adds no key.
LEMMA KeysDestroy ==
  ASSUME KeysInv,
         NEW c \in session.users, NEW t \in session.users, NEW n \in session.titles,
         NEW force \in BOOLEAN, Destroy(c, t, n, force)
  PROVE  KeysInv'
  <1> DEFINE id == VSiloID(t, n)
  <1>1. CASE UNCHANGED <<session, silos, things>>
    BY <1>1, KeysUnchanged
  <1>2. CASE /\ session' = session
             /\ silos' = Restrict(silos, DOMAIN silos \ {Key(id)})
             /\ things' = things \ {<<Key(id), v>> : v \in ThingsOf(id)}
    <2>1. /\ DOMAIN silos' = DOMAIN silos \ {Key(id)}
          /\ \A k \in DOMAIN silos' : silos'[k] = silos[k]
          /\ silos' = [k \in DOMAIN silos' |-> silos'[k]]
      BY <1>2 DEF Restrict
    <2>2. \A k \in DOMAIN silos' :
             /\ silos'[k] \in Entries
             /\ silos'[k].tenant \in session.users /\ silos'[k].title \in session.titles
             /\ k = OwnKey(silos'[k])
      BY <2>1 DEF KeysInv
    <2>3. ASSUME NEW a \in things'
          PROVE  \E k \in DOMAIN silos', v \in VThings : a = <<k, v>>
      <3>1. PICK k \in DOMAIN silos, v \in VThings : a = <<k, v>>
        BY <1>2 DEF KeysInv
      <3>2. k # Key(id)
        BY <1>2, <3>1 DEF ThingsOf
      <3> QED BY <2>1, <3>1, <3>2
    <2> QED BY <1>2, <2>1, <2>2, <2>3 DEF KeysInv, OwnKey, Key, VSiloID, Entries, Names
  <1> QED BY <1>1, <1>2 DEF Destroy, Refuse

\* Attaching or detaching a vThing adds only a key a silo can have.
LEMMA KeysAttach ==
  ASSUME KeysInv,
         NEW c \in session.users, NEW t \in session.users, NEW n \in session.titles,
         NEW v \in VThings, Attach(c, t, n, v) \/ Detach(c, t, n, v)
  PROVE  KeysInv'
  <1>1. session' = session /\ silos' = silos
    BY DEF Attach, Detach, Refuse
  <1>2. \A a \in things' : \E k \in DOMAIN silos, w \in VThings : a = <<k, w>>
    BY DEF KeysInv, Attach, Detach, Refuse, Exists
  <1> QED BY <1>1, <1>2 DEF KeysInv, OwnKey, Key, VSiloID, Entries, Names

\* Every step keeps that the keys are ones silos can have.
LEMMA KeysStep ==
  ASSUME SiloNamesAssumption, KeysInv, [Next]_nameVars
  PROVE  KeysInv'
  <1>1. CASE UNCHANGED nameVars
    BY <1>1, KeysUnchanged DEF nameVars
  <1>2. CASE Next
    <2> PICK c \in session.users, t \in session.users :
          \/ List(c, t)
          \/ \E n \in session.titles :
               \/ Create(c, t, n)
               \/ \E force \in BOOLEAN : Destroy(c, t, n, force)
               \/ Inspect(c, t, n)
               \/ \E v \in VThings : Attach(c, t, n, v) \/ Detach(c, t, n, v)
      BY <1>2 DEF Next
    <2>1. CASE List(c, t)
      BY <2>1, KeysUnchanged DEF List
    <2>2. ASSUME NEW n \in session.titles, Inspect(c, t, n) PROVE KeysInv'
      BY <2>2, KeysUnchanged DEF Inspect
    <2> QED BY <2>1, <2>2, KeysCreate, KeysDestroy, KeysAttach
  <1> QED BY <1>1, <1>2

(***************************************************************************)
(* The keys of the two collections are those of the entries' own names.    *)
(***************************************************************************)
THEOREM KeysAreOwn == Spec => []KeysInv
  <1>1. Init => KeysInv
    BY KeysInit, SiloNamesAssumption
  <1>2. KeysInv /\ [Next]_nameVars => KeysInv'
    BY KeysStep, SiloNamesAssumption
  <1> QED BY <1>1, <1>2, PTL DEF Spec

-------------------------------------------------------------------------------
\* A request for t, and what it does to the key k of another tenant.
LEMMA OtherKey ==
  ASSUME SiloNamesAssumption, KeysInv, NEW k \in DOMAIN silos,
         NEW t \in session.users, NEW n \in session.titles,
         k = Key(VSiloID(t, n)), silos[k].tenant # t
  PROVE  Confused(silos[k].tenant, t)
  <1> DEFINE u == silos[k].tenant
  <1>1. t \in Names /\ n \in Names
    BY Users DEF KeysInv
  <1>2. u \in Names /\ silos[k].title \in Names /\ k = OwnKey(silos[k])
    BY DEF KeysInv, Entries
  <1>3. t[1] = u[1]
    BY <1>1, <1>2, KeyOfNames DEF OwnKey
  <1>4. ~(Plain(t) /\ Plain(u))
    BY <1>1, <1>2, <1>3, PlainName
  <1> QED BY <1>3, <1>4 DEF Confused

(***************************************************************************)
(* Requests for one tenant leave the silos and attachments of the others   *)
(* alone, unless an "_" makes their names begin alike.                     *)
(***************************************************************************)
THEOREM TenantsAreApart == Spec => OthersUntouched
  <1> DEFINE Allowed(k) == \/ Untouched(k)
                           \/ silos[k].tenant = request'[2]
                           \/ Confused(silos[k].tenant, request'[2])
  <1>1. ASSUME KeysInv, Next, NEW k \in DOMAIN silos
        PROVE  Allowed(k)
    <2> PICK c \in session.users, t \in session.users :
          \/ List(c, t)
          \/ \E n \in session.titles :
               \/ Create(c, t, n)
               \/ \E force \in BOOLEAN : Destroy(c, t, n, force)
               \/ Inspect(c, t, n)
               \/ \E v \in VThings : Attach(c, t, n, v) \/ Detach(c, t, n, v)
      BY <1>1 DEF Next
    <2>1. CASE List(c, t)
      BY <2>1 DEF List, Untouched
    <2>2. ASSUME NEW n \in session.titles, Inspect(c, t, n) PROVE Allowed(k)
      BY <2>2 DEF Inspect, Untouched
    <2>3. ASSUME NEW n \in session.titles, k = Key(VSiloID(t, n)), request'[2] = t
          PROVE  Allowed(k)
      BY <1>1, <2>3, OtherKey, SiloNamesAssumption
    <2>4. ASSUME NEW n \in session.titles, Create(c, t, n) PROVE Allowed(k)
      <3>1. CASE Exists(VSiloID(t, n))
        BY <2>4, <3>1 DEF Create, Refuse, Untouched
      <3>2. CASE ~Exists(VSiloID(t, n))
        BY <1>1, <2>4, <3>2 DEF Create, Exists, Untouched
      <3> QED BY <3>1, <3>2
    <2>5. ASSUME NEW n \in session.titles, NEW force \in BOOLEAN, Destroy(c, t, n, force)
          PROVE  Allowed(k)
      <3>1. CASE k = Key(VSiloID(t, n))
        <4>1. request'[2] = t
          BY <2>5 DEF Destroy
        <4> QED BY <2>3, <3>1, <4>1
      <3>2. CASE k # Key(VSiloID(t, n))
        BY <1>1, <2>5, <3>2 DEF Destroy, Refuse, Restrict, Untouched
      <3> QED BY <3>1, <3>2
    <2>6. ASSUME NEW n \in session.titles, NEW v \in VThings,
                 Attach(c, t, n, v) \/ Detach(c, t, n, v)
          PROVE  Allowed(k)
      <3>1. CASE k = Key(VSiloID(t, n))
        <4>1. request'[2] = t
          BY <2>6 DEF Attach, Detach
        <4> QED BY <2>3, <3>1, <4>1
      <3>2. CASE k # Key(VSiloID(t, n))
        BY <1>1, <2>6, <3>2 DEF Attach, Detach, Refuse, Untouched
      <3> QED BY <3>1, <3>2
    <2> QED BY <2>1, <2>2, <2>4, <2>5, <2>6
  <1>2. KeysInv /\ [Next]_nameVars => [LeavesOthers]_nameVars
    BY <1>1 DEF LeavesOthers
  <1> QED BY <1>2, KeysAreOwn, PTL DEF Spec, OthersUntouched

-------------------------------------------------------------------------------
(***************************************************************************)
(* Among plain names a key belongs to one tenant and one name.             *)
(***************************************************************************)
LEMMA EntryOf ==
  ASSUME SiloNamesAssumption, KeysInv, PlainSession, NEW k \in DOMAIN silos,
         NEW t \in session.users, NEW n \in session.titles
  PROVE  k = Key(VSiloID(t, n)) <=> silos[k].tenant = t /\ silos[k].title = n
  <1> DEFINE u == silos[k].tenant
             m == silos[k].title
  <1>1. t \in Names /\ n \in Names /\ Plain(t) /\ Plain(n)
    BY Users DEF KeysInv, PlainSession
  <1>2. /\ u \in Names /\ m \in Names /\ k = Key(VSiloID(u, m))
        /\ Plain(u) /\ Plain(m)
    BY DEF KeysInv, Entries, OwnKey, PlainSession
  <1>3. k = <<u[1], m[1]>> /\ Key(VSiloID(t, n)) = <<t[1], n[1]>>
    BY <1>1, <1>2, KeyOfNames
  <1>4. t = <<t[1]>> /\ n = <<n[1]>> /\ u = <<u[1]>> /\ m = <<m[1]>>
    BY <1>1, <1>2, PlainName
  <1> QED BY <1>2, <1>3, <1>4

\* With plain names a tenant owns a silo of a name when its key is there.
LEMMA OwnedIff ==
  ASSUME SiloNamesAssumption, KeysInv, PlainSession,
         NEW t \in session.users, NEW n \in session.titles
  PROVE  <<t, n>> \in OwnedSilos <=> Exists(VSiloID(t, n))
  BY EntryOf DEF OwnedSilos, Exists

\* With plain names a silo has the vThings whose keys are there.
LEMMA ThingsIff ==
  ASSUME SiloNamesAssumption, KeysInv, PlainSession,
         NEW t \in session.users, NEW n \in session.titles, NEW v \in VThings
  PROVE  <<t, n, v>> \in OwnedThings <=> v \in ThingsOf(VSiloID(t, n))
  <1> DEFINE key == Key(VSiloID(t, n))
  <1>1. ASSUME <<t, n, v>> \in OwnedThings PROVE <<key, v>> \in things
    <2>1. PICK a \in things : <<t, n, v>> = <<silos[a[1]].tenant, silos[a[1]].title, a[2]>>
      BY <1>1 DEF OwnedThings
    <2>2. PICK k \in DOMAIN silos, w \in VThings : a = <<k, w>>
      BY <2>1 DEF KeysInv
    <2>3. k = key /\ w = v
      BY <2>1, <2>2, EntryOf
    <2> QED BY <2>1, <2>2, <2>3
  <1>2. ASSUME <<key, v>> \in things PROVE <<t, n, v>> \in OwnedThings
    <2>1. key \in DOMAIN silos
      BY <1>2 DEF KeysInv
    <2>2. silos[key].tenant = t /\ silos[key].title = n
      BY <2>1, EntryOf
    <2> QED BY <1>2, <2>2 DEF OwnedThings
  <1> QED BY <1>1, <1>2 DEF ThingsOf

\* Requests that leave the two collections alone read what the registry holds.
LEMMA ReadsMap ==
  ASSUME SiloNamesAssumption, KeysInv, PlainSession, NEW t \in session.users
  PROVE  /\ {silos[k].title : k \in SilosOfTenant(t)}
              = {n \in UNION {s.titles : s \in Sessions} : <<t, n>> \in OwnedSilos}
         /\ \A n \in session.titles :
              ThingsOf(VSiloID(t, n)) = {v \in VThings : <<t, n, v>> \in OwnedThings}
  <1>1. t \in Names /\ Plain(t) /\ t = <<t[1]>>
    BY Users, PlainName DEF KeysInv, PlainSession
  <1>2. ASSUME NEW k \in DOMAIN silos
        PROVE  <<k[1]>> = t <=> silos[k].tenant = t
    <2>1. /\ silos[k].tenant \in Names /\ silos[k].title \in Names
          /\ Plain(silos[k].tenant) /\ k = OwnKey(silos[k])
      BY DEF KeysInv, Entries, PlainSession
    <2>2. k[1] = silos[k].tenant[1]
      BY <2>1, KeyOfNames DEF OwnKey
    <2>3. silos[k].tenant = <<silos[k].tenant[1]>>
      BY <2>1, PlainName
    <2> QED BY <2>2, <2>3
  <1>3. \A k \in DOMAIN silos : silos[k].title \in UNION {s.titles : s \in Sessions}
    BY DEF KeysInv
  <1>4. ASSUME NEW n PROVE n \in {silos[k].title : k \in SilosOfTenant(t)}
            <=> n \in {m \in UNION {s.titles : s \in Sessions} : <<t, m>> \in OwnedSilos}
    BY <1>2, <1>3 DEF SilosOfTenant, OwnedSilos
  <1>5. ASSUME NEW n \in session.titles
        PROVE  ThingsOf(VSiloID(t, n)) = {v \in VThings : <<t, n, v>> \in OwnedThings}
    BY ThingsIff DEF ThingsOf
  <1> QED BY <1>4, <1>5

\* With plain names the creation of the keys is the creation of the registry.
LEMMA CreateMaps ==
  ASSUME SiloNamesAssumption, KeysInv, PlainSession,
         NEW c \in session.users, NEW t \in session.users, NEW n \in session.titles,
         Create(c, t, n)
  PROVE  Registry!Create(t, n)
  <1> DEFINE id == VSiloID(t, n)
  <1>1. /\ session' = session /\ request' = <<"create", t, n>>
        /\ PlainSession'
    BY DEF Create, PlainSession, Plain
  <1>2. CASE Exists(id)
    <2>1. silos' = silos /\ things' = things /\ answer' = "refused"
      BY <1>2 DEF Create, Refuse
    <2>2. OwnedSilos' = OwnedSilos /\ OwnedThings' = OwnedThings
      BY <2>1 DEF OwnedSilos, OwnedThings
    <2>3. <<t, n>> \in OwnedSilos
      BY <1>2, OwnedIff
    <2> QED BY <1>1, <2>1, <2>2, <2>3 DEF Registry!Create, OnlyPlain
  <1>3. CASE ~Exists(id)
    <2>1. things' = things /\ answer' = "ok"
      BY <1>3 DEF Create
    <2>2. /\ DOMAIN silos' = DOMAIN silos \cup {Key(id)} /\ Key(id) \notin DOMAIN silos
          /\ silos'[Key(id)] = [tenant |-> t, title |-> n]
          /\ \A k \in DOMAIN silos : silos'[k] = silos[k]
      BY <1>3 DEF Create, Exists
    <2>3. OwnedSilos' = OwnedSilos \cup {<<t, n>>}
      BY <2>2 DEF OwnedSilos
    <2>4. \A a \in things : silos'[a[1]] = silos[a[1]]
      BY <2>2 DEF KeysInv
    <2>5. OwnedThings' = OwnedThings
      BY <2>1, <2>4 DEF OwnedThings
    <2>6. <<t, n>> \notin OwnedSilos
      BY <1>3, OwnedIff
    <2> QED BY <1>1, <2>1, <2>3, <2>5, <2>6 DEF Registry!Create, OnlyPlain
  <1> QED BY <1>2, <1>3

\* With plain names the destruction of the keys is that of the registry.
LEMMA DestroyMaps ==
  ASSUME SiloNamesAssumption, KeysInv, PlainSession,
         NEW c \in session.users, NEW t \in session.users, NEW n \in session.titles,
         NEW force \in BOOLEAN, Destroy(c, t, n, force)
  PROVE  Registry!Destroy(t, n)
  <1> DEFINE id == VSiloID(t, n)
  <1>1. /\ session' = session /\ request' = <<"destroy", t, n>>
        /\ PlainSession'
    BY DEF Destroy, PlainSession, Plain
  <1>2. CASE ~Exists(id)
    <2>1. silos' = silos /\ things' = things /\ answer' = "refused"
      BY <1>2 DEF Destroy, Refuse
    <2>2. OwnedSilos' = OwnedSilos /\ OwnedThings' = OwnedThings
      BY <2>1 DEF OwnedSilos, OwnedThings
    <2>3. <<t, n>> \notin OwnedSilos
      BY <1>2, OwnedIff
    <2> QED BY <1>1, <2>1, <2>2, <2>3 DEF Registry!Destroy, OnlyPlain
  <1>3. CASE Exists(id)
    <2>1. Key(id) \in DOMAIN silos /\ VSiloID(silos[Key(id)].tenant, silos[Key(id)].title) = id
      BY <1>3, EntryOf DEF Exists
    <2>2. /\ answer' = "ok"
          /\ silos' = Restrict(silos, DOMAIN silos \ {Key(id)})
          /\ things' = things \ {<<Key(id), v>> : v \in ThingsOf(id)}
      BY <1>3, <2>1 DEF Destroy
    <2>3. /\ DOMAIN silos' = DOMAIN silos \ {Key(id)}
          /\ \A k \in DOMAIN silos' : silos'[k] = silos[k]
      BY <2>2 DEF Restrict
    <2>4. OwnedSilos' = OwnedSilos \ {<<t, n>>}
      BY <2>3, EntryOf DEF OwnedSilos
    <2>5. ASSUME NEW a \in things
          PROVE  a \in things' <=>
                 <<silos[a[1]].tenant, silos[a[1]].title, a[2]>>
                   \notin {<<t, n, v>> : v \in VThings}
      <3>1. PICK k \in DOMAIN silos, w \in VThings : a = <<k, w>>
        BY DEF KeysInv
      <3>2. a \in things' <=> k # Key(id)
        BY <2>2, <3>1 DEF ThingsOf
      <3> QED BY <3>1, <3>2, EntryOf
    <2>6. \A a \in things' : a \in things /\ silos'[a[1]] = silos[a[1]]
      <3>1. ASSUME NEW a \in things' PROVE a \in things /\ silos'[a[1]] = silos[a[1]]
        <4>1. a \in things
          BY <2>2
        <4>2. PICK k \in DOMAIN silos, w \in VThings : a = <<k, w>>
          BY <4>1 DEF KeysInv
        <4>3. k # Key(id)
          BY <2>2, <4>1, <4>2 DEF ThingsOf
        <4> QED BY <2>3, <4>1, <4>2, <4>3
      <3> QED BY <3>1
    <2>7. OwnedThings' = OwnedThings \ {<<t, n, v>> : v \in VThings}
      BY <2>5, <2>6 DEF OwnedThings
    <2>8. <<t, n>> \in OwnedSilos
      BY <1>3, OwnedIff
    <2> QED BY <1>1, <2>2, <2>4, <2>7, <2>8 DEF Registry!Destroy, OnlyPlain
  <1> QED BY <1>2, <1>3

\* With plain names an attachment of the keys is one of the registry.
LEMMA AttachMaps ==
  ASSUME SiloNamesAssumption, KeysInv, PlainSession,
         NEW c \in session.users, NEW t \in session.users, NEW n \in session.titles,
         NEW v \in VThings, Attach(c, t, n, v)
  PROVE  Registry!Attach(t, n, v)
  <1> DEFINE id == VSiloID(t, n)
  <1>1. /\ session' = session /\ request' = <<"attach", t, n, v>>
        /\ PlainSession' /\ silos' = silos
    BY DEF Attach, Refuse, PlainSession, Plain
  <1>2. OwnedSilos' = OwnedSilos
    BY <1>1 DEF OwnedSilos
  <1>3. /\ <<t, n>> \in OwnedSilos <=> Exists(id)
        /\ <<t, n, v>> \in OwnedThings <=> v \in ThingsOf(id)
    BY OwnedIff, ThingsIff
  <1>4. CASE ~Exists(id) \/ v \in ThingsOf(id)
    <2>1. things' = things /\ answer' = "refused"
      BY <1>4 DEF Attach, Refuse
    <2>2. OwnedThings' = OwnedThings
      BY <1>1, <2>1 DEF OwnedThings
    <2> QED BY <1>1, <1>2, <1>3, <1>4, <2>1, <2>2 DEF Registry!Attach, OnlyPlain
  <1>5. CASE ~(~Exists(id) \/ v \in ThingsOf(id))
    <2>1. things' = things \cup {<<Key(id), v>>} /\ answer' = "ok"
      BY <1>5 DEF Attach
    <2>2. silos[Key(id)].tenant = t /\ silos[Key(id)].title = n
      BY <1>5, EntryOf DEF Exists
    <2>3. OwnedThings' = OwnedThings \cup {<<t, n, v>>}
      <3> DEFINE new  == <<Key(id), v>>
                 F(a) == <<silos[a[1]].tenant, silos[a[1]].title, a[2]>>
      <3>1. F(new) = <<t, n, v>>
        BY <2>2
      <3>2. OwnedThings' = {F(a) : a \in things \cup {new}} /\ OwnedThings = {F(a) : a \in things}
        BY <1>1, <2>1 DEF OwnedThings
      <3> HIDE DEF new, F
      <3> QED BY <3>1, <3>2
    <2> QED BY <1>1, <1>2, <1>3, <1>5, <2>1, <2>3 DEF Registry!Attach, OnlyPlain
  <1> QED BY <1>4, <1>5

\* With plain names a detachment of the keys is one of the registry.
LEMMA DetachMaps ==
  ASSUME SiloNamesAssumption, KeysInv, PlainSession,
         NEW c \in session.users, NEW t \in session.users, NEW n \in session.titles,
         NEW v \in VThings, Detach(c, t, n, v)
  PROVE  Registry!Detach(t, n, v)
  <1> DEFINE id == VSiloID(t, n)
  <1>1. /\ session' = session /\ request' = <<"detach", t, n, v>>
        /\ PlainSession' /\ silos' = silos
    BY DEF Detach, Refuse, PlainSession, Plain
  <1>2. OwnedSilos' = OwnedSilos
    BY <1>1 DEF OwnedSilos
  <1>3. <<t, n, v>> \in OwnedThings <=> v \in ThingsOf(id)
    BY ThingsIff
  <1>4. CASE v \notin ThingsOf(id)
    <2>1. things' = things /\ answer' = "refused"
      BY <1>4 DEF Detach, Refuse
    <2>2. OwnedThings' = OwnedThings
      BY <1>1, <2>1 DEF OwnedThings
    <2> QED BY <1>1, <1>2, <1>3, <1>4, <2>1, <2>2 DEF Registry!Detach, OnlyPlain
  <1>5. CASE v \in ThingsOf(id)
    <2>1. things' = things \ {<<Key(id), v>>} /\ answer' = "ok"
      BY <1>5 DEF Detach
    <2>2. ASSUME NEW a \in things
          PROVE  a # <<Key(id), v>> <=>
                 <<silos[a[1]].tenant, silos[a[1]].title, a[2]>> # <<t, n, v>>
      <3>1. PICK k \in DOMAIN silos, w \in VThings : a = <<k, w>>
        BY DEF KeysInv
      <3> QED BY <3>1, EntryOf
    <2>3. OwnedThings' = OwnedThings \ {<<t, n, v>>}
      BY <1>1, <2>1, <2>2 DEF OwnedThings
    <2> QED BY <1>1, <1>2, <1>3, <1>5, <2>1, <2>3 DEF Registry!Detach, OnlyPlain
  <1> QED BY <1>4, <1>5

\* With plain names listing and inspecting the keys shows what the registry
\* has.
LEMMA ReadMaps ==
  ASSUME SiloNamesAssumption, KeysInv, PlainSession,
         NEW c \in session.users, NEW t \in session.users
  PROVE  /\ List(c, t) => Registry!List(t)
         /\ \A n \in session.titles : Inspect(c, t, n) => Registry!Inspect(t, n)
  <1>1. ASSUME UNCHANGED <<session, silos, things>>
        PROVE  PlainSession' /\ OwnedSilos' = OwnedSilos /\ OwnedThings' = OwnedThings
    BY <1>1 DEF PlainSession, Plain, OwnedSilos, OwnedThings
  <1>2. ASSUME List(c, t) PROVE Registry!List(t)
    BY <1>1, <1>2, ReadsMap DEF List, Registry!List, OnlyPlain
  <1>3. ASSUME NEW n \in session.titles, Inspect(c, t, n)
        PROVE  Registry!Inspect(t, n)
    BY <1>1, <1>3, ReadsMap, OwnedIff DEF Inspect, Registry!Inspect, OnlyPlain
  <1> QED BY <1>2, <1>3

(***************************************************************************)
(* Among users and silos without an "_" in their names, the handlers and   *)
(* the contract implement the registry in which silos are told apart by    *)
(* tenant and name.                                                        *)
(***************************************************************************)
THEOREM NamesImplementRegistry == Spec => ImplementsRegistry
  <1>1. Init => Registry!Init
    BY DEF Init, Registry!Init, OnlyPlain, OwnedSilos, OwnedThings
  <1>2. ASSUME KeysInv, [Next]_nameVars
        PROVE  [Registry!Next]_(Registry!registryVars)
    <2>1. CASE UNCHANGED nameVars
      BY <2>1 DEF nameVars, Registry!registryVars, OnlyPlain, PlainSession, Plain,
                  OwnedSilos, OwnedThings
    <2>2. CASE Next /\ ~PlainSession
      <3>1. session' = session
        <4> SUFFICES ASSUME NEW c, NEW t,
                            \/ List(c, t)
                            \/ \E n : \/ Create(c, t, n) \/ Inspect(c, t, n)
                                     \/ \E force : Destroy(c, t, n, force)
                                     \/ \E v : Attach(c, t, n, v) \/ Detach(c, t, n, v)
                     PROVE  session' = session
          BY <2>2 DEF Next
        <4> QED BY DEF List, Inspect, Create, Destroy, Attach, Detach
      <3>2. ~PlainSession'
        BY <2>2, <3>1 DEF PlainSession, Plain
      <3> QED BY <2>2, <3>2 DEF Registry!registryVars, OnlyPlain
    <2>3. CASE Next /\ PlainSession
      <3> PICK c \in session.users, t \in session.users :
            \/ List(c, t)
            \/ \E n \in session.titles :
                 \/ Create(c, t, n)
                 \/ \E force \in BOOLEAN : Destroy(c, t, n, force)
                 \/ Inspect(c, t, n)
                 \/ \E v \in VThings : Attach(c, t, n, v) \/ Detach(c, t, n, v)
        BY <2>3 DEF Next
      <3>1. /\ t \in UNION {s.users : s \in Sessions}
            /\ session.titles \subseteq UNION {s.titles : s \in Sessions}
        BY <1>2 DEF KeysInv
      <3>2. \/ Registry!List(t)
            \/ \E n \in session.titles :
                 \/ Registry!Create(t, n) \/ Registry!Destroy(t, n)
                 \/ Registry!Inspect(t, n)
                 \/ \E v \in VThings : Registry!Attach(t, n, v) \/ Registry!Detach(t, n, v)
        BY <1>2, <2>3, SiloNamesAssumption, CreateMaps, DestroyMaps, AttachMaps,
           DetachMaps, ReadMaps
      <3> QED BY <3>1, <3>2 DEF Registry!Next
    <2> QED BY <1>2, <2>1, <2>2, <2>3
  <1>3. KeysInv /\ [Next]_nameVars => [Registry!Next]_(Registry!registryVars)
    BY <1>2
  <1> QED BY <1>1, <1>3, KeysAreOwn, PTL DEF Spec, ImplementsRegistry, Registry!Spec
===============================================================================
