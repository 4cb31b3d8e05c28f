---------------------------- MODULE Controller_proofs ----------------------------
(***************************************************************************)
(* What the steps of handlers, jobs and callbacks have in common, for any  *)
(* requests and any ledger: what is in a queue, where a step leaves its    *)
(* actor, what a transaction may have done, what a restart leaves of the   *)
(* actors, and that a step on the ledger is one of the registry's.         *)
(***************************************************************************)
EXTENDS Controller, Chaincode_proofs, FiniteSetTheorems, SequenceTheorems

(***************************************************************************)
(* Requests, jobs and callbacks are different actors, each request has one *)
(* job, and the placeholders among the details are no request.             *)
(***************************************************************************)
LEMMA ActorFacts ==
  /\ Creations \subseteq Queued /\ Queued \subseteq Requests
  /\ Requests \subseteq Actors /\ Jobs \subseteq Actors /\ Handlers \subseteq Actors
  /\ \A r \in Queued : Job(r) \in Jobs
  /\ \A j \in Jobs : \E r \in Queued : j = Job(r)
  /\ \A r, q : Job(r) = Job(q) => r = q
  /\ \A r \in Requests : r \notin Jobs /\ r \notin Handlers
  /\ \A j \in Jobs : j \notin Handlers /\ j \notin Requests
  /\ NoDeployment \notin Requests /\ NoDetails \notin Requests
  /\ NoDeployment # NoDetails
  BY ProcessAssumption, ActorAssumption
  DEF Creations, Queued, Actors, Jobs, Job, ProcessAssumption, ActorAssumption

\* There are finitely many actors: requests, their jobs and callbacks.
LEMMA ActorsFinite == IsFiniteSet(Actors)
<1>1. IsFiniteSet(Queued)
  BY ActorAssumption, ActorFacts, FS_Subset DEF ActorAssumption
<1> DEFINE f == [r \in Queued |-> Job(r)]
<1>2. f \in Surjection(Queued, Jobs)
  BY DEF Surjection, Jobs
<1>3. IsFiniteSet(Jobs)
  BY <1>1, <1>2, FS_Surjection
<1>4. QED
  BY <1>3, ActorAssumption, FS_Union DEF Actors, ActorAssumption

(***************************************************************************)
(* Queues of messages: their type, and what is in them, whatever the order.*)
(***************************************************************************)
LEMMA QueueTypes ==
  ASSUME NEW S, NEW s \in Seq(S)
  PROVE  /\ <<>> \in Seq(S)
         /\ \A x \in S : Append(s, x) \in Seq(S)
         /\ s # <<>> => Head(s) \in S /\ Tail(s) \in Seq(S)
         /\ \A t \in Seq(S) : s \o t \in Seq(S)
  BY EmptySeq, HeadTailProperties, ConcatProperties

Elems(s) == {s[i] : i \in 1..Len(s)}

\* The messages of a queue after one is appended, taken or several are sent.
LEMMA QueueElems ==
  ASSUME NEW S, NEW s \in Seq(S)
  PROVE  /\ Elems(<<>>) = {}
         /\ \A x \in S : Elems(Append(s, x)) = Elems(s) \cup {x}
         /\ s # <<>> => Elems(s) = {Head(s)} \cup Elems(Tail(s))
         /\ \A t \in Seq(S) : Elems(s \o t) = Elems(s) \cup Elems(t)
<1>1. Elems(<<>>) = {}
  BY EmptySeq DEF Elems
<1>2. \A t \in Seq(S) : Elems(s \o t) = Elems(s) \cup Elems(t)
  <2> SUFFICES ASSUME NEW t \in Seq(S)
               PROVE  Elems(s \o t) = Elems(s) \cup Elems(t)
    OBVIOUS
  <2> DEFINE u == s \o t
  <2>1. /\ Len(u) = Len(s) + Len(t) /\ Len(s) \in Nat /\ Len(t) \in Nat
        /\ \A i \in 1..Len(s) + Len(t) :
             u[i] = IF i <= Len(s) THEN s[i] ELSE t[i - Len(s)]
    BY ConcatProperties, LenProperties
  <2> HIDE DEF u
  <2>2. Elems(u) \subseteq Elems(s) \cup Elems(t)
    <3> SUFFICES ASSUME NEW i \in 1..Len(u)
                 PROVE  u[i] \in Elems(s) \cup Elems(t)
      BY DEF Elems
    <3>1. CASE i <= Len(s)
      BY <2>1, <3>1 DEF Elems
    <3>2. CASE ~(i <= Len(s))
      <4>1. i - Len(s) \in 1..Len(t) /\ u[i] = t[i - Len(s)]
        BY <2>1, <3>2
      <4>2. QED
        BY <4>1 DEF Elems
    <3>3. QED
      BY <3>1, <3>2
  <2>3. Elems(s) \subseteq Elems(u)
    <3> SUFFICES ASSUME NEW i \in 1..Len(s)
                 PROVE  s[i] \in Elems(u)
      BY DEF Elems
    <3>1. i \in 1..Len(u) /\ u[i] = s[i]
      BY <2>1
    <3>2. QED
      BY <3>1 DEF Elems
  <2>4. Elems(t) \subseteq Elems(u)
    <3> SUFFICES ASSUME NEW i \in 1..Len(t)
                 PROVE  t[i] \in Elems(u)
      BY DEF Elems
    <3>1. i + Len(s) \in 1..Len(u) /\ u[i + Len(s)] = t[i]
      BY <2>1
    <3>2. QED
      BY <3>1 DEF Elems
  <2>5. QED
    BY <2>2, <2>3, <2>4 DEF u
<1>3. \A x \in S : Elems(Append(s, x)) = Elems(s) \cup {x}
  <2> SUFFICES ASSUME NEW x \in S
               PROVE  Elems(Append(s, x)) = Elems(s) \cup {x}
    OBVIOUS
  <2> DEFINE u == Append(s, x)
  <2>1. /\ Len(u) = Len(s) + 1 /\ Len(s) \in Nat /\ u[Len(s) + 1] = x
        /\ \A i \in 1..Len(s) : u[i] = s[i]
    BY LenProperties
  <2> HIDE DEF u
  <2>2. \A i \in 1..Len(u) : i \in 1..Len(s) \/ i = Len(s) + 1
    BY <2>1
  <2>3. /\ \A i \in 1..Len(s) : i \in 1..Len(u)
        /\ Len(s) + 1 \in 1..Len(u)
    BY <2>1
  <2>4. QED
    BY <2>1, <2>2, <2>3 DEF Elems, u
<1>4. s # <<>> => Elems(s) = {Head(s)} \cup Elems(Tail(s))
  <2> SUFFICES ASSUME s # <<>>
               PROVE  Elems(s) = {Head(s)} \cup Elems(Tail(s))
    OBVIOUS
  <2> DEFINE t == Tail(s)
  <2>1. /\ Len(t) = Len(s) - 1 /\ Len(s) \in Nat \ {0} /\ Head(s) = s[1]
        /\ \A i \in 1..Len(t) : t[i] = s[i + 1]
    BY HeadTailProperties, LenProperties, EmptySeq
  <2> HIDE DEF t
  <2>2. Elems(s) \subseteq {s[1]} \cup Elems(t)
    <3> SUFFICES ASSUME NEW i \in 1..Len(s), i # 1
                 PROVE  s[i] \in Elems(t)
      BY DEF Elems
    <3>1. i - 1 \in 1..Len(t) /\ t[i - 1] = s[i]
      BY <2>1
    <3>2. QED
      BY <3>1 DEF Elems
  <2>3. {s[1]} \cup Elems(t) \subseteq Elems(s)
    <3>1. s[1] \in Elems(s)
      BY <2>1 DEF Elems
    <3>2. \A i \in 1..Len(t) : i + 1 \in 1..Len(s) /\ s[i + 1] = t[i]
      BY <2>1
    <3>3. QED
      BY <3>1, <3>2 DEF Elems
  <2>4. QED
    BY <2>1, <2>2, <2>3 DEF t
<1>5. QED
  BY <1>1, <1>2, <1>3, <1>4

(***************************************************************************)
(* The last of the messages of a queue that are about one thing: what its  *)
(* receiver will know of it once it has them all.                          *)
(***************************************************************************)
NoneOf(s, about) == \A i \in 1..Len(s) : s[i] \notin about

LastOf(s, about, such) ==
  \E i \in 1..Len(s) : s[i] \in such /\ \A j \in (i+1)..Len(s) : s[j] \notin about

\* A message that is appended is the last one, or about something else.
LEMMA LastAppended ==
  ASSUME NEW S, NEW s \in Seq(S), NEW x \in S, NEW about, NEW such
  PROVE  /\ x \notin about =>
              /\ NoneOf(s, about) => NoneOf(Append(s, x), about)
              /\ LastOf(s, about, such) => LastOf(Append(s, x), about, such)
         /\ x \in such => LastOf(Append(s, x), about, such)
<1> DEFINE t == Append(s, x)
<1>1. /\ Len(t) = Len(s) + 1 /\ Len(s) \in Nat /\ t[Len(s) + 1] = x
      /\ \A i \in 1..Len(s) : t[i] = s[i]
  BY LenProperties
<1> HIDE DEF t
<1>2. \A i \in 1..Len(t) : i \in 1..Len(s) \/ i = Len(s) + 1
  BY <1>1
<1>3. NoneOf(s, about) /\ x \notin about => NoneOf(t, about)
  BY <1>1, <1>2 DEF NoneOf
<1>4. ASSUME LastOf(s, about, such), x \notin about
      PROVE  LastOf(t, about, such)
  <2>1. PICK i \in 1..Len(s) :
          s[i] \in such /\ \A j \in (i+1)..Len(s) : s[j] \notin about
    BY <1>4 DEF LastOf
  <2>2. i \in 1..Len(t) /\ t[i] \in such
    BY <1>1, <2>1
  <2>3. \A j \in (i+1)..Len(t) : j \in (i+1)..Len(s) \/ j = Len(s) + 1
    BY <1>1
  <2>4. \A j \in (i+1)..Len(s) : t[j] = s[j]
    BY <1>1
  <2>5. QED
    BY <1>1, <1>4, <2>1, <2>2, <2>3, <2>4 DEF LastOf
<1>5. ASSUME x \in such
      PROVE  LastOf(t, about, such)
  <2>1. Len(s) + 1 \in 1..Len(t) /\ t[Len(s) + 1] \in such
    BY <1>1, <1>5
  <2>2. \A j \in (Len(s) + 1 + 1)..Len(t) : t[j] \notin about
    BY <1>1
  <2>3. QED
    BY <2>1, <2>2 DEF LastOf
<1>6. QED
  BY <1>3, <1>4, <1>5 DEF t

\* When the first message is taken, the last one stays the last, unless it was
\* the only one.
LEMMA LastTaken ==
  ASSUME NEW S, NEW s \in Seq(S), s # <<>>, NEW about, NEW such
  PROVE  /\ NoneOf(s, about) => NoneOf(Tail(s), about) /\ Head(s) \notin about
         /\ LastOf(s, about, such) =>
              \/ LastOf(Tail(s), about, such)
              \/ NoneOf(Tail(s), about) /\ Head(s) \in such
         /\ LastOf(Tail(s), about, such) => LastOf(s, about, such)
<1> DEFINE t == Tail(s)
<1>1. /\ Len(t) = Len(s) - 1 /\ Len(s) \in Nat \ {0} /\ Head(s) = s[1]
      /\ \A i \in 1..Len(t) : t[i] = s[i + 1]
  BY HeadTailProperties, LenProperties, EmptySeq
<1> HIDE DEF t
<1>2. \A i \in 1..Len(t) : i + 1 \in 1..Len(s) /\ t[i] = s[i + 1]
  BY <1>1
<1>3. NoneOf(s, about) => NoneOf(t, about) /\ Head(s) \notin about
  <2>1. 1 \in 1..Len(s)
    BY <1>1
  <2>2. QED
    BY <1>1, <1>2, <2>1 DEF NoneOf
<1>4. ASSUME LastOf(s, about, such)
      PROVE  LastOf(t, about, such) \/ (NoneOf(t, about) /\ Head(s) \in such)
  <2>1. PICK i \in 1..Len(s) :
          s[i] \in such /\ \A j \in (i+1)..Len(s) : s[j] \notin about
    BY <1>4 DEF LastOf
  <2>2. CASE i = 1
    <3>1. \A j \in 1..Len(t) : t[j] \notin about
      <4> SUFFICES ASSUME NEW j \in 1..Len(t) PROVE t[j] \notin about
        OBVIOUS
      <4>1. j + 1 \in (i+1)..Len(s)
        BY <1>1, <2>2
      <4>2. QED
        BY <1>2, <2>1, <4>1
    <3>2. QED
      BY <1>1, <2>1, <2>2, <3>1 DEF NoneOf
  <2>3. CASE i # 1
    <3>1. i - 1 \in 1..Len(t) /\ t[i - 1] = s[i]
      BY <1>1, <2>3
    <3>2. \A j \in ((i-1)+1)..Len(t) : t[j] \notin about
      <4> SUFFICES ASSUME NEW j \in ((i-1)+1)..Len(t) PROVE t[j] \notin about
        OBVIOUS
      <4>1. j + 1 \in (i+1)..Len(s) /\ j \in 1..Len(t)
        BY <1>1, <2>3
      <4>2. QED
        BY <1>2, <2>1, <4>1
    <3>3. QED
      BY <2>1, <3>1, <3>2 DEF LastOf
  <2>4. QED
    BY <2>2, <2>3
<1>5. ASSUME LastOf(t, about, such)
      PROVE  LastOf(s, about, such)
  <2>1. PICK i \in 1..Len(t) :
          t[i] \in such /\ \A j \in (i+1)..Len(t) : t[j] \notin about
    BY <1>5 DEF LastOf
  <2>2. i + 1 \in 1..Len(s) /\ s[i + 1] \in such
    BY <1>2, <2>1
  <2>3. \A j \in ((i+1)+1)..Len(s) : s[j] \notin about
    <3> SUFFICES ASSUME NEW j \in ((i+1)+1)..Len(s) PROVE s[j] \notin about
      OBVIOUS
    <3>1. j - 1 \in (i+1)..Len(t) /\ t[j - 1] = s[j]
      BY <1>1, <1>2
    <3>2. QED
      BY <2>1, <3>1
  <2>4. QED
    BY <2>2, <2>3 DEF LastOf
<1>6. QED
  BY <1>3, <1>4, <1>5 DEF t

\* Of several messages that are sent, one at most of them about it, that one is
\* the last.
LEMMA LastSent ==
  ASSUME NEW S, NEW s \in Seq(S), NEW t \in Seq(S), NEW about, NEW such,
         \A i, j \in 1..Len(t) : t[i] \in about /\ t[j] \in about => i = j
  PROVE  /\ NoneOf(t, about) =>
              /\ NoneOf(s, about) => NoneOf(s \o t, about)
              /\ LastOf(s, about, such) => LastOf(s \o t, about, such)
         /\ \A x \in Elems(t) : x \in about /\ x \in such => LastOf(s \o t, about, such)
<1> DEFINE u == s \o t
<1>1. /\ Len(u) = Len(s) + Len(t) /\ Len(s) \in Nat /\ Len(t) \in Nat
      /\ \A i \in 1..Len(s) + Len(t) :
           u[i] = IF i <= Len(s) THEN s[i] ELSE t[i - Len(s)]
  BY ConcatProperties, LenProperties
<1> HIDE DEF u
<1>2. /\ \A i \in 1..Len(s) : i \in 1..Len(u) /\ u[i] = s[i]
      /\ \A i \in 1..Len(t) : i + Len(s) \in 1..Len(u) /\ u[i + Len(s)] = t[i]
      /\ \A i \in 1..Len(u) : i \in 1..Len(s) \/ (i - Len(s) \in 1..Len(t) /\ u[i] = t[i - Len(s)])
  BY <1>1
<1>3. ASSUME NoneOf(t, about), NoneOf(s, about)
      PROVE  NoneOf(u, about)
  BY <1>2, <1>3 DEF NoneOf
<1>4. ASSUME NoneOf(t, about), LastOf(s, about, such)
      PROVE  LastOf(u, about, such)
  <2>1. PICK i \in 1..Len(s) :
          s[i] \in such /\ \A j \in (i+1)..Len(s) : s[j] \notin about
    BY <1>4 DEF LastOf
  <2>2. \A j \in (i+1)..Len(u) : u[j] \notin about
    <3> SUFFICES ASSUME NEW j \in (i+1)..Len(u) PROVE u[j] \notin about
      OBVIOUS
    <3>1. CASE j \in (i+1)..Len(s)
      <4>1. j \in 1..Len(s)
        BY <1>1, <3>1
      <4>2. QED
        BY <1>2, <2>1, <3>1, <4>1
    <3>2. CASE j \notin (i+1)..Len(s)
      <4>1. j \in 1..Len(u) /\ j \notin 1..Len(s)
        BY <1>1, <3>2
      <4>2. QED
        BY <1>2, <1>4, <4>1 DEF NoneOf
    <3>3. QED
      BY <3>1, <3>2
  <2>3. QED
    BY <1>2, <2>1, <2>2 DEF LastOf
<1>5. ASSUME NEW k \in 1..Len(t), t[k] \in about, t[k] \in such
      PROVE  LastOf(u, about, such)
  <2>1. k + Len(s) \in 1..Len(u) /\ u[k + Len(s)] \in such
    BY <1>2, <1>5
  <2>2. \A j \in ((k + Len(s))+1)..Len(u) : u[j] \notin about
    <3> SUFFICES ASSUME NEW j \in ((k + Len(s))+1)..Len(u) PROVE u[j] \notin about
      OBVIOUS
    <3>1. j - Len(s) \in 1..Len(t) /\ j - Len(s) # k /\ j \in 1..Len(u) /\ j \notin 1..Len(s)
      BY <1>1
    <3>2. QED
      BY <1>2, <1>5, <3>1
  <2>3. QED
    BY <2>1, <2>2 DEF LastOf
<1>6. \A x \in Elems(t) : x \in about /\ x \in such => LastOf(u, about, such)
  BY <1>5 DEF Elems
<1>7. QED
  BY <1>3, <1>4, <1>6 DEF u

(***************************************************************************)
(* A step of one actor, said of each actor separately.                     *)
(***************************************************************************)
Moved(a, l, what) ==
  /\ pc'[a] = IF l \in Ended /\ a \in Handlers THEN "idle" ELSE l
  /\ seen'[a] = IF l \in Ended THEN Nil ELSE what
  /\ \A b \in Actors \ {a} : pc'[b] = pc[b] /\ seen'[b] = seen[b]

Stands == pc = [a \in Actors |-> pc[a]] /\ seen = [a \in Actors |-> seen[a]]

\* An actor that goes somewhere with what it has read moves alone.
LEMMA GoSeeingMoves ==
  ASSUME Stands, NEW a \in Actors, NEW l, NEW what, GoSeeing(a, l, what)
  PROVE  Moved(a, l, what) /\ Stands'
  BY DEF Stands, GoSeeing, Moved

\* An actor that goes somewhere and reads nothing keeps what it had read.
LEMMA GotoMoves ==
  ASSUME Stands, NEW a \in Actors, NEW l, Goto(a, l)
  PROVE  Moved(a, l, seen[a]) /\ Stands'
  BY GoSeeingMoves DEF Goto

(***************************************************************************)
(* A transaction commits and the actor goes on, is refused and changes     *)
(* nothing, or fails, and the ledger may have taken it or not.             *)
(***************************************************************************)
Committed(tx) == \E w \in Simulate(tx, db) : db' = Apply(w, db)

\* A transaction is committed, refused by the contract, or answered with an
\* error the contract did not give, committed or not; its actor moves either
\* way.
LEMMA SubmitMoves ==
  ASSUME Stands, NEW a \in Actors, NEW tx, NEW ok, NEW err,
         Submit(a, tx, ok, err)
  PROVE  /\ \/ Moved(a, ok, seen[a]) /\ Committed(tx) /\ faults' = faults
            \/ /\ Moved(a, err, seen[a]) /\ db' = db /\ faults' = faults
               /\ Simulate(tx, db) = {}
            \/ /\ Moved(a, err, seen[a]) /\ "submit" \in faults'
               /\ (db' = db \/ Committed(tx))
         /\ Stands' /\ faults \subseteq faults'
  BY GotoMoves DEF Submit, Committed, Fault

(***************************************************************************)
(* What a transaction has committed is well typed.                         *)
(***************************************************************************)
LEMMA CommitTyped ==
  ASSUME LedgerType(db), NEW tx \in Calls, Committed(tx)
  PROVE  LedgerType(db')
  BY SimulateTyped, ApplyTyped DEF Committed

(***************************************************************************)
(* A fault stays in the history.                                           *)
(***************************************************************************)
LEMMA FaultStays ==
  ASSUME NEW kind, Fault(kind)
  PROVE  kind \in faults' /\ faults \subseteq faults'
  BY DEF Fault

(***************************************************************************)
(* What was not in the way of a behaviour was not before.                  *)
(***************************************************************************)
LEMMA WithoutBefore ==
  ASSUME NEW causes, faults \subseteq faults', races \subseteq races',
         lost \subseteq lost', Without(causes)'
  PROVE  Without(causes)
  BY DEF Without

(***************************************************************************)
(* A restart ends requests and callbacks, and the queue hands out again    *)
(* the jobs that had begun.                                                *)
(***************************************************************************)
LEMMA RestartMoves ==
  ASSUME Stands, Restart
  PROVE  /\ \A r \in Requests : /\ pc'[r] = IF AtRest(r) THEN pc[r] ELSE "failed"
                                /\ seen'[r] = Nil
         /\ \A j \in Jobs : /\ pc'[j] = IF AtRest(j) THEN pc[j] ELSE "waiting"
                            /\ seen'[j] = seen[j]
         /\ \A h \in Handlers : pc'[h] = "idle" /\ seen'[h] = Nil
         /\ Stands' /\ faults \subseteq faults'
         /\ db' = db
<1>1. faults \subseteq faults'
  BY DEF Restart, Fault
<1>2. QED
  BY <1>1, ActorFacts DEF Restart, Stands
-------------------------------------------------------------------------------
(***************************************************************************)
(* The registry the life cycles work on is that of module Registry, for    *)
(* the calls the controller makes.  No record of a ThingVisor it hands     *)
(* over is stopping: this is what module Ledger assumes of its requests    *)
(* (ControllerAssumption), so that what holds of commits there holds here. *)
(***************************************************************************)
ControllerCalls ==
  {tx \in Calls : tx.fn \in {"CreateThingVisor", "UpdateThingVisor"} =>
                    tx.rec.status \in {STATUS_PENDING, STATUS_RUNNING}}

Contract == INSTANCE Registry WITH Requests <- ControllerCalls

\* The chaincode seen through the registry is the chaincode: the instance
\* substitutes every constant by itself.
LEMMA ContractIsChaincode ==
  ASSUME NEW tx, NEW d, NEW w
  PROVE  /\ Contract!Simulate(tx, d) = Simulate(tx, d)
         /\ Contract!Apply(w, d) = Apply(w, d)
         /\ Contract!Keys = Keys
  BY DEF Contract!Simulate, Simulate, Contract!Apply, Apply, Contract!Keys, Keys,
         Contract!CreateThingVisor, CreateThingVisor,
         Contract!UpdateThingVisor, UpdateThingVisor,
         Contract!UpdateThingVisorPartial, UpdateThingVisorPartial,
         Contract!DeleteThingVisor, DeleteThingVisor,
         Contract!StopThingVisor, StopThingVisor,
         Contract!AddVThingToThingVisor, AddVThingToThingVisor,
         Contract!UpdateVThingOfThingVisor, UpdateVThingOfThingVisor,
         Contract!DeleteVThingFromThingVisor, DeleteVThingFromThingVisor,
         Contract!AddFlavour, AddFlavour, Contract!UpdateFlavour, UpdateFlavour,
         Contract!DeleteFlavour, DeleteFlavour, Contract!AddVirtualSilo, AddVirtualSilo,
         Contract!UpdateVirtualSilo, UpdateVirtualSilo,
         Contract!DeleteVirtualSilo, DeleteVirtualSilo,
         Contract!AddVThingVSilo, AddVThingVSilo,
         Contract!DeleteVThingVSilo, DeleteVThingVSilo,
         Contract!IsRunning, IsRunning, Contract!Put, Put, Contract!Del, Del,
         Contract!ThingVisorKey, ThingVisorKey, Contract!VThingTVKey, VThingTVKey,
         Contract!FlavourKey, FlavourKey, Contract!VSiloKey, VSiloKey,
         Contract!VThingVSiloKey, VThingVSiloKey,
         Contract!STATUS_PENDING, STATUS_PENDING, Contract!STATUS_RUNNING, STATUS_RUNNING,
         Contract!STATUS_STOPPING, STATUS_STOPPING

Invoked == [Contract!Next]_db

\* A transaction that is committed, also one whose answer is lost, is a call
\* of the registry; one that is refused or lost itself is none.
LEMMA SubmitInvokes ==
  ASSUME NEW tx \in ControllerCalls
  PROVE  /\ Committed(tx) => Invoked
         /\ \A a, ok, err : Submit(a, tx, ok, err) => Invoked
         /\ \A r : WritePending(r, tx) => Invoked
<1>1. Committed(tx) => Contract!Next
  BY ContractIsChaincode DEF Committed, Contract!Invoke, Contract!Next
<1>2. ASSUME db' \in {db} \cup {Apply(w, db) : w \in Simulate(tx, db)}
      PROVE  db' = db \/ Committed(tx)
  BY <1>2 DEF Committed
<1>3. \A a, ok, err : Submit(a, tx, ok, err) => (db' = db \/ Committed(tx))
  BY <1>2 DEF Submit, Committed
<1>4. \A r : WritePending(r, tx) => (db' = db \/ Committed(tx))
  BY <1>2 DEF WritePending, Committed
<1>5. QED
  BY <1>1, <1>3, <1>4 DEF Invoked

\* Every other step leaves the ledger as it is.
LEMMA OthersKeepLedger ==
  /\ Login \/ Receive \/ Lose \/ Restart => UNCHANGED db
  /\ \A r, l : Start(r, l) \/ StartJob(r, l) => UNCHANGED db
  /\ \A a, x, l : Read(a, x, l) \/ PublishTo(a, x, l) \/ Enqueue(a, x, l)
                  \/ DeleteDeployment(a, x, l) => UNCHANGED db
  /\ \A r : Subscribe(r) \/ CreateService(r) \/ CreateDeployment(r) \/ Cleanup(r)
              => UNCHANGED db
<1>1. Login \/ Receive \/ Lose \/ Restart => UNCHANGED db
  BY DEF Login, Receive, Lose, Restart
<1>2. \A r, l : Start(r, l) \/ StartJob(r, l) => UNCHANGED db
  BY DEF Start, StartJob
<1>3. \A a, x, l : Read(a, x, l) \/ PublishTo(a, x, l) \/ Enqueue(a, x, l)
                   \/ DeleteDeployment(a, x, l) => UNCHANGED db
  BY DEF Read, PublishTo, Enqueue, DeleteDeployment
<1>4. \A r : Subscribe(r) \/ CreateService(r) \/ CreateDeployment(r) \/ Cleanup(r)
               => UNCHANGED db
  BY DEF Subscribe, CreateService, CreateDeployment, Cleanup
<1>5. QED
  BY <1>1, <1>2, <1>3, <1>4
===================================================================================
