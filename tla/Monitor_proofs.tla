---------------------------- MODULE Monitor_proofs ----------------------------
(***************************************************************************)
(* The transaction monitor, for every set of calls and timestamps, any     *)
(* number of events and of restarts: its cache is the history from the     *)
(* beginning, and it implements Follower.                                  *)
(***************************************************************************)
EXTENDS Monitor, Chaincode_proofs

(***************************************************************************)
(* The inductive invariant.  That the cache is a prefix is not enough: the *)
(* next event appended must be the one after the last, so the position of  *)
(* the stream has to agree with the cache, which it does only because the  *)
(* cache was empty when the stream was opened.                             *)
(***************************************************************************)
CacheIsPrefix ==
  /\ Len(cache) <= Len(log)
  /\ \A i \in 1..Len(cache) : cache[i] = log[i]

StreamAgrees ==
  /\ listener = "flushed" => cache = <<>>
  /\ listener = "listening" => next = Len(cache) + 1

MInv == TypeOK /\ CacheIsPrefix /\ StreamAgrees

(***************************************************************************)
(* Appending the next event of the log keeps the cache a prefix.           *)
(***************************************************************************)
LEMMA AppendNext ==
  ASSUME MInv, listener = "listening", next <= Len(log),
         NEW c, c = Append(cache, log[next])
  PROVE  /\ c \in Seq(Event)
         /\ Len(c) = Len(cache) + 1 /\ Len(c) <= Len(log)
         /\ \A i \in 1..Len(c) : c[i] = log[i]
<1>1. log \in Seq(Event) /\ cache \in Seq(Event) /\ next = Len(cache) + 1
  BY DEF MInv, TypeOK, StreamAgrees
<1>2. next \in 1..Len(log)
  BY <1>1
<1>3. log[next] \in Event
  BY <1>1, <1>2
<1>4. /\ c \in Seq(Event) /\ Len(c) = Len(cache) + 1
      /\ \A i \in 1..Len(cache) : c[i] = cache[i]
      /\ c[Len(cache) + 1] = log[next]
  BY <1>1, <1>3
<1>5. QED
  BY <1>1, <1>2, <1>4 DEF MInv, CacheIsPrefix

(***************************************************************************)
(* A new event leaves the old ones where they were.                        *)
(***************************************************************************)
LEMMA CommitInv ==
  ASSUME MInv, NEW tx \in Requests, NEW time \in Times, Commit(tx, time)
  PROVE  MInv'
<1> DEFINE e == [tx |-> tx, time |-> time]
<1>1. /\ Len(log) < MaxEvents /\ log' = Append(log, e)
      /\ UNCHANGED <<cache, listener, next, crashes>>
  BY DEF Commit
<1>2. e \in Event /\ tx \in Calls
  BY MonitorAssumption DEF Event
<1>3. LedgerType(db')
  <2>1. PICK w \in Simulate(tx, db) : db' = Apply(w, db)
    BY DEF Commit
  <2>2. LedgerType(db)
    BY DEF MInv, TypeOK
  <2>3. QED
    BY <1>2, <2>1, <2>2, SimulateTyped, ApplyTyped
<1>4. log \in Seq(Event) /\ cache \in Seq(Event) /\ MaxEvents \in Nat
  BY MonitorAssumption DEF MInv, TypeOK
<1>5. /\ log' \in Seq(Event) /\ Len(log') = Len(log) + 1
      /\ \A i \in 1..Len(log) : log'[i] = log[i]
  BY <1>1, <1>2, <1>4
<1>6. TypeOK'
  BY <1>1, <1>3, <1>4, <1>5 DEF MInv, TypeOK
<1>7. CacheIsPrefix'
  BY <1>1, <1>4, <1>5 DEF MInv, CacheIsPrefix
<1>8. StreamAgrees'
  BY <1>1 DEF MInv, StreamAgrees
<1>9. QED
  BY <1>6, <1>7, <1>8 DEF MInv

(***************************************************************************)
(* Flushing, listening and delivering; the end of the stream and a crash.  *)
(***************************************************************************)
LEMMA ListenerInv ==
  ASSUME MInv, Listener \/ EndStream \/ Crash
  PROVE  MInv'
<1>0. /\ log \in Seq(Event) /\ cache \in Seq(Event)
      /\ next \in Nat \ {0} /\ crashes \in 0..MaxCrashes /\ MaxCrashes \in Nat
  BY MonitorAssumption DEF MInv, TypeOK
<1>a. <<>> \in Seq(Event) /\ Len(<<>>) = 0
  OBVIOUS
<1>1. CASE FlushCache
  <2>1. /\ listener' = "flushed" /\ cache' = <<>>
        /\ UNCHANGED <<db, log, next, crashes>>
    BY <1>1 DEF FlushCache
  <2>2. QED
    BY <1>0, <1>a, <2>1 DEF MInv, TypeOK, CacheIsPrefix, StreamAgrees
<1>2. CASE Listen
  <2>1. /\ listener = "flushed" /\ listener' = "listening" /\ next' = 1
        /\ UNCHANGED <<db, log, cache, crashes>>
    BY <1>2 DEF Listen
  <2>2. Len(cache) = 0
    BY <1>a, <2>1 DEF MInv, StreamAgrees
  <2>3. QED
    BY <1>0, <2>1, <2>2 DEF MInv, TypeOK, CacheIsPrefix, StreamAgrees
<1>3. CASE Deliver
  <2>1. /\ listener = "listening" /\ next <= Len(log)
        /\ cache' = Append(cache, log[next]) /\ next' = next + 1
        /\ UNCHANGED <<db, log, listener, crashes>>
    BY <1>3 DEF Deliver
  <2>2. /\ cache' \in Seq(Event)
        /\ Len(cache') = Len(cache) + 1 /\ Len(cache') <= Len(log)
        /\ \A i \in 1..Len(cache') : cache'[i] = log[i]
    BY <2>1, AppendNext
  <2>3. next' = Len(cache') + 1 /\ next' \in Nat \ {0}
    BY <1>0, <2>1, <2>2 DEF MInv, StreamAgrees
  <2>4. QED
    BY <1>0, <2>1, <2>2, <2>3 DEF MInv, TypeOK, CacheIsPrefix, StreamAgrees
<1>4. CASE EndStream
  <2>1. /\ listener = "listening" /\ listener' = "ended"
        /\ \/ cache' = cache
           \/ next <= Len(log) /\ cache' = Append(cache, log[next])
        /\ UNCHANGED <<db, log, next, crashes>>
    BY <1>4 DEF EndStream
  <2>2. /\ cache' \in Seq(Event) /\ Len(cache') <= Len(log)
        /\ \A i \in 1..Len(cache') : cache'[i] = log[i]
    BY <1>0, <2>1, AppendNext DEF MInv, CacheIsPrefix
  <2>3. QED
    BY <1>0, <2>1, <2>2 DEF MInv, TypeOK, CacheIsPrefix, StreamAgrees
<1>5. CASE Crash
  <2>1. /\ crashes < MaxCrashes /\ crashes' = crashes + 1
        /\ listener' = "starting" /\ cache' \in {cache, <<>>}
        /\ UNCHANGED <<db, log, next>>
    BY <1>5 DEF Crash
  <2>2. /\ cache' \in Seq(Event) /\ Len(cache') <= Len(log)
        /\ \A i \in 1..Len(cache') : cache'[i] = log[i]
    <3>1. CASE cache' = cache
      BY <1>0, <2>1, <3>1 DEF MInv, CacheIsPrefix
    <3>2. CASE cache' = <<>>
      <4>1. Len(cache') = 0 /\ log' = log /\ Len(log) \in Nat
        BY <1>0, <1>a, <2>1, <3>2
      <4>2. QED
        BY <1>a, <3>2, <4>1
    <3>3. QED
      BY <2>1, <3>1, <3>2
  <2>3. crashes' \in 0..MaxCrashes
    BY <1>0, <2>1
  <2>4. CacheIsPrefix' /\ StreamAgrees'
    BY <2>1, <2>2 DEF CacheIsPrefix, StreamAgrees
  <2>5. QED
    BY <2>1, <2>2, <2>3, <2>4 DEF MInv, TypeOK
<1>6. QED
  BY <1>1, <1>2, <1>3, <1>4, <1>5 DEF Listener

(***************************************************************************)
(* The invariant holds of a monitor over an empty ledger, and every step   *)
(* keeps it.                                                               *)
(***************************************************************************)
THEOREM MonitorInvariant == Spec => []MInv
<1>1. Init => MInv
  <2> SUFFICES ASSUME Init PROVE MInv
    OBVIOUS
  <2>1. LedgerType(db)
    BY NilEverywhere DEF Init, LedgerType
  <2>2. log = <<>> /\ cache = <<>> /\ <<>> \in Seq(Event) /\ Len(<<>>) = 0
    BY DEF Init
  <2>3. QED
    BY <2>1, <2>2, MonitorAssumption
       DEF Init, MInv, TypeOK, CacheIsPrefix, StreamAgrees
<1>2. MInv /\ [Next]_monitorVars => MInv'
  <2> SUFFICES ASSUME MInv, [Next]_monitorVars PROVE MInv'
    OBVIOUS
  <2>1. CASE UNCHANGED monitorVars
    BY <2>1 DEF monitorVars, MInv, TypeOK, CacheIsPrefix, StreamAgrees
  <2>2. CASE Next
    BY <2>2, CommitInv, ListenerInv DEF Next
  <2>3. QED
    BY <2>1, <2>2
<1>3. QED
  BY <1>1, <1>2, PTL DEF Spec

(***************************************************************************)
(* Ledger, log, cache, position and restarts keep their types.             *)
(***************************************************************************)
THEOREM MonitorTypeCorrect == Spec => []TypeOK
<1>1. MInv => TypeOK
  BY DEF MInv
<1>2. QED
  BY <1>1, MonitorInvariant, PTL

(***************************************************************************)
(* The monitor implements Follower: a commit is an event that happens, a   *)
(* delivery shows the next event, a flush or the loss of Redis begins      *)
(* again, and the end of the stream shows one event more or none.          *)
(***************************************************************************)
THEOREM MonitorFollows == Spec => Follows
<1>1. Init => Shown!Init
  BY DEF Init, Shown!Init
<1>2. MInv /\ [Next]_monitorVars => [Shown!Next]_<<log, cache>>
  <2> SUFFICES ASSUME MInv, [Next]_monitorVars, ~UNCHANGED <<log, cache>>
               PROVE  Shown!Next
    OBVIOUS
  <2>1. ASSUME NEW tx \in Requests, NEW time \in Times, Commit(tx, time)
        PROVE  Shown!Next
    <3>1. [tx |-> tx, time |-> time] \in Event
      BY DEF Event
    <3>2. Shown!Happen([tx |-> tx, time |-> time])
      BY <2>1 DEF Commit, Shown!Happen
    <3>3. QED
      BY <3>1, <3>2 DEF Shown!Next
  <2>2. ASSUME listener = "listening", next <= Len(log),
               cache' = Append(cache, log[next]), UNCHANGED log
        PROVE  Shown!Next
    <3>1. next = Len(cache) + 1 /\ cache \in Seq(Event) /\ log \in Seq(Event)
      BY <2>2 DEF MInv, TypeOK, StreamAgrees
    <3>2. Shown!Show
      BY <2>2, <3>1 DEF Shown!Show
    <3>3. QED
      BY <3>2 DEF Shown!Next
  <2>3. ASSUME cache' = <<>>, UNCHANGED log
        PROVE  Shown!Next
    BY <2>3 DEF Shown!Next, Shown!BeginAgain
  <2>4. CASE Listener
    <3>1. \/ cache' = <<>> /\ UNCHANGED log
          \/ /\ listener = "listening" /\ next <= Len(log)
             /\ cache' = Append(cache, log[next]) /\ UNCHANGED log
          \/ UNCHANGED <<log, cache>>
      BY <2>4 DEF Listener, FlushCache, Listen, Deliver
    <3>2. QED
      BY <2>2, <2>3, <3>1
  <2>5. CASE EndStream
    <3>1. /\ listener = "listening" /\ next <= Len(log)
          /\ cache' = Append(cache, log[next]) /\ UNCHANGED log
      BY <2>5 DEF EndStream
    <3>2. QED
      BY <2>2, <3>1
  <2>6. CASE Crash
    BY <2>3, <2>6 DEF Crash
  <2>7. QED
    BY <2>1, <2>4, <2>5, <2>6 DEF Next, monitorVars
<1>3. QED
  BY <1>1, <1>2, MonitorInvariant, PTL DEF Spec, Follows, Shown!Spec
===============================================================================
