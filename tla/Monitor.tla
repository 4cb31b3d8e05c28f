-------------------------------- MODULE Monitor --------------------------------
(***************************************************************************)
(* The transaction monitor of transaction-monitor/src/app.ts.  Every       *)
(* function of the contract sets an event; a process of the monitor        *)
(* listens to the events and appends them to a list in a Redis that runs   *)
(* in the same pod, and answers queries from that list.                    *)
(*                                                                         *)
(* The process empties the list when it starts and has the events replayed *)
(* from block 0.  It is restarted by the cluster; the stream of events is  *)
(* not: when it breaks off, the exception is logged and the process goes   *)
(* on answering queries.                                                   *)
(***************************************************************************)
EXTENDS Chaincode, Sequences

CONSTANTS
  Requests,    \* the calls clients of the contract make
  Times,       \* transaction timestamps, in seconds
  MaxEvents,   \* bound: transactions committed
  MaxCrashes   \* bound: restarts of the process, and of its Redis

ASSUME MonitorAssumption ==
  /\ Requests \subseteq Calls
  /\ Times \subseteq Nat
  /\ MaxEvents \in Nat /\ MaxCrashes \in Nat

VARIABLES
  db,          \* the ledger
  log,         \* the events of the committed transactions, in block order
  cache,       \* the list "log-cache"
  listener,    \* where the process stands
  next,        \* the event the stream delivers next
  crashes      \* restarts so far

monitorVars == <<db, log, cache, listener, next, crashes>>

Event == [tx : Requests, time : Times]

Init ==
  /\ db = [k \in Keys |-> Nil]
  /\ log = <<>> /\ cache = <<>>
  /\ listener = "starting" /\ next = 1
  /\ crashes = 0

(***************************************************************************)
(* A call of the contract commits and its event is part of the block.  The *)
(* timestamp is that of the proposal and comes from the clock of the       *)
(* client: nothing orders it like the blocks.                              *)
(***************************************************************************)
Commit(tx, time) ==
  /\ Len(log) < MaxEvents
  /\ \E w \in Simulate(tx, db) : db' = Apply(w, db)
  /\ log' = Append(log, [tx |-> tx, time |-> time])
  /\ UNCHANGED <<cache, listener, next, crashes>>

KeepCache ==
  /\ listener = "starting"
  /\ listener' = "flushed"
  /\ UNCHANGED <<db, log, cache, next, crashes>>

\* FLUSHDB, before the gateway is connected.
FlushCache ==
  /\ listener = "starting"
  /\ listener' = "flushed"
  /\ cache' = <<>>
  /\ UNCHANGED <<db, log, next, crashes>>

ListenFromNow ==
  /\ listener = "flushed"
  /\ listener' = "listening"
  /\ next' = Len(log) + 1
  /\ UNCHANGED <<db, log, cache, crashes>>

ListenFromZero ==
  /\ listener = "flushed"
  /\ listener' = "listening"
  /\ next' = 0
  /\ UNCHANGED <<db, log, cache, crashes>>

\* getChaincodeEvents with startBlock 0.
Listen ==
  /\ listener = "flushed"
  /\ listener' = "listening"
  /\ next' = 1
  /\ UNCHANGED <<db, log, cache, crashes>>

\* The loop awaits the RPUSH of an event before it takes the next one.
Deliver ==
  /\ listener = "listening"
  /\ next <= Len(log)
  /\ cache' = Append(cache, log[next])
  /\ next' = next + 1
  /\ UNCHANGED <<db, log, listener, crashes>>

\* The stream breaks off, or an RPUSH is rejected, which Redis may have done.
EndStream ==
  /\ listener = "listening"
  /\ listener' = "ended"
  /\ cache' \in {cache} \cup IF next <= Len(log) THEN {Append(cache, log[next])}
                             ELSE {}
  /\ UNCHANGED <<db, log, next, crashes>>

\* The process ends; Redis has a container of its own.  When it is Redis that
\* ends, its data are gone and the client, which has no error listener, ends
\* the process.
Crash ==
  /\ crashes < MaxCrashes
  /\ crashes' = crashes + 1
  /\ listener' = "starting"
  /\ cache' \in {cache, <<>>}
  /\ UNCHANGED <<db, log, next>>

Listener == FlushCache \/ Listen \/ Deliver

Next ==
  \/ \E tx \in Requests, time \in Times : Commit(tx, time)
  \/ Listener
  \/ EndStream
  \/ Crash

Spec == Init /\ [][Next]_monitorVars

(***************************************************************************)
(* Fairness: a process that is up goes on as long as there is something to *)
(* be delivered.  Neither transactions nor faults need to happen.          *)
(***************************************************************************)
Fairness == WF_monitorVars(Listener)

(***************************************************************************)
(* Type invariant.                                                         *)
(***************************************************************************)
TypeOK ==
  /\ LedgerType(db)
  /\ log \in Seq(Event) /\ Len(log) <= MaxEvents
  /\ cache \in Seq(Event)
  /\ listener \in {"starting", "flushed", "listening", "ended"}
  /\ next \in Nat \ {0}
  /\ crashes \in 0..MaxCrashes

(***************************************************************************)
(* What the queries see is the history from its beginning, without a gap,  *)
(* a repetition or an exchange, however often the process is restarted in  *)
(* the middle of a replay and wherever the stream breaks off: app.ts       *)
(* flushes before it listens, and listens from block 0.                    *)
(***************************************************************************)
Shown == INSTANCE Follower WITH Events <- Event, history <- log, shown <- cache

Follows == Shown!Spec

(***************************************************************************)
(* A committed transaction is shown at last, also after restarts, unless   *)
(* the stream has broken off: app.ts:314 asks for the events once, and     *)
(* only a restart of the process asks again.                               *)
(***************************************************************************)
CatchesUp ==
  \A n \in 1..MaxEvents :
    Len(log) = n ~> Len(cache) >= n \/ listener = "ended"
================================================================================
