------------------------ MODULE MCThingVisorLifecycle ------------------------
(***************************************************************************)
(* One ThingVisor with one vThing, and the requests of two life cycles.    *)
(***************************************************************************)
EXTENDS ThingVisorLifecycle

CONSTANTS vth, add1, add2, upd, upd2, del, force, none, noDep

MCVThings == {vth}
MCPrefix  == [v \in {vth} |-> tv]
MCTexts   == {"", "quotes", "p1", "p2", "u", "u2"}
MCHandlers == {<<"callback", i>> : i \in 1..2}

MCKind == [r \in Requests |->
            CASE r \in {add1, add2} -> "add"
              [] r \in {upd, upd2}  -> "update"
              [] r = del            -> "delete"
              [] r = force          -> "force"]

MCParams == [r \in Requests |->
              CASE r = add1 -> "p1" [] r = add2 -> "p2" [] r = upd -> "u"
                [] r = upd2 -> "u2"
                [] OTHER -> ""]

MCDetails == {add1, add2, upd, upd2, del, force, none, noDep}
AllFaults == {"submit", "enqueue", "k8s", "pod", "loss", "restart"}

(***************************************************************************)
(* Sessions: clients in each other's way, with and without a Service, and  *)
(* with updates; a client that waits, and faults; the program that asks    *)
(* first, for a client that waits and in the way of either deletion; a     *)
(* ThingVisor in debug mode, deleted or added again; and what it takes to  *)
(* leave a Service behind.                                                 *)
(***************************************************************************)
Session == [requests |-> {}, faults |-> {}, sequential |-> FALSE,
            service |-> FALSE, asks |-> FALSE, debug |-> FALSE]

Overlapping == [Session EXCEPT !.requests = {add1, add2, del, force}]
WithService == [Overlapping EXCEPT !.service = TRUE]
Changing    == [Session EXCEPT !.requests = {add1, add2, upd, force}]
ChangingAll == [Session EXCEPT !.requests = {add1, upd, upd2}]
Patient     == [Session EXCEPT !.requests = {add1, add2, upd, del, force},
                               !.sequential = TRUE]
Failing     == [Patient EXCEPT !.faults = AllFaults]
Asking      == [Patient EXCEPT !.asks = TRUE]
AskingForced  == [Session EXCEPT !.requests = {add1, add2, force}, !.asks = TRUE]
AskingStopped == [Session EXCEPT !.requests = {add1, add2, del}, !.asks = TRUE]
Debugging   == [Session EXCEPT !.requests = {add1, upd, del}, !.debug = TRUE,
                               !.faults = {"loss"}]
DebugAgain  == [Debugging EXCEPT !.requests = {add1, add2, del}]

SafetySessions   == {Overlapping, WithService, Changing, ChangingAll, Failing,
                     Asking, AskingForced, AskingStopped, Debugging, DebugAgain}
LivenessSessions == {Asking, Debugging}
ServiceSession   == {[Session EXCEPT !.requests = {add1, del}, !.service = TRUE,
                                     !.sequential = TRUE]}
==============================================================================
