---------------------------- MODULE MCVThingSharing ----------------------------
(***************************************************************************)
(* One ThingVisor with one vThing, a silo that attaches it, and requests   *)
(* for its endpoint.                                                       *)
(***************************************************************************)
EXTENDS VThingSharing

CONSTANTS vth, add1, add2, del, force, att1, att2, det, set1, set2, unset,
          none, noDep

MCVThings  == {vth}
MCPrefix   == [v \in {vth} |-> tv]
MCHandlers == {<<"callback", 1>>}

MCKind == [r \in Requests |->
            CASE r \in {add1, add2} -> "add"
              [] r = del            -> "delete"
              [] r = force          -> "force"
              [] r \in {att1, att2} -> "attach"
              [] r = det            -> "detach"
              [] r \in {set1, set2} -> "setEndpoint"
              [] r = unset          -> "delEndpoint"]

MCTarget  == [r \in {att1, att2, det, set1, set2, unset} |-> vth]
MCParams  == [r \in Requests |-> IF r \in {add1, add2} THEN "p" ELSE ""]
MCDetails == Requests \cup {none, noDep}

(***************************************************************************)
(* Sessions: endpoints set and deleted while the ThingVisor is added; one  *)
(* that is added, deleted in both ways and added again with the silo in    *)
(* its way; clients that wait, with faults; a program that asks first and  *)
(* a ThingVisor in debug mode, with messages that are lost.                *)
(***************************************************************************)
Session == [requests |-> {}, faults |-> {}, sequential |-> FALSE,
            service |-> FALSE, asks |-> FALSE, debug |-> FALSE]

Endpoints   == [Session EXCEPT !.requests = {add1, set1, set2, unset, force}]
Attachments == [Session EXCEPT !.requests = {add1, att1, att2, det, del}]
Forced      == [Session EXCEPT !.requests = {add1, att1, force, det}]
Patient     == [Session EXCEPT !.requests = {add1, add2, att1, att2, det, del, force, set1},
                               !.sequential = TRUE]
Failing     == [Patient EXCEPT !.requests = {add1, att1, det, del, set1},
                               !.faults = {"submit", "pod", "siloPod", "loss", "restart"}]
Asking      == [Session EXCEPT !.requests = {add1, set1}, !.asks = TRUE,
                               !.faults = {"pod", "loss"}]
Debugged    == [Session EXCEPT !.requests = {add1, att1, del}, !.debug = TRUE,
                               !.faults = {"loss"}]

MCSessions == {Endpoints, Attachments, Forced, Patient, Failing, Asking,
               Debugged}
===============================================================================
