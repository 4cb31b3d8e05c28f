------------------------ MODULE MCVirtualSiloLifecycle ------------------------
(***************************************************************************)
(* One Virtual Silo, one vThing and the requests of two life cycles.       *)
(***************************************************************************)
EXTENDS VirtualSiloLifecycle, TLC

CONSTANTS
  tv, vth, add, add2, remove, create1, create2, destroy, force, attach1, attach2,
  detach, none, noDep

MCVThings  == {vth}
MCPrefix   == [v \in {vth} |-> tv]
MCTexts    == {""}
MCHandlers == {<<"callback", i>> : i \in 1..2}

MCKind == [r \in Requests |->
            CASE r \in {add, add2}         -> "addFlavour"
              [] r = remove               -> "deleteFlavour"
              [] r \in {create1, create2} -> "create"
              [] r = destroy              -> "destroy"
              [] r = force                -> "forceDestroy"
              [] r \in {attach1, attach2} -> "attach"
              [] r = detach               -> "detach"]

MCTarget == [r \in Requests |->
              IF r \in {attach1, attach2, detach} THEN {vth} ELSE {}]

\* The two creations are alike, and so are the attachments and the additions.
Symmetry == Permutations({create1, create2}) \cup Permutations({attach1, attach2})
              \cup Permutations({add, add2})

MCDetails == Requests \cup {none, noDep, Yaml, NoYaml}
AllFaults == {"submit", "enqueue", "k8s", "pod", "loss", "restart"}

(***************************************************************************)
(* Sessions: lives of the silo that overlap; attachments in each other's   *)
(* way and in that of a destruction; a vThing attached to a silo that is   *)
(* destroyed and created again; a flavour deleted while it is added; a     *)
(* flavour with a Service; a client that waits, and faults.                *)
(***************************************************************************)
Session == [requests |-> {}, faults |-> {}, sequential |-> FALSE,
            service |-> FALSE]

Overlapping == [Session EXCEPT !.requests = {create1, create2, destroy, force}]
Attaching   == [Session EXCEPT !.requests = {create1, force, attach1, attach2,
                                             detach}]
Failing     == [Session EXCEPT !.requests = {add, remove, create1, create2,
                                             destroy, attach1, detach},
                               !.sequential = TRUE, !.faults = AllFaults]

Renewing    == [Session EXCEPT !.requests = {create1, create2, force, attach1}]
Flavouring  == [Session EXCEPT !.requests = {add, add2, remove}]
WithService == [Session EXCEPT !.requests = {create1, create2, force},
                               !.sequential = TRUE, !.faults = AllFaults,
                               !.service = TRUE]

SafetySessions   == {Overlapping, Attaching, Failing, Renewing, Flavouring,
                     WithService}
LivenessSessions == {Overlapping}
DetachSession    == {[Session EXCEPT !.requests = {create1, attach1, detach},
                                     !.sequential = TRUE]}
===============================================================================
