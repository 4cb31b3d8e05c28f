------------------------------- MODULE Identity -------------------------------
(***************************************************************************)
(* Users of the platform: the same user is a document in MongoDB, an       *)
(* identity of the certificate authority and, once logged in, an entry of  *)
(* the controller's in-memory wallet.  register, unregister, login, logout *)
(* and the tenant lookup of an administrator's request touch them one      *)
(* after the other; the Mongo session they open is never passed to an      *)
(* operation, so nothing is rolled back.                                   *)
(*                                                                         *)
(* A registration is named by the request that made it: the certificate it *)
(* enrols, the document that stores it and the wallet entry all hold that  *)
(* name.  A step ends where the code awaits a call that leaves the event   *)
(* loop.  Reads that fail and expired tokens end a request that has        *)
(* changed nothing and are left out; so are requests about the             *)
(* administrator's own account.                                            *)
(***************************************************************************)
EXTENDS Naturals, FiniteSets

CONSTANTS
  Users,     \* user IDs other than the administrator's
  Admin,     \* config.orgAdminUser
  Boot,      \* createAdmin, and the registration it stores
  None,      \* no registration
  Requests,  \* REST requests clients may send, each of them once
  Kind, Of,  \* what each request asks for and the user it is about
  Sessions,  \* the sets of requests a behaviour may have
  MaxFaults  \* bound: faults in a behaviour

Kinds == {"register", "unregister", "login", "logout", "tenant"}

ASSUME IdentityAssumption ==
  /\ Admin \notin Users
  /\ Boot \notin Requests /\ None \notin Requests \cup {Boot}
  /\ Kind \in [Requests -> Kinds]
  /\ Of \in [Requests -> Users \cup {Admin}]
  /\ \A r \in Requests : Of[r] = Admin => Kind[r] \in {"login", "logout"}
  /\ Sessions \subseteq SUBSET Requests
  /\ MaxFaults \in Nat

VARIABLES
  session,   \* requests of this behaviour
  docs,      \* registrations that have a document in MongoDB
  ca,        \* the registration of each user at the certificate authority
  wallet,    \* the registration whose certificate the wallet holds
  blacklist, \* tokens, named by the login that issued them
  pc,        \* where each request, and createAdmin, stands
  seen,      \* the token it came with, then the document it has read
  faults,    \* history: faults that happened
  races      \* history: race windows that were open at some time

idVars == <<session, docs, ca, wallet, blacklist, pc, seen, faults, races>>

Names         == Users \cup {Admin}
Registrations == {r \in Requests : Kind[r] = "register"} \cup {Boot}
Owner(e)      == IF e = Boot THEN Admin ELSE Of[e]
Documents(u)  == {e \in docs : Owner(e) = u}

\* logout is the user's own request; the others, but login, the administrator's.
Caller(r) == IF Kind[r] = "logout" THEN Of[r] ELSE Admin

Steps == {"new", "find", "connect", "register", "enroll", "save", "deleteOne",
          "caDelete", "remove", "lookup", "put", "call", "blacklist",
          "ok", "failed"}

Ended == {"ok", "failed"}

GoSeeing(a, l, what) ==
  /\ pc' = [pc EXCEPT ![a] = l]
  /\ seen' = [seen EXCEPT ![a] = IF l \in Ended THEN None ELSE what]

Goto(a, l) == GoSeeing(a, l, seen[a])

(***************************************************************************)
(* A call that changes something takes place, or it throws, and then it    *)
(* may have taken place.                                                   *)
(***************************************************************************)
Fault(kind) ==
  /\ kind \notin faults /\ Cardinality(faults) < MaxFaults
  /\ faults' = faults \cup {kind}

Init ==
  /\ session \in Sessions
  /\ docs = {} /\ blacklist = {}
  /\ ca = [u \in Names |-> IF u = Admin THEN Boot ELSE None]
  /\ wallet = [u \in Names |-> None]
  /\ pc = [a \in Requests \cup {Boot} |-> IF a = Boot THEN "find" ELSE "new"]
  /\ seen = [a \in Requests \cup {Boot} |-> None]
  /\ faults = {} /\ races = {}

(***************************************************************************)
(* createAdmin, at every start of the process and awaited by nobody.       *)
(***************************************************************************)
FindAdmin ==
  /\ pc[Boot] = "find"
  /\ Goto(Boot, IF Documents(Admin) = {} THEN "enroll" ELSE "ok")
  /\ UNCHANGED <<docs, ca, wallet, blacklist, faults>>

EnrollAdmin ==
  /\ pc[Boot] = "enroll"
  /\ Goto(Boot, "save")
  /\ UNCHANGED <<docs, ca, wallet, blacklist, faults>>

SaveAdmin ==
  /\ pc[Boot] = "save"
  /\ docs' = docs \cup {Boot}
  /\ Goto(Boot, "ok")
  /\ UNCHANGED <<ca, wallet, blacklist, faults>>

(***************************************************************************)
(* login, and authenticateAPI for every other request.  Handlers that need *)
(* the administrator's identity find the one authenticateAPI has used: the *)
(* wallet only loses it in a restart.                                      *)
(***************************************************************************)
Login(r) ==
  /\ pc[r] = "new" /\ r \in session /\ Kind[r] = "login"
  /\ Goto(r, "lookup")
  /\ UNCHANGED <<docs, ca, wallet, blacklist, faults>>

Tokens(u) == {t \in Requests : Kind[t] = "login" /\ Of[t] = u /\ pc[t] = "ok"}

Start(r) ==
  /\ pc[r] = "new" /\ r \in session /\ Kind[r] # "login"
  /\ \E t \in Tokens(Caller(r)) :
       GoSeeing(r, IF t \in blacklist THEN "failed" ELSE "find", t)
  /\ UNCHANGED <<docs, ca, wallet, blacklist, faults>>

FindCaller(r) ==
  /\ pc[r] = "find" /\ r # Boot
  /\ Goto(r, IF Documents(Caller(r)) = {} THEN "failed" ELSE "connect")
  /\ UNCHANGED <<docs, ca, wallet, blacklist, faults>>

FirstStep(kind) == CASE kind = "register"   -> "register"
                     [] kind = "unregister" -> "deleteOne"
                     [] kind = "tenant"     -> "lookup"
                     [] kind = "logout"     -> "blacklist"

Connect(r) ==
  /\ pc[r] = "connect"
  /\ Goto(r, IF wallet[Caller(r)] = None THEN "failed"
             ELSE FirstStep(Kind[r]))
  /\ UNCHANGED <<docs, ca, wallet, blacklist, faults>>

(***************************************************************************)
(* /register                                                               *)
(***************************************************************************)
RegisterTolerant(r) ==
  /\ pc[r] = "register"
  /\ ca' = [ca EXCEPT ![Of[r]] = r]
  /\ Goto(r, "enroll")
  /\ UNCHANGED <<docs, wallet, blacklist, faults>>

Register(r) ==
  /\ pc[r] = "register"
  /\ \/ /\ ca[Of[r]] = None
        /\ ca' = [ca EXCEPT ![Of[r]] = r]
        /\ Goto(r, "enroll")
        /\ UNCHANGED faults
     \/ /\ ca[Of[r]] # None
        /\ Goto(r, "failed")
        /\ UNCHANGED <<ca, faults>>
     \/ /\ Fault("ca")
        /\ ca' \in {ca, [ca EXCEPT ![Of[r]] = IF @ = None THEN r ELSE @]}
        /\ Goto(r, "failed")
  /\ UNCHANGED <<docs, wallet, blacklist>>

\* The secret is the password: a registration made since may have another.
Enroll(r) ==
  /\ pc[r] = "enroll" /\ r # Boot
  /\ \/ ca[Of[r]] # None /\ Goto(r, "save") /\ UNCHANGED faults
     \/ ca[Of[r]] # r /\ Goto(r, "failed") /\ UNCHANGED faults
     \/ Fault("ca") /\ Goto(r, "failed")
  /\ UNCHANGED <<docs, ca, wallet, blacklist>>

Save(r) ==
  /\ pc[r] = "save" /\ r # Boot
  /\ \/ docs' = docs \cup {r} /\ Goto(r, "ok") /\ UNCHANGED faults
     \/ /\ Fault("mongo")
        /\ docs' \in {docs, docs \cup {r}}
        /\ Goto(r, "failed")
  /\ UNCHANGED <<ca, wallet, blacklist>>

(***************************************************************************)
(* /unregister.  deleteOne is content with no document, the certificate    *)
(* authority is not; what fails ends the request where it stands.          *)
(***************************************************************************)
Deleted(u) == IF Documents(u) = {} THEN {docs}
              ELSE {docs \ {e} : e \in Documents(u)}

DeleteOne(r) ==
  /\ pc[r] = "deleteOne"
  /\ \/ docs' \in Deleted(Of[r]) /\ Goto(r, "caDelete") /\ UNCHANGED faults
     \/ /\ Fault("mongo")
        /\ docs' \in {docs} \cup Deleted(Of[r])
        /\ Goto(r, "failed")
  /\ UNCHANGED <<ca, wallet, blacklist>>

CaForgotten(r) ==
  /\ pc[r] = "caDelete"
  /\ Goto(r, "remove")
  /\ UNCHANGED <<docs, ca, wallet, blacklist, faults>>

CaDelete(r) ==
  /\ pc[r] = "caDelete"
  /\ \/ /\ ca[Of[r]] # None
        /\ ca' = [ca EXCEPT ![Of[r]] = None]
        /\ Goto(r, "remove")
        /\ UNCHANGED faults
     \/ /\ ca[Of[r]] = None
        /\ Goto(r, "failed")
        /\ UNCHANGED <<ca, faults>>
     \/ /\ Fault("ca")
        /\ ca' \in {ca, [ca EXCEPT ![Of[r]] = None]}
        /\ Goto(r, "failed")
  /\ UNCHANGED <<docs, wallet, blacklist>>

RemoveNothing(r) ==
  /\ pc[r] = "remove"
  /\ Goto(r, "ok")
  /\ UNCHANGED <<docs, ca, wallet, blacklist, faults>>

Remove(r) ==
  /\ pc[r] = "remove"
  /\ wallet' = [wallet EXCEPT ![Of[r]] = None]
  /\ Goto(r, "ok")
  /\ UNCHANGED <<docs, ca, blacklist, faults>>

(***************************************************************************)
(* login reads the document, has the password compared off the event loop  *)
(* and puts the identity; the lookup of a tenant, getUserByID, puts it if  *)
(* the wallet has none of that name, and the request goes on as the tenant.*)
(***************************************************************************)
LookupUnchecked(r) ==
  /\ pc[r] = "lookup"
  /\ \E e \in IF Documents(Of[r]) = {} THEN {None} ELSE Documents(Of[r]) :
       GoSeeing(r, "put", e)
  /\ UNCHANGED <<docs, ca, wallet, blacklist, faults>>

Lookup(r) ==
  /\ pc[r] = "lookup"
  /\ \/ \E e \in Documents(Of[r]) : GoSeeing(r, "put", e)
     \/ Documents(Of[r]) = {} /\ Goto(r, "failed")
  /\ UNCHANGED <<docs, ca, wallet, blacklist, faults>>

Put(r) ==
  /\ pc[r] = "put"
  /\ \/ /\ Kind[r] = "login"
        /\ wallet' = [wallet EXCEPT ![Of[r]] = seen[r]]
        /\ Goto(r, "ok")
     \/ /\ Kind[r] = "login"                        \* the password is wrong
        /\ Goto(r, "failed")
        /\ UNCHANGED wallet
     \/ /\ Kind[r] = "tenant"
        /\ wallet' = [wallet EXCEPT ![Of[r]] = IF @ = None THEN seen[r] ELSE @]
        /\ Goto(r, "call")
  /\ UNCHANGED <<docs, ca, blacklist, faults>>

\* getContract of the tenant.
Call(r) ==
  /\ pc[r] = "call"
  /\ Goto(r, IF wallet[Of[r]] = None THEN "failed" ELSE "ok")
  /\ UNCHANGED <<docs, ca, wallet, blacklist, faults>>

Logout(r) ==
  /\ pc[r] = "blacklist"
  /\ blacklist' = blacklist \cup {seen[r]}
  /\ Goto(r, "ok")
  /\ UNCHANGED <<docs, ca, wallet, faults>>

(***************************************************************************)
(* The process ends, also when createAdmin throws, and is started again.   *)
(* The wallet is gone; MongoDB, the authority and the blacklist stay.      *)
(***************************************************************************)
AtRest(a) == pc[a] \in {"new"} \cup Ended

Restart ==
  /\ \/ Fault("restart")                        /\ UNCHANGED docs
     \/ pc[Boot] = "enroll" /\ Fault("ca")      /\ UNCHANGED docs
     \/ pc[Boot] = "save"   /\ Fault("mongo")   /\ docs' \in {docs, docs \cup {Boot}}
  /\ pc' = [a \in Requests \cup {Boot} |->
             IF a = Boot THEN "find" ELSE IF AtRest(a) THEN pc[a] ELSE "failed"]
  /\ wallet' = [u \in Names |-> None]
  /\ seen' = [a \in Requests \cup {Boot} |-> None]
  /\ UNCHANGED <<ca, blacklist>>

(***************************************************************************)
(* History: a registration and an unregistration of one user, both between *)
(* their first and their last change outside the controller; a document    *)
(* that has gone since it was read.                                        *)
(***************************************************************************)
Overlap == \E r, q \in Requests :
             /\ Of[r] = Of[q]
             /\ pc[r] \in {"enroll", "save"} /\ pc[q] = "caDelete"

Overtaken == \E l \in Requests : pc[l] = "put" /\ seen[l] \notin docs

Labelled(label, open) == IF open THEN {label} ELSE {}

Open == Labelled("overlap", Overlap) \cup Labelled("overtaken", Overtaken)

Step(r) == \/ Login(r) \/ Start(r) \/ FindCaller(r) \/ Connect(r)
           \/ Register(r) \/ Enroll(r) \/ Save(r)
           \/ DeleteOne(r) \/ CaDelete(r) \/ Remove(r)
           \/ Lookup(r) \/ Put(r) \/ Call(r) \/ Logout(r)

Next ==
  /\ \/ FindAdmin \/ EnrollAdmin \/ SaveAdmin \/ Restart
     \/ \E r \in Requests : Step(r)
  /\ races' = races \cup Open'
  /\ UNCHANGED session

Spec == Init /\ [][Next]_idVars

-------------------------------------------------------------------------------
(***************************************************************************)
(* Types; and what a request is about to put into the wallet is a          *)
(* certificate: login and getUserByID stop at a user they do not find.     *)
(***************************************************************************)
TypeOK ==
  /\ session \in Sessions
  /\ docs \subseteq Registrations
  /\ ca \in [Names -> Registrations \cup {None}]
  /\ wallet \in [Names -> Registrations \cup {None}]
  /\ blacklist \subseteq Requests
  /\ pc \in [Requests \cup {Boot} -> Steps]
  /\ seen \in [Requests \cup {Boot} -> Requests \cup {Boot, None}]
  /\ faults \subseteq {"ca", "mongo", "restart"}
  /\ races \subseteq {"overlap", "overtaken"}
  /\ \A r \in Requests : pc[r] = "put" => /\ seen[r] \in Registrations
                                          /\ Owner(seen[r]) = Of[r]

(***************************************************************************)
(* A document is that of a registration the certificate authority still    *)
(* has, whatever fails and whenever the process ends: register stores it   *)
(* last and unregister deletes it first.  So no user has two documents.    *)
(* Only a registration and an unregistration of the user that overlap      *)
(* break it: the document stays when the identity has gone.                *)
(***************************************************************************)
DocumentIsRegistered ==
  "overlap" \in races \/ \A e \in docs : ca[Owner(e)] = e

(***************************************************************************)
(* The other way round, an identity the authority has belongs to a         *)
(* document, or a request that is between the two is under way, or a call  *)
(* that failed or the end of the process has left it behind.  Until an     *)
(* unregister names that user without a document, nobody can register it.  *)
(***************************************************************************)
Between(u) == \E r \in Requests :
                Of[r] = u /\ pc[r] \in {"enroll", "save", "caDelete"}

RegistrationIsStored ==
  \/ faults # {}
  \/ \A u \in Users : ca[u] = None \/ ca[u] \in docs \/ Between(u)

(***************************************************************************)
(* The certificate in the wallet is that of a user who is still stored, or *)
(* an unregister of the user is about to remove it, or: a login or a       *)
(* lookup had read the document before it was deleted; a failing call      *)
(* ended unregister before it came to the wallet, and repeating it ends    *)
(* there too, since the authority no longer knows the user; a document     *)
(* without a registration, left by an overlap, does the same.              *)
(***************************************************************************)
WalletIsCurrent ==
  \/ (faults \cup races) \cap {"ca", "mongo", "overtaken", "overlap"} # {}
  \/ \A u \in Names :
       \/ wallet[u] \in docs \cup {None}
       \/ \E q \in Requests : Of[q] = u /\ pc[q] \in {"caDelete", "remove"}
===============================================================================
