--------------------------- MODULE Identity_proofs ---------------------------
(***************************************************************************)
(* Theorems about module Identity, for any users, requests and faults.     *)
(***************************************************************************)
EXTENDS Identity, TLAPS

\* What a step of a request says of the request: its kind, and the token it
\* still holds.
StepsOfKind ==
  \A r \in Requests :
    /\ pc[r] \in {"register", "enroll", "save"} => Kind[r] = "register"
    /\ pc[r] \in {"deleteOne", "caDelete", "remove"} => Kind[r] = "unregister"
    /\ pc[r] \in {"find", "connect"} => Kind[r] # "login"
    /\ pc[r] \in {"find", "connect", "blacklist"} => seen[r] \in Requests

TypeInv == TypeOK /\ StepsOfKind

\* A request names a user, who is not the administrator when it registers or
\* unregisters, and a registration is its own user's.
LEMMA RequestTypes ==
  ASSUME NEW r \in Requests
  PROVE  /\ r # Boot /\ r # None /\ Boot # None
         /\ Of[r] \in Names /\ Kind[r] \in Kinds /\ Caller(r) \in Names
         /\ Kind[r] \in {"register", "unregister"} => Of[r] # Admin
         /\ Kind[r] = "register" => r \in Registrations /\ Owner(r) = Of[r]
  BY IdentityAssumption
  DEF IdentityAssumption, Names, Kinds, Caller, Registrations, Owner

\* The type invariant holds at first.
LEMMA InitTyped == Init => TypeInv
  BY IdentityAssumption
  DEF Init, TypeInv, TypeOK, StepsOfKind, Names, Registrations, Steps,
      IdentityAssumption

\* Where a step takes a request or createAdmin, with what in hand.
Target(a, l, what) ==
  /\ GoSeeing(a, l, what)
  /\ l \in Steps /\ what \in Requests \cup {Boot, None}
  /\ a \in Requests =>
       /\ l \in {"register", "enroll", "save"} => Kind[a] = "register"
       /\ l \in {"deleteOne", "caDelete", "remove"} => Kind[a] = "unregister"
       /\ l \in {"find", "connect"} => Kind[a] # "login"
       /\ l \in {"find", "connect", "blacklist"} => what \in Requests
       /\ l = "put" => what \in Registrations /\ Owner(what) = Of[a]

\* The part of the invariant that is about where requests stand.
StandTyped ==
  /\ pc \in [Requests \cup {Boot} -> Steps]
  /\ seen \in [Requests \cup {Boot} -> Requests \cup {Boot, None}]
  /\ \A r \in Requests : pc[r] = "put" => /\ seen[r] \in Registrations
                                          /\ Owner(seen[r]) = Of[r]
  /\ StepsOfKind

\* Wherever a request or the start of the controller goes, it stands where the
\* type invariant allows.
LEMMA TargetTyped ==
  ASSUME StandTyped, NEW a \in Requests \cup {Boot}, NEW l, NEW what,
         Target(a, l, what)
  PROVE  StandTyped'
<1>1. /\ pc' \in [Requests \cup {Boot} -> Steps]
      /\ pc'[a] = l
      /\ seen'[a] = IF l \in Ended THEN None ELSE what
      /\ \A b \in (Requests \cup {Boot}) \ {a} :
           pc'[b] = pc[b] /\ seen'[b] = seen[b]
      /\ seen' \in [Requests \cup {Boot} -> Requests \cup {Boot, None}]
  BY DEF StandTyped, Target, GoSeeing
<1>2. ASSUME NEW r \in Requests
      PROVE  /\ pc'[r] = "put" => /\ seen'[r] \in Registrations
                                  /\ Owner(seen'[r]) = Of[r]
             /\ pc'[r] \in {"register", "enroll", "save"} => Kind[r] = "register"
             /\ pc'[r] \in {"deleteOne", "caDelete", "remove"}
                  => Kind[r] = "unregister"
             /\ pc'[r] \in {"find", "connect"} => Kind[r] # "login"
             /\ pc'[r] \in {"find", "connect", "blacklist"}
                  => seen'[r] \in Requests
  <2>1. CASE r = a
    BY <1>1, <2>1 DEF Ended, Target
  <2>2. CASE r # a
    BY <1>1, <2>2 DEF StandTyped, StepsOfKind
  <2>3. QED
    BY <2>1, <2>2
<1>3. QED
  BY <1>1, <1>2 DEF StandTyped, StepsOfKind

\* The part that is about what the system keeps.
KeptTyped ==
  /\ docs \subseteq Registrations
  /\ ca \in [Names -> Registrations \cup {None}]
  /\ wallet \in [Names -> Registrations \cup {None}]
  /\ blacklist \subseteq Requests
  /\ faults \subseteq {"ca", "mongo", "restart"}

\* The steps of the controller's start keep the type invariant.
LEMMA AdminTyped ==
  ASSUME KeptTyped, StandTyped, FindAdmin \/ EnrollAdmin \/ SaveAdmin
  PROVE  KeptTyped' /\ StandTyped'
<1>1. Boot \in Registrations /\ Boot \notin Requests
  BY IdentityAssumption DEF Registrations, IdentityAssumption
<1>2. PICK l \in {"enroll", "save", "ok"} : GoSeeing(Boot, l, seen[Boot])
  BY DEF FindAdmin, EnrollAdmin, SaveAdmin, Goto
<1>3. Target(Boot, l, seen[Boot])
  BY <1>1, <1>2 DEF Target, StandTyped, Steps
<1>4. StandTyped'
  BY <1>3, TargetTyped
<1>5. QED
  BY <1>1, <1>4 DEF KeptTyped, FindAdmin, EnrollAdmin, SaveAdmin

\* The steps of a request keep the type invariant.
LEMMA RequestTyped ==
  ASSUME KeptTyped, StandTyped, NEW r \in Requests, Step(r)
  PROVE  KeptTyped' /\ StandTyped'
<1> DEFINE Moved == \E l, what : Target(r, l, what)
<1>1. /\ r # Boot /\ r # None /\ Boot # None /\ Of[r] \in Names
      /\ Kind[r] \in Kinds /\ Boot \notin Requests
      /\ Kind[r] = "register" => r \in Registrations
  BY RequestTypes, IdentityAssumption DEF IdentityAssumption
<1>2. /\ seen[r] \in Requests \cup {Boot, None} /\ pc[r] \in Steps
      /\ pc[r] \in {"register", "enroll", "save"} => Kind[r] = "register"
      /\ pc[r] \in {"deleteOne", "caDelete", "remove"} => Kind[r] = "unregister"
      /\ pc[r] \in {"find", "connect"} => Kind[r] # "login"
      /\ pc[r] \in {"find", "connect", "blacklist"} => seen[r] \in Requests
      /\ pc[r] = "put" => seen[r] \in Registrations
  BY DEF StandTyped, StepsOfKind
<1>3. SUFFICES Moved /\ KeptTyped'
  BY TargetTyped
<1>4. CASE Login(r)
  <2>1. Target(r, "lookup", seen[r])
    BY <1>1, <1>2, <1>4 DEF Login, Goto, Target, Steps
  <2>2. KeptTyped'
    BY <1>1, <1>2, <1>4 DEF Login, KeptTyped
  <2>3. QED
    BY <2>1, <2>2
<1>5. CASE Start(r)
  <2>1. PICK t \in Requests : Target(r, "failed", t) \/ Target(r, "find", t)
    BY <1>5 DEF Start, Tokens, Target, Steps
  <2>2. QED
    BY <1>5, <2>1 DEF Start, KeptTyped
<1>6. CASE FindCaller(r)
  <2>1. Target(r, "failed", seen[r]) \/ Target(r, "connect", seen[r])
    BY <1>1, <1>2, <1>6 DEF FindCaller, Goto, Target, Steps
  <2>2. KeptTyped'
    BY <1>1, <1>2, <1>6 DEF FindCaller, KeptTyped
  <2>3. QED
    BY <2>1, <2>2
<1>7. CASE Connect(r)
  <2>1. FirstStep(Kind[r]) \in {"register", "deleteOne", "lookup", "blacklist"}
    BY <1>1, <1>2, <1>7 DEF Connect, FirstStep, Kinds
  <2>2. FirstStep(Kind[r]) = "register" => Kind[r] = "register"
    BY <1>1, <1>2, <1>7 DEF Connect, FirstStep, Kinds
  <2>3. FirstStep(Kind[r]) = "deleteOne" => Kind[r] = "unregister"
    BY <1>1, <1>2, <1>7 DEF Connect, FirstStep, Kinds
  <2>4. Target(r, "failed", seen[r]) \/ Target(r, FirstStep(Kind[r]), seen[r])
    BY <1>2, <1>7, <2>1, <2>2, <2>3 DEF Connect, Goto, Target, Steps
  <2>5. QED
    BY <1>7, <2>4 DEF Connect, KeptTyped
<1>8. CASE Register(r)
  <2>1. Target(r, "enroll", seen[r]) \/ Target(r, "failed", seen[r])
    BY <1>1, <1>2, <1>8 DEF Register, Goto, Target, Steps
  <2>2. KeptTyped'
    BY <1>1, <1>2, <1>8 DEF Register, KeptTyped, Fault
  <2>3. QED
    BY <2>1, <2>2
<1>9. CASE Enroll(r)
  <2>1. Target(r, "save", seen[r]) \/ Target(r, "failed", seen[r])
    BY <1>1, <1>2, <1>9 DEF Enroll, Goto, Target, Steps
  <2>2. KeptTyped'
    BY <1>1, <1>2, <1>9 DEF Enroll, KeptTyped, Fault
  <2>3. QED
    BY <2>1, <2>2
<1>10. CASE Save(r)
  <2>1. Target(r, "ok", seen[r]) \/ Target(r, "failed", seen[r])
    BY <1>1, <1>2, <1>10 DEF Save, Goto, Target, Steps
  <2>2. KeptTyped'
    BY <1>1, <1>2, <1>10 DEF Save, KeptTyped, Fault
  <2>3. QED
    BY <2>1, <2>2
<1>11. CASE DeleteOne(r)
  <2>1. Target(r, "caDelete", seen[r]) \/ Target(r, "failed", seen[r])
    BY <1>1, <1>2, <1>11 DEF DeleteOne, Goto, Target, Steps
  <2>2. KeptTyped'
    BY <1>1, <1>2, <1>11 DEF DeleteOne, KeptTyped, Fault, Deleted, Documents
  <2>3. QED
    BY <2>1, <2>2
<1>12. CASE CaDelete(r)
  <2>1. Target(r, "remove", seen[r]) \/ Target(r, "failed", seen[r])
    BY <1>1, <1>2, <1>12 DEF CaDelete, Goto, Target, Steps
  <2>2. KeptTyped'
    BY <1>1, <1>2, <1>12 DEF CaDelete, KeptTyped, Fault
  <2>3. QED
    BY <2>1, <2>2
<1>13. CASE Remove(r)
  <2>1. Target(r, "ok", seen[r])
    BY <1>1, <1>2, <1>13 DEF Remove, Goto, Target, Steps
  <2>2. KeptTyped'
    BY <1>1, <1>2, <1>13 DEF Remove, KeptTyped
  <2>3. QED
    BY <2>1, <2>2
<1>14. CASE Lookup(r)
  <2>1. ASSUME NEW e \in Documents(Of[r]), GoSeeing(r, "put", e)
        PROVE  Target(r, "put", e)
    BY <1>1, <2>1 DEF Target, Documents, KeptTyped, Registrations, Steps
  <2>2. ASSUME Goto(r, "failed")
        PROVE  Target(r, "failed", seen[r])
    BY <1>2, <2>2 DEF Goto, Target, Steps
  <2>3. Moved
    BY <1>14, <2>1, <2>2 DEF Lookup
  <2>4. QED
    BY <1>14, <2>3 DEF Lookup, KeptTyped
<1>15. CASE Put(r)
  <2>1. Target(r, "ok", seen[r]) \/ Target(r, "failed", seen[r]) \/ Target(r, "call", seen[r])
    BY <1>1, <1>2, <1>15 DEF Put, Goto, Target, Steps
  <2>2. KeptTyped'
    BY <1>1, <1>2, <1>15 DEF Put, KeptTyped
  <2>3. QED
    BY <2>1, <2>2
<1>16. CASE Call(r)
  <2>1. Target(r, "failed", seen[r]) \/ Target(r, "ok", seen[r])
    BY <1>1, <1>2, <1>16 DEF Call, Goto, Target, Steps
  <2>2. KeptTyped'
    BY <1>1, <1>2, <1>16 DEF Call, KeptTyped
  <2>3. QED
    BY <2>1, <2>2
<1>17. CASE Logout(r)
  <2>1. Target(r, "ok", seen[r])
    BY <1>1, <1>2, <1>17 DEF Logout, Goto, Target, Steps
  <2>2. KeptTyped'
    BY <1>1, <1>2, <1>17 DEF Logout, KeptTyped
  <2>3. QED
    BY <2>1, <2>2
<1>18. QED
  BY <1>4, <1>5, <1>6, <1>7, <1>8, <1>9, <1>10, <1>11, <1>12, <1>13, <1>14, <1>15, <1>16, <1>17 DEF Step

\* A restart keeps the type invariant.
LEMMA RestartTyped ==
  ASSUME KeptTyped, StandTyped, Restart
  PROVE  KeptTyped' /\ StandTyped'
<1>1. Boot \in Registrations /\ Boot \notin Requests
  BY IdentityAssumption DEF Registrations, IdentityAssumption
<1>2. KeptTyped'
  BY <1>1 DEF Restart, KeptTyped, Fault
<1>3. pc' \in [Requests \cup {Boot} -> Steps]
  BY DEF Restart, StandTyped, Steps
<1>4. ASSUME NEW r \in Requests
      PROVE  pc'[r] \in {"new"} \cup Ended
  BY <1>1 DEF Restart, AtRest, Ended
<1>5. StepsOfKind'
  BY <1>4 DEF StepsOfKind, Ended
<1>6. seen' \in [Requests \cup {Boot} -> Requests \cup {Boot, None}]
  BY DEF Restart
<1>7. QED
  BY <1>2, <1>3, <1>4, <1>5, <1>6 DEF StandTyped, Ended

\* Every step keeps the type invariant.
LEMMA NextTyped ==
  ASSUME TypeInv, [Next]_idVars
  PROVE  TypeInv'
<1>1. KeptTyped /\ StandTyped
  BY DEF TypeInv, TypeOK, KeptTyped, StandTyped
<1>2. CASE UNCHANGED idVars
  BY <1>2 DEF idVars, TypeInv, TypeOK, StepsOfKind
<1>3. CASE Next
  <2>1. KeptTyped' /\ StandTyped'
    BY <1>1, <1>3, AdminTyped, RequestTyped, RestartTyped DEF Next
  <2>2. session' \in Sessions /\ races' \subseteq {"overlap", "overtaken"}
    BY <1>3 DEF Next, TypeInv, TypeOK, Open, Labelled
  <2>3. QED
    BY <2>1, <2>2 DEF KeptTyped, StandTyped, TypeInv, TypeOK
<1>4. QED
  BY <1>2, <1>3

\* The type invariant holds in every behaviour.
LEMMA TypeInvariant == Spec => []TypeInv
<1>1. QED
  BY InitTyped, NextTyped, PTL DEF Spec

(***************************************************************************)
(* Types, and: what is put into the wallet is a certificate of that user.  *)
(***************************************************************************)
THEOREM IdentityTypeCorrect == Spec => []TypeOK
<1>1. TypeInv => TypeOK
  BY DEF TypeInv
<1>2. QED
  BY <1>1, TypeInvariant, PTL

-------------------------------------------------------------------------------
(***************************************************************************)
(* DocumentIsRegistered is not inductive: a registration under way has the *)
(* identity it is going to store, and an unregistration that is about to   *)
(* delete the identity has left no document.  Both hold until the two      *)
(* overlap, which the history then knows.                                  *)
(***************************************************************************)
StoredIsRegistered == \A e \in docs : ca[Owner(e)] = e

RegisteringHolds ==
  \A r \in Requests : pc[r] \in {"enroll", "save"} => ca[Of[r]] = r

NoneLeft ==
  \A q \in Requests : pc[q] = "caDelete" => \A e \in docs : Owner(e) # Of[q]

AdminHolds == ca[Admin] = Boot

Ordered == StoredIsRegistered /\ RegisteringHolds /\ NoneLeft

RegInv == /\ TypeInv /\ AdminHolds
          /\ Overlap => "overlap" \in races
          /\ "overlap" \in races \/ Ordered

\* A step that leaves documents and identities alone and takes no request
\* into the middle of anything.
LEMMA QuietStep ==
  ASSUME Ordered, docs' = docs, ca' = ca,
         \A r \in Requests :
           /\ pc'[r] \in {"enroll", "save"} => pc[r] \in {"enroll", "save"}
           /\ pc'[r] = "caDelete" => pc[r] = "caDelete"
  PROVE  Ordered'
  BY DEF Ordered, StoredIsRegistered, RegisteringHolds, NoneLeft

\* The controller's start keeps the stored documents in step with the CA, and
\* the administrator its own.
LEMMA AdminOrdered ==
  ASSUME TypeInv, AdminHolds, Ordered, FindAdmin \/ EnrollAdmin \/ SaveAdmin
  PROVE  Ordered' /\ AdminHolds'
<1>1. Owner(Boot) = Admin /\ Boot \notin Requests
  BY IdentityAssumption DEF Owner, IdentityAssumption
<1>2. \A r \in Requests : pc'[r] = pc[r]
  BY <1>1 DEF FindAdmin, EnrollAdmin, SaveAdmin, Goto, GoSeeing, TypeInv, TypeOK
<1>3. /\ ca' = ca
      /\ docs' \subseteq docs \cup {Boot}
  BY DEF FindAdmin, EnrollAdmin, SaveAdmin
<1>4. ASSUME NEW q \in Requests, pc[q] = "caDelete"
      PROVE  Of[q] # Admin
  BY <1>4, RequestTypes DEF TypeInv, StepsOfKind
<1>5. QED
  BY <1>1, <1>2, <1>3, <1>4
  DEF Ordered, StoredIsRegistered, RegisteringHolds, NoneLeft, AdminHolds

\* A restart keeps the stored documents in step with the CA.
LEMMA RestartOrdered ==
  ASSUME TypeInv, AdminHolds, Ordered, Restart
  PROVE  Ordered' /\ AdminHolds'
<1>1. Owner(Boot) = Admin /\ Boot \notin Requests
  BY IdentityAssumption DEF Owner, IdentityAssumption
<1>2. \A r \in Requests : pc'[r] \in {"new"} \cup Ended
  BY <1>1 DEF Restart, AtRest, Ended
<1>3. ca' = ca /\ docs' \subseteq docs \cup {Boot}
  BY DEF Restart
<1>4. QED
  BY <1>1, <1>2, <1>3
  DEF Ordered, StoredIsRegistered, RegisteringHolds, NoneLeft, AdminHolds, Ended

\* A registration, of a name the CA does not have, keeps them in step.
LEMMA RegisterOrdered ==
  ASSUME TypeInv, AdminHolds, Ordered, NEW r \in Requests, Register(r)
  PROVE  Ordered' /\ AdminHolds'
<1>1. /\ r # None /\ Boot # None /\ Of[r] \in Names /\ Of[r] # Admin
      /\ None \notin Requests /\ None \notin docs
  BY RequestTypes, IdentityAssumption
  DEF Register, TypeInv, TypeOK, StepsOfKind, Registrations, IdentityAssumption
<1>2. /\ docs' = docs
      /\ pc'[r] \in {"enroll", "failed"}
      /\ \A b \in Requests : b # r => pc'[b] = pc[b]
      /\ pc'[r] = "enroll" => ca'[Of[r]] = r
  BY <1>1 DEF Register, Goto, GoSeeing, TypeInv, TypeOK
<1>3. \A u \in Names : ca[u] # None => ca'[u] = ca[u]
  BY <1>1 DEF Register, TypeInv, TypeOK
<1>4. \A e \in docs : Owner(e) \in Names
  BY RequestTypes, IdentityAssumption
  DEF TypeInv, TypeOK, Registrations, Owner, Names, IdentityAssumption
<1>5. StoredIsRegistered'
  BY <1>1, <1>2, <1>3, <1>4 DEF Ordered, StoredIsRegistered
<1>6. RegisteringHolds'
  BY <1>1, <1>2, <1>3, RequestTypes DEF Ordered, RegisteringHolds
<1>7. NoneLeft'
  BY <1>2 DEF Ordered, NoneLeft
<1>8. AdminHolds'
  BY <1>1, <1>3 DEF AdminHolds, Names
<1>9. QED
  BY <1>5, <1>6, <1>7, <1>8 DEF Ordered

\* Storing a user keeps them in step while no two requests about a user
\* overlap.
LEMMA SaveOrdered ==
  ASSUME TypeInv, AdminHolds, Ordered, ~Overlap, NEW r \in Requests, Save(r)
  PROVE  Ordered' /\ AdminHolds'
<1>1. Owner(r) = Of[r] /\ pc[r] = "save" /\ ca[Of[r]] = r
  BY RequestTypes DEF Save, TypeInv, StepsOfKind, Ordered, RegisteringHolds
<1>2. /\ ca' = ca /\ docs' \subseteq docs \cup {r}
      /\ pc'[r] \in Ended
      /\ \A b \in Requests : b # r => pc'[b] = pc[b]
  BY DEF Save, Goto, GoSeeing, TypeInv, TypeOK, Ended
<1>3. \A q \in Requests : pc[q] = "caDelete" => Of[q] # Of[r]
  BY <1>1 DEF Overlap
<1>4. QED
  BY <1>1, <1>2, <1>3
  DEF Ordered, StoredIsRegistered, RegisteringHolds, NoneLeft, AdminHolds, Ended

\* Deleting the documents of a user, before the CA does, keeps them in step.
LEMMA DeleteOneOrdered ==
  ASSUME TypeInv, AdminHolds, Ordered, NEW r \in Requests, DeleteOne(r)
  PROVE  Ordered' /\ AdminHolds'
<1>1. /\ ca' = ca /\ docs' \subseteq docs
      /\ pc'[r] \in {"caDelete", "failed"}
      /\ pc'[r] = "caDelete" => docs' \in Deleted(Of[r])
      /\ \A b \in Requests : b # r => pc'[b] = pc[b]
  BY DEF DeleteOne, Deleted, Goto, GoSeeing, TypeInv, TypeOK
<1>2. ASSUME docs' \in Deleted(Of[r]), NEW e \in docs'
      PROVE  Owner(e) # Of[r]
  BY <1>2 DEF Deleted, Documents, Ordered, StoredIsRegistered
<1>3. QED
  BY <1>1, <1>2
  DEF Ordered, StoredIsRegistered, RegisteringHolds, NoneLeft, AdminHolds

\* Removing a user at the CA keeps them in step while no two requests overlap:
\* none of its documents is left.
LEMMA CaDeleteOrdered ==
  ASSUME TypeInv, AdminHolds, Ordered, ~Overlap, NEW r \in Requests, CaDelete(r)
  PROVE  Ordered' /\ AdminHolds'
<1>1. /\ Of[r] # Admin /\ pc[r] = "caDelete"
      /\ \A e \in docs : Owner(e) # Of[r] /\ Owner(e) \in Names
      /\ \A q \in Requests : Of[q] \in Names
  BY RequestTypes, IdentityAssumption
  DEF CaDelete, TypeInv, TypeOK, StepsOfKind, Ordered, NoneLeft, Registrations,
      Owner, Names, IdentityAssumption
<1>2. /\ docs' = docs
      /\ pc'[r] \in {"remove", "failed"}
      /\ \A b \in Requests : b # r => pc'[b] = pc[b]
      /\ \A u \in Names : u # Of[r] => ca'[u] = ca[u]
  BY DEF CaDelete, Goto, GoSeeing, TypeInv, TypeOK
<1>3. \A q \in Requests : pc[q] \in {"enroll", "save"} => Of[q] # Of[r]
  BY <1>1 DEF Overlap
<1>4. QED
  BY <1>1, <1>2, <1>3
  DEF Ordered, StoredIsRegistered, RegisteringHolds, NoneLeft, AdminHolds, Names

\* No request is about the administrator's registration.
LEMMA AdminUntouched ==
  ASSUME TypeInv, AdminHolds, Next
  PROVE  AdminHolds'
<1>1. ASSUME NEW r \in Requests, Register(r) \/ CaDelete(r)
      PROVE  ca'[Admin] = ca[Admin]
  <2>1. Of[r] # Admin /\ Admin \in Names
    BY <1>1, RequestTypes DEF Register, CaDelete, TypeInv, StepsOfKind, Names
  <2>2. QED
    BY <1>1, <2>1 DEF Register, CaDelete, TypeInv, TypeOK
<1>2. CASE ca' = ca
  BY <1>2 DEF AdminHolds
<1>3. CASE ca' # ca
  <2>1. \E r \in Requests : Register(r) \/ CaDelete(r)
    BY <1>3 DEF Next, Step, FindAdmin, EnrollAdmin, SaveAdmin, Restart, Login,
      Start, FindCaller, Connect, Enroll, Save, DeleteOne, Remove, Lookup, Put,
      Call, Logout
  <2>2. QED
    BY <1>1, <2>1 DEF AdminHolds
<1>4. QED
  BY <1>2, <1>3

\* The steps of a request that change neither documents nor identities.
LEMMA OtherOrdered ==
  ASSUME TypeInv, AdminHolds, Ordered, NEW r \in Requests,
         \/ Login(r) \/ Start(r) \/ FindCaller(r) \/ Connect(r) \/ Enroll(r)
         \/ Remove(r) \/ Lookup(r) \/ Put(r) \/ Call(r) \/ Logout(r)
  PROVE  Ordered' /\ AdminHolds'
<1>1. ca' = ca /\ docs' = docs
  BY DEF Login, Start, FindCaller, Connect, Enroll, Remove, Lookup, Put, Call,
         Logout
<1>2. \A b \in Requests : b # r => pc'[b] = pc[b]
  BY DEF Login, Start, FindCaller, Connect, Enroll, Remove, Lookup, Put, Call,
         Logout, Goto, GoSeeing, TypeInv, TypeOK
<1>3. pc[r] = "connect" => /\ FirstStep(Kind[r]) \notin {"enroll", "save"}
                           /\ FirstStep(Kind[r]) # "caDelete"
  BY RequestTypes DEF FirstStep, Kinds, TypeInv, StepsOfKind
<1>4. /\ pc'[r] \in {"enroll", "save"} => pc[r] \in {"enroll", "save"}
      /\ pc'[r] # "caDelete"
  BY <1>3
  DEF Login, Start, FindCaller, Connect, Enroll, Remove, Lookup, Put, Call,
      Logout, Goto, GoSeeing, TypeInv, TypeOK
<1>5. Ordered'
  BY <1>1, <1>2, <1>4, QuietStep
<1>6. QED
  BY <1>1, <1>5 DEF AdminHolds

\* Nothing is stored or registered, and no requests overlap, at first.
LEMMA InitReg == Init => RegInv
  BY InitTyped, IdentityAssumption
  DEF Init, RegInv, AdminHolds, Overlap, Ordered, StoredIsRegistered,
      RegisteringHolds, NoneLeft, Names, IdentityAssumption

\* Documents and identities stay together until the two overlap.
LEMMA RegStep == RegInv /\ [Next]_idVars => RegInv'
<1> SUFFICES ASSUME RegInv, [Next]_idVars PROVE RegInv'
  OBVIOUS
<1>1. TypeInv /\ TypeInv'
  BY NextTyped DEF RegInv
<1>2. CASE UNCHANGED idVars
  BY <1>1, <1>2
  DEF idVars, RegInv, AdminHolds, Overlap, Ordered, StoredIsRegistered,
      RegisteringHolds, NoneLeft
<1>3. CASE Next
  <2>1. Overlap' => "overlap" \in races'
    BY <1>3 DEF Next, Open, Labelled
  <2>2. "overlap" \in races => "overlap" \in races'
    BY <1>3 DEF Next
  <2>3. CASE "overlap" \in races
    <3>1. AdminHolds'
      BY <1>1, <1>3, AdminUntouched DEF RegInv
    <3>2. QED
      BY <1>1, <2>1, <2>2, <2>3, <3>1 DEF RegInv
  <2>4. CASE "overlap" \notin races
    <3>1. AdminHolds /\ Ordered /\ ~Overlap
      BY <2>4 DEF RegInv
    <3>2. Ordered' /\ AdminHolds'
      BY <1>1, <1>3, <3>1, AdminOrdered, RestartOrdered, RegisterOrdered,
         SaveOrdered, DeleteOneOrdered, CaDeleteOrdered, OtherOrdered
      DEF Next, Step
    <3>3. QED
      BY <1>1, <2>1, <3>2 DEF RegInv
  <2>5. QED
    BY <2>3, <2>4
<1>4. QED
  BY <1>2, <1>3

(***************************************************************************)
(* A document is that of a registration the authority still has, whatever  *)
(* fails and whenever the process ends, unless a registration and an       *)
(* unregistration of the user have overlapped.                             *)
(***************************************************************************)
THEOREM DocumentsAreRegistered == Spec => []DocumentIsRegistered
<1>1. RegInv => DocumentIsRegistered
  BY DEF RegInv, Ordered, StoredIsRegistered, DocumentIsRegistered
<1>2. QED
  BY <1>1, InitReg, RegStep, PTL DEF Spec

-------------------------------------------------------------------------------
(***************************************************************************)
(* What a step may have changed: the documents, the authority, the wallet  *)
(* and where the requests stand, of each action that changes any of them.  *)
(***************************************************************************)
OthersStand(r) == \A b \in Requests : b # r => pc'[b] = pc[b]

DidRegister(r) ==
  /\ pc[r] = "register" /\ docs' = docs /\ wallet' = wallet
  /\ \/ /\ ca[Of[r]] = None /\ ca' = [ca EXCEPT ![Of[r]] = r] /\ pc'[r] = "enroll"
     \/ /\ ca' = ca /\ pc'[r] = "failed"
     \/ /\ "ca" \in faults' /\ pc'[r] = "failed"
        /\ ca' \in {ca, [ca EXCEPT ![Of[r]] = IF @ = None THEN r ELSE @]}

DidEnroll(r) ==
  /\ pc[r] = "enroll" /\ docs' = docs /\ ca' = ca /\ wallet' = wallet
  /\ pc'[r] = "save" \/ (ca[Of[r]] # r /\ pc'[r] = "failed") \/ "ca" \in faults'

DidSave(r) ==
  /\ pc[r] = "save" /\ ca' = ca /\ wallet' = wallet /\ pc'[r] \in Ended
  /\ docs' = docs \cup {r} \/ (docs' \in {docs, docs \cup {r}} /\ "mongo" \in faults')

DidDeleteOne(r) ==
  /\ pc[r] = "deleteOne" /\ ca' = ca /\ wallet' = wallet
  /\ docs' \in {docs} \cup Deleted(Of[r])
  /\ pc'[r] = "caDelete" \/ (pc'[r] = "failed" /\ "mongo" \in faults')

DidCaDelete(r) ==
  /\ pc[r] = "caDelete" /\ docs' = docs /\ wallet' = wallet
  /\ \/ ca[Of[r]] # None /\ ca' = [ca EXCEPT ![Of[r]] = None] /\ pc'[r] = "remove"
     \/ ca[Of[r]] = None /\ ca' = ca /\ pc'[r] = "failed"
     \/ /\ "ca" \in faults' /\ ca' \in {ca, [ca EXCEPT ![Of[r]] = None]}
        /\ pc'[r] = "failed"

DidRemove(r) ==
  /\ pc[r] = "remove" /\ docs' = docs /\ ca' = ca /\ pc'[r] = "ok"
  /\ wallet' = [wallet EXCEPT ![Of[r]] = None]

DidPut(r) ==
  /\ pc[r] = "put" /\ docs' = docs /\ ca' = ca /\ pc'[r] \in Ended \cup {"call"}
  /\ seen[r] \in Registrations /\ Owner(seen[r]) = Of[r]
  /\ wallet' \in {wallet, [wallet EXCEPT ![Of[r]] = seen[r]]}

\* A step that changes neither, and takes no request into the middle of a
\* registration or an unregistration, or out of it.
DidOther ==
  /\ docs \subseteq docs' /\ docs' \subseteq docs \cup {Boot}
  /\ ca' = ca /\ wallet' = wallet
  /\ \A b \in Requests :
       \/ pc'[b] = pc[b]
       \/ /\ pc[b] \notin {"enroll", "save", "caDelete", "remove"}
          /\ pc'[b] \notin {"enroll", "save", "caDelete", "remove"}

DidRestart ==
  /\ docs \subseteq docs' /\ docs' \subseteq docs \cup {Boot} /\ ca' = ca
  /\ \A u \in Names : wallet'[u] = None
  /\ faults' # {}
  /\ \A b \in Requests : pc'[b] \in {"new"} \cup Ended

DidOf(r) == /\ OthersStand(r)
            /\ \/ DidRegister(r) \/ DidEnroll(r) \/ DidSave(r) \/ DidDeleteOne(r)
               \/ DidCaDelete(r) \/ DidRemove(r) \/ DidPut(r)

Happened == DidOther \/ DidRestart \/ \E r \in Requests : DidOf(r)

\* The changes of a request that registers or unregisters, logs in or looks up.
LEMMA RequestDoes ==
  ASSUME TypeInv, NEW r \in Requests, Step(r)
  PROVE  DidOf(r) \/ DidOther
<1>1. /\ pc \in [Requests \cup {Boot} -> Steps] /\ r \in Requests \cup {Boot}
      /\ pc[r] = "put" => seen[r] \in Registrations /\ Owner(seen[r]) = Of[r]
  BY DEF TypeInv, TypeOK
<1>2. \A l, what : GoSeeing(r, l, what) => pc'[r] = l /\ OthersStand(r)
  BY <1>1 DEF GoSeeing, OthersStand
<1>3. CASE Register(r)
  <2>1. DidRegister(r) /\ OthersStand(r)
    BY <1>2, <1>3 DEF Register, Goto, Fault, DidRegister
  <2>2. QED
    BY <2>1 DEF DidOf
<1>4. CASE Enroll(r)
  <2>1. DidEnroll(r) /\ OthersStand(r)
    BY <1>2, <1>4 DEF Enroll, Goto, Fault, DidEnroll
  <2>2. QED
    BY <2>1 DEF DidOf
<1>5. CASE Save(r)
  <2>1. DidSave(r) /\ OthersStand(r)
    BY <1>2, <1>5 DEF Save, Goto, Fault, DidSave, Ended
  <2>2. QED
    BY <2>1 DEF DidOf
<1>6. CASE DeleteOne(r)
  <2>1. DidDeleteOne(r) /\ OthersStand(r)
    BY <1>2, <1>6 DEF DeleteOne, Goto, Fault, DidDeleteOne
  <2>2. QED
    BY <2>1 DEF DidOf
<1>7. CASE CaDelete(r)
  <2>1. DidCaDelete(r) /\ OthersStand(r)
    BY <1>2, <1>7 DEF CaDelete, Goto, Fault, DidCaDelete
  <2>2. QED
    BY <2>1 DEF DidOf
<1>8. CASE Remove(r)
  <2>1. DidRemove(r) /\ OthersStand(r)
    BY <1>2, <1>8 DEF Remove, Goto, DidRemove
  <2>2. QED
    BY <2>1 DEF DidOf
<1>9. CASE Put(r)
  <2>1. pc[r] = "put" /\ docs' = docs /\ ca' = ca /\ OthersStand(r)
        /\ pc'[r] \in Ended \cup {"call"}
    BY <1>2, <1>9 DEF Put, Goto, Ended
  <2>2. wallet' \in {wallet, [wallet EXCEPT ![Of[r]] = seen[r]]}
    <3>1. wallet \in [Names -> Registrations \cup {None}]
      BY DEF TypeInv, TypeOK
    <3>2. wallet' = [wallet EXCEPT ![Of[r]] = IF @ = None THEN seen[r] ELSE @]
            => wallet' \in {wallet, [wallet EXCEPT ![Of[r]] = seen[r]]}
      BY <3>1
    <3>3. QED
      BY <1>9, <3>2 DEF Put
  <2>3. QED
    BY <1>1, <2>1, <2>2 DEF DidOf, DidPut
<1>10. CASE \/ Login(r) \/ Start(r) \/ FindCaller(r) \/ Connect(r) \/ Lookup(r) \/ Call(r)
            \/ Logout(r)
  <2>1. docs' = docs /\ ca' = ca /\ wallet' = wallet /\ OthersStand(r)
    BY <1>2, <1>10 DEF Login, Start, FindCaller, Connect, Lookup, Call, Logout, Goto
  <2>2. FirstStep(Kind[r]) \notin {"enroll", "save", "caDelete", "remove"}
        \/ pc[r] # "connect"
    BY RequestTypes DEF FirstStep, Kinds, TypeInv, StepsOfKind
  <2>3. /\ pc[r] \notin {"enroll", "save", "caDelete", "remove"}
        /\ pc'[r] \notin {"enroll", "save", "caDelete", "remove"}
    BY <1>2, <1>10, <2>2
    DEF Login, Start, FindCaller, Connect, Lookup, Call, Logout, Goto
  <2>4. QED
    BY <2>1, <2>3 DEF DidOther, OthersStand
<1>11. QED
  BY <1>3, <1>4, <1>5, <1>6, <1>7, <1>8, <1>9, <1>10 DEF Step

\* A step is one of the model's, and adds to the history what it opens.
LEMMA StepDoes ==
  ASSUME TypeInv, [Next]_idVars
  PROVE  /\ TypeInv' /\ Happened
         /\ faults \subseteq faults' /\ races \subseteq races'
         /\ Open \subseteq races => Open' \subseteq races'
<1>0. TypeInv'
  BY NextTyped
<1>1. CASE UNCHANGED idVars
  <2>1. DidOther /\ faults' = faults /\ races' = races
    BY <1>1 DEF idVars, DidOther
  <2>2. Open' = Open
    BY <1>1 DEF idVars, Open, Labelled, Overlap, Overtaken
  <2>3. QED
    BY <1>0, <2>1, <2>2 DEF Happened
<1>2. CASE Next
  <2>0. Boot \notin Requests /\ pc \in [Requests \cup {Boot} -> Steps]
    BY IdentityAssumption DEF IdentityAssumption, TypeInv, TypeOK
  <2>1. ASSUME FindAdmin \/ EnrollAdmin \/ SaveAdmin
        PROVE  Happened /\ faults \subseteq faults'
    <3>1. DidOther
      BY <2>0, <2>1 DEF FindAdmin, EnrollAdmin, SaveAdmin, Goto, GoSeeing, DidOther
    <3>2. QED
      BY <3>1, <2>1 DEF Happened, FindAdmin, EnrollAdmin, SaveAdmin
  <2>2. ASSUME Restart
        PROVE  Happened /\ faults \subseteq faults'
    <3>1. /\ docs \subseteq docs' /\ docs' \subseteq docs \cup {Boot} /\ ca' = ca
          /\ faults' # {} /\ faults \subseteq faults'
      BY <2>2 DEF Restart, Fault
    <3>2. \A u \in Names : wallet'[u] = None
      BY <2>2 DEF Restart
    <3>3. \A b \in Requests : pc'[b] \in {"new"} \cup Ended
      BY <2>0, <2>2 DEF Restart, AtRest, Ended
    <3>4. QED
      BY <3>1, <3>2, <3>3 DEF Happened, DidRestart
  <2>3. ASSUME NEW r \in Requests, Step(r)
        PROVE  Happened /\ faults \subseteq faults'
    <3>1. faults \subseteq faults'
      BY <2>3
      DEF Step, Login, Start, FindCaller, Connect, Register, Enroll, Save, DeleteOne,
          CaDelete, Remove, Lookup, Put, Call, Logout, Fault
    <3>2. QED
      BY <2>3, <3>1, RequestDoes DEF Happened
  <2>4. Happened /\ faults \subseteq faults'
    BY <1>2, <2>1, <2>2, <2>3 DEF Next
  <2>5. QED
    BY <1>0, <1>2, <2>4 DEF Next
<1>3. QED
  BY <1>1, <1>2

(***************************************************************************)
(* An identity of the authority, and a certificate in the wallet, are of   *)
(* the user they stand for.                                                *)
(***************************************************************************)
OwnNames ==
  \A u \in Names : /\ ca[u] # None => Owner(ca[u]) = u
                   /\ wallet[u] # None => Owner(wallet[u]) = u

\* Every step keeps that the CA and the wallet have a user's own identity
\* under its name.
LEMMA OwnStep == TypeInv /\ OwnNames /\ [Next]_idVars => OwnNames'
<1> SUFFICES ASSUME TypeInv, OwnNames, [Next]_idVars, NEW u \in Names
             PROVE  /\ ca'[u] # None => Owner(ca'[u]) = u
                    /\ wallet'[u] # None => Owner(wallet'[u]) = u
  BY DEF OwnNames
<1>1. Happened /\ ca \in [Names -> Registrations \cup {None}]
      /\ wallet \in [Names -> Registrations \cup {None}]
  BY StepDoes DEF TypeInv, TypeOK
<1>2. /\ ca[u] # None => Owner(ca[u]) = u
      /\ wallet[u] # None => Owner(wallet[u]) = u
  BY DEF OwnNames
<1>3. CASE DidOther \/ DidRestart
  BY <1>2, <1>3 DEF DidOther, DidRestart
<1>4. ASSUME NEW r \in Requests, DidOf(r)
      PROVE  /\ ca'[u] # None => Owner(ca'[u]) = u
             /\ wallet'[u] # None => Owner(wallet'[u]) = u
  <2>1. pc[r] = "register" => Owner(r) = Of[r]
    BY RequestTypes DEF TypeInv, StepsOfKind
  <2>2. CASE DidRegister(r)
    <3>1. ca'[u] = ca[u] \/ (u = Of[r] /\ ca'[u] = r)
      BY <1>1, <2>2 DEF DidRegister
    <3>2. QED
      BY <1>2, <2>1, <2>2, <3>1 DEF DidRegister
  <2>3. CASE DidCaDelete(r)
    BY <1>1, <1>2, <2>3 DEF DidCaDelete
  <2>4. CASE DidRemove(r)
    BY <1>1, <1>2, <2>4 DEF DidRemove
  <2>5. CASE DidPut(r)
    <3>1. wallet'[u] = wallet[u] \/ (u = Of[r] /\ wallet'[u] = seen[r])
      BY <1>1, <2>5 DEF DidPut
    <3>2. QED
      BY <1>2, <2>5, <3>1 DEF DidPut
  <2>6. CASE DidEnroll(r) \/ DidSave(r) \/ DidDeleteOne(r)
    BY <1>2, <2>6 DEF DidEnroll, DidSave, DidDeleteOne
  <2>7. QED
    BY <1>4, <2>2, <2>3, <2>4, <2>5, <2>6 DEF DidOf
<1>5. QED
  BY <1>1, <1>3, <1>4 DEF Happened

\* A document that is deleted is one of the user the request is about.
LEMMA DeletesOwn ==
  ASSUME NEW r \in Requests, DidDeleteOne(r), NEW e \in docs, Owner(e) # Of[r]
  PROVE  e \in docs'
  BY DEF DidDeleteOne, Deleted, Documents

\* The CA and the wallet have nobody's identity at first.
LEMMA InitOwn == Init => OwnNames
  BY IdentityAssumption
  DEF Init, OwnNames, Owner, Names, IdentityAssumption

(***************************************************************************)
(* As long as nothing fails, an identity the authority has is stored, or   *)
(* the very registration that made it is about to store it, or somebody is *)
(* about to delete it.                                                     *)
(***************************************************************************)
StoredOrUnderWay ==
  \A u \in Users :
    \/ ca[u] = None
    \/ ca[u] \in docs
    \/ ca[u] \in Requests /\ pc[ca[u]] \in {"enroll", "save"}
    \/ \E q \in Requests : Of[q] = u /\ pc[q] = "caDelete"

StoreInv == faults = {} => StoredOrUnderWay

\* Every step keeps that a registered user is stored, or a request about it is
\* under way.
LEMMA StoreStep == TypeInv /\ OwnNames /\ StoreInv /\ [Next]_idVars => StoreInv'
<1> SUFFICES ASSUME TypeInv, OwnNames, StoreInv, [Next]_idVars, faults' = {}, NEW u \in Users
             PROVE  \/ ca'[u] = None
                    \/ ca'[u] \in docs'
                    \/ ca'[u] \in Requests /\ pc'[ca'[u]] \in {"enroll", "save"}
                    \/ \E q \in Requests : Of[q] = u /\ pc'[q] = "caDelete"
  BY DEF StoreInv, StoredOrUnderWay
<1>1. /\ Happened /\ faults = {} /\ u \in Names
      /\ ca \in [Names -> Registrations \cup {None}]
  BY StepDoes DEF TypeInv, TypeOK, Names
<1>2. \/ ca[u] = None
      \/ ca[u] \in docs
      \/ ca[u] \in Requests /\ pc[ca[u]] \in {"enroll", "save"}
      \/ \E q \in Requests : Of[q] = u /\ pc[q] = "caDelete"
  BY <1>1 DEF StoreInv, StoredOrUnderWay
<1>3. ca[u] # None => Owner(ca[u]) = u
  BY <1>1 DEF OwnNames
<1>4. \A e \in Requests : Owner(e) = u => Of[e] = u
  BY RequestTypes DEF Owner
<1>5. CASE DidOther
  <2>1. ca' = ca /\ docs \subseteq docs'
    BY <1>5 DEF DidOther
  <2>2. \A b \in Requests : /\ pc[b] \in {"enroll", "save"} => pc'[b] \in {"enroll", "save"}
                            /\ pc[b] = "caDelete" => pc'[b] = "caDelete"
    BY <1>5 DEF DidOther
  <2>3. QED
    BY <1>2, <2>1, <2>2
<1>6. ~DidRestart
  BY DEF DidRestart
<1>7. ASSUME NEW r \in Requests, DidOf(r)
      PROVE  \/ ca'[u] = None
             \/ ca'[u] \in docs'
             \/ ca'[u] \in Requests /\ pc'[ca'[u]] \in {"enroll", "save"}
             \/ \E q \in Requests : Of[q] = u /\ pc'[q] = "caDelete"
  <2>1. \A b \in Requests : b # r => pc'[b] = pc[b]
    BY <1>7 DEF DidOf, OthersStand
  <2>2. CASE DidRegister(r)
    <3>1. /\ docs' = docs /\ pc[r] = "register"
          /\ ca'[u] = ca[u] \/ (ca'[u] = r /\ pc'[r] = "enroll")
      BY <1>1, <2>2 DEF DidRegister
    <3>2. QED
      BY <1>2, <2>1, <3>1
  <2>3. CASE DidEnroll(r)
    <3>1. docs' = docs /\ ca' = ca /\ pc[r] = "enroll" /\ (pc'[r] = "save" \/ ca[Of[r]] # r)
      BY <2>3 DEF DidEnroll
    <3>2. QED
      BY <1>2, <1>3, <1>4, <2>1, <3>1, RequestTypes
  <2>4. CASE DidSave(r)
    <3>1. docs' = docs \cup {r} /\ ca' = ca /\ pc[r] = "save"
      BY <2>4 DEF DidSave
    <3>2. QED
      BY <1>2, <2>1, <3>1
  <2>5. CASE DidDeleteOne(r)
    <3>1. ca' = ca /\ pc[r] = "deleteOne" /\ pc'[r] = "caDelete"
      BY <2>5 DEF DidDeleteOne
    <3>2. CASE Of[r] = u
      BY <3>1, <3>2
    <3>3. CASE Of[r] # u
      <4>1. ca[u] # None /\ ca[u] \in docs => ca[u] \in docs'
        BY <1>3, <2>5, <3>3, DeletesOwn
      <4>2. QED
        BY <1>2, <2>1, <3>1, <4>1
    <3>4. QED
      BY <3>2, <3>3
  <2>6. CASE DidCaDelete(r)
    <3>1. docs' = docs /\ pc[r] = "caDelete"
      BY <2>6 DEF DidCaDelete
    <3>2. CASE Of[r] = u
      BY <1>1, <2>6, <3>2 DEF DidCaDelete
    <3>3. CASE Of[r] # u
      <4>1. ca'[u] = ca[u]
        BY <1>1, <2>6, <3>3 DEF DidCaDelete
      <4>2. QED
        BY <1>2, <2>1, <3>1, <3>3, <4>1
    <3>4. QED
      BY <3>2, <3>3
  <2>7. CASE DidRemove(r) \/ DidPut(r)
    <3>1. docs' = docs /\ ca' = ca /\ pc[r] \in {"remove", "put"}
      BY <2>7 DEF DidRemove, DidPut
    <3>2. QED
      BY <1>2, <2>1, <3>1
  <2>8. QED
    BY <1>7, <2>2, <2>3, <2>4, <2>5, <2>6, <2>7 DEF DidOf
<1>8. QED
  BY <1>1, <1>5, <1>6, <1>7 DEF Happened

\* Nobody is registered at first.
LEMMA InitStore == Init => StoreInv
  BY IdentityAssumption
  DEF Init, StoreInv, StoredOrUnderWay, Names, IdentityAssumption

\* An identity the authority has belongs to a document, or a request between the
\* two is under way, unless a call failed or the process ended: register and
\* unregister leave nothing behind by themselves, not even when they overlap.
THEOREM RegistrationsAreStored == Spec => []RegistrationIsStored
<1> DEFINE I == TypeInv /\ OwnNames /\ StoreInv
<1>1. I => RegistrationIsStored
  <2> SUFFICES ASSUME I, faults = {}, NEW u \in Users
               PROVE  ca[u] = None \/ ca[u] \in docs \/ Between(u)
    BY DEF RegistrationIsStored
  <2>1. \/ ca[u] = None
        \/ ca[u] \in docs
        \/ ca[u] \in Requests /\ pc[ca[u]] \in {"enroll", "save"}
        \/ \E q \in Requests : Of[q] = u /\ pc[q] = "caDelete"
    BY DEF StoreInv, StoredOrUnderWay
  <2>2. ca[u] # None => Owner(ca[u]) = u
    BY DEF OwnNames, Names
  <2>3. \A e \in Requests : Owner(e) = u => Of[e] = u
    BY RequestTypes DEF Owner
  <2>4. QED
    BY <2>1, <2>2, <2>3, RequestTypes DEF Between
<1>2. I /\ [Next]_idVars => I'
  BY StepDoes, OwnStep, StoreStep
<1>3. Init => I
  BY InitTyped, InitOwn, InitStore
<1>4. QED
  BY <1>1, <1>2, <1>3, PTL DEF Spec

-------------------------------------------------------------------------------
(***************************************************************************)
(* What the wallet holds is stored, or an unregister of the user is about  *)
(* to remove it.  An unregister that finds the identity already gone ends  *)
(* there and removes nothing: then the one that deleted the identity is    *)
(* about to, or has done so.                                               *)
(***************************************************************************)
WalletIsStored ==
  \A u \in Names :
    \/ wallet[u] \in docs \cup {None}
    \/ \E q \in Requests : Of[q] = u /\ pc[q] \in {"caDelete", "remove"}

UnknownIsRemoved ==
  \A u \in Names : ca[u] = None =>
    wallet[u] = None \/ \E q \in Requests : Of[q] = u /\ pc[q] = "remove"

Punctual == (faults \cup races) \cap {"ca", "mongo", "overtaken", "overlap"} = {}

WalletInv == /\ Overtaken => "overtaken" \in races
             /\ Punctual => WalletIsStored /\ UnknownIsRemoved

\* When nothing has gone wrong after a step, nothing had before it, and what
\* the invariants say under that condition held.
LEMMA PunctualSteps ==
  ASSUME RegInv, WalletInv, [Next]_idVars, Punctual'
  PROVE  /\ TypeInv /\ TypeInv' /\ Happened /\ Punctual
         /\ WalletIsStored /\ UnknownIsRemoved
         /\ "ca" \notin faults' /\ "mongo" \notin faults'
         /\ StoredIsRegistered /\ NoneLeft
         /\ ~Overtaken
<1>1. TypeInv /\ TypeInv' /\ Happened /\ faults \subseteq faults' /\ races \subseteq races'
  BY StepDoes DEF RegInv
<1>2. Punctual
  BY <1>1 DEF Punctual
<1>3. QED
  BY <1>1, <1>2 DEF WalletInv, RegInv, Ordered, Punctual

\* While nothing goes wrong, every step keeps that the wallet has what is
\* stored, or a removal is under way.
LEMMA WalletStoredStep ==
  ASSUME RegInv, OwnNames, WalletInv, [Next]_idVars, Punctual'
  PROVE  WalletIsStored'
<1> SUFFICES ASSUME NEW u \in Names
             PROVE  \/ wallet'[u] \in docs' \cup {None}
                    \/ \E q \in Requests : Of[q] = u /\ pc'[q] \in {"caDelete", "remove"}
  BY DEF WalletIsStored
<1>1. /\ TypeInv /\ Happened /\ "ca" \notin faults' /\ "mongo" \notin faults'
      /\ NoneLeft /\ ~Overtaken
      /\ wallet \in [Names -> Registrations \cup {None}]
  BY PunctualSteps DEF TypeInv, TypeOK
<1>2. \/ wallet[u] \in docs \cup {None}
      \/ \E q \in Requests : Of[q] = u /\ pc[q] \in {"caDelete", "remove"}
  BY PunctualSteps DEF WalletIsStored
<1>3. ca[u] = None =>
        wallet[u] = None \/ \E q \in Requests : Of[q] = u /\ pc[q] = "remove"
  BY PunctualSteps DEF UnknownIsRemoved
<1>4. wallet[u] # None => Owner(wallet[u]) = u
  BY DEF OwnNames
<1>5. CASE DidOther
  <2>1. /\ wallet' = wallet /\ docs \subseteq docs'
        /\ \A b \in Requests :
             pc[b] \in {"caDelete", "remove"} => pc'[b] \in {"caDelete", "remove"}
    BY <1>5 DEF DidOther
  <2>2. QED
    BY <1>2, <2>1
<1>6. CASE DidRestart
  BY <1>6 DEF DidRestart
<1>7. ASSUME NEW r \in Requests, DidOf(r)
      PROVE  \/ wallet'[u] \in docs' \cup {None}
             \/ \E q \in Requests : Of[q] = u /\ pc'[q] \in {"caDelete", "remove"}
  <2>1. \A b \in Requests : b # r => pc'[b] = pc[b]
    BY <1>7 DEF DidOf, OthersStand
  <2>2. CASE DidRegister(r) \/ DidEnroll(r) \/ DidSave(r)
    <3>1. wallet' = wallet /\ docs \subseteq docs' /\ pc[r] \notin {"caDelete", "remove"}
      BY <2>2 DEF DidRegister, DidEnroll, DidSave
    <3>2. QED
      BY <1>2, <2>1, <3>1
  <2>3. CASE DidDeleteOne(r)
    <3>1. wallet' = wallet /\ pc[r] = "deleteOne" /\ pc'[r] = "caDelete"
      BY <1>1, <2>3 DEF DidDeleteOne
    <3>2. CASE Of[r] = u
      BY <3>1, <3>2
    <3>3. CASE Of[r] # u
      <4>1. wallet[u] # None /\ wallet[u] \in docs => wallet[u] \in docs'
        BY <1>4, <2>3, <3>3, DeletesOwn
      <4>2. QED
        BY <1>2, <2>1, <3>1, <4>1
    <3>4. QED
      BY <3>2, <3>3
  <2>4. CASE DidCaDelete(r)
    <3>1. wallet' = wallet /\ docs' = docs /\ pc[r] = "caDelete"
      BY <2>4 DEF DidCaDelete
    <3>2. CASE pc'[r] = "remove"
      BY <1>2, <2>1, <3>1, <3>2
    <3>3. CASE pc'[r] # "remove" /\ Of[r] # u
      BY <1>2, <2>1, <3>1, <3>3
    <3>4. CASE pc'[r] # "remove" /\ Of[r] = u
      <4>1. ca[u] = None
        BY <1>1, <2>4, <3>4 DEF DidCaDelete
      <4>2. wallet[u] = None \/ \E q \in Requests : Of[q] = u /\ pc[q] = "remove"
        BY <1>3, <4>1
      <4>3. QED
        BY <2>1, <3>1, <4>2
    <3>5. QED
      BY <3>2, <3>3, <3>4
  <2>5. CASE DidRemove(r)
    <3>1. docs' = docs /\ pc[r] = "remove"
      BY <2>5 DEF DidRemove
    <3>2. CASE Of[r] = u
      BY <1>1, <2>5, <3>2 DEF DidRemove
    <3>3. CASE Of[r] # u
      <4>1. wallet'[u] = wallet[u]
        BY <1>1, <2>5, <3>3 DEF DidRemove
      <4>2. QED
        BY <1>2, <2>1, <3>1, <3>3, <4>1
    <3>4. QED
      BY <3>2, <3>3
  <2>6. CASE DidPut(r)
    <3>1. docs' = docs /\ pc[r] = "put" /\ seen[r] \in docs
      BY <1>1, <2>6 DEF DidPut, Overtaken
    <3>2. wallet'[u] = wallet[u] \/ wallet'[u] = seen[r]
      BY <1>1, <2>6 DEF DidPut
    <3>3. QED
      BY <1>2, <2>1, <3>1, <3>2
  <2>7. QED
    BY <1>7, <2>2, <2>3, <2>4, <2>5, <2>6 DEF DidOf
<1>8. QED
  BY <1>1, <1>5, <1>6, <1>7 DEF Happened

\* While nothing goes wrong, every step keeps that a user the CA does not know
\* is not in the wallet, or is being removed from it.
LEMMA UnknownRemovedStep ==
  ASSUME RegInv, WalletInv, [Next]_idVars, Punctual'
  PROVE  UnknownIsRemoved'
<1> SUFFICES ASSUME NEW u \in Names, ca'[u] = None
             PROVE  \/ wallet'[u] = None
                    \/ \E q \in Requests : Of[q] = u /\ pc'[q] = "remove"
  BY DEF UnknownIsRemoved
<1>1. /\ TypeInv /\ Happened /\ "ca" \notin faults'
      /\ StoredIsRegistered /\ ~Overtaken
      /\ wallet \in [Names -> Registrations \cup {None}]
      /\ ca \in [Names -> Registrations \cup {None}]
  BY PunctualSteps DEF TypeInv, TypeOK
<1>2. ca[u] = None =>
        wallet[u] = None \/ \E q \in Requests : Of[q] = u /\ pc[q] = "remove"
  BY PunctualSteps DEF UnknownIsRemoved
<1>3. CASE DidOther
  <2>1. /\ wallet' = wallet /\ ca' = ca
        /\ \A b \in Requests : pc[b] = "remove" => pc'[b] = "remove"
    BY <1>3 DEF DidOther
  <2>2. QED
    BY <1>2, <2>1
<1>4. CASE DidRestart
  BY <1>4 DEF DidRestart
<1>5. ASSUME NEW r \in Requests, DidOf(r)
      PROVE  \/ wallet'[u] = None
             \/ \E q \in Requests : Of[q] = u /\ pc'[q] = "remove"
  <2>1. \A b \in Requests : b # r => pc'[b] = pc[b]
    BY <1>5 DEF DidOf, OthersStand
  <2>2. CASE DidRegister(r)
    <3>1. r # None
      BY RequestTypes
    <3>2. wallet' = wallet /\ pc[r] = "register" /\ (ca'[u] = ca[u] \/ ca'[u] = r)
      BY <1>1, <2>2 DEF DidRegister
    <3>3. QED
      BY <1>2, <2>1, <3>1, <3>2
  <2>3. CASE DidEnroll(r) \/ DidSave(r) \/ DidDeleteOne(r)
    <3>1. wallet' = wallet /\ ca' = ca /\ pc[r] # "remove"
      BY <2>3 DEF DidEnroll, DidSave, DidDeleteOne
    <3>2. QED
      BY <1>2, <2>1, <3>1
  <2>4. CASE DidCaDelete(r)
    <3>1. wallet' = wallet /\ pc[r] = "caDelete"
      BY <2>4 DEF DidCaDelete
    <3>2. CASE ca[u] = None
      BY <1>2, <2>1, <3>1, <3>2
    <3>3. CASE ca[u] # None
      BY <1>1, <2>4, <3>3 DEF DidCaDelete
    <3>4. QED
      BY <3>2, <3>3
  <2>5. CASE DidRemove(r)
    <3>1. ca' = ca /\ pc[r] = "remove"
      BY <2>5 DEF DidRemove
    <3>2. CASE Of[r] = u
      BY <1>1, <2>5, <3>2 DEF DidRemove
    <3>3. CASE Of[r] # u
      <4>1. wallet'[u] = wallet[u]
        BY <1>1, <2>5, <3>3 DEF DidRemove
      <4>2. QED
        BY <1>2, <2>1, <3>1, <3>3, <4>1
    <3>4. QED
      BY <3>2, <3>3
  <2>6. CASE DidPut(r)
    <3>1. /\ ca' = ca /\ pc[r] = "put" /\ seen[r] \in docs /\ Owner(seen[r]) = Of[r]
          /\ None \notin docs
      BY <1>1, <2>6, IdentityAssumption
      DEF DidPut, Overtaken, TypeInv, TypeOK, Registrations, IdentityAssumption
    <3>2. Of[r] # u
      BY <1>1, <3>1 DEF StoredIsRegistered
    <3>3. wallet'[u] = wallet[u]
      BY <1>1, <2>6, <3>2 DEF DidPut
    <3>4. QED
      BY <1>2, <2>1, <3>1, <3>3
  <2>7. QED
    BY <1>5, <2>2, <2>3, <2>4, <2>5, <2>6 DEF DidOf
<1>6. QED
  BY <1>1, <1>3, <1>4, <1>5 DEF Happened

\* Every step keeps the invariant about the wallet.
LEMMA WalletStep == RegInv /\ OwnNames /\ WalletInv /\ [Next]_idVars => WalletInv'
<1> SUFFICES ASSUME RegInv, OwnNames, WalletInv, [Next]_idVars
             PROVE  WalletInv'
  OBVIOUS
<1>1. Overtaken' => "overtaken" \in races'
  <2>1. CASE UNCHANGED idVars
    BY <2>1 DEF idVars, Overtaken, WalletInv
  <2>2. CASE Next
    BY <2>2 DEF Next, Open, Labelled
  <2>3. QED
    BY <2>1, <2>2
<1>2. QED
  BY <1>1, WalletStoredStep, UnknownRemovedStep DEF WalletInv

\* The wallet is empty at first.
LEMMA InitWallet == Init => WalletInv
  BY IdentityAssumption
  DEF Init, WalletInv, Overtaken, WalletIsStored, UnknownIsRemoved, IdentityAssumption

\* The certificate in the wallet is that of a user who is still stored, or an
\* unregister of the user is about to remove it, unless a login or lookup was
\* overtaken by a deletion, a call failed, or a registration and an
\* unregistration overlapped; the end of the process is no exception.
THEOREM WalletsAreCurrent == Spec => []WalletIsCurrent
<1> DEFINE I == RegInv /\ OwnNames /\ WalletInv
<1>1. I => WalletIsCurrent
  BY DEF WalletInv, WalletIsCurrent, Punctual, WalletIsStored
<1>2. I /\ [Next]_idVars => I'
  BY RegStep, OwnStep, WalletStep DEF RegInv
<1>3. Init => I
  BY InitReg, InitOwn, InitWallet
<1>4. QED
  BY <1>1, <1>2, <1>3, PTL DEF Spec
==================================================================================
