------------------------------ MODULE MCIdentity ------------------------------
(***************************************************************************)
(* One user, registered and unregistered twice, and the administrator, who *)
(* can log in again after a restart.                                       *)
(***************************************************************************)
EXTENDS Identity, TLC

CONSTANTS user, reg1, reg2, unreg1, unreg2, login1, login2, logout, tenant,
          admin1, admin2

MCKind == [r \in Requests |->
            CASE r \in {reg1, reg2}                       -> "register"
              [] r \in {unreg1, unreg2}                   -> "unregister"
              [] r \in {login1, login2, admin1, admin2}   -> "login"
              [] r = logout                               -> "logout"
              [] r = tenant                               -> "tenant"]

MCOf == [r \in Requests |-> IF r \in {admin1, admin2} THEN Admin ELSE user]

Registers   == {reg1, reg2}
Unregisters == {unreg1, unreg2}
Logins      == {login1, login2}
Admins      == {admin1, admin2}

\* Registrations and unregistrations that overlap, with restarts; logins and
\* lookups beside them; tokens that are handed back.  Requests of one kind are
\* interchangeable, and so are the sessions with one or the other.
MCSessions ==
  {Admins \cup Registers \cup Unregisters}
  \cup {{a, u, l, tenant} \cup Registers :
          a \in Admins, u \in Unregisters, l \in Logins}
  \cup {{a, r, tenant} \cup Unregisters \cup Logins : a \in Admins, r \in Registers}
  \cup {{a, r, logout, tenant} \cup Logins : a \in Admins, r \in Registers}

Symmetry == Permutations(Registers) \cup Permutations(Unregisters)
            \cup Permutations(Logins) \cup Permutations(Admins)
===============================================================================
