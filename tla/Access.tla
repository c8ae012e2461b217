------------------------------- MODULE Access -------------------------------
(***************************************************************************)
(* Who may do what (auth/auth.go).  An identity is a record [user, token,  *)
(* roles]: token is None for a console session, and for the others the     *)
(* token's record [user, scopes, tenant, expires]; roles gives the role of *)
(* the user in every tenant, 0 for none.  A request without an identity is *)
(* Anonymous.                                                              *)
(***************************************************************************)
EXTENDS Naturals

CONSTANTS Tenants, Admins, None, Anonymous

RoleReader == 1
RoleWriter == 2
RoleTenantAdmin == 3

HasTokenScope(id, scope) == id.token # None /\ scope \in id.token.scopes

TokenAllowsTenant(id, t) == id.token.tenant \in {None, t}

IsSystemAdmin(id) ==
    /\ id # Anonymous
    /\ id.user \in Admins
    /\ id.token = None \/ HasTokenScope(id, "admin")

\* CanRead and CanWrite differ in the scopes and the role they ask for.
Can(id, t, scopes, role) ==
    /\ id # Anonymous
    /\ \/ IsSystemAdmin(id)
       \/ /\ id.token = None \/ (/\ TokenAllowsTenant(id, t)
                                 /\ \E s \in scopes : HasTokenScope(id, s))
          /\ id.roles[t] >= role
CanRead(id, t) == Can(id, t, {"read", "write"}, RoleReader)
CanWrite(id, t) == Can(id, t, {"write"}, RoleWriter)

RequireRead(id, t, public) == t \in public \/ CanRead(id, t)
RequireWrite(id, t) == CanWrite(id, t)
=============================================================================
