------------------------------- MODULE Permissions -------------------------------
(***************************************************************************)
(* Role-based access: the dictionary of                                    *)
(* src/src/common/constants/permissions.constant.ts and the decision of    *)
(* PermissionsGuard (src/src/modules/identity/auth/guards/policies.guard.ts). *)
(*                                                                         *)
(* A permission "module:action" is the pair <<module, action>>.  Roles are *)
(* rows of the table roles, so an administrator can make more of them than *)
(* the two system roles the dictionary knows.                              *)
(***************************************************************************)
EXTENDS Naturals, Sequences

\* user.activeRole of a user without a role.
NoRole == "null"

CRUD == {"create", "read", "update", "delete"}
R == {"read"}

ROLE_PERMISSIONS ==
  [admin |-> [users |-> CRUD, products |-> CRUD, auditLogs |-> R, roles |-> R],
   user  |-> [products |-> R]]

HasPermission(role, module, action) ==
  /\ role \in DOMAIN ROLE_PERMISSIONS
  /\ module \in DOMAIN ROLE_PERMISSIONS[role]
  /\ action \in ROLE_PERMISSIONS[role][module]

\* canActivate: every required permission, except that an admin has them all.
Permitted(role, required) ==
  \/ required = {}
  \/ /\ role # NoRole
     /\ role = "admin" \/ \A p \in required : HasPermission(role, p[1], p[2])
================================================================================
