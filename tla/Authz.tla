------------------------------- MODULE Authz -------------------------------
(***************************************************************************)
(* The permission tables that service/thread.go registers in init() and    *)
(* the check the handlers make against them.  The check itself belongs to  *)
(* go.alis.build/iam/v3, an external library; it is modelled from how the  *)
(* handlers use it: a permission of the open role holds for every caller,  *)
(* any other one needs a role bound to the caller by the thread's policy,  *)
(* and system identities, which ListThreads exempts from its membership    *)
(* filter, hold every permission.                                          *)
(*                                                                         *)
(* The only policy this code ever writes binds roles/thread.admin to the   *)
(* caller whose append created the thread, so a policy is represented by   *)
(* the set of its admins and roles/thread.viewer is never bound.           *)
(***************************************************************************)
CONSTANTS
  Callers,        \* identities an RPC can carry
  UserCallers,    \* those of type iam.User with a non-empty id
  SystemCallers   \* those for which IsSystem() holds

ASSUME CallersAssumption ==
  /\ UserCallers \subseteq Callers
  /\ SystemCallers \subseteq Callers

OpenPermissions ==
  {"ListThreads", "AppendThreadEvent", "GetUserThreadState",
   "UpdateUserThreadState"}

ViewerPermissions == {"GetThread"}

AdminPermissions == ViewerPermissions \cup {"ListThreadEvents", "DeleteThread"}

HasPermission(caller, permission, admins) ==
  \/ caller \in SystemCallers
  \/ permission \in OpenPermissions
  \/ caller \in admins /\ permission \in AdminPermissions
=============================================================================
