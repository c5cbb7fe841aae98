--------------------------- MODULE MCAccessControl ---------------------------
(* AccessControl with an administrator by wildcard and a user whose grants are listed. *)
EXTENDS AccessControl, TLC

MCUids == {"root", "ann"}
MCGids == {"admins", "ops"}
MCRoleIds == {"r0", "r1", "r2"}
MCBindIds == {"b0", "b1", "b2"}
MCRoleNames == {"Admin", "scope", "other"}
MCBindNames == {"RootAdminAccess", "bound"}
MCGroupNames == {"admins", "ops"}
MCProviders == {"local"}
MCGroupName == "admins" :> "admins" @@ "ops" :> "ops"
MCSeedUsers == "root" :> {"admins"} @@ "ann" :> {"ops"}

MCRole(name, resource, ids, access, builtin) ==
    [name |-> name, resource |-> resource, ids |-> ids, access |-> access, builtin |-> builtin]
MCBind(name, role, roleName, group, builtin) ==
    [name |-> name, role |-> role, roleName |-> roleName, group |-> group, provider |-> "local", builtin |-> builtin]

MCSeedRoles == "r0" :> MCRole("Admin", "*", <<"*">>, "write", TRUE)
               @@ "r1" :> MCRole("scope", "roles", <<"scope">>, "write", FALSE)
MCSeedBinds == "b0" :> MCBind("RootAdminAccess", "r0", "Admin", "admins", TRUE)
               @@ "b1" :> MCBind("bound", "r1", "scope", "ops", FALSE)

MCObjects == "tasks" :> {"t"} @@ "jobs" :> {"t"} @@ "runners" :> {}

MCBody(id, name, resource, ids, access) ==
    [id |-> id, name |-> name, resource |-> resource, ids |-> ids, access |-> access]
MCRoleBodies == {MCBody(Blank, "other", "tasks", <<"t">>, "read"), MCBody(Blank, "scope", "roles", <<"scope">>, "none"),
                 MCBody(Blank, "scope", "roles", <<"r1">>, "write"), MCBody("r1", "other", "roles", <<>>, "write")}
MCBindBodies == {[id |-> Blank, name |-> "bound", roleName |-> "scope", kind |-> "groups",
                  groupName |-> "ops", provider |-> "local"]}
MCUses == {<<"tasks", "t", "read">>}
MCPaths == {"r1", "scope", "b1", "bound"}
MCOps == AllOps
CONSTANTS q1, q2
MCRequests == {q1, q2}
MCSymmetry == Permutations(MCRequests)
=============================================================================
