----------------------------- MODULE AccessControl -----------------------------
(***************************************************************************)
(* Roles, role bindings and the authorisation of requests:                  *)
(* services/roles_svc.go, role_bindings_svc.go, GetUserRoles of             *)
(* users_svc.go, IsAutorised and GetAuthorizationList of auth_svc.go, the   *)
(* authorisation middleware, and controllers/roles.go, role_bindings.go.    *)
(*                                                                          *)
(* Every request is decided by two queries, and the role handlers then run  *)
(* several statements without a transaction. One action is one statement.   *)
(* A path id is a name on some routes and a uuid on others; both are        *)
(* strings, and a lookup compares with whichever column the code names.     *)
(***************************************************************************)
EXTENDS Rows, Sequences, SequencesExt

CONSTANTS
    Uids, Gids, RoleIds, BindIds,   \* uuids
    RoleNames, BindNames, GroupNames, Providers,
    GroupName,     \* group -> its name, which is not updatable
    RootId, AdminId,   \* the builtin user and group
    SeedUsers,     \* user -> its groups
    SeedRoles, SeedBinds,
    Objects,       \* "runners", "tasks", "jobs" -> names CheckRole accepts for them
    RoleBodies, BindBodies,   \* bodies of the writing routes
    Uses,          \* what the routes of other controllers ask: <<resource, id, access>>
    Ops, Paths,    \* the operations and the path ids clients use
    Requests, MaxRequests, MaxChanges

All   == "*"
Blank == "blank"   \* the empty string, of a field that is not filled
Resources == {"runners", "tasks", "jobs", "users", "roles", "role_bindings"}
Accesses  == {"read", "write"}

(* Resource_IDs is a list, of which IsAutorised looks at the first element. *)
RoleRow == [name : RoleNames, resource : STRING, ids : Seq(STRING), access : STRING, builtin : BOOLEAN]
BindRow == [name : BindNames, role : RoleIds, roleName : RoleNames, group : Gids,
            provider : Providers, builtin : BOOLEAN]

(* A body may carry the id of the row to create. *)
RoleBody == [id : RoleIds \cup {Blank}, name : RoleNames, resource : STRING, ids : Seq(STRING), access : STRING]
BindBody == [id : BindIds \cup {Blank}, name : BindNames, roleName : RoleNames, kind : STRING, groupName : GroupNames,
             provider : STRING]

ASSUME NamesAssumption == RoleIds \cap RoleNames = {} /\ BindIds \cap BindNames = {}
ASSUME GroupNameAssumption == GroupName \in [Gids -> GroupNames]
ASSUME BodiesAssumption == RoleBodies \subseteq RoleBody /\ BindBodies \subseteq BindBody
ASSUME ObjectsAssumption == DOMAIN Objects \cap {"users", "roles", "role_bindings"} = {}
ASSUME UsesAssumption == Uses \subseteq Resources \X STRING \X Accesses
ASSUME SeedsAssumption ==
    /\ RootId \in DOMAIN SeedUsers /\ AdminId \in Gids
    /\ DOMAIN SeedUsers \subseteq Uids /\ SeedUsers \in [DOMAIN SeedUsers -> SUBSET Gids]
    /\ DOMAIN SeedRoles \subseteq RoleIds /\ SeedRoles \in [DOMAIN SeedRoles -> RoleRow]
    /\ DOMAIN SeedBinds \subseteq BindIds /\ SeedBinds \in [DOMAIN SeedBinds -> BindRow]
    /\ \A b \in DOMAIN SeedBinds :
          /\ SeedBinds[b].role \in DOMAIN SeedRoles
          /\ SeedRoles[SeedBinds[b].role].name = SeedBinds[b].roleName
    /\ \A i, j \in DOMAIN SeedRoles : SeedRoles[i].name = SeedRoles[j].name => i = j
    /\ \A i \in DOMAIN SeedRoles : SeedRoles[i].resource = "roles" =>
          SeedRoles[i].ids = <<All>> \/ ToSet(SeedRoles[i].ids) \subseteq RoleNames

VARIABLES
    users,     \* id -> groups column
    groups,    \* ids of the rows of table groups
    roles, binds,
    used,      \* ids of roles and bindings so far: gen_random_uuid() does not repeat one
    given,     \* those of them that a body chose
    req,       \* the local variables of each request
    moments,   \* the groups each undecided caller has been in since it asked
    work

vars == <<users, groups, roles, binds, used, given, req, moments, work>>

WriteOps == {"createRole", "updateRole", "deleteRole", "createBinding", "updateBinding", "deleteBinding"}
ListOps  == {"listRoles", "listBindings"}
AllOps   == WriteOps \cup ListOps \cup {"getRole", "getBinding", "use"}

NoRole == [id |-> Blank, name |-> Blank, resource |-> Blank, ids |-> <<>>, access |-> Blank]
NoBind == [id |-> Blank, name |-> Blank, roleName |-> Blank, kind |-> Blank, groupName |-> Blank, provider |-> Blank]

NoAuth == [user |-> Blank, provider |-> Blank, resource |-> Blank, id |-> Blank, access |-> Blank]

Idle == [pc |-> "idle", op |-> "none", auth |-> NoAuth,
         groups |-> {}, roleBody |-> NoRole, bindBody |-> NoBind, todo |-> <<>>,
         role |-> Blank, bind |-> Blank, group |-> Blank, list |-> {}, verdict |-> "none", answer |-> "none"]

Init ==
    /\ users = SeedUsers /\ groups = Gids
    /\ roles = SeedRoles /\ binds = SeedBinds
    /\ used = DOMAIN SeedRoles \cup DOMAIN SeedBinds /\ given = {}
    /\ req = [r \in Requests |-> Idle]
    /\ moments = [r \in Requests |-> {}]
    /\ work = [requests |-> 0, changes |-> 0]

Used(kind, max) == work[kind] < max /\ work' = [work EXCEPT ![kind] = @ + 1]

-----------------------------------------------------------------------------
(* IsAutorised, the test of one role. && binds closer than ||: a role on resource
   "*" covers every question, whatever its ids and access. *)
Covers(role, q) ==
    \/ role.resource = All
    \/ /\ role.resource = q.resource
       /\ \/ role.ids # <<>> /\ Head(role.ids) = All
          \/ \E i \in DOMAIN role.ids : role.ids[i] = q.id
       /\ role.access \in {q.access, "write"}

(* GetUserRoles, the query: roles bound to one of the groups for the provider of
   the credential. *)
BoundRoles(gs, provider) ==
    {roles[i] : i \in {j \in DOMAIN roles :
        \E b \in DOMAIN binds : /\ binds[b].role = j /\ binds[b].group \in gs
                                /\ binds[b].provider = provider}}

(* GetAuthorizationList: in the order the query happened to return the roles. An
   empty Resource_IDs has no first element; gin recovers the panic. *)
AuthLists(gs, provider, resource) ==
    LET matching == {role \in BoundRoles(gs, provider) : role.resource \in {All, resource}}
        empty    == {role \in matching : role.ids = <<>>}
        star     == {role \in matching \ empty : Head(role.ids) = All}
    IN IF empty = {} /\ star = {}
       THEN {[ok |-> TRUE, ids |-> UNION {ToSet(role.ids) : role \in matching}]}
       ELSE (IF star = {} THEN {} ELSE {[ok |-> TRUE, ids |-> {All}]})
            \cup (IF empty = {} THEN {} ELSE {[ok |-> FALSE, ids |-> {}]})

-----------------------------------------------------------------------------
(* models.Authorization as the middleware fills it. *)
Authorization(user, provider, resource, id, access) ==
    [user |-> user, provider |-> provider, resource |-> resource, id |-> id, access |-> access]

(* The routes: what each asks, <<resource, id, access>>; without an id in the path it is "*". *)
RoleRoutes(op, id) ==
    CASE op = "createRole" -> <<"roles", All, "write">>
      [] op \in {"updateRole", "deleteRole"} -> <<"roles", id, "write">>
      [] op = "getRole" -> <<"roles", id, "read">>

BindingRoutes(op, id) ==
    CASE op = "createBinding" -> <<"role_bindings", All, "write">>
      [] op \in {"updateBinding", "deleteBinding"} -> <<"role_bindings", id, "write">>
      [] op = "getBinding" -> <<"role_bindings", id, "read">>

(* Operations with their path ids, and what they ask. *)
Asks ==
    {<<op, id, RoleRoutes(op, id)>> : op \in Ops \cap {"updateRole", "deleteRole", "getRole"},
                                      id \in Paths \cap (RoleIds \cup RoleNames)}
    \cup {<<op, id, BindingRoutes(op, id)>> :
              op \in Ops \cap {"updateBinding", "deleteBinding", "getBinding"},
              id \in Paths \cap (BindIds \cup BindNames)}
    \cup {<<op, All, RoleRoutes(op, All)>> : op \in Ops \cap {"createRole"}}
    \cup {<<op, All, BindingRoutes(op, All)>> : op \in Ops \cap {"createBinding"}}
    \cup {<<"use", u[2], u>> : u \in Uses}

Undecided(q) == q.pc \in {"getUser", "getRoles"} /\ q.op \notin ListOps

(* Bookkeeping of the model: what moments holds. *)
KeepMoments ==
    moments' = [r \in Requests |->
        IF Undecided(req'[r])
        THEN (IF Undecided(req[r]) THEN moments[r] ELSE {})
             \cup {users'[u] : u \in {req'[r].auth.user} \cap DOMAIN users'}
        ELSE {}]

Goto(r, pc) == req' = [req EXCEPT ![r].pc = pc]

Answer(r, answer) == req' = [req EXCEPT ![r] = [Idle EXCEPT !.answer = answer]]

(* The request ends with the verdict of the middleware. *)
Turned(r, verdict, answer) ==
    req' = [req EXCEPT ![r] = [Idle EXCEPT !.verdict = verdict, !.answer = answer]]

-----------------------------------------------------------------------------
(* A request reaches the middleware with the identity its credential gave it. *)
Begin(r) ==
    /\ req[r].pc = "idle"
    /\ Used("requests", MaxRequests)
    /\ \E user \in Uids, provider \in Providers :
          \/ \E ask \in Asks :
                req' = [req EXCEPT ![r] = [Idle EXCEPT !.pc = "getUser", !.op = ask[1],
                    !.auth = Authorization(user, provider, ask[3][1], ask[3][2], ask[3][3])]]
          \/ \E op \in Ops \cap ListOps :
                req' = [req EXCEPT ![r] = [Idle EXCEPT !.pc = "getUser", !.op = op,
                    !.auth = Authorization(user, provider,
                               IF op = "listRoles" THEN "roles" ELSE "role_bindings", All, "read")]]
    /\ UNCHANGED <<users, groups, roles, binds, used, given>>
    /\ KeepMoments

(* GetUserRoles, its first query; an unknown user is an internal error. *)
GetUser(r) ==
    LET u == req[r].auth.user IN
    /\ req[r].pc = "getUser"
    /\ IF u \in DOMAIN users
       THEN req' = [req EXCEPT ![r].pc = "getRoles", ![r].groups = users[u]]
       ELSE Turned(r, IF req[r].op \in ListOps THEN "none" ELSE "error", "error")
    /\ UNCHANGED <<users, groups, roles, binds, used, given, work>>
    /\ KeepMoments

(* The handlers, up to their first statement. *)
Proceed(r, pc, roleBody, bindBody) ==
    req' = [req EXCEPT ![r].pc = pc, ![r].verdict = "pass", ![r].groups = {},
                       ![r].roleBody = roleBody, ![r].bindBody = bindBody, ![r].todo = roleBody.ids]

Refuse(r) == Turned(r, "pass", "badRequest")

CreateRole(r) ==
    \E b \in RoleBodies :
        IF b.resource \in Resources /\ b.access \in Accesses
        THEN Proceed(r, IF b.ids = <<>> THEN "insertRole" ELSE "checkRole", b, NoBind)
        ELSE Refuse(r)

(* Mutant: the path id is not parsed. *)
UpdateRoleUnparsed(r) ==
    \E b \in RoleBodies : Proceed(r, IF b.ids = <<>> THEN "putRole" ELSE "checkRole", b, NoBind)

(* The resource and the access of the body are not looked at. *)
UpdateRole(r) ==
    \E b \in RoleBodies :
        IF req[r].auth.id \in RoleIds
        THEN Proceed(r, IF b.ids = <<>> THEN "putRole" ELSE "checkRole", b, NoBind)
        ELSE Refuse(r)

DeleteRole(r) == Proceed(r, "listBinds", NoRole, NoBind)
GetRole(r)    == Proceed(r, "findRole", NoRole, NoBind)

CreateRoleBinding(r) ==
    \E b \in BindBodies :
        IF b.kind = "groups" /\ b.provider \in Providers
        THEN Proceed(r, "findRole", NoRole, b)
        ELSE Refuse(r)

UpdateRoleBinding(r) ==
    \E b \in BindBodies :
        IF b.kind = "groups" /\ b.provider \in Providers /\ req[r].auth.id \in BindIds
        THEN Proceed(r, "findRole", NoRole, b)
        ELSE Refuse(r)

DeleteRoleBinding(r) == Proceed(r, "findBind", NoRole, NoBind)
GetRoleBinding(r)    == Proceed(r, "findBind", NoRole, NoBind)

Handle(r) ==
    \/ req[r].op = "createRole" /\ CreateRole(r)
    \/ req[r].op = "updateRole" /\ UpdateRole(r)
    \/ req[r].op = "deleteRole" /\ DeleteRole(r)
    \/ req[r].op = "getRole" /\ GetRole(r)
    \/ req[r].op = "createBinding" /\ CreateRoleBinding(r)
    \/ req[r].op = "updateBinding" /\ UpdateRoleBinding(r)
    \/ req[r].op = "deleteBinding" /\ DeleteRoleBinding(r)
    \/ req[r].op = "getBinding" /\ GetRoleBinding(r)
    \/ req[r].op = "use" /\ Turned(r, "pass", "ok")

(* Mutant: a role of any access answers a question to read or write. *)
IsAutorisedForReading(r) ==
    \E role \in BoundRoles(req[r].groups, req[r].auth.provider) :
        Covers(role, [req[r].auth EXCEPT !.access = role.access])

IsAutorised(r) ==
    \E role \in BoundRoles(req[r].groups, req[r].auth.provider) : Covers(role, req[r].auth)

(* AuthorizationMiddleware: the second query of GetUserRoles, and the decision. *)
Decide(r) ==
    /\ req[r].pc = "getRoles" /\ req[r].op \notin ListOps
    /\ \/ IsAutorised(r) /\ Handle(r)
       \/ ~ IsAutorised(r) /\ Turned(r, "deny", "forbidden")
    /\ UNCHANGED <<users, groups, roles, binds, used, given, work>>
    /\ KeepMoments

(* SetAuthorizationListMiddleware *)
SetAuthorizationList(r) ==
    /\ req[r].pc = "getRoles" /\ req[r].op \in ListOps
    /\ \E out \in AuthLists(req[r].groups, req[r].auth.provider, req[r].auth.resource) :
          \/ out.ok /\ req' = [req EXCEPT ![r].pc = "list", ![r].groups = {}, ![r].list = out.ids]
          \/ ~ out.ok /\ Answer(r, "panic")
    /\ UNCHANGED <<users, groups, roles, binds, used, given, work>>
    /\ KeepMoments

(* ListRoles and ListRoleBindings compare the list with the primary key: Postgres
   refuses an element that is not a uuid. *)
List(r) ==
    /\ req[r].pc = "list"
    /\ Answer(r, IF All \in req[r].list \/ req[r].list \subseteq RoleIds \cup BindIds THEN "ok" ELSE "error")
    /\ UNCHANGED <<users, groups, roles, binds, used, given, work>>
    /\ KeepMoments

-----------------------------------------------------------------------------
(* Mutant: a role is looked for by its uuid. *)
ExistsById(resource, id) ==
    CASE resource = "users" -> id \in DOMAIN users
      [] resource = "roles" -> id \in DOMAIN roles
      [] OTHER -> TRUE

(* Each Resource_ID of a body must exist: a user by uuid, a role or binding by
   name, anything else as a ConfigMap. *)
Exists(resource, id) ==
    CASE resource = "users" -> id \in DOMAIN users
      [] resource = "roles" -> \E i \in DOMAIN roles : roles[i].name = id
      [] resource = "role_bindings" -> \E b \in DOMAIN binds : binds[b].name = id
      [] resource \in DOMAIN Objects -> id \in Objects[resource]
      [] OTHER -> \E other \in DOMAIN Objects : id \in Objects[other]

CheckRole(r) ==
    LET body == req[r].roleBody
        rest == Tail(req[r].todo)
    IN
    /\ req[r].pc = "checkRole"
    /\ IF Exists(body.resource, Head(req[r].todo))
       THEN req' = [req EXCEPT ![r].todo = rest,
                               ![r].pc = IF rest # <<>> THEN "checkRole"
                                         ELSE IF req[r].op = "createRole" THEN "insertRole" ELSE "putRole"]
       ELSE Answer(r, "error")
    /\ UNCHANGED <<users, groups, roles, binds, used, given, work>>
    /\ KeepMoments

(* The id of a new row: the one in the body, or one that gen_random_uuid() draws. *)
Draw(ids, chosen) == IF chosen = Blank THEN ids \ used ELSE {chosen}

Record(i, chosen) ==
    /\ used' = used \cup {i}
    /\ given' = IF chosen = Blank THEN given ELSE given \cup {i}

(* db.Create; the primary key and the unique index on name refuse a second row. *)
Free(rows, i, name) == i \notin DOMAIN rows /\ \A j \in DOMAIN rows : rows[j].name # name

(* Mutant: ids are numbers that are given out again. *)
InsertRoleReusingIds(r) ==
    LET body == req[r].roleBody IN
    /\ req[r].pc = "insertRole"
    /\ \E i \in RoleIds :
          /\ Free(roles, i, body.name)
          /\ roles' = Insert(roles, i, [name |-> body.name, resource |-> body.resource,
                           ids |-> body.ids, access |-> body.access, builtin |-> FALSE])
          /\ used' = used \cup {i}
    /\ Answer(r, "ok")
    /\ UNCHANGED <<users, groups, binds, given, work>>
    /\ KeepMoments

InsertRole(r) ==
    LET body == req[r].roleBody IN
    /\ req[r].pc = "insertRole"
    /\ \E i \in Draw(RoleIds, body.id) :
          \/ /\ ~ Free(roles, i, body.name)
             /\ Answer(r, "error") /\ UNCHANGED <<roles, used, given>>
          \/ /\ Free(roles, i, body.name)
             /\ roles' = Insert(roles, i, [name |-> body.name, resource |-> body.resource,
                              ids |-> body.ids, access |-> body.access, builtin |-> FALSE])
             /\ Record(i, body.id) /\ Answer(r, "ok")
    /\ UNCHANGED <<users, groups, binds, work>>
    /\ KeepMoments

(* The rewrite rules turn a write of a builtin row into nothing. *)
Writable(rows, id) == id \in DOMAIN rows /\ ~ rows[id].builtin

(* Mutant: the name is updatable. *)
PutRoleRenaming(r) ==
    LET i    == req[r].auth.id
        body == req[r].roleBody
    IN
    /\ req[r].pc = "putRole"
    /\ roles' = IF Writable(roles, i)
                THEN [roles EXCEPT ![i] = [name |-> body.name, resource |-> body.resource,
                                           ids |-> body.ids, access |-> body.access, builtin |-> FALSE]]
                ELSE roles
    /\ Goto(r, "readBack")
    /\ UNCHANGED <<users, groups, binds, used, given, work>>
    /\ KeepMoments

(* db.Updates(role); the name is not updatable. *)
PutRole(r) ==
    LET i    == req[r].auth.id
        body == req[r].roleBody
    IN
    /\ req[r].pc = "putRole"
    /\ roles' = IF Writable(roles, i)
                THEN [roles EXCEPT ![i].resource = body.resource, ![i].ids = body.ids,
                                   ![i].access = body.access]
                ELSE roles
    /\ Goto(r, "readBack")
    /\ UNCHANGED <<users, groups, binds, used, given, work>>
    /\ KeepMoments

(* GetRole or GetRoleBinding of the uuid, which they look for among the names. *)
ReadBack(r) ==
    LET id == req[r].auth.id IN
    /\ req[r].pc = "readBack"
    /\ Answer(r, IF \/ req[r].op = "updateRole" /\ \E i \in DOMAIN roles : roles[i].name = id
                    \/ req[r].op = "updateBinding" /\ \E b \in DOMAIN binds : binds[b].name = id
                 THEN "ok" ELSE "error")
    /\ UNCHANGED <<users, groups, roles, binds, used, given, work>>
    /\ KeepMoments

(* DeleteRole: is a binding's role_id the path id? *)
ListBinds(r) ==
    /\ req[r].pc = "listBinds"
    /\ IF \E b \in DOMAIN binds : binds[b].role = req[r].auth.id
       THEN Answer(r, "bound") ELSE Goto(r, "findRole")
    /\ UNCHANGED <<users, groups, roles, binds, used, given, work>>
    /\ KeepMoments

(* Mutant: DeleteRole finds the role by its uuid. *)
FindRoleById(r) ==
    /\ req[r].pc = "findRole"
    /\ IF req[r].op = "deleteRole" /\ req[r].auth.id \in DOMAIN roles
       THEN req' = [req EXCEPT ![r].pc = "dropRole", ![r].role = req[r].auth.id]
       ELSE Answer(r, "error")
    /\ UNCHANGED <<users, groups, roles, binds, used, given, work>>
    /\ KeepMoments

(* GetRole, by name: of the path, or of the body of a binding. *)
FindRole(r) ==
    LET name == IF req[r].op \in {"getRole", "deleteRole"} THEN req[r].auth.id ELSE req[r].bindBody.roleName
    IN
    /\ req[r].pc = "findRole"
    /\ \/ /\ \A i \in DOMAIN roles : roles[i].name # name
          /\ Answer(r, "error")
       \/ \E i \in DOMAIN roles :
             /\ roles[i].name = name
             /\ \/ req[r].op = "getRole" /\ Answer(r, "ok")
                \/ req[r].op = "deleteRole" /\ roles[i].builtin /\ Answer(r, "error")
                \/ /\ req[r].op = "deleteRole" /\ ~ roles[i].builtin
                   /\ req' = [req EXCEPT ![r].pc = "dropRole", ![r].role = i]
                \/ /\ req[r].op \in {"createBinding", "updateBinding"}
                   /\ req' = [req EXCEPT ![r].pc = "findGroup", ![r].role = i]
    /\ UNCHANGED <<users, groups, roles, binds, used, given, work>>
    /\ KeepMoments

DropRole(r) ==
    /\ req[r].pc = "dropRole"
    /\ roles' = IF Writable(roles, req[r].role) THEN Without(roles, req[r].role) ELSE roles
    /\ Answer(r, "ok")
    /\ UNCHANGED <<users, groups, binds, used, given, work>>
    /\ KeepMoments

-----------------------------------------------------------------------------
(* CheckRoleBinding, after the role: GetGroup by name. *)
FindGroup(r) ==
    /\ req[r].pc = "findGroup"
    /\ \/ /\ \A g \in groups : GroupName[g] # req[r].bindBody.groupName
          /\ Answer(r, "error")
       \/ \E g \in groups :
             /\ GroupName[g] = req[r].bindBody.groupName
             /\ req' = [req EXCEPT ![r].group = g,
                          ![r].pc = IF req[r].op = "createBinding" THEN "insertBind" ELSE "putBind"]
    /\ UNCHANGED <<users, groups, roles, binds, used, given, work>>
    /\ KeepMoments

InsertBind(r) ==
    LET body == req[r].bindBody IN
    /\ req[r].pc = "insertBind"
    /\ \E b \in Draw(BindIds, body.id) :
          \/ /\ ~ Free(binds, b, body.name)
             /\ Answer(r, "error") /\ UNCHANGED <<binds, used, given>>
          \/ /\ Free(binds, b, body.name)
             /\ binds' = Insert(binds, b, [name |-> body.name, role |-> req[r].role,
                              roleName |-> body.roleName, group |-> req[r].group,
                              provider |-> body.provider, builtin |-> FALSE])
             /\ Record(b, body.id) /\ Answer(r, "ok")
    /\ UNCHANGED <<users, groups, roles, work>>
    /\ KeepMoments

(* db.Updates(roleBinding); the name is not updatable. *)
PutBind(r) ==
    LET b    == req[r].auth.id
        body == req[r].bindBody
    IN
    /\ req[r].pc = "putBind"
    /\ binds' = IF Writable(binds, b)
                THEN [binds EXCEPT ![b].role = req[r].role, ![b].roleName = body.roleName,
                                   ![b].group = req[r].group, ![b].provider = body.provider]
                ELSE binds
    /\ Goto(r, "readBack")
    /\ UNCHANGED <<users, groups, roles, used, given, work>>
    /\ KeepMoments

(* GetRoleBinding, by name. *)
FindBind(r) ==
    /\ req[r].pc = "findBind"
    /\ \/ /\ \A b \in DOMAIN binds : binds[b].name # req[r].auth.id
          /\ Answer(r, "error")
       \/ \E b \in DOMAIN binds :
             /\ binds[b].name = req[r].auth.id
             /\ \/ req[r].op = "getBinding" /\ Answer(r, "ok")
                \/ req[r].op = "deleteBinding" /\ binds[b].builtin /\ Answer(r, "error")
                \/ /\ req[r].op = "deleteBinding" /\ ~ binds[b].builtin
                   /\ req' = [req EXCEPT ![r].pc = "dropBind", ![r].bind = b]
    /\ UNCHANGED <<users, groups, roles, binds, used, given, work>>
    /\ KeepMoments

DropBind(r) ==
    /\ req[r].pc = "dropBind"
    /\ binds' = IF Writable(binds, req[r].bind) THEN Without(binds, req[r].bind) ELSE binds
    /\ Answer(r, "ok")
    /\ UNCHANGED <<users, groups, roles, used, given, work>>
    /\ KeepMoments

-----------------------------------------------------------------------------
(* Users and groups change under the handlers of Membership, one row at a time. *)
ChangeUser ==
    /\ Used("changes", MaxChanges)
    /\ \E u \in DOMAIN users \ {RootId} :
          \/ \E g \in Gids : users' = [users EXCEPT ![u] = IF g \in @ THEN @ \ {g} ELSE @ \cup {g}]
          \/ users' = Without(users, u)
    /\ UNCHANGED <<groups, roles, binds, used, given, req>>
    /\ KeepMoments

DropGroup ==
    /\ Used("changes", MaxChanges)
    /\ \E g \in groups \ {AdminId} : groups' = groups \ {g}
    /\ UNCHANGED <<users, roles, binds, used, given, req>>
    /\ KeepMoments

Statement(r) ==
    \/ Begin(r) \/ GetUser(r) \/ Decide(r) \/ SetAuthorizationList(r) \/ List(r)
    \/ CheckRole(r) \/ InsertRole(r) \/ PutRole(r) \/ ReadBack(r)
    \/ ListBinds(r) \/ FindRole(r) \/ DropRole(r)
    \/ FindGroup(r) \/ InsertBind(r) \/ PutBind(r) \/ FindBind(r) \/ DropBind(r)

Next == (\E r \in Requests : Statement(r)) \/ ChangeUser \/ DropGroup

Spec == Init /\ [][Next]_vars

-----------------------------------------------------------------------------
PCs == {"idle", "getUser", "getRoles", "list", "checkRole", "insertRole", "putRole", "readBack",
        "listBinds", "findRole", "dropRole", "findGroup", "insertBind", "putBind", "findBind", "dropBind"}

(* Types, with what each position of a handler has found. *)
TypeOK ==
    /\ users \in [DOMAIN users -> SUBSET Gids] /\ DOMAIN users \subseteq Uids
    /\ groups \subseteq Gids
    /\ DOMAIN roles \subseteq used \cap RoleIds /\ DOMAIN binds \subseteq used \cap BindIds
    /\ \A i \in DOMAIN roles : roles[i] \in RoleRow
    /\ \A b \in DOMAIN binds : binds[b] \in BindRow
    /\ \A r \in Requests :
          /\ req[r].pc \in PCs /\ req[r].op \in AllOps \cup {"none"}
          /\ req[r].pc \in {"findGroup", "insertBind", "putBind", "dropRole"} => req[r].role \in used \cap RoleIds
          /\ req[r].pc \in {"insertBind", "putBind"} => req[r].group \in Gids
          /\ req[r].pc = "dropBind" => req[r].bind \in used \cap BindIds
          /\ req[r].pc \in {"putRole", "putBind"} => req[r].auth.id \in RoleIds \cup BindIds

(* A binding carries the id and the name of its role, found together but written in a
   later statement than the lookup: while the role exists, and no body chose its id, the two
   name the same one (role_bindings_svc.go, CheckRoleBinding against Create and Updates). *)
BindingNamesItsRole ==
    \A b \in DOMAIN binds :
        binds[b].role \in DOMAIN roles \ given => roles[binds[b].role].name = binds[b].roleName

Dangling(b) == binds[b].role \notin DOMAIN roles

(* DeleteRole removes a role that is bound (its check compares role_id with a name). A
   binding left that way grants nothing again, not even when a role of the same name
   is created, until the binding itself is written or a body brings back the role's id. *)
DanglingStays ==
    [][\A b \in DOMAIN binds \cap DOMAIN binds' :
          Dangling(b) /\ binds'[b] = binds[b] =>
              Dangling(b)' \/ binds[b].role \in given']_vars

MayWrite(id, resource) ==
    \E r \in Requests : /\ req[r].verdict = "pass" /\ req[r].auth.access = "write"
                       /\ req[r].auth.resource = resource /\ req[r].auth.id = id

Rightly(rows, next, resource) ==
    \A i \in DOMAIN rows :
        /\ i \notin DOMAIN next => (MayWrite(rows[i].name, resource) \/ i \in given) /\ ~ rows[i].builtin
        /\ i \in DOMAIN next /\ next[i] # rows[i] => MayWrite(i, resource) /\ ~ rows[i].builtin

(* The middleware authorises a path id before any row is known, and the handlers then
   find their row by name or by uuid: a row is changed only under the uuid, and removed
   only under the name, that some request was authorised for, and never a builtin one;
   but a row whose id a body chose is removed for a row that had the id before. *)
WritesWhatWasAuthorised ==
    [][Rightly(roles, roles', "roles") /\ Rightly(binds, binds', "role_bindings")]_vars

ByWildcard(r) ==
    \E role \in BoundRoles(req[r].groups, req[r].auth.provider) :
        role.resource = All \/ (role.ids # <<>> /\ Head(role.ids) = All)

(* CheckRole admits names to the scope of a role on roles, and UpdateRole is asked for
   with a uuid: a caller whose grants list roles one by one can read and delete them
   but never passes for an update, whatever is created, renamed or bound meanwhile. *)
UpdatesNeedWildcard ==
    [][\A r \in Requests :
          req[r].pc = "getRoles" /\ req[r].op = "updateRole" /\ req'[r].pc \in {"checkRole", "putRole"} =>
              ByWildcard(r)]_vars

Questions ==
    {Authorization(u, p, ask[3][1], ask[3][2], ask[3][3]) : u \in Uids, p \in Providers, ask \in Asks}

Entitlement(b) == [provider |-> binds[b].provider, role |-> roles[binds[b].role]]
Entitles(e, q) == e.provider = q.provider /\ Covers(e.role, q)

Grants ==
    [g \in Gids |-> {Entitlement(b) : b \in {c \in DOMAIN binds :
                        binds[c].group = g /\ binds[c].role \in DOMAIN roles}}]
Asked ==
    [r \in Requests |->
        IF Undecided(req[r])
        THEN [state |-> "open", question |-> req[r].auth, seen |-> moments[r]]
        ELSE [state |-> req[r].verdict]]

Promise == INSTANCE Authorised WITH
    Questions <- Questions, Covers <- Entitles, member <- users, grants <- Grants, asked <- Asked

(* The two queries of a decision, with users, groups, roles and bindings changing
   around and between them, promise what Authorised says. *)
ImplementsAuthorised == Promise!Spec
=============================================================================
