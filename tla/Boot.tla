-------------------------------- MODULE Boot --------------------------------
(***************************************************************************)
(* The start-up of kriten: connecting to Postgres (main.go) and seeding    *)
(* the builtin rows (InitDB in config/db.go), statement by statement, with *)
(* crashes and failing statements in between, followed by the API traffic  *)
(* that reaches the same tables once the server listens.                   *)
(*                                                                         *)
(* Every statement of InitDB commits on its own and nearly every error is  *)
(* ignored, so that the question is what a crash, a restart or a failing   *)
(* statement leaves behind, and whether root ends up an administrator.     *)
(***************************************************************************)
EXTENDS Sequences, Rows

CONSTANTS UserIds,      \* uuids of users; as "ORDER BY <primary key>" orders them
          GroupIds,     \* uuids of groups
          RoleIds,      \* uuids of roles
          MaxCrashes,   \* bound on process crashes
          MaxFaults     \* bound on statements that fail with a database error

ASSUME IdsAssumption ==
    UserIds \subseteq Nat \ {0} /\ GroupIds \subseteq Nat \ {0} /\ RoleIds \subseteq Nat \ {0}
ASSUME BoundsAssumption == MaxCrashes \in Nat /\ MaxFaults \in Nat

Tables == {"users", "groups", "roles", "role_bindings"}

(* The CREATE RULE statements, in the order InitDB executes them. *)
RuleOrder == <<
    <<"del", "users">>,  <<"upd", "users">>,  <<"del", "groups">>, <<"upd", "groups">>,
    <<"del", "roles">>,  <<"upd", "roles">>,  <<"del", "role_bindings">>, <<"upd", "role_bindings">> >>

AllRules == {"del", "upd"} \X Tables

VARIABLES
    users,      \* table users:  id -> [builtin, groups]; the builtin row is root
    groups,     \* table groups: id -> [builtin, users];  the builtin row is Admin
    roles,      \* table roles:  id -> [name, builtin, all]; all: resource "*", access "write"
    binding,    \* the role_bindings row named RootAdminAccess: a set of at most one row
    rules,      \* the rewrite rules installed in Postgres
    pc,         \* the statement InitDB executes next; "down" and "serving" around it
    mem,        \* InitDB's variables: the IDs of root, adminRole, adminGroup, and the next rule
    crashes, faults

tables == <<users, groups, roles, binding, rules>>
vars   == <<users, groups, roles, binding, rules, pc, mem, crashes, faults>>

UserRow   == [builtin : BOOLEAN, groups : SUBSET (GroupIds \cup {NoId})]
GroupRow  == [builtin : BOOLEAN, users : SUBSET (UserIds \cup {NoId})]
RoleRow   == [name : {"Admin", "WriteAll", "custom"}, builtin : BOOLEAN, all : BOOLEAN]
BindRow   == [role : RoleIds \cup {NoId}, subject : GroupIds \cup {NoId}]
Mem       == [root : UserIds \cup {NoId}, role : RoleIds \cup {NoId},
              group : GroupIds \cup {NoId}, rule : 1..9]

NoMem == [root |-> NoId, role |-> NoId, group |-> NoId, rule |-> 1]

BootPCs == {"firstUser", "assignUser", "adminRole", "adminGroup", "linkRoot",
            "bindRoot", "builtinRoles", "createRules"}

(* Mutant: the upd rules do not hold. *)
UpdateWithoutRule(rows, table, id, col, val) ==
    IF id \in DOMAIN rows THEN [rows EXCEPT ![id][col] = val] ELSE rows

(* UPDATE ... SET: no effect on a missing row, nor on a builtin row once the
   upd rule of its table is installed. *)
Update(rows, table, id, col, val) ==
    IF id \in DOMAIN rows /\ ~ (rows[id].builtin /\ <<"upd", table>> \in rules)
    THEN [rows EXCEPT ![id][col] = val]
    ELSE rows

Delete(rows, table, id) ==
    IF id \in DOMAIN rows /\ ~ (rows[id].builtin /\ <<"del", table>> \in rules)
    THEN Without(rows, id)
    ELSE rows

(* Login finds root, GetUserRoles joins its groups to role_bindings and roles,
   and IsAutorised grants everything to a role on resource "*". *)
AdminChain ==
    \E u \in DOMAIN users, b \in binding :
        /\ users[u].builtin
        /\ b.subject \in users[u].groups
        /\ b.role \in DOMAIN roles /\ roles[b.role].all

-----------------------------------------------------------------------------
Init ==
    /\ users = EmptyTable /\ groups = EmptyTable /\ roles = EmptyTable
    /\ binding = {} /\ rules = {}
    /\ pc = "down" /\ mem = NoMem
    /\ crashes = 0 /\ faults = 0

Ok    == faults' = faults
Fault == faults < MaxFaults /\ faults' = faults + 1

(* init() retries gorm.Open every 30 seconds; AutoMigrate then creates the tables. *)
Connect ==
    /\ pc = "down" /\ pc' = "firstUser"
    /\ UNCHANGED <<users, groups, roles, binding, rules, mem, crashes, faults>>

(* db.FirstOrCreate(&root): no condition is given, so that with rows in the
   table "root" is whichever user comes first. *)
FirstUser ==
    /\ pc = "firstUser" /\ pc' = "assignUser"
    /\ \/ /\ Ok /\ DOMAIN users = {}
          /\ \E u \in UserIds :
                /\ users' = Insert(users, u, [builtin |-> TRUE, groups |-> {}])
                /\ mem' = [mem EXCEPT !.root = u]
       \/ /\ Ok /\ DOMAIN users # {}
          /\ mem' = [mem EXCEPT !.root = FirstId(users)]
          /\ UNCHANGED users
       \/ Fault /\ UNCHANGED <<users, mem>>
    /\ UNCHANGED <<groups, roles, binding, rules, crashes>>

(* db.Where(&root).Assign(&root).FirstOrCreate(&models.User{}): a no-op when
   root was loaded. When the previous statement failed root has no ID: the row
   is matched by name and empty groups, or created, but its ID is lost. On an
   error InitDB returns and the server starts with what is there. *)
AssignUser ==
    LET matches == \E u \in DOMAIN users : users[u].builtin /\ users[u].groups = {}
        named   == \E u \in DOMAIN users : users[u].builtin
    IN
    /\ pc = "assignUser"
    /\ \/ Ok /\ (mem.root # NoId \/ matches) /\ pc' = "adminRole" /\ UNCHANGED users
       \/ /\ Ok /\ mem.root = NoId /\ ~ named /\ pc' = "adminRole"
          /\ \E u \in UserIds \ DOMAIN users :
                users' = Insert(users, u, [builtin |-> TRUE, groups |-> {}])
       \/ Ok /\ mem.root = NoId /\ named /\ ~ matches /\ pc' = "serving" /\ UNCHANGED users
       \/ Fault /\ pc' = "serving" /\ UNCHANGED users
    /\ UNCHANGED <<groups, roles, binding, rules, mem, crashes>>

(* db.FirstOrCreate(&adminRole) *)
AdminRole ==
    /\ pc = "adminRole" /\ pc' = "adminGroup"
    /\ \/ /\ Ok /\ DOMAIN roles = {}
          /\ \E r \in RoleIds :
                /\ roles' = Insert(roles, r, [name |-> "Admin", builtin |-> TRUE, all |-> TRUE])
                /\ mem' = [mem EXCEPT !.role = r]
       \/ /\ Ok /\ DOMAIN roles # {}
          /\ mem' = [mem EXCEPT !.role = FirstId(roles)]
          /\ UNCHANGED roles
       \/ Fault /\ UNCHANGED <<roles, mem>>
    /\ UNCHANGED <<users, groups, binding, rules, crashes>>

(* Mutant: InitDB links root only when it has just created the Admin group. *)
AdminGroupLinkingOnlyNew ==
    /\ pc = "adminGroup"
    /\ \/ /\ Ok /\ DOMAIN groups = {} /\ pc' = "linkRoot"
          /\ \E g \in GroupIds :
                /\ groups' = Insert(groups, g, [builtin |-> TRUE, users |-> {mem.root}])
                /\ mem' = [mem EXCEPT !.group = g]
       \/ /\ Ok /\ DOMAIN groups # {} /\ pc' = "bindRoot"
          /\ mem' = [mem EXCEPT !.group = FirstId(groups)]
          /\ UNCHANGED groups
       \/ Fault /\ pc' = "linkRoot" /\ UNCHANGED <<groups, mem>>
    /\ UNCHANGED <<users, roles, binding, rules, crashes>>

(* db.FirstOrCreate(&adminGroup), whose Users is the ID in memory. *)
AdminGroup ==
    /\ pc = "adminGroup" /\ pc' = "linkRoot"
    /\ \/ /\ Ok /\ DOMAIN groups = {}
          /\ \E g \in GroupIds :
                /\ groups' = Insert(groups, g, [builtin |-> TRUE, users |-> {mem.root}])
                /\ mem' = [mem EXCEPT !.group = g]
       \/ /\ Ok /\ DOMAIN groups # {}
          /\ mem' = [mem EXCEPT !.group = FirstId(groups)]
          /\ UNCHANGED groups
       \/ Fault /\ UNCHANGED <<groups, mem>>
    /\ UNCHANGED <<users, roles, binding, rules, crashes>>

(* Mutant: the list is filled with the wrong ID. *)
LinkRootToItself ==
    /\ pc = "linkRoot" /\ pc' = "bindRoot"
    /\ \/ Ok /\ users' = Update(users, "users", mem.root, "groups", {mem.root})
       \/ Fault /\ UNCHANGED users
    /\ UNCHANGED <<groups, roles, binding, rules, mem, crashes>>

(* root.Groups = {adminGroup.ID}; db.Updates(&root): overwrites the whole list,
   and is refused without an ID. *)
LinkRoot ==
    /\ pc = "linkRoot" /\ pc' = "bindRoot"
    /\ \/ Ok /\ users' = Update(users, "users", mem.root, "groups", {mem.group})
       \/ Fault /\ UNCHANGED users
    /\ UNCHANGED <<groups, roles, binding, rules, mem, crashes>>

(* Mutant: the binding is written with an upsert. *)
BindRootUpserting ==
    /\ pc = "bindRoot" /\ pc' = "builtinRoles"
    /\ \/ Ok /\ binding' = {[role |-> mem.role, subject |-> mem.group]}
       \/ Fault /\ UNCHANGED binding
    /\ UNCHANGED <<users, groups, roles, rules, mem, crashes>>

(* db.Create(&adminRoleBindings): the name is unique, a second insert fails. *)
BindRoot ==
    /\ pc = "bindRoot" /\ pc' = "builtinRoles"
    /\ \/ /\ Ok
          /\ binding' = IF binding = {} THEN {[role |-> mem.role, subject |-> mem.group]}
                                        ELSE binding
       \/ Fault /\ UNCHANGED binding
    /\ UNCHANGED <<users, groups, roles, rules, mem, crashes>>

(* db.Create(&builtinRoles): one insert of six rows with unique names, which one
   row stands for here. *)
BuiltinRoles ==
    LET exist == \E r \in DOMAIN roles : roles[r].name = "WriteAll"
    IN
    /\ pc = "builtinRoles" /\ pc' = "createRules"
    /\ \/ /\ Ok /\ ~ exist
          /\ \E r \in RoleIds \ DOMAIN roles :
                roles' = Insert(roles, r, [name |-> "WriteAll", builtin |-> TRUE, all |-> FALSE])
       \/ Ok /\ exist /\ UNCHANGED roles
       \/ Fault /\ UNCHANGED roles
    /\ UNCHANGED <<users, groups, binding, rules, mem, crashes>>

(* Mutant: the loop over the rules stops at the first error. *)
CreateRuleStopping ==
    /\ pc = "createRules"
    /\ \/ Ok /\ RuleOrder[mem.rule] \notin rules /\ rules' = rules \cup {RuleOrder[mem.rule]}
    /\ mem' = [mem EXCEPT !.rule = @ + 1]
    /\ pc' = IF mem.rule = Len(RuleOrder) THEN "serving" ELSE "createRules"
    /\ UNCHANGED <<users, groups, roles, binding, crashes>>

(* One db.Exec("CREATE RULE ..."); "already exists" is ignored like any error. *)
CreateRule ==
    /\ pc = "createRules"
    /\ \/ Ok /\ rules' = rules \cup {RuleOrder[mem.rule]}
       \/ Fault /\ UNCHANGED rules
    /\ mem' = [mem EXCEPT !.rule = @ + 1]
    /\ pc' = IF mem.rule = Len(RuleOrder) THEN "serving" ELSE "createRules"
    /\ UNCHANGED <<users, groups, roles, binding, crashes>>

(* The process dies; its memory is lost and it is started again. *)
Crash ==
    /\ pc # "down" /\ crashes < MaxCrashes
    /\ pc' = "down" /\ mem' = NoMem /\ crashes' = crashes + 1
    /\ UNCHANGED <<users, groups, roles, binding, rules, faults>>

-----------------------------------------------------------------------------
(* The API once the server listens. A login through Active Directory needs no
   rights and provisions a user; every other write here is authorised through a
   role, and the first user to hold one is root. A handler's effect on a table
   is one statement (the handlers themselves are in Membership). Ids of deleted
   rows may be drawn again: only their order matters in this module. The API
   leaves a spare id where InitDB may still need one, a bound of the model.  *)
SpareId(ids, rows) == \E i, j \in ids \ DOMAIN rows : i # j

Provision(u) ==
    /\ u \notin DOMAIN users /\ (SpareId(UserIds, users) \/ \E v \in DOMAIN users : users[v].builtin)
    /\ users' = Insert(users, u, [builtin |-> FALSE, groups |-> {}])
    /\ UNCHANGED <<groups, roles, binding, rules>>

WriteUsers ==
    /\ \E u \in UserIds, G \in {{}} \cup {{g} : g \in GroupIds} :
          \/ u \notin DOMAIN users /\ users' = Insert(users, u, [builtin |-> FALSE, groups |-> G])
          \/ users' = Update(users, "users", u, "groups", G)
          \/ u \in DOMAIN users /\ users[u].groups = {} /\ users' = Delete(users, "users", u)
    /\ UNCHANGED <<groups, roles, binding, rules>>

WriteGroups ==
    /\ \E g \in GroupIds, u \in UserIds :
          \/ g \notin DOMAIN groups /\ groups' = Insert(groups, g, [builtin |-> FALSE, users |-> {}])
          \/ groups' = Update(groups, "groups", g, "users", {u})
          \/ g \in DOMAIN groups /\ groups[g].users = {} /\ groups' = Delete(groups, "groups", g)
    /\ UNCHANGED <<users, roles, binding, rules>>

WriteRoles ==
    /\ \E r \in RoleIds, all \in BOOLEAN :
          \/ /\ r \notin DOMAIN roles /\ SpareId(RoleIds, roles)
             /\ roles' = Insert(roles, r, [name |-> "custom", builtin |-> FALSE, all |-> all])
          \/ roles' = Update(roles, "roles", r, "all", all)
          \/ r \in DOMAIN roles /\ ~ roles[r].builtin /\ roles' = Delete(roles, "roles", r)
    /\ UNCHANGED <<users, groups, binding, rules>>

(* UpdateRoleBinding on RootAdminAccess; DeleteRoleBinding refuses a builtin row. *)
WriteBinding ==
    /\ \E r \in DOMAIN roles, g \in DOMAIN groups :
          binding' = IF binding = {} \/ <<"upd", "role_bindings">> \in rules THEN binding
                     ELSE {[role |-> r, subject |-> g]}
    /\ UNCHANGED <<users, groups, roles, rules>>

Api ==
    /\ pc = "serving"
    /\ \/ \E u \in UserIds : Provision(u)
       \/ AdminChain /\ (WriteUsers \/ WriteGroups \/ WriteRoles \/ WriteBinding)
    /\ UNCHANGED <<pc, mem, crashes, faults>>

BootStep ==
    \/ Connect \/ FirstUser \/ AssignUser \/ AdminRole \/ AdminGroup
    \/ LinkRoot \/ BindRoot \/ BuiltinRoles \/ CreateRule

Next == BootStep \/ Crash \/ Api

Spec == Init /\ [][Next]_vars

(* InitDB is straight-line code: it keeps executing until it returns or the
   process dies. *)
FairSpec == Spec /\ WF_vars(BootStep)

-----------------------------------------------------------------------------
TypeOK ==
    /\ DOMAIN users \subseteq UserIds /\ users \in [DOMAIN users -> UserRow]
    /\ DOMAIN groups \subseteq GroupIds /\ groups \in [DOMAIN groups -> GroupRow]
    /\ DOMAIN roles \subseteq RoleIds /\ roles \in [DOMAIN roles -> RoleRow]
    /\ binding \in SUBSET BindRow
    /\ rules \in SUBSET AllRules
    /\ pc \in BootPCs \cup {"down", "serving"}
    /\ mem \in Mem
    /\ crashes \in 0..MaxCrashes /\ faults \in 0..MaxFaults

(* Root's administrator access is in place and every row it rests on is behind
   the rules that keep builtin rows from being changed or deleted. *)
Sealed ==
    /\ AllRules \subseteq rules
    /\ \E u \in DOMAIN users, b \in binding :
          /\ binding = {b}
          /\ users[u].builtin /\ b.subject \in users[u].groups
          /\ b.role \in DOMAIN roles /\ roles[b.role].builtin /\ roles[b.role].all

(* Whatever crashes interrupted earlier starts, a server that listens and never
   met a failing statement gives root its administrator access: the order of
   InitDB's statements makes every prefix of it resumable. *)
ServedMeansSealed == pc = "serving" /\ faults = 0 => Sealed

(* Once root's access is sealed no restart, crash, failing statement or API
   write takes it away, although a restart runs InitDB again and loads other
   rows as "root", "Admin" role and "Admin" group. *)
SealedForever == [][Sealed => Sealed']_vars

(* What a restart of a sealed installation may write: at most the first user of
   the table, when it is not builtin, loses its groups for one group. Groups, the
   RootAdminAccess binding and existing roles are left alone. (Sealed with no
   group at all: the insert of Admin failed, and root is bound by the zero uuid.) *)
RestartFootprint ==
    [][Sealed /\ BootStep =>
         /\ DOMAIN groups # {} => groups' = groups
         /\ binding' = binding
         /\ \A r \in DOMAIN roles : r \in DOMAIN roles' /\ roles'[r] = roles[r]
         /\ DOMAIN users' = DOMAIN users
         /\ \A u \in DOMAIN users :
              users'[u] # users[u] =>
                 /\ ~ users[u].builtin /\ u = FirstId(users)
                 /\ \E g \in DOMAIN groups \cup {NoId} :
                       users'[u].groups = {g} /\ (g # NoId => g = FirstId(groups))]_vars

(* Without failing statements Boot implements AdminAccess: granted is Sealed, and
   it becomes true no later than the step in which the server starts to listen. *)
Access == INSTANCE AdminAccess WITH granted <- Sealed, listening <- pc = "serving"
ImplementsAdminAccess == Access!Spec

(* A start always ends: the server listens, whatever statements failed. *)
EventuallyServing == <>[](pc = "serving")

(* Without failing statements root ends up an administrator for good. *)
EventuallySealed == <>(faults > 0) \/ <>[]Sealed
=============================================================================
