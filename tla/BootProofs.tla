------------------------------ MODULE BootProofs ------------------------------
(***************************************************************************)
(* What the start-up promises for every set of ids, and any number of       *)
(* crashes and failing statements: root's access, once sealed, is there for *)
(* good; without failing statements nothing is served before it is sealed,  *)
(* and Boot implements AdminAccess.                                         *)
(***************************************************************************)
EXTENDS Boot, TLAPS, WellFoundedInduction, NaturalsInduction

(* The first row of a table exists: ids are natural numbers. *)
LEMMA FirstIdExists ==
    ASSUME NEW rows, DOMAIN rows \subseteq Nat, DOMAIN rows # {}
    PROVE  FirstId(rows) \in DOMAIN rows /\ \A i \in DOMAIN rows : FirstId(rows) =< i
<1> DEFINE Less == OpToRel(<, Nat)
<1>1. Less = {p \in Nat \X Nat : p[1] < p[2]}
  BY Zenon DEF OpToRel
<1>2. IsWellFoundedOn(Less, Nat)
  BY NatLessThanWellFounded
<1>3. \E x \in DOMAIN rows : \A y \in DOMAIN rows : ~ (<<y, x>> \in Less)
  <2> HIDE DEF Less
  <2> QED BY <1>2, WFMin, Zenon
<1>4. \E x \in DOMAIN rows : \A y \in DOMAIN rows : x =< y
  <2> HIDE DEF Less
  <2>1. ASSUME NEW a \in Nat, NEW b \in Nat, ~ (<<a, b>> \in Less) PROVE b =< a
    BY <1>1, <2>1
  <2>2. PICK x \in DOMAIN rows : \A y \in DOMAIN rows : ~ (<<y, x>> \in Less)
    BY <1>3
  <2>3. \A y \in DOMAIN rows : x =< y
    BY <2>1, <2>2
  <2> QED BY <2>3
<1> QED
  BY <1>4 DEF FirstId, Min

LEMMA FirstIdOfOne ==
    ASSUME NEW rows, NEW i \in Nat, DOMAIN rows = {i}
    PROVE  FirstId(rows) = i
  BY FirstIdExists

(* The rule counter at each statement, and what the start has loaded. *)
RulesInOrder ==
    /\ pc \in BootPCs \cup {"down"} => mem.rule \in 1..8
    /\ pc \in (BootPCs \ {"createRules"}) \cup {"down"} => mem.rule = 1

NothingLoaded == pc = "down" => mem = NoMem

(* What InitDB takes for root and for Admin is the first row of its table. *)
FirstLoaded ==
    pc \in BootPCs =>
        /\ mem.root # NoId => DOMAIN users # {} /\ mem.root = FirstId(users)
        /\ mem.group # NoId => DOMAIN groups # {} /\ mem.group = FirstId(groups)

TypeInv == TypeOK /\ RulesInOrder /\ NothingLoaded /\ FirstLoaded

UsersTyped  == DOMAIN users \subseteq UserIds /\ users \in [DOMAIN users -> UserRow]
GroupsTyped == DOMAIN groups \subseteq GroupIds /\ groups \in [DOMAIN groups -> GroupRow]
RolesTyped  == DOMAIN roles \subseteq RoleIds /\ roles \in [DOMAIN roles -> RoleRow]

-----------------------------------------------------------------------------
(* The statements on one table: they keep the types, touch one row, and leave a builtin
   row alone once its rule is there. *)
LEMMA UpdateUsersTyped ==
    ASSUME UsersTyped, NEW u, NEW G \in SUBSET (GroupIds \cup {NoId}),
           users' = Update(users, "users", u, "groups", G)
    PROVE  /\ UsersTyped' /\ DOMAIN users' = DOMAIN users
           /\ \A v \in DOMAIN users : users'[v].builtin = users[v].builtin
           /\ \A v \in DOMAIN users : users'[v] # users[v] => v = u /\ users'[v].groups = G
  BY DEF UsersTyped, Update, UserRow

LEMMA UpdateGroupsTyped ==
    ASSUME GroupsTyped, NEW g, NEW U \in SUBSET (UserIds \cup {NoId}),
           groups' = Update(groups, "groups", g, "users", U)
    PROVE  GroupsTyped' /\ DOMAIN groups' = DOMAIN groups
  BY DEF GroupsTyped, Update, GroupRow

LEMMA UpdateRolesTyped ==
    ASSUME RolesTyped, NEW r, NEW all \in BOOLEAN,
           roles' = Update(roles, "roles", r, "all", all)
    PROVE  RolesTyped' /\ DOMAIN roles' = DOMAIN roles
  BY DEF RolesTyped, Update, RoleRow

LEMMA BuiltinUserStays ==
    ASSUME <<"upd", "users">> \in rules, <<"del", "users">> \in rules,
           NEW u \in DOMAIN users, users[u].builtin, NEW v, NEW G, NEW next,
           \/ next = Update(users, "users", v, "groups", G) \/ next = Delete(users, "users", v)
           \/ v \notin DOMAIN users /\ next = Insert(users, v, [builtin |-> FALSE, groups |-> G])
    PROVE  u \in DOMAIN next /\ next[u] = users[u]
  BY DEF Update, Delete, Insert, Without

LEMMA BuiltinRoleStays ==
    ASSUME <<"upd", "roles">> \in rules, <<"del", "roles">> \in rules,
           NEW r \in DOMAIN roles, roles[r].builtin, NEW v, NEW all, NEW row, NEW next,
           \/ next = Update(roles, "roles", v, "all", all) \/ next = Delete(roles, "roles", v)
           \/ v \notin DOMAIN roles /\ next = Insert(roles, v, row)
    PROVE  r \in DOMAIN next /\ next[r] = roles[r]
  BY DEF Update, Delete, Insert, Without

-----------------------------------------------------------------------------
LEMMA InitTypeInv == Init => TypeInv
<1> SUFFICES ASSUME Init PROVE TypeInv
  OBVIOUS
<1>1. TypeOK
  BY BoundsAssumption DEF Init, TypeOK, EmptyTable, NoMem, Mem
<1>2. RulesInOrder /\ NothingLoaded /\ FirstLoaded
  BY DEF Init, RulesInOrder, NothingLoaded, FirstLoaded, NoMem, BootPCs
<1> QED BY <1>1, <1>2 DEF TypeInv

LEMMA ConnectTypeInv == TypeInv /\ Connect => TypeInv'
<1> SUFFICES ASSUME TypeInv, Connect PROVE TypeInv'
  OBVIOUS
<1>1. TypeOK'
  BY DEF TypeInv, TypeOK, Connect, BootPCs
<1>2. RulesInOrder' /\ NothingLoaded' /\ FirstLoaded'
  BY DEF TypeInv, RulesInOrder, NothingLoaded, FirstLoaded, Connect, BootPCs, NoMem
<1> QED BY <1>1, <1>2 DEF TypeInv

LEMMA FaultTyped ==
    ASSUME faults \in 0..MaxFaults, Ok \/ Fault
    PROVE  faults' \in 0..MaxFaults
  BY BoundsAssumption DEF Ok, Fault

LEMMA FirstUserTypeInv == TypeInv /\ FirstUser => TypeInv'
<1> SUFFICES ASSUME TypeInv, FirstUser PROVE TypeInv'
  OBVIOUS
<1>0. UsersTyped /\ mem \in Mem /\ faults' \in 0..MaxFaults /\ pc = "firstUser" /\ pc' = "assignUser"
  BY FaultTyped DEF TypeInv, TypeOK, UsersTyped, FirstUser
<1>1. /\ UsersTyped' /\ mem' \in Mem /\ mem'.rule = mem.rule /\ mem'.group = mem.group
      /\ mem'.root # NoId => DOMAIN users' # {} /\ mem'.root = FirstId(users')
  <2>1. CASE DOMAIN users = {} /\ \E u \in UserIds :
                  /\ users' = Insert(users, u, [builtin |-> TRUE, groups |-> {}])
                  /\ mem' = [mem EXCEPT !.root = u]
    <3>1. PICK u \in UserIds : /\ users' = Insert(users, u, [builtin |-> TRUE, groups |-> {}])
                               /\ mem' = [mem EXCEPT !.root = u]
      BY <2>1
    <3>2. [builtin |-> TRUE, groups |-> {}] \in UserRow
      BY DEF UserRow
    <3>3. UsersTyped' /\ DOMAIN users' = {u}
      BY <1>0, <2>1, <3>1, <3>2 DEF UsersTyped, Insert
    <3>4. FirstId(users') = u
      BY <3>3, FirstIdOfOne, IdsAssumption
    <3>5. mem' \in Mem /\ mem'.rule = mem.rule /\ mem'.group = mem.group /\ mem'.root = u
      BY <1>0, <3>1 DEF Mem
    <3> QED BY <3>3, <3>4, <3>5
  <2>2. CASE DOMAIN users # {} /\ mem' = [mem EXCEPT !.root = FirstId(users)] /\ UNCHANGED users
    <3>1. FirstId(users) \in UserIds
      BY <1>0, <2>2, FirstIdExists, IdsAssumption DEF UsersTyped
    <3> QED BY <1>0, <2>2, <3>1 DEF Mem, UsersTyped
  <2>3. CASE UNCHANGED <<users, mem>>
    BY <1>0, <2>3 DEF UsersTyped, TypeInv, FirstLoaded, BootPCs
  <2> QED BY <2>1, <2>2, <2>3 DEF FirstUser
<1>2. TypeOK'
  BY <1>0, <1>1 DEF TypeInv, TypeOK, UsersTyped, FirstUser, BootPCs
<1>3. RulesInOrder' /\ NothingLoaded' /\ FirstLoaded'
  BY <1>0, <1>1 DEF TypeInv, RulesInOrder, NothingLoaded, FirstLoaded, FirstUser, BootPCs
<1> QED BY <1>2, <1>3 DEF TypeInv

LEMMA AssignUserTypeInv == TypeInv /\ AssignUser => TypeInv'
<1> SUFFICES ASSUME TypeInv, AssignUser PROVE TypeInv'
  OBVIOUS
<1>0. UsersTyped /\ mem' = mem /\ faults' \in 0..MaxFaults /\ pc = "assignUser" /\ pc' \in {"adminRole", "serving"}
  BY FaultTyped DEF TypeInv, TypeOK, UsersTyped, AssignUser
<1>1. UsersTyped' /\ (users' = users \/ mem.root = NoId)
  <2>1. CASE mem.root = NoId /\ \E u \in UserIds \ DOMAIN users :
                  users' = Insert(users, u, [builtin |-> TRUE, groups |-> {}])
    <3>1. [builtin |-> TRUE, groups |-> {}] \in UserRow
      BY DEF UserRow
    <3> QED BY <1>0, <2>1, <3>1 DEF UsersTyped, Insert
  <2>2. CASE users' = users
    BY <1>0, <2>2 DEF UsersTyped
  <2> QED BY <2>1, <2>2 DEF AssignUser
<1>2. TypeOK'
  BY <1>0, <1>1 DEF TypeInv, TypeOK, UsersTyped, AssignUser, BootPCs
<1>3. RulesInOrder' /\ NothingLoaded' /\ FirstLoaded'
  BY <1>0, <1>1 DEF TypeInv, RulesInOrder, NothingLoaded, FirstLoaded, AssignUser, BootPCs
<1> QED BY <1>2, <1>3 DEF TypeInv

LEMMA AdminRoleTypeInv == TypeInv /\ AdminRole => TypeInv'
<1> SUFFICES ASSUME TypeInv, AdminRole PROVE TypeInv'
  OBVIOUS
<1>0. RolesTyped /\ mem \in Mem /\ faults' \in 0..MaxFaults /\ pc = "adminRole" /\ pc' = "adminGroup"
  BY FaultTyped DEF TypeInv, TypeOK, RolesTyped, AdminRole
<1>1. RolesTyped' /\ mem' \in Mem /\ mem'.rule = mem.rule /\ mem'.group = mem.group /\ mem'.root = mem.root
  <2>1. CASE DOMAIN roles = {} /\ \E r \in RoleIds :
                  /\ roles' = Insert(roles, r, [name |-> "Admin", builtin |-> TRUE, all |-> TRUE])
                  /\ mem' = [mem EXCEPT !.role = r]
    <3>1. PICK r \in RoleIds :
             /\ roles' = Insert(roles, r, [name |-> "Admin", builtin |-> TRUE, all |-> TRUE])
             /\ mem' = [mem EXCEPT !.role = r]
      BY <2>1
    <3>2. [name |-> "Admin", builtin |-> TRUE, all |-> TRUE] \in RoleRow
      BY DEF RoleRow
    <3>3. RolesTyped'
      BY <1>0, <2>1, <3>1, <3>2 DEF RolesTyped, Insert
    <3> QED BY <1>0, <3>1, <3>3 DEF Mem
  <2>2. CASE DOMAIN roles # {} /\ mem' = [mem EXCEPT !.role = FirstId(roles)] /\ UNCHANGED roles
    <3>1. FirstId(roles) \in RoleIds
      BY <1>0, <2>2, FirstIdExists, IdsAssumption DEF RolesTyped
    <3> QED BY <1>0, <2>2, <3>1 DEF Mem, RolesTyped
  <2>3. CASE UNCHANGED <<roles, mem>>
    BY <1>0, <2>3 DEF RolesTyped
  <2> QED BY <2>1, <2>2, <2>3 DEF AdminRole
<1>2. TypeOK'
  BY <1>0, <1>1 DEF TypeInv, TypeOK, RolesTyped, AdminRole, BootPCs
<1>3. RulesInOrder' /\ NothingLoaded' /\ FirstLoaded'
  BY <1>0, <1>1 DEF TypeInv, RulesInOrder, NothingLoaded, FirstLoaded, AdminRole, BootPCs
<1> QED BY <1>2, <1>3 DEF TypeInv

LEMMA AdminGroupTypeInv == TypeInv /\ AdminGroup => TypeInv'
<1> SUFFICES ASSUME TypeInv, AdminGroup PROVE TypeInv'
  OBVIOUS
<1>0. GroupsTyped /\ mem \in Mem /\ faults' \in 0..MaxFaults /\ pc = "adminGroup" /\ pc' = "linkRoot"
  BY FaultTyped DEF TypeInv, TypeOK, GroupsTyped, AdminGroup
<1>1. /\ GroupsTyped' /\ mem' \in Mem /\ mem'.rule = mem.rule /\ mem'.root = mem.root
      /\ mem'.group # NoId => DOMAIN groups' # {} /\ mem'.group = FirstId(groups')
  <2>1. CASE DOMAIN groups = {} /\ \E g \in GroupIds :
                  /\ groups' = Insert(groups, g, [builtin |-> TRUE, users |-> {mem.root}])
                  /\ mem' = [mem EXCEPT !.group = g]
    <3>1. PICK g \in GroupIds :
             /\ groups' = Insert(groups, g, [builtin |-> TRUE, users |-> {mem.root}])
             /\ mem' = [mem EXCEPT !.group = g]
      BY <2>1
    <3>2. [builtin |-> TRUE, users |-> {mem.root}] \in GroupRow
      BY <1>0 DEF GroupRow, Mem
    <3>3. GroupsTyped' /\ DOMAIN groups' = {g}
      BY <1>0, <2>1, <3>1, <3>2 DEF GroupsTyped, Insert
    <3>4. FirstId(groups') = g
      BY <3>3, FirstIdOfOne, IdsAssumption
    <3>5. mem' \in Mem /\ mem'.rule = mem.rule /\ mem'.root = mem.root /\ mem'.group = g
      BY <1>0, <3>1 DEF Mem
    <3> QED BY <3>3, <3>4, <3>5
  <2>2. CASE DOMAIN groups # {} /\ mem' = [mem EXCEPT !.group = FirstId(groups)] /\ UNCHANGED groups
    <3>1. FirstId(groups) \in GroupIds
      BY <1>0, <2>2, FirstIdExists, IdsAssumption DEF GroupsTyped
    <3> QED BY <1>0, <2>2, <3>1 DEF Mem, GroupsTyped
  <2>3. CASE UNCHANGED <<groups, mem>>
    BY <1>0, <2>3 DEF GroupsTyped, TypeInv, FirstLoaded, BootPCs
  <2> QED BY <2>1, <2>2, <2>3 DEF AdminGroup
<1>2. TypeOK'
  BY <1>0, <1>1 DEF TypeInv, TypeOK, GroupsTyped, AdminGroup, BootPCs
<1>3. RulesInOrder' /\ NothingLoaded' /\ FirstLoaded'
  BY <1>0, <1>1 DEF TypeInv, RulesInOrder, NothingLoaded, FirstLoaded, AdminGroup, BootPCs
<1> QED BY <1>2, <1>3 DEF TypeInv

(* linkRoot writes one row at most: the one that mem.root names. *)
LEMMA LinkRootWrites ==
    ASSUME TypeInv, LinkRoot
    PROVE  /\ UsersTyped' /\ DOMAIN users' = DOMAIN users
           /\ \A v \in DOMAIN users : users'[v].builtin = users[v].builtin
           /\ \A v \in DOMAIN users : users'[v] # users[v] => v = mem.root /\ users'[v].groups = {mem.group}
<1>1. UsersTyped /\ {mem.group} \in SUBSET (GroupIds \cup {NoId})
  BY DEF TypeInv, TypeOK, UsersTyped, Mem
<1>2. CASE users' = Update(users, "users", mem.root, "groups", {mem.group})
  BY <1>1, <1>2, UpdateUsersTyped
<1>3. CASE users' = users
  BY <1>1, <1>3 DEF UsersTyped
<1> QED BY <1>2, <1>3 DEF LinkRoot

LEMMA LinkRootTypeInv == TypeInv /\ LinkRoot => TypeInv'
<1> SUFFICES ASSUME TypeInv, LinkRoot PROVE TypeInv'
  OBVIOUS
<1>0. faults' \in 0..MaxFaults /\ pc = "linkRoot" /\ pc' = "bindRoot" /\ mem' = mem /\ groups' = groups
  BY FaultTyped DEF TypeInv, TypeOK, LinkRoot
<1>1. TypeOK'
  BY <1>0, LinkRootWrites DEF TypeInv, TypeOK, UsersTyped, LinkRoot, BootPCs
<1>2. RulesInOrder' /\ NothingLoaded'
  BY <1>0 DEF TypeInv, RulesInOrder, NothingLoaded, BootPCs
<1>3. FirstLoaded'
  BY <1>0, LinkRootWrites DEF TypeInv, FirstLoaded, BootPCs, FirstId
<1> QED BY <1>1, <1>2, <1>3 DEF TypeInv

LEMMA BindRootTypeInv == TypeInv /\ BindRoot => TypeInv'
<1> SUFFICES ASSUME TypeInv, BindRoot PROVE TypeInv'
  OBVIOUS
<1>0. faults' \in 0..MaxFaults /\ pc = "bindRoot" /\ pc' = "builtinRoles" /\ mem' = mem /\ mem \in Mem
  BY FaultTyped DEF TypeInv, TypeOK, BindRoot
<1>1. binding' \in SUBSET BindRow
  BY <1>0 DEF TypeInv, TypeOK, BindRoot, BindRow, Mem
<1>2. TypeOK'
  BY <1>0, <1>1 DEF TypeInv, TypeOK, BindRoot, BootPCs
<1>3. RulesInOrder' /\ NothingLoaded' /\ FirstLoaded'
  BY <1>0 DEF TypeInv, RulesInOrder, NothingLoaded, FirstLoaded, BootPCs, BindRoot
<1> QED BY <1>2, <1>3 DEF TypeInv

LEMMA BuiltinRolesTypeInv == TypeInv /\ BuiltinRoles => TypeInv'
<1> SUFFICES ASSUME TypeInv, BuiltinRoles PROVE TypeInv'
  OBVIOUS
<1>0. RolesTyped /\ faults' \in 0..MaxFaults /\ pc = "builtinRoles" /\ pc' = "createRules" /\ mem' = mem
  BY FaultTyped DEF TypeInv, TypeOK, BuiltinRoles, RolesTyped
<1>1. RolesTyped'
  <2>1. [name |-> "WriteAll", builtin |-> TRUE, all |-> FALSE] \in RoleRow
    BY DEF RoleRow
  <2> QED BY <1>0, <2>1 DEF BuiltinRoles, RolesTyped, Insert
<1>2. TypeOK'
  BY <1>0, <1>1 DEF TypeInv, TypeOK, RolesTyped, BuiltinRoles, BootPCs
<1>3. RulesInOrder' /\ NothingLoaded' /\ FirstLoaded'
  BY <1>0 DEF TypeInv, RulesInOrder, NothingLoaded, FirstLoaded, BootPCs, BuiltinRoles
<1> QED BY <1>2, <1>3 DEF TypeInv

LEMMA RuleOrderTyped == Len(RuleOrder) = 8 /\ \A i \in 1..8 : RuleOrder[i] \in AllRules
  BY DEF RuleOrder, AllRules, Tables

LEMMA CreateRuleTypeInv == TypeInv /\ CreateRule => TypeInv'
<1> SUFFICES ASSUME TypeInv, CreateRule PROVE TypeInv'
  OBVIOUS
<1>0. /\ faults' \in 0..MaxFaults /\ pc = "createRules" /\ mem.rule \in 1..8 /\ mem \in Mem
      /\ mem' = [mem EXCEPT !.rule = @ + 1] /\ pc' = IF mem.rule = 8 THEN "serving" ELSE "createRules"
  BY FaultTyped, RuleOrderTyped DEF TypeInv, TypeOK, CreateRule, RulesInOrder, BootPCs
<1>1. rules' \in SUBSET AllRules
  BY <1>0, RuleOrderTyped DEF TypeInv, TypeOK, CreateRule
<1>2. mem' \in Mem /\ mem'.rule = mem.rule + 1 /\ mem'.root = mem.root /\ mem'.group = mem.group
  BY <1>0 DEF Mem
<1>3. TypeOK'
  BY <1>0, <1>1, <1>2 DEF TypeInv, TypeOK, CreateRule, BootPCs
<1>4. RulesInOrder' /\ NothingLoaded' /\ FirstLoaded'
  BY <1>0, <1>2 DEF TypeInv, RulesInOrder, NothingLoaded, FirstLoaded, BootPCs, CreateRule
<1> QED BY <1>3, <1>4 DEF TypeInv

LEMMA CrashTypeInv == TypeInv /\ Crash => TypeInv'
<1> SUFFICES ASSUME TypeInv, Crash PROVE TypeInv'
  OBVIOUS
<1>1. mem' \in Mem /\ mem'.rule = 1
  BY DEF Crash, NoMem, Mem
<1>2. TypeOK'
  BY <1>1, BoundsAssumption DEF TypeInv, TypeOK, Crash
<1>3. RulesInOrder' /\ NothingLoaded' /\ FirstLoaded'
  BY <1>1 DEF RulesInOrder, NothingLoaded, FirstLoaded, BootPCs, Crash
<1> QED BY <1>2, <1>3 DEF TypeInv

-----------------------------------------------------------------------------
(* The writes of the API. *)
LEMMA ProvisionTyped ==
    ASSUME UsersTyped, NEW u \in UserIds, NEW G \in SUBSET (GroupIds \cup {NoId}),
           users' = Insert(users, u, [builtin |-> FALSE, groups |-> G])
    PROVE  UsersTyped'
<1>1. [builtin |-> FALSE, groups |-> G] \in UserRow
  BY DEF UserRow
<1> QED BY <1>1 DEF UsersTyped, Insert

LEMMA WriteUsersTyped ==
    ASSUME TypeInv, WriteUsers
    PROVE  UsersTyped'
<1>0. UsersTyped
  BY DEF TypeInv, TypeOK, UsersTyped
<1>1. PICK u \in UserIds, G \in {{}} \cup {{g} : g \in GroupIds} :
          \/ u \notin DOMAIN users /\ users' = Insert(users, u, [builtin |-> FALSE, groups |-> G])
          \/ users' = Update(users, "users", u, "groups", G)
          \/ u \in DOMAIN users /\ users[u].groups = {} /\ users' = Delete(users, "users", u)
  BY DEF WriteUsers
<1>2. G \in SUBSET (GroupIds \cup {NoId})
  OBVIOUS
<1>3. CASE users' = Insert(users, u, [builtin |-> FALSE, groups |-> G])
  BY <1>0, <1>2, <1>3, ProvisionTyped
<1>4. CASE users' = Update(users, "users", u, "groups", G)
  BY <1>0, <1>2, <1>4, UpdateUsersTyped
<1>5. CASE users' = Delete(users, "users", u)
  BY <1>0, <1>5 DEF UsersTyped, Delete, Without
<1> QED BY <1>1, <1>3, <1>4, <1>5

LEMMA WriteGroupsTyped ==
    ASSUME TypeInv, WriteGroups
    PROVE  GroupsTyped'
<1>0. GroupsTyped
  BY DEF TypeInv, TypeOK, GroupsTyped
<1>1. PICK g \in GroupIds, u \in UserIds :
          \/ g \notin DOMAIN groups /\ groups' = Insert(groups, g, [builtin |-> FALSE, users |-> {}])
          \/ groups' = Update(groups, "groups", g, "users", {u})
          \/ g \in DOMAIN groups /\ groups[g].users = {} /\ groups' = Delete(groups, "groups", g)
  BY DEF WriteGroups
<1>2. [builtin |-> FALSE, users |-> {}] \in GroupRow
  BY DEF GroupRow
<1>3. CASE groups' = Insert(groups, g, [builtin |-> FALSE, users |-> {}])
  BY <1>0, <1>2, <1>3 DEF GroupsTyped, Insert
<1>4. CASE groups' = Update(groups, "groups", g, "users", {u})
  BY <1>0, <1>4, UpdateGroupsTyped
<1>5. CASE groups' = Delete(groups, "groups", g)
  BY <1>0, <1>5 DEF GroupsTyped, Delete, Without
<1> QED BY <1>1, <1>3, <1>4, <1>5

LEMMA WriteRolesTyped ==
    ASSUME TypeInv, WriteRoles
    PROVE  RolesTyped'
<1>0. RolesTyped
  BY DEF TypeInv, TypeOK, RolesTyped
<1>1. PICK r \in RoleIds, all \in BOOLEAN :
          \/ r \notin DOMAIN roles /\ roles' = Insert(roles, r, [name |-> "custom", builtin |-> FALSE, all |-> all])
          \/ roles' = Update(roles, "roles", r, "all", all)
          \/ r \in DOMAIN roles /\ ~ roles[r].builtin /\ roles' = Delete(roles, "roles", r)
  BY DEF WriteRoles
<1>2. [name |-> "custom", builtin |-> FALSE, all |-> all] \in RoleRow
  BY DEF RoleRow
<1>3. CASE roles' = Insert(roles, r, [name |-> "custom", builtin |-> FALSE, all |-> all])
  BY <1>0, <1>2, <1>3 DEF RolesTyped, Insert
<1>4. CASE roles' = Update(roles, "roles", r, "all", all)
  BY <1>0, <1>4, UpdateRolesTyped
<1>5. CASE roles' = Delete(roles, "roles", r)
  BY <1>0, <1>5 DEF RolesTyped, Delete, Without
<1> QED BY <1>1, <1>3, <1>4, <1>5

LEMMA ApiTypeInv == TypeInv /\ Api => TypeInv'
<1> SUFFICES ASSUME TypeInv, Api PROVE TypeInv'
  OBVIOUS
<1>0. /\ pc = "serving" /\ pc' = pc /\ mem' = mem /\ crashes' = crashes /\ faults' = faults
      /\ UsersTyped /\ GroupsTyped /\ RolesTyped
  BY DEF Api, TypeInv, TypeOK, UsersTyped, GroupsTyped, RolesTyped
<1>1. UsersTyped' /\ GroupsTyped' /\ RolesTyped' /\ binding' \in SUBSET BindRow /\ rules' = rules
  <2>1. CASE \E u \in UserIds : Provision(u)
    BY <1>0, <2>1, ProvisionTyped DEF Provision, TypeInv, TypeOK, GroupsTyped, RolesTyped
  <2>2. CASE WriteUsers
    BY <1>0, <2>2, WriteUsersTyped DEF WriteUsers, TypeInv, TypeOK, GroupsTyped, RolesTyped
  <2>3. CASE WriteGroups
    BY <1>0, <2>3, WriteGroupsTyped DEF WriteGroups, TypeInv, TypeOK, UsersTyped, RolesTyped
  <2>4. CASE WriteRoles
    BY <1>0, <2>4, WriteRolesTyped DEF WriteRoles, TypeInv, TypeOK, UsersTyped, GroupsTyped
  <2>5. CASE WriteBinding
    BY <1>0, <2>5 DEF WriteBinding, BindRow, TypeInv, TypeOK, UsersTyped, GroupsTyped, RolesTyped
  <2> QED BY <2>1, <2>2, <2>3, <2>4, <2>5 DEF Api
<1>2. TypeOK'
  BY <1>0, <1>1 DEF TypeInv, TypeOK, UsersTyped, GroupsTyped, RolesTyped
<1>3. RulesInOrder' /\ NothingLoaded' /\ FirstLoaded'
  BY <1>0 DEF RulesInOrder, NothingLoaded, FirstLoaded, BootPCs
<1> QED BY <1>2, <1>3 DEF TypeInv

LEMMA NextTypeInv == TypeInv /\ [Next]_vars => TypeInv'
<1> SUFFICES ASSUME TypeInv, [Next]_vars PROVE TypeInv'
  OBVIOUS
<1>1. CASE BootStep
  BY <1>1, ConnectTypeInv, FirstUserTypeInv, AssignUserTypeInv, AdminRoleTypeInv, AdminGroupTypeInv,
     LinkRootTypeInv, BindRootTypeInv, BuiltinRolesTypeInv, CreateRuleTypeInv DEF BootStep
<1>2. CASE UNCHANGED vars
  BY <1>2 DEF TypeInv, TypeOK, RulesInOrder, NothingLoaded, FirstLoaded, vars
<1> QED BY <1>1, <1>2, CrashTypeInv, ApiTypeInv DEF Next

(* Every table and every variable of InitDB keeps its type, however often the process
   crashes and whichever statements fail (InitDB, config/db.go, and the routes after it). *)
THEOREM TypeCorrect == Spec => []TypeOK
<1>1. Spec => []TypeInv
  BY InitTypeInv, NextTypeInv, PTL DEF Spec
<1>2. TypeInv => TypeOK
  BY DEF TypeInv
<1> QED BY <1>1, <1>2, PTL

-----------------------------------------------------------------------------
(* Access with its rows named: what every step must keep. *)
Seal(u, b) ==
    /\ AllRules \subseteq rules /\ binding = {b}
    /\ u \in DOMAIN users /\ users[u].builtin /\ b.subject \in users[u].groups
    /\ b.role \in DOMAIN roles /\ roles[b.role].builtin /\ roles[b.role].all

LEMMA SealIsSealed == Sealed <=> \E u, b : Seal(u, b)
  BY DEF Sealed, Seal

LEMMA UpdateRules == AllRules \subseteq rules =>
    /\ <<"upd", "users">> \in rules /\ <<"del", "users">> \in rules
    /\ <<"upd", "roles">> \in rules /\ <<"del", "roles">> \in rules
    /\ <<"upd", "role_bindings">> \in rules
  BY DEF AllRules, Tables

LEMMA BootKeepsSeal ==
    ASSUME TypeInv, NEW u, NEW b, Seal(u, b), BootStep
    PROVE  Seal(u, b)'
<1> USE DEF Seal
<1>0. AllRules \subseteq rules'
  BY DEF BootStep, Connect, FirstUser, AssignUser, AdminRole, AdminGroup, LinkRoot, BindRoot,
         BuiltinRoles, CreateRule
<1>1. binding' = binding
  BY DEF BootStep, Connect, FirstUser, AssignUser, AdminRole, AdminGroup, LinkRoot, BindRoot,
         BuiltinRoles, CreateRule
<1>2. u \in DOMAIN users' /\ users'[u] = users[u]
  <2>1. CASE FirstUser
    BY <2>1 DEF FirstUser
  <2>2. CASE AssignUser
    BY <2>2 DEF AssignUser, Insert
  <2>3. CASE LinkRoot
    BY <2>3, UpdateRules, BuiltinUserStays DEF LinkRoot
  <2> QED BY <2>1, <2>2, <2>3 DEF BootStep, Connect, AdminRole, AdminGroup, BindRoot, BuiltinRoles, CreateRule
<1>3. b.role \in DOMAIN roles' /\ roles'[b.role] = roles[b.role]
  <2>1. CASE AdminRole
    BY <2>1 DEF AdminRole
  <2>2. CASE BuiltinRoles
    BY <2>2 DEF BuiltinRoles, Insert
  <2> QED BY <2>1, <2>2 DEF BootStep, Connect, FirstUser, AssignUser, AdminGroup, LinkRoot, BindRoot, CreateRule
<1> QED BY <1>0, <1>1, <1>2, <1>3

LEMMA ApiKeepsSeal ==
    ASSUME TypeInv, NEW u, NEW b, Seal(u, b), Api
    PROVE  Seal(u, b)'
<1> USE DEF Seal
<1>0. rules' = rules
  BY DEF Api, Provision, WriteUsers, WriteGroups, WriteRoles, WriteBinding
<1>1. binding' = binding
  BY UpdateRules DEF Api, Provision, WriteUsers, WriteGroups, WriteRoles, WriteBinding
<1>2. u \in DOMAIN users' /\ users'[u] = users[u]
  <2>1. CASE \E v \in UserIds : Provision(v)
    BY <2>1 DEF Provision, Insert
  <2>2. CASE WriteUsers
    <3>1. PICK v \in UserIds, G \in {{}} \cup {{g} : g \in GroupIds} :
              \/ v \notin DOMAIN users /\ users' = Insert(users, v, [builtin |-> FALSE, groups |-> G])
              \/ users' = Update(users, "users", v, "groups", G)
              \/ users' = Delete(users, "users", v)
      BY <2>2 DEF WriteUsers
    <3> HIDE DEF Seal
    <3>2. u \in DOMAIN users /\ users[u].builtin /\ <<"upd", "users">> \in rules /\ <<"del", "users">> \in rules
      BY UpdateRules DEF Seal
    <3> QED BY <3>1, <3>2, BuiltinUserStays
  <2> QED BY <2>1, <2>2 DEF Api, WriteGroups, WriteRoles, WriteBinding
<1>3. b.role \in DOMAIN roles' /\ roles'[b.role] = roles[b.role]
  <2>1. CASE WriteRoles
    <3>1. PICK r \in RoleIds, all \in BOOLEAN :
              \/ /\ r \notin DOMAIN roles
                 /\ roles' = Insert(roles, r, [name |-> "custom", builtin |-> FALSE, all |-> all])
              \/ roles' = Update(roles, "roles", r, "all", all)
              \/ roles' = Delete(roles, "roles", r)
      BY <2>1 DEF WriteRoles
    <3> HIDE DEF Seal
    <3>2. /\ b.role \in DOMAIN roles /\ roles[b.role].builtin
          /\ <<"upd", "roles">> \in rules /\ <<"del", "roles">> \in rules
      BY UpdateRules DEF Seal
    <3> QED BY <3>1, <3>2, BuiltinRoleStays
  <2> QED BY <2>1 DEF Api, Provision, WriteUsers, WriteGroups, WriteBinding
<1> QED BY <1>0, <1>1, <1>2, <1>3

LEMMA NextKeepsSealed == TypeInv /\ Sealed /\ [Next]_vars => Sealed'
<1> SUFFICES ASSUME TypeInv, Sealed, [Next]_vars PROVE Sealed'
  OBVIOUS
<1>1. PICK u, b : Seal(u, b)
  BY SealIsSealed
<1>2. Seal(u, b)'
  <2>1. CASE Crash \/ UNCHANGED vars
    BY <1>1, <2>1 DEF Seal, Crash, vars
  <2> QED BY <1>1, <2>1, BootKeepsSeal, ApiKeepsSeal DEF Next
<1> QED BY <1>2 DEF Seal, Sealed

(* Once root's access is sealed no restart, crash, failing statement or write of the API
   takes it away: InitDB, run again, loads other rows as root and Admin, and the
   rewrite rules keep the builtin ones (config/db.go). *)
THEOREM SealIsForever == Spec => SealedForever
<1>1. Spec => []TypeInv
  BY InitTypeInv, NextTypeInv, PTL DEF Spec
<1>2. TypeInv /\ [Next]_vars => [Sealed => Sealed']_vars
  BY NextKeepsSealed
<1> QED BY <1>1, <1>2, PTL DEF Spec, SealedForever

-----------------------------------------------------------------------------
(* Without failing statements, until root's access is sealed: only InitDB has written,
   so that there is one user and one group, and roles that grant everything as long as
   nothing is bound. Rules are created last, the one of the binding after all others. *)
Linked == \E b \in binding, u \in DOMAIN users :
    binding = {b} /\ b.subject \in users[u].groups /\ b.role \in DOMAIN roles /\ roles[b.role].all

SeededOnly ==
    /\ \A u \in DOMAIN users : users[u].builtin /\ users[u].groups \subseteq DOMAIN groups
    /\ \A u, v \in DOMAIN users : u = v
    /\ \A g, h \in DOMAIN groups : g = h
    /\ \A r \in DOMAIN roles : roles[r].builtin /\ (binding = {} => roles[r].all)
    /\ binding # {} => Linked
    /\ rules # {} => binding # {}
    /\ <<"upd", "role_bindings">> \notin rules

(* How far a start has come. *)
Progress ==
    /\ pc # "serving"
    /\ pc \in BootPCs \ {"firstUser"} => mem.root \in DOMAIN users
    /\ pc \in BootPCs \ {"firstUser", "assignUser", "adminRole"} => mem.role \in DOMAIN roles
    /\ pc \in {"linkRoot", "bindRoot", "builtinRoles", "createRules"} => mem.group \in DOMAIN groups
    /\ pc \in {"bindRoot", "builtinRoles", "createRules"} => users[mem.root].groups = {mem.group}
    /\ pc \in {"builtinRoles", "createRules"} => binding # {}
    /\ pc = "createRules" => \A i \in 1 .. mem.rule - 1 : RuleOrder[i] \in rules

Resumable == SeededOnly /\ Progress

(* The inductive invariant behind ServedMeansSealed: every prefix of a start is either
   sealed or can be resumed. *)
BootInv == TypeInv /\ (faults = 0 => Sealed \/ Resumable)

LEMMA ConnectResumable == TypeInv /\ Resumable /\ Connect => Resumable'
  BY DEF TypeInv, NothingLoaded, Resumable, SeededOnly, Linked, Progress, Connect, BootPCs

LEMMA FirstUserResumable == TypeInv /\ Resumable /\ FirstUser /\ ~ Fault => Resumable'
<1> SUFFICES ASSUME TypeInv, Resumable, FirstUser, ~ Fault PROVE Resumable'
  OBVIOUS
<1>0. /\ pc = "firstUser" /\ pc' = "assignUser" /\ roles' = roles /\ groups' = groups
      /\ binding' = binding /\ rules' = rules /\ mem \in Mem /\ UsersTyped
  BY DEF FirstUser, TypeInv, TypeOK, UsersTyped
<1>1. CASE DOMAIN users = {}
  <2>1. PICK u \in UserIds : /\ users' = Insert(users, u, [builtin |-> TRUE, groups |-> {}])
                             /\ mem' = [mem EXCEPT !.root = u]
    BY <1>1 DEF FirstUser
  <2>2. DOMAIN users' = {u} /\ users'[u].builtin /\ users'[u].groups = {} /\ mem'.root = u
    BY <1>0, <1>1, <2>1 DEF Insert, Mem
  <2>3. binding = {} /\ rules = {}
    BY <1>1 DEF Resumable, SeededOnly, Linked
  <2> QED BY <1>0, <2>2, <2>3 DEF Resumable, SeededOnly, Progress, BootPCs
<1>2. CASE DOMAIN users # {}
  <2>1. users' = users /\ mem' = [mem EXCEPT !.root = FirstId(users)]
    BY <1>2 DEF FirstUser
  <2>2. mem'.root \in DOMAIN users
    BY <1>0, <1>2, <2>1, FirstIdExists, IdsAssumption DEF UsersTyped, Mem
  <2> QED BY <1>0, <2>1, <2>2 DEF Resumable, SeededOnly, Linked, Progress, BootPCs
<1> QED BY <1>1, <1>2

LEMMA AssignUserResumable == TypeInv /\ Resumable /\ AssignUser /\ ~ Fault => Resumable'
<1> SUFFICES ASSUME TypeInv, Resumable, AssignUser, ~ Fault PROVE Resumable'
  OBVIOUS
<1>1. mem.root \in DOMAIN users
  BY DEF AssignUser, Resumable, Progress, BootPCs
<1>2. mem.root # NoId
  BY <1>1, IdsAssumption DEF TypeInv, TypeOK, NoId
<1>3. pc' = "adminRole" /\ users' = users
  BY <1>2 DEF AssignUser
<1> QED BY <1>1, <1>3 DEF AssignUser, Resumable, SeededOnly, Linked, Progress, BootPCs

LEMMA AdminRoleResumable == TypeInv /\ Resumable /\ AdminRole /\ ~ Fault => Resumable'
<1> SUFFICES ASSUME TypeInv, Resumable, AdminRole, ~ Fault PROVE Resumable'
  OBVIOUS
<1>0. /\ pc = "adminRole" /\ pc' = "adminGroup" /\ users' = users /\ groups' = groups
      /\ binding' = binding /\ rules' = rules /\ mem \in Mem /\ RolesTyped
      /\ mem.root \in DOMAIN users
  BY DEF AdminRole, TypeInv, TypeOK, RolesTyped, Resumable, Progress, BootPCs
<1>1. CASE DOMAIN roles = {}
  <2>1. PICK r \in RoleIds :
           /\ roles' = Insert(roles, r, [name |-> "Admin", builtin |-> TRUE, all |-> TRUE])
           /\ mem' = [mem EXCEPT !.role = r]
    BY <1>1 DEF AdminRole
  <2>2. DOMAIN roles' = {r} /\ roles'[r].builtin /\ roles'[r].all /\ mem'.role = r /\ mem'.root = mem.root
    BY <1>0, <1>1, <2>1 DEF Insert, Mem
  <2>3. binding = {} /\ rules = {}
    BY <1>1 DEF Resumable, SeededOnly, Linked
  <2> QED BY <1>0, <2>2, <2>3 DEF Resumable, SeededOnly, Progress, BootPCs
<1>2. CASE DOMAIN roles # {}
  <2>1. roles' = roles /\ mem' = [mem EXCEPT !.role = FirstId(roles)]
    BY <1>2 DEF AdminRole
  <2>2. mem'.role \in DOMAIN roles /\ mem'.root = mem.root
    BY <1>0, <1>2, <2>1, FirstIdExists, IdsAssumption DEF RolesTyped, Mem
  <2> QED BY <1>0, <2>1, <2>2 DEF Resumable, SeededOnly, Linked, Progress, BootPCs
<1> QED BY <1>1, <1>2

LEMMA AdminGroupResumable == TypeInv /\ Resumable /\ AdminGroup /\ ~ Fault => Resumable'
<1> SUFFICES ASSUME TypeInv, Resumable, AdminGroup, ~ Fault PROVE Resumable'
  OBVIOUS
<1>0. /\ pc = "adminGroup" /\ pc' = "linkRoot" /\ users' = users /\ roles' = roles
      /\ binding' = binding /\ rules' = rules /\ mem \in Mem /\ GroupsTyped
      /\ mem.root \in DOMAIN users /\ mem.role \in DOMAIN roles
  BY DEF AdminGroup, TypeInv, TypeOK, GroupsTyped, Resumable, Progress, BootPCs
<1>1. CASE DOMAIN groups = {}
  <2>1. PICK g \in GroupIds :
           /\ groups' = Insert(groups, g, [builtin |-> TRUE, users |-> {mem.root}])
           /\ mem' = [mem EXCEPT !.group = g]
    BY <1>1 DEF AdminGroup
  <2>2. DOMAIN groups' = {g} /\ mem'.group = g /\ mem'.root = mem.root /\ mem'.role = mem.role
    BY <1>0, <1>1, <2>1 DEF Insert, Mem
  <2>3. binding = {} /\ rules = {}
    BY <1>1 DEF Resumable, SeededOnly, Linked
  <2> QED BY <1>0, <1>1, <2>2, <2>3 DEF Resumable, SeededOnly, Progress, BootPCs
<1>2. CASE DOMAIN groups # {}
  <2>1. groups' = groups /\ mem' = [mem EXCEPT !.group = FirstId(groups)]
    BY <1>2 DEF AdminGroup
  <2>2. mem'.group \in DOMAIN groups /\ mem'.root = mem.root /\ mem'.role = mem.role
    BY <1>0, <1>2, <2>1, FirstIdExists, IdsAssumption DEF GroupsTyped, Mem
  <2> QED BY <1>0, <2>1, <2>2 DEF Resumable, SeededOnly, Linked, Progress, BootPCs
<1> QED BY <1>1, <1>2

(* A rule that is there already keeps InitDB from linking root again, and then root is
   linked: rules come after the binding. *)
LEMMA LinkRootResumable == TypeInv /\ Resumable /\ LinkRoot /\ ~ Fault => Resumable'
<1> SUFFICES ASSUME TypeInv, Resumable, LinkRoot, ~ Fault PROVE Resumable'
  OBVIOUS
<1>0. /\ pc = "linkRoot" /\ pc' = "bindRoot" /\ groups' = groups /\ roles' = roles /\ mem' = mem
      /\ binding' = binding /\ rules' = rules /\ UsersTyped
      /\ mem.root \in DOMAIN users /\ mem.role \in DOMAIN roles /\ mem.group \in DOMAIN groups
      /\ users' = Update(users, "users", mem.root, "groups", {mem.group})
  BY DEF LinkRoot, TypeInv, TypeOK, UsersTyped, Resumable, Progress, BootPCs
<1>1. DOMAIN users' = DOMAIN users /\ \A u \in DOMAIN users : u = mem.root
  BY <1>0, LinkRootWrites DEF Resumable, SeededOnly
<1>b. \A u \in DOMAIN users : users'[u].builtin
  <2>1. \A u \in DOMAIN users : users[u].builtin /\ users'[u].builtin = users[u].builtin
    BY LinkRootWrites DEF Resumable, SeededOnly
  <2> QED BY <2>1
<1>2. users'[mem.root].groups = {mem.group} /\ (binding # {} => users' = users)
  <2>1. CASE binding = {}
    <3>1. users' = [users EXCEPT ![mem.root]["groups"] = {mem.group}]
      BY <1>0, <2>1 DEF Update, Resumable, SeededOnly
    <3> QED BY <1>0, <2>1, <3>1 DEF UsersTyped, UserRow
  <2>2. CASE binding # {}
    <3>1. PICK b \in binding, u \in DOMAIN users : b.subject \in users[u].groups
      BY <2>2 DEF Resumable, SeededOnly, Linked
    <3>2. users[mem.root].groups = {mem.group}
      BY <1>0, <1>1, <3>1 DEF Resumable, SeededOnly
    <3>3. users[mem.root] \in UserRow
      BY <1>0 DEF UsersTyped
    <3>4. [users EXCEPT ![mem.root]["groups"] = {mem.group}] = users
      <4>1. [users[mem.root] EXCEPT !["groups"] = {mem.group}] = users[mem.root]
        BY <3>2, <3>3 DEF UserRow
      <4> QED BY <1>0, <4>1 DEF UsersTyped
    <3>5. users' = users
      BY <1>0, <3>4 DEF Update
    <3> QED BY <3>2, <3>5
  <2> QED BY <2>1, <2>2
<1>3. SeededOnly'
  <2>1. CASE binding = {}
    <3>1. \A u \in DOMAIN users' : users'[u].builtin /\ users'[u].groups = {mem.group}
      BY <1>1, <1>b, <1>2
    <3>2. (\A u \in DOMAIN users : users[u].builtin /\ users[u].groups \subseteq DOMAIN groups)'
      BY <1>0, <3>1
    <3>3. (\A u, v \in DOMAIN users : u = v)' /\ rules = {} /\ binding' = {}
      BY <1>0, <1>1, <2>1 DEF Resumable, SeededOnly
    <3> QED BY <1>0, <2>1, <3>2, <3>3 DEF Resumable, SeededOnly
  <2>2. CASE binding # {}
    BY <1>0, <1>2, <2>2 DEF Resumable, SeededOnly, Linked
  <2> QED BY <2>1, <2>2
<1>4. Progress'
  BY <1>0, <1>1, <1>2 DEF Progress, BootPCs
<1> QED BY <1>3, <1>4 DEF Resumable

LEMMA BindRootResumable == TypeInv /\ Resumable /\ BindRoot /\ ~ Fault => Resumable'
<1> SUFFICES ASSUME TypeInv, Resumable, BindRoot, ~ Fault PROVE Resumable'
  OBVIOUS
<1>0. /\ pc = "bindRoot" /\ pc' = "builtinRoles" /\ UNCHANGED <<users, groups, roles, rules, mem>>
      /\ mem.root \in DOMAIN users /\ mem.role \in DOMAIN roles /\ mem.group \in DOMAIN groups
      /\ users[mem.root].groups = {mem.group}
  BY DEF BindRoot, Resumable, Progress, BootPCs
<1>1. CASE binding = {}
  <2>1. binding' = {[role |-> mem.role, subject |-> mem.group]}
    BY <1>1 DEF BindRoot
  <2>2. roles[mem.role].all
    BY <1>0, <1>1 DEF Resumable, SeededOnly
  <2>3. Linked' /\ binding' # {}
    BY <1>0, <2>1, <2>2 DEF Linked
  <2> QED BY <1>0, <2>3 DEF Resumable, SeededOnly, Progress, BootPCs
<1>2. CASE binding # {}
  <2>1. binding' = binding
    BY <1>2 DEF BindRoot
  <2> QED BY <1>0, <1>2, <2>1 DEF Resumable, SeededOnly, Linked, Progress, BootPCs
<1> QED BY <1>1, <1>2

LEMMA BuiltinRolesResumable == TypeInv /\ Resumable /\ BuiltinRoles /\ ~ Fault => Resumable'
<1> SUFFICES ASSUME TypeInv, Resumable, BuiltinRoles, ~ Fault PROVE Resumable'
  OBVIOUS
<1>0. /\ pc = "builtinRoles" /\ pc' = "createRules" /\ UNCHANGED <<users, groups, binding, rules, mem>>
      /\ mem.root \in DOMAIN users /\ mem.role \in DOMAIN roles /\ mem.group \in DOMAIN groups
      /\ users[mem.root].groups = {mem.group} /\ binding # {} /\ mem.rule = 1
  BY DEF BuiltinRoles, TypeInv, RulesInOrder, Resumable, Progress, BootPCs
<1>1. /\ DOMAIN roles \subseteq DOMAIN roles' /\ \A r \in DOMAIN roles : roles'[r] = roles[r]
      /\ \A r \in DOMAIN roles' \ DOMAIN roles : roles'[r].builtin
  <2>1. CASE \E r \in RoleIds \ DOMAIN roles :
                roles' = Insert(roles, r, [name |-> "WriteAll", builtin |-> TRUE, all |-> FALSE])
    BY <2>1 DEF Insert
  <2>2. CASE roles' = roles
    BY <2>2
  <2> QED BY <2>1, <2>2 DEF BuiltinRoles
<1>2. SeededOnly'
  BY <1>0, <1>1 DEF Resumable, SeededOnly, Linked
<1>3. Progress'
  BY <1>0, <1>1 DEF Progress, BootPCs
<1> QED BY <1>2, <1>3 DEF Resumable

(* The last rule completes the set, and with it the seal. *)
LEMMA LastRule ==
    ASSUME \A i \in 1..7 : RuleOrder[i] \in rules, rules' = rules \cup {RuleOrder[8]}
    PROVE  AllRules \subseteq rules'
<1>1. RuleOrder[1] \in rules /\ RuleOrder[2] \in rules /\ RuleOrder[3] \in rules /\ RuleOrder[4] \in rules
      /\ RuleOrder[5] \in rules /\ RuleOrder[6] \in rules /\ RuleOrder[7] \in rules
  OBVIOUS
<1> QED BY <1>1 DEF RuleOrder, AllRules, Tables

LEMMA CreateRuleResumable ==
    ASSUME TypeInv, Resumable, CreateRule, ~ Fault
    PROVE  /\ mem.rule = 8 => Sealed' /\ pc' = "serving"
           /\ mem.rule # 8 => Resumable' /\ pc' = "createRules"
<1>0. /\ pc = "createRules" /\ UNCHANGED <<users, groups, roles, binding>> /\ mem \in Mem /\ mem.rule \in 1..8
      /\ mem.root \in DOMAIN users /\ mem.role \in DOMAIN roles /\ mem.group \in DOMAIN groups
      /\ users[mem.root].groups = {mem.group} /\ binding # {}
      /\ \A i \in 1 .. mem.rule - 1 : RuleOrder[i] \in rules
      /\ mem' = [mem EXCEPT !.rule = @ + 1] /\ rules' = rules \cup {RuleOrder[mem.rule]}
      /\ pc' = IF mem.rule = 8 THEN "serving" ELSE "createRules"
  BY RuleOrderTyped DEF CreateRule, TypeInv, TypeOK, RulesInOrder, Resumable, Progress, BootPCs
<1>1. mem'.rule = mem.rule + 1 /\ mem'.root = mem.root /\ mem'.role = mem.role /\ mem'.group = mem.group
  BY <1>0 DEF Mem
<1>2. ASSUME mem.rule = 8 PROVE Sealed'
  <2>1. AllRules \subseteq rules'
    BY <1>0, <1>2, LastRule
  <2>2. PICK b \in binding, u \in DOMAIN users :
           binding = {b} /\ b.subject \in users[u].groups /\ b.role \in DOMAIN roles /\ roles[b.role].all
    BY <1>0 DEF Resumable, SeededOnly, Linked
  <2>3. users[u].builtin /\ roles[b.role].builtin
    BY <2>2 DEF Resumable, SeededOnly
  <2> QED BY <1>0, <2>1, <2>2, <2>3 DEF Sealed
<1>3. ASSUME mem.rule # 8 PROVE Resumable'
  <2>1. RuleOrder[mem.rule] # <<"upd", "role_bindings">>
    BY <1>0, <1>3 DEF RuleOrder
  <2>2. SeededOnly'
    BY <1>0, <2>1 DEF Resumable, SeededOnly, Linked
  <2>3. \A i \in 1 .. mem'.rule - 1 : RuleOrder[i] \in rules'
    BY <1>0, <1>1
  <2>4. Progress'
    BY <1>0, <1>1, <1>3, <2>3 DEF Progress, BootPCs
  <2> QED BY <2>2, <2>4 DEF Resumable
<1> QED BY <1>0, <1>2, <1>3

LEMMA BootStepResumable ==
    ASSUME TypeInv, Resumable, BootStep, ~ Fault
    PROVE  (Resumable' /\ pc' # "serving") \/ (Sealed' /\ pc' = "serving" /\ pc = "createRules")
<1>1. CASE CreateRule
  BY <1>1, CreateRuleResumable DEF CreateRule
<1> QED BY <1>1, ConnectResumable, FirstUserResumable, AssignUserResumable, AdminRoleResumable, AdminGroupResumable,
       LinkRootResumable, BindRootResumable, BuiltinRolesResumable DEF BootStep, Resumable, Progress

LEMMA FaultsGrow == TypeInv /\ [Next]_vars /\ faults' = 0 => faults = 0 /\ ~ Fault
  BY DEF TypeInv, TypeOK, Next, vars, BootStep, Connect, FirstUser, AssignUser, AdminRole, AdminGroup, LinkRoot,
         BindRoot, BuiltinRoles, CreateRule, Crash, Api, Ok, Fault

LEMMA NextBootInv == BootInv /\ [Next]_vars => BootInv'
<1> SUFFICES ASSUME BootInv, [Next]_vars PROVE BootInv'
  OBVIOUS
<1>1. TypeInv /\ TypeInv'
  BY NextTypeInv DEF BootInv
<1>2. ASSUME faults' = 0 PROVE Sealed' \/ Resumable'
  <2>1. faults = 0 /\ ~ Fault /\ (Sealed \/ Resumable)
    BY <1>1, <1>2, FaultsGrow DEF BootInv
  <2>2. CASE Sealed
    BY <1>1, <2>2, NextKeepsSealed
  <2>3. CASE Resumable /\ BootStep
    BY <1>1, <2>1, <2>3, BootStepResumable
  <2>4. CASE Resumable /\ Crash
    BY <2>4 DEF Crash, Resumable, SeededOnly, Linked, Progress, BootPCs
  <2>5. CASE Resumable /\ Api
    BY <2>5 DEF Resumable, Progress, Api
  <2>6. CASE Resumable /\ UNCHANGED vars
    BY <2>6 DEF vars, Resumable, SeededOnly, Linked, Progress, BootPCs
  <2> QED BY <2>1, <2>2, <2>3, <2>4, <2>5, <2>6 DEF Next
<1> QED BY <1>1, <1>2 DEF BootInv

LEMMA InitResumable == Init => Resumable
  BY DEF Init, Resumable, SeededOnly, Progress, BootPCs, EmptyTable

LEMMA InitBootInv == Init => BootInv
  BY InitTypeInv, InitResumable DEF BootInv

(* Whatever crashes interrupted earlier starts, a server that listens and has not met a
   failing statement gives root its access: each prefix of InitDB's statements can be
   resumed (main.go and config/db.go). *)
THEOREM ServedIsSealed == Spec => []ServedMeansSealed
<1>1. Spec => []BootInv
  BY InitBootInv, NextBootInv, PTL DEF Spec
<1>2. BootInv => ServedMeansSealed
  BY DEF BootInv, Resumable, Progress, ServedMeansSealed
<1> QED BY <1>1, <1>2, PTL

-----------------------------------------------------------------------------
LEMMA RestartLeavesRoles ==
    ASSUME BootStep, DOMAIN roles # {}, NEW r \in DOMAIN roles
    PROVE  r \in DOMAIN roles' /\ roles'[r] = roles[r]
<1>1. CASE AdminRole
  BY <1>1 DEF AdminRole
<1>2. CASE BuiltinRoles
  BY <1>2 DEF BuiltinRoles, Insert
<1> QED BY <1>1, <1>2 DEF BootStep, Connect, FirstUser, AssignUser, AdminGroup, LinkRoot, BindRoot, CreateRule

(* FirstUser and AssignUser insert a user only when there is none, or when none is builtin
   and the first statement failed. *)
LEMMA RestartLeavesUsers ==
    ASSUME TypeInv, BootStep, NEW u \in DOMAIN users, users[u].builtin
    PROVE  users' = users \/ LinkRoot
  BY DEF BootStep, Connect, FirstUser, AssignUser, AdminRole, AdminGroup, LinkRoot, BindRoot, BuiltinRoles, CreateRule

LEMMA RestartRelinks ==
    ASSUME TypeInv, LinkRoot, <<"upd", "users">> \in rules, NEW u \in DOMAIN users, users'[u] # users[u]
    PROVE  /\ ~ users[u].builtin /\ u = FirstId(users) /\ users'[u].groups = {mem.group}
           /\ mem.group # NoId => mem.group \in DOMAIN groups /\ mem.group = FirstId(groups)
<1>1. users' = Update(users, "users", mem.root, "groups", {mem.group}) /\ pc = "linkRoot"
  BY DEF LinkRoot
<1>2. u = mem.root /\ users'[u].groups = {mem.group}
  BY LinkRootWrites
<1>3. ~ users[u].builtin
  BY <1>1, <1>2 DEF Update
<1>4. u = FirstId(users)
  BY <1>1, <1>2, IdsAssumption DEF TypeInv, TypeOK, FirstLoaded, BootPCs, NoId
<1>5. mem.group # NoId => DOMAIN groups # {} /\ mem.group = FirstId(groups)
  BY <1>1 DEF TypeInv, FirstLoaded, BootPCs
<1>6. DOMAIN groups # {} => FirstId(groups) \in DOMAIN groups
  BY FirstIdExists, IdsAssumption DEF TypeInv, TypeOK
<1> QED BY <1>2, <1>3, <1>4, <1>5, <1>6

LEMMA RestartLeavesGroups ==
    ASSUME BootStep, DOMAIN groups # {}
    PROVE  groups' = groups
  BY DEF BootStep, Connect, FirstUser, AssignUser, AdminRole, AdminGroup, LinkRoot, BindRoot, BuiltinRoles, CreateRule

LEMMA RestartLeavesBinding ==
    ASSUME BootStep, binding # {}
    PROVE  binding' = binding
  BY DEF BootStep, Connect, FirstUser, AssignUser, AdminRole, AdminGroup, LinkRoot, BindRoot, BuiltinRoles, CreateRule

Footprint ==
    /\ DOMAIN groups # {} => groups' = groups
    /\ binding' = binding
    /\ \A r \in DOMAIN roles : r \in DOMAIN roles' /\ roles'[r] = roles[r]
    /\ DOMAIN users' = DOMAIN users
    /\ \A u \in DOMAIN users :
         users'[u] # users[u] =>
            /\ ~ users[u].builtin /\ u = FirstId(users)
            /\ \E g \in DOMAIN groups \cup {NoId} :
                  users'[u].groups = {g} /\ (g # NoId => g = FirstId(groups))

LEMMA SealedRestart == TypeInv /\ Sealed /\ BootStep => Footprint
<1> SUFFICES ASSUME TypeInv, Sealed, BootStep PROVE Footprint
  OBVIOUS
<1>1. PICK u \in DOMAIN users, b \in binding : users[u].builtin /\ b.role \in DOMAIN roles
  BY DEF Sealed
<1>2. <<"upd", "users">> \in rules
  BY UpdateRules DEF Sealed
<1>3. DOMAIN users' = DOMAIN users
  BY <1>1, RestartLeavesUsers, LinkRootWrites
<1>4. ASSUME NEW v \in DOMAIN users, users'[v] # users[v]
      PROVE  /\ ~ users[v].builtin /\ v = FirstId(users)
             /\ \E g \in DOMAIN groups \cup {NoId} : users'[v].groups = {g} /\ (g # NoId => g = FirstId(groups))
  <2>1. LinkRoot
    BY <1>1, <1>4, RestartLeavesUsers
  <2>2. /\ ~ users[v].builtin /\ v = FirstId(users) /\ users'[v].groups = {mem.group}
        /\ mem.group # NoId => mem.group \in DOMAIN groups /\ mem.group = FirstId(groups)
    BY <1>2, <1>4, <2>1, RestartRelinks
  <2> QED BY <2>2
<1>5. \A r \in DOMAIN roles : r \in DOMAIN roles' /\ roles'[r] = roles[r]
  BY <1>1, RestartLeavesRoles
<1>6. binding' = binding
  BY <1>1, RestartLeavesBinding
<1> QED BY <1>3, <1>4, <1>5, <1>6, RestartLeavesGroups DEF Footprint

(* What a restart of a sealed installation may write: at most the first user of the
   table, when it is not builtin, loses its groups for one (LinkRoot takes whatever row
   comes first for root). Roles, the binding and existing groups are left alone. *)
THEOREM RestartsAreHarmless == Spec => RestartFootprint
<1>1. Spec => []TypeInv
  BY InitTypeInv, NextTypeInv, PTL DEF Spec
<1>2. TypeInv /\ [Next]_vars => [Sealed /\ BootStep => Footprint]_vars
  BY SealedRestart
<1>3. [][Sealed /\ BootStep => Footprint]_vars => RestartFootprint
  BY PTL DEF Footprint, RestartFootprint
<1> QED BY <1>1, <1>2, <1>3, PTL DEF Spec

-----------------------------------------------------------------------------
(* Until root's access is sealed, the last rule is not there: the seal closes in the very
   step in which the server starts to listen. *)
LEMMA ResumableIsOpen == Resumable => ~ Sealed
  BY UpdateRules DEF Resumable, SeededOnly, Sealed

LEMMA ResumableIsOpenAfter == Resumable' => ~ Sealed'
<1>1. <<"upd", "role_bindings">> \in AllRules
  BY DEF AllRules, Tables
<1>2. SeededOnly' => <<"upd", "role_bindings">> \notin rules'
  BY DEF SeededOnly
<1>3. Sealed' => AllRules \subseteq rules'
  BY DEF Sealed
<1> QED BY <1>1, <1>2, <1>3 DEF Resumable

LEMMA StepRefines ==
    ASSUME MaxFaults = 0, BootInv, [Next]_vars
    PROVE  [Access!Next]_<<Sealed, pc = "serving">>
<1>1. TypeInv /\ TypeInv' /\ faults = 0 /\ faults' = 0 /\ ~ Fault
  BY NextTypeInv DEF BootInv, TypeInv, TypeOK, Fault
<1>2. CASE Sealed
  <2>1. Sealed'
    BY <1>1, <1>2, NextKeepsSealed
  <2>2. CASE pc = "serving" /\ pc' # "serving"
    BY <1>2, <2>1, <2>2 DEF Access!Next, Access!Stop
  <2>3. CASE pc # "serving" /\ pc' = "serving"
    BY <1>2, <2>1, <2>3 DEF Access!Next, Access!Listen
  <2>4. CASE (pc = "serving") = (pc' = "serving")
    BY <1>2, <2>1, <2>4
  <2> QED BY <2>2, <2>3, <2>4
<1>3. CASE Resumable
  <2>0. ~ Sealed /\ pc # "serving"
    BY <1>3, ResumableIsOpen DEF Resumable, Progress
  <2>1. CASE BootStep
    <3>1. (Resumable' /\ pc' # "serving") \/ (Sealed' /\ pc' = "serving")
      BY <1>1, <1>3, <2>1, BootStepResumable
    <3>2. CASE Resumable' /\ pc' # "serving"
      <4>1. Sealed = FALSE /\ Sealed' = FALSE
        BY <2>0, <3>2, ResumableIsOpenAfter DEF Sealed
      <4>2. (pc = "serving") = (pc' = "serving")
        BY <2>0, <3>2
      <4> QED BY <4>1, <4>2
    <3>3. CASE Sealed' /\ pc' = "serving"
      BY <2>0, <3>3 DEF Access!Next, Access!Listen
    <3> QED BY <3>1, <3>2, <3>3
  <2>2. CASE Crash \/ UNCHANGED vars
    BY <2>0, <2>2 DEF Crash, vars, Sealed
  <2>3. CASE Api
    BY <2>0, <2>3 DEF Api
  <2> QED BY <2>1, <2>2, <2>3 DEF Next
<1> QED BY <1>1, <1>2, <1>3 DEF BootInv

(* Without failing statements the start-up implements AdminAccess, however often the
   process crashes: it never listens before root has its access, and never loses it. *)
THEOREM BootImplementsAdminAccess == MaxFaults = 0 => (Spec => ImplementsAdminAccess)
<1> SUFFICES ASSUME MaxFaults = 0 PROVE Spec => Access!Spec
  BY DEF ImplementsAdminAccess
<1>1. Spec => []BootInv
  BY InitBootInv, NextBootInv, PTL DEF Spec
<1>2. Init => Access!Init
  BY DEF Init, Access!Init, Sealed
<1>3. BootInv /\ [Next]_vars => [Access!Next]_<<Sealed, pc = "serving">>
  BY StepRefines
<1> QED BY <1>1, <1>2, <1>3, PTL DEF Spec, Access!Spec
=============================================================================
