------------------------------ MODULE Membership ------------------------------
(***************************************************************************)
(* Users, groups and who is in which: services/users_svc.go and             *)
(* services/groups_svc.go, behind controllers/users.go and groups.go.       *)
(*                                                                          *)
(* Membership is stored twice: users.groups lists group ids, groups.users   *)
(* lists user ids. A handler changes both with one SQL statement per row    *)
(* and no transaction, every write replaces a whole list by one computed    *)
(* from an earlier read, requests run concurrently without locks, and the   *)
(* process may die between two statements. One action is one statement.     *)
(* An id is drawn by Postgres or comes with the body of a POST, which may    *)
(* bring the id of a deleted row (models/user.go:11, group.go:11).           *)
(***************************************************************************)
EXTENDS GroupLists, Rows

CONSTANTS
    Uids, Gids,    \* uuids of users and of groups, as Postgres orders them
    UserNames,     \* usernames; "root" is the builtin one
    Providers,     \* main.go authProviders
    RootId, AdminId,   \* ids InitDB drew for the builtin user and group
    SeedUsers,     \* users created before the behaviour starts: id -> <<username, provider>>
    SeedGroups,    \* groups created before it: id -> provider
    Batches,       \* bodies of the /groups/:id/users routes: sets of <<username, provider>>
    BodyGroups,    \* the "groups" a user body may carry
    BodyUsers,     \* the "users" a group body may carry
    Requests,      \* requests in progress at the same time
    MaxRequests,   \* bound on the requests that take several statements
    MaxWrites,     \* bound on the requests that take one
    MaxRestarts    \* bound on crashes of the process

ASSUME IdsAssumption ==
    /\ Uids \subseteq Nat \ {NoId} /\ Gids \subseteq Nat \ {NoId} /\ Uids \cap Gids = {}
ASSUME ProvidersAssumption == "local" \in Providers /\ "root" \in UserNames

Accounts == UserNames \X Providers

ASSUME SeedsAssumption ==
    /\ RootId \in Uids /\ AdminId \in Gids
    /\ DOMAIN SeedUsers \subseteq Uids \ {RootId} /\ SeedUsers \in [DOMAIN SeedUsers -> Accounts]
    /\ DOMAIN SeedGroups \subseteq Gids \ {AdminId} /\ SeedGroups \in [DOMAIN SeedGroups -> Providers]

ASSUME BodiesAssumption ==
    /\ Batches \subseteq SUBSET Accounts
    /\ BodyGroups \subseteq SUBSET Gids /\ BodyUsers \subseteq SUBSET Uids
ASSUME BoundsAssumption ==
    MaxRequests \in Nat /\ MaxWrites \in Nat /\ MaxRestarts \in Nat

VARIABLES
    users,     \* table users:  id -> [name, provider, groups, builtin]
    groups,    \* table groups: id -> [provider, users, isNull, builtin]
    used,      \* ids that rows have, or have had
    req,       \* the local variables of the handler of each request
    tainted,   \* ids of rows whose two-sided membership is not claimed to agree
    work       \* how much of each bound is used up

vars == <<users, groups, used, req, tainted, work>>

(* Lists without duplicates whose order nothing here depends on: sets. isNull is
   the state of groups.users until a list is first written (Go's nil slice). *)
UserRow  == [name : UserNames, provider : Providers, groups : SUBSET Gids, builtin : BOOLEAN]
GroupRow == [provider : Providers, users : SUBSET Uids, isNull : BOOLEAN, builtin : BOOLEAN]

NoUser  == [name |-> "root", provider |-> "local", groups |-> {}, builtin |-> FALSE]
NoGroup == [provider |-> "local", users |-> {}, isNull |-> TRUE, builtin |-> FALSE]

PCs == {"idle", "getGroup", "findUser", "putUser", "putGroup", "dropGroup",
        "getUser", "findTokens", "dropUser"}

Req == [pc : PCs, op : {"none", "add", "remove", "deleteUser", "deleteGroup"},
        group : Gids \cup {NoId}, groupRow : GroupRow,
        user : Uids \cup {NoId}, userRow : UserRow,
        todo : SUBSET Accounts, ids : SUBSET Uids]

Idle == [pc |-> "idle", op |-> "none", group |-> NoId, groupRow |-> NoGroup,
         user |-> NoId, userRow |-> NoUser, todo |-> {}, ids |-> {}]

(* What InitDB leaves (Boot), and users and groups created since without lists. *)
Init ==
    /\ users = [u \in {RootId} \cup DOMAIN SeedUsers |->
                  IF u = RootId
                  THEN [name |-> "root", provider |-> "local", groups |-> {AdminId}, builtin |-> TRUE]
                  ELSE [name |-> SeedUsers[u][1], provider |-> SeedUsers[u][2],
                        groups |-> {}, builtin |-> FALSE]]
    /\ groups = [g \in {AdminId} \cup DOMAIN SeedGroups |->
                  IF g = AdminId
                  THEN [provider |-> "local", users |-> {RootId}, isNull |-> FALSE, builtin |-> TRUE]
                  ELSE [provider |-> SeedGroups[g], users |-> {}, isNull |-> TRUE, builtin |-> FALSE]]
    /\ used = DOMAIN users \cup DOMAIN groups
    /\ req = [r \in Requests |-> Idle]
    /\ tainted = {}
    /\ work = [requests |-> 0, writes |-> 0, restarts |-> 0]

-----------------------------------------------------------------------------
(* Taint is bookkeeping of the model, not state of the program. A row is tainted
     - when two requests hold a copy of it at the same time, each about to write
       or delete it from that copy;
     - when a request ends between the two sides of what it was asked to do;
     - when its list is written from a request body, or by a restart.       *)
HoldsGroup(r, g) == req[r].group = g /\ req[r].pc \in {"findUser", "putUser", "putGroup", "dropGroup"}
HoldsUser(r, u)  == req[r].user = u /\ req[r].pc \in {"putUser", "findTokens", "dropUser"}

TaintIf(condition, id) == tainted' = IF condition THEN tainted \cup {id} ELSE tainted

TouchGroup(r, g) == TaintIf(\E q \in Requests \ {r} : HoldsGroup(q, g), g)
TouchUser(r, u)  == TaintIf(\E q \in Requests \ {r} : HoldsUser(q, u), u)

(* The handler returns. *)
Finish(r) == req' = [req EXCEPT ![r] = Idle]

(* The handler of AddUsersToGroup or RemoveUsersFromGroup fails; the users already
   written stay written. *)
Abort(r) ==
    /\ Finish(r)
    /\ TaintIf(req[r].ids # {}, req[r].group)

Used(kind, max) == work[kind] < max /\ work' = [work EXCEPT ![kind] = @ + 1]

(* Unique index idx_user on (provider, username). *)
Taken(u, name, provider) ==
    \E v \in DOMAIN users \ {u} : users[v].name = name /\ users[v].provider = provider

-----------------------------------------------------------------------------
(* Mutant: the rewrite rules are not installed. *)
WritableWithoutRules(rows, id) == id \in DOMAIN rows

(* db.Updates on one row: the rewrite rules turn it into nothing for a builtin
   row, and it finds no row once the row is deleted. *)
Writable(rows, id) == id \in DOMAIN rows /\ ~ rows[id].builtin

(* Mutant: the user's id is stored in place of the group's. *)
SaveUserOwnId(u, provider, gs) ==
    users' = IF Writable(users, u)
             THEN [users EXCEPT ![u].provider = provider,
                                ![u].groups = IF gs = {} THEN {} ELSE {u}]
             ELSE users

SaveUser(u, provider, gs) ==
    users' = IF Writable(users, u)
             THEN [users EXCEPT ![u].provider = provider, ![u].groups = gs]
             ELSE users

(* Mutant: an empty list is taken for a list that was not given. *)
SaveGroupSkippingEmpty(g, provider, isNil, us) ==
    groups' = IF Writable(groups, g)
              THEN [groups EXCEPT ![g].provider = provider,
                                  ![g].users = IF us = {} THEN @ ELSE us,
                                  ![g].isNull = IF us = {} THEN @ ELSE FALSE]
              ELSE groups

(* Mutant: db.Save, which inserts the row when it finds none. *)
SaveGroupUpserting(g, provider, isNil, us) ==
    groups' = IF g \notin DOMAIN groups
              THEN Insert(groups, g, [provider |-> provider, users |-> us,
                                      isNull |-> isNil, builtin |-> FALSE])
              ELSE IF groups[g].builtin THEN groups
              ELSE [groups EXCEPT ![g].provider = provider,
                                  ![g].users = IF isNil THEN @ ELSE us,
                                  ![g].isNull = IF isNil THEN @ ELSE FALSE]

(* A nil list is not written. *)
SaveGroup(g, provider, isNil, us) ==
    groups' = IF Writable(groups, g)
              THEN [groups EXCEPT ![g].provider = provider,
                                  ![g].users = IF isNil THEN @ ELSE us,
                                  ![g].isNull = IF isNil THEN @ ELSE FALSE]
              ELSE groups

-----------------------------------------------------------------------------
(* POST and DELETE /groups/:id/users, DELETE /groups/:id, DELETE /users/:id *)
Begin(r, request) ==
    /\ req[r].pc = "idle"
    /\ Used("requests", MaxRequests)
    /\ req' = [req EXCEPT ![r] = request]
    /\ UNCHANGED <<users, groups, used, tainted>>

BeginMembers(r) ==
    \E op \in {"add", "remove"}, g \in used \cap Gids, batch \in Batches :
        Begin(r, [Idle EXCEPT !.pc = "getGroup", !.op = op, !.group = g, !.todo = batch])

BeginDeleteGroup(r) ==
    \E g \in used \cap Gids :
        Begin(r, [Idle EXCEPT !.pc = "getGroup", !.op = "deleteGroup", !.group = g])

BeginDeleteUser(r) ==
    \E u \in used \cap Uids :
        Begin(r, [Idle EXCEPT !.pc = "getUser", !.op = "deleteUser", !.user = u])

(* Mutant: DeleteGroup takes an empty list for one that was never written. *)
GetGroupEmptied(r) ==
    LET g  == req[r].group
        op == req[r].op
        accepted == /\ g \in DOMAIN groups
                    /\ op = "add" => \A a \in req[r].todo : a[2] = groups[g].provider
                    /\ op = "deleteGroup" => groups[g].users = {}
    IN
    /\ req[r].pc = "getGroup"
    /\ \/ ~ accepted /\ Finish(r) /\ UNCHANGED tainted
       \/ /\ accepted
          /\ req' = [req EXCEPT ![r].groupRow = groups[g],
                                ![r].pc = IF op = "deleteGroup" THEN "dropGroup"
                                          ELSE IF req[r].todo = {} THEN "putGroup" ELSE "findUser"]
          /\ TouchGroup(r, g)
    /\ UNCHANGED <<users, groups, used, work>>

(* GetGroupByID, and the checks each handler makes on the row: all providers of
   the batch for an add, an unwritten list for a deletion. *)
GetGroup(r) ==
    LET g  == req[r].group
        op == req[r].op
        accepted == /\ g \in DOMAIN groups
                    /\ op = "add" => \A a \in req[r].todo : a[2] = groups[g].provider
                    /\ op = "deleteGroup" => groups[g].isNull
    IN
    /\ req[r].pc = "getGroup"
    /\ \/ ~ accepted /\ Finish(r) /\ UNCHANGED tainted
       \/ /\ accepted
          /\ req' = [req EXCEPT ![r].groupRow = groups[g],
                                ![r].pc = IF op = "deleteGroup" THEN "dropGroup"
                                          ELSE IF req[r].todo = {} THEN "putGroup" ELSE "findUser"]
          /\ TouchGroup(r, g)
    /\ UNCHANGED <<users, groups, used, work>>

(* UpdateUsers: GetByUsernameAndProvider for the next user of the batch. *)
FindUser(r) ==
    /\ req[r].pc = "findUser"
    /\ \E a \in req[r].todo :
          \/ /\ \A u \in DOMAIN users : <<users[u].name, users[u].provider>> # a
             /\ Abort(r)
          \/ \E u \in DOMAIN users :
                /\ <<users[u].name, users[u].provider>> = a
                /\ req' = [req EXCEPT ![r].pc = "putUser", ![r].todo = @ \ {a},
                                      ![r].user = u, ![r].userRow = users[u]]
                /\ TouchUser(r, u)
    /\ UNCHANGED <<users, groups, used, work>>

(* AddGroup or RemoveGroup: db.Updates(user) writes the provider read together
   with the list; RemoveGroup writes nothing when the group was not listed. *)
PutUser(r) ==
    LET u    == req[r].user
        row  == req[r].userRow
        g    == req[r].group
        next == IF req[r].op = "add" THEN row.groups \cup {g} ELSE row.groups \ {g}
        written == [req EXCEPT ![r].pc = IF req[r].todo = {} THEN "putGroup" ELSE "findUser",
                               ![r].ids = @ \cup {u}, ![r].user = NoId, ![r].userRow = NoUser]
    IN
    /\ req[r].pc = "putUser"
    /\ \/ /\ req[r].op = "remove" /\ g \notin row.groups
          /\ req' = written /\ UNCHANGED <<users, tainted>>
       \/ /\ req[r].op = "add" \/ g \in row.groups
          /\ ~ (Writable(users, u) /\ Taken(u, row.name, row.provider))
          /\ SaveUser(u, row.provider, next)
          /\ req' = written /\ UNCHANGED tainted
       \/ /\ req[r].op = "add" \/ g \in row.groups
          /\ Writable(users, u) /\ Taken(u, row.name, row.provider)
          /\ Abort(r) /\ UNCHANGED users
    /\ UNCHANGED <<groups, used, work>>

(* RemoveDuplicates(append(...)) or RemoveFromSlice, then UpdateGroup. The final
   GetGroup only shapes the answer. The write may meet the unique index of groups
   (whose names are left out) when the provider was changed since the read. *)
PutGroup(r) ==
    LET g   == req[r].group
        row == req[r].groupRow
        ids == req[r].ids
        outcomes == IF req[r].op = "add" THEN {[ok |-> TRUE, users |-> row.users \cup ids]}
                    ELSE RemoveOutcomes(row.users, ids)
    IN
    /\ req[r].pc = "putGroup"
    /\ \/ \E out \in outcomes :
            /\ out.ok
            /\ SaveGroup(g, row.provider, req[r].op = "remove" /\ row.isNull, out.users)
            /\ Finish(r)
            /\ TaintIf(req[r].op = "remove" /\ out.users \cap ids # {}, g)
       \/ /\ \/ \E out \in outcomes : ~ out.ok          \* slice bounds panic, recovered by gin
             \/ Writable(groups, g) /\ groups[g].provider # row.provider
          /\ Abort(r) /\ UNCHANGED groups
    /\ UNCHANGED <<users, used, work>>

DropGroup(r) ==
    LET g == req[r].group IN
    /\ req[r].pc = "dropGroup"
    /\ groups' = IF Writable(groups, g) THEN Without(groups, g) ELSE groups
    /\ Finish(r)
    /\ UNCHANGED <<users, used, tainted, work>>

(* Mutant: DeleteUser does not look at the groups of the user. *)
GetUserUnchecked(r) ==
    LET u == req[r].user IN
    /\ req[r].pc = "getUser"
    /\ \/ u \notin DOMAIN users /\ Finish(r) /\ UNCHANGED tainted
       \/ /\ u \in DOMAIN users
          /\ req' = [req EXCEPT ![r].pc = "findTokens", ![r].userRow = users[u]]
          /\ TouchUser(r, u)
    /\ UNCHANGED <<users, groups, used, work>>

(* DeleteUser: GetUser and the check of its groups. *)
GetUser(r) ==
    LET u == req[r].user
        accepted == u \in DOMAIN users /\ users[u].groups = {}
    IN
    /\ req[r].pc = "getUser"
    /\ \/ ~ accepted /\ Finish(r) /\ UNCHANGED tainted
       \/ /\ accepted
          /\ req' = [req EXCEPT ![r].pc = "findTokens", ![r].userRow = users[u]]
          /\ TouchUser(r, u)
    /\ UNCHANGED <<users, groups, used, work>>

(* DeleteUser: the query of api_tokens, a table this module leaves out. *)
FindTokens(r) ==
    /\ req[r].pc = "findTokens"
    /\ Finish(r) \/ req' = [req EXCEPT ![r].pc = "dropUser"]
    /\ UNCHANGED <<users, groups, used, tainted, work>>

DropUser(r) ==
    LET u == req[r].user IN
    /\ req[r].pc = "dropUser"
    /\ users' = IF Writable(users, u) THEN Without(users, u) ELSE users
    /\ Finish(r)
    /\ UNCHANGED <<groups, used, tainted, work>>

-----------------------------------------------------------------------------
(* Handlers that write with one statement. A list absent from the body is {},
   a list given is {list}: the handlers store it as it comes. An id of the body is
   stored too, and fails only on the primary key of a row that is there. *)
CreateUser ==
    \E u \in Uids \ DOMAIN users, name \in UserNames, provider \in Providers, list \in BodyGroups :
        /\ ~ Taken(u, name, provider)
        /\ users' = Insert(users, u, [name |-> name, provider |-> provider,
                                      groups |-> list, builtin |-> FALSE])
        /\ used' = used \cup {u}
        /\ TaintIf(list # {}, u)
        /\ Used("writes", MaxWrites) /\ UNCHANGED <<groups, req>>

CreateGroup ==
    \E g \in Gids \ DOMAIN groups, provider \in Providers, body \in {{}} \cup {{l} : l \in BodyUsers} :
        /\ groups' = Insert(groups, g, [provider |-> provider, users |-> UNION body,
                                        isNull |-> body = {}, builtin |-> FALSE])
        /\ used' = used \cup {g}
        /\ TaintIf(UNION body # {}, g)
        /\ Used("writes", MaxWrites) /\ UNCHANGED <<users, req>>

UpdateUser ==
    \E u \in DOMAIN users, provider \in Providers, body \in {{}} \cup {{l} : l \in BodyGroups} :
        /\ ~ (Writable(users, u) /\ Taken(u, users[u].name, provider))
        /\ SaveUser(u, provider, IF body = {} THEN users[u].groups ELSE UNION body)
        /\ TaintIf(body # {}, u)
        /\ Used("writes", MaxWrites) /\ UNCHANGED <<groups, used, req>>

UpdateGroup ==
    \E g \in DOMAIN groups, provider \in Providers, body \in {{}} \cup {{l} : l \in BodyUsers} :
        /\ SaveGroup(g, provider, body = {}, UNION body)
        /\ TaintIf(body # {}, g)
        /\ Used("writes", MaxWrites) /\ UNCHANGED <<users, used, req>>

(* The process dies with every request in it, and InitDB runs again: what it takes
   for root is the first user of the table, whose groups it overwrites. *)
Restart ==
    LET first == FirstId(users) IN
    /\ Used("restarts", MaxRestarts)
    /\ req' = [r \in Requests |-> Idle]
    /\ SaveUser(first, users[first].provider, {FirstId(groups)})
    /\ tainted' = tainted \cup {x \in {first} : Writable(users, x)}
                     \cup {g \in Gids : \E r \in Requests : req[r].group = g /\ req[r].ids # {}}
    /\ UNCHANGED <<groups, used>>

Handler(r) ==
    \/ BeginMembers(r) \/ GetGroup(r) \/ FindUser(r) \/ PutUser(r) \/ PutGroup(r)
    \/ BeginDeleteGroup(r) \/ DropGroup(r)
    \/ BeginDeleteUser(r) \/ GetUser(r) \/ FindTokens(r) \/ DropUser(r)

Next ==
    \/ \E r \in Requests : Handler(r)
    \/ CreateUser \/ CreateGroup \/ UpdateUser \/ UpdateGroup
    \/ Restart

Spec == Init /\ [][Next]_vars

-----------------------------------------------------------------------------
TypeOK ==
    /\ DOMAIN users \subseteq Uids \cap used /\ users \in [DOMAIN users -> UserRow]
    /\ DOMAIN groups \subseteq Gids \cap used /\ groups \in [DOMAIN groups -> GroupRow]
    /\ used \subseteq Uids \cup Gids
    /\ req \in [Requests -> Req]
    /\ tainted \subseteq Uids \cup Gids
    /\ work \in [{"requests", "writes", "restarts"} -> Nat]

In(u, g)     == u \in DOMAIN users /\ g \in users[u].groups
Listed(u, g) == g \in DOMAIN groups /\ u \in groups[g].users

Builtin(rows, id) == id \in DOMAIN rows /\ rows[id].builtin

(* A request has written the user's side of the pair and not yet the group's. *)
HalfWritten(u, g) == \E r \in Requests : HoldsGroup(r, g) /\ u \in req[r].ids

(* The two records of membership agree: a user lists a group exactly when the
   group lists the user, deleted users and groups included, so that nothing lists
   a row that is gone. Claimed for pairs whose rows were never held by two requests
   at once nor left half-written, and outside the builtin rows, which the rewrite
   rules keep from following (services/groups_svc.go AddUsersToGroup,
   RemoveUsersFromGroup, DeleteGroup; users_svc.go DeleteUser). *)
MembershipAgrees ==
    \A u \in Uids \ tainted, g \in Gids \ tainted :
        ~ Builtin(users, u) /\ ~ Builtin(groups, g) /\ ~ HalfWritten(u, g)
            => (In(u, g) <=> Listed(u, g))

(* root stays in Admin and Admin keeps exactly root, through every handler, race,
   partial failure and restart (the builtin_upd and builtin_del rules). *)
RootKeepsAdmin ==
    \E u \in DOMAIN users, g \in DOMAIN groups :
        /\ users[u].builtin /\ users[u].groups = {g}
        /\ groups[g].builtin /\ groups[g].users = {u}

(* A deleted row comes back only by a POST that brings its id, never by a handler that
   still holds a copy of it (db.Updates is an UPDATE, which finds nothing to write) nor by
   a restart; and it comes back as a new row: no list on the other side was left to make
   the old row's memberships its own, where MembershipAgrees is claimed. *)
DeletedReturnsAsNew ==
    [][/\ \A u \in (used \cap Uids) \ DOMAIN users : u \in DOMAIN users' =>
            /\ CreateUser
            /\ \A g \in Gids \ tainted :
                  u \notin tainted /\ ~ Builtin(groups, g) /\ ~ HalfWritten(u, g) => ~ Listed(u, g)
       /\ \A g \in (used \cap Gids) \ DOMAIN groups : g \in DOMAIN groups' =>
            /\ CreateGroup
            /\ \A u \in Uids \ tainted :
                  g \notin tainted /\ ~ Builtin(users, u) /\ ~ HalfWritten(u, g) => ~ In(u, g)]_vars

(* DeleteGroup refuses a group whose list was ever written, emptied or not: nil and empty
   are told apart (groups_svc.go:217), though the refusal says "please remove users first".
   So a group that ever had a list stays, unless a request that had found it without one
   deletes it while another writes the list. *)
FilledGroupsStay ==
    [][\A g \in DOMAIN groups : ~ groups[g].isNull /\ g \notin tainted' => g \in DOMAIN groups']_vars

(* "cannot delete group %s, please remove users first" (groups_svc.go:218): a group whose
   deletion is refused has users to remove. The code does not keep it: DeleteGroup tells
   nil from empty, and a list that was emptied reads back as empty. *)
RefusalMeansMembers ==
    [][\A r \in Requests :
         LET g == req[r].group IN
         req[r].pc = "getGroup" /\ req[r].op = "deleteGroup" /\ req'[r].pc = "idle"
            => g \notin DOMAIN groups \/ groups[g].users # {}]_vars

(* The outcomes PutGroup works with are exactly what the two helpers produce over all
   orders of the list: RemoveFromSlice, whose loop shifts the array it ranges over
   (groups_svc.go:280), skips, removes or panics as RemoveOutcomes says, no more and no
   less; and RemoveDuplicates of a list with a batch appended is their union, each user
   once and the old list unmoved at its head. The helpers keep no state: the lists are
   gone through in the initial state. *)
OutcomesExact ==
    Init => \A members, batch \in SUBSET (1..5) : ExactOn(members, batch)
=============================================================================
