------------------------------- MODULE Webhooks -------------------------------
(***************************************************************************)
(* Webhooks and their deliveries: services/webhook_svc.go, the part of      *)
(* AuthenticationMiddleware for /webhooks/run, the two signature checks of  *)
(* auth_svc.go, controllers/webhooks.go, and DeleteTask, which asks for     *)
(* webhooks. One action is one statement or call.                           *)
(*                                                                          *)
(* A delivery is a message that the holder of a secret has signed, sent at  *)
(* any time and any number of times: an HMAC is modelled as the secret it   *)
(* was made with. Both kinds of signature are alike in that. What it may do *)
(* is asked of the owner's groups and then of their roles, two queries; the *)
(* roles and bindings of a group are the ids they list (AccessControl).     *)
(***************************************************************************)
EXTENDS Audit

CONSTANTS
    HookIds, Secrets, Tasks, Groups,
    HookBodies,     \* secrets and tasks that clients register
    SeedHooks, SeedTasks,
    SeedUsers,      \* user -> the groups it is in
    SeedGrants      \* group -> the ids its roles list for writing jobs

All    == "*"

HookRow == [owner : Users \cup {NoOne}, secret : Secrets, task : Tasks]
NoHook  == [owner |-> NoOne, secret |-> "none", task |-> "none"]

ASSUME HooksAssumption ==
    /\ DOMAIN SeedHooks \subseteq HookIds /\ SeedHooks \in [DOMAIN SeedHooks -> HookRow]
    /\ SeedTasks \subseteq Tasks /\ HookBodies \subseteq Secrets \X Tasks
    /\ \A h \in DOMAIN SeedHooks : SeedHooks[h].task \in SeedTasks
    /\ NoHook.secret \notin Secrets
    /\ DOMAIN SeedUsers \subseteq Users /\ SeedUsers \in [DOMAIN SeedUsers -> SUBSET Groups]
    /\ SeedGrants \in [Groups -> SUBSET (HookIds \cup Tasks \cup {All})]

VARIABLES
    hooks, tasks,
    users,     \* the users there are, and the groups each is in
    grants,    \* what the roles bound to a group list
    runs,      \* the jobs that deliveries have created
    moments,   \* what each delivery could have seen since it arrived
    late       \* webhooks whose task was gone, or going, when they were created, or not looked for

vars == <<rows, req, effects, lost, count, hooks, tasks, users, grants, runs, moments, late>>

Init ==
    /\ InitAudit
    /\ hooks = SeedHooks /\ tasks = SeedTasks /\ users = SeedUsers /\ grants = SeedGrants
    /\ runs = {} /\ moments = [r \in Requests |-> {}] /\ late = {}

Writes(category, op) == [category |-> category, op |-> op, event |-> op]
RunHook == Writes("webHooks", "run")

Delivering(r) == req[r].pc \in {"findHook", "findOwner", "getUser", "getRoles", "first", "launch"}

(* IsAutorised: the route asks for writing jobs, and the id in its path is the webhook's. *)
Granting(id) == {g \in Groups : grants[g] \cap {All, id} # {}}

Moment(id) == [hook     |-> IF id \in DOMAIN hooks THEN hooks[id] ELSE NoHook,
               users    |-> users,
               granting |-> Granting(id)]

Watch == moments' = [r \in Requests |-> IF Delivering(r)' THEN moments[r] \cup {Moment(req[r].hook)'} ELSE {}]

-----------------------------------------------------------------------------
(* A delivery. *)
Deliver(r) ==
    /\ \E id \in HookIds, key \in Secrets :
          Start(r, [Idle EXCEPT !.pc = "findHook", !.handler = RunHook, !.hook = id, !.key = key])
    /\ UNCHANGED <<rows, effects, lost, hooks, tasks, users, grants, runs, late>>
    /\ Watch

Turned(r, answer) == req' = [req EXCEPT ![r] = Done(r, "refused", answer)]

(* The webhook is read and the signature compared; nothing tells a message from its copy. *)
FindHook(r) ==
    LET id == req[r].hook IN
    /\ req[r].pc = "findHook"
    /\ IF id \in DOMAIN hooks /\ req[r].key = hooks[id].secret
       THEN req' = [req EXCEPT ![r].pc = "findOwner", ![r].task = hooks[id].task, ![r].owner = hooks[id].owner]
       ELSE Turned(r, "unauthorised")
    /\ UNCHANGED <<rows, effects, lost, count, hooks, tasks, users, grants, runs, late>>
    /\ Watch

(* An owner that is not there is no error, but a user without a name. *)
FindOwner(r) ==
    /\ req[r].pc = "findOwner"
    /\ req' = [req EXCEPT ![r].pc = "getUser",
                          ![r].user = IF req[r].owner \in DOMAIN users THEN req[r].owner ELSE NoOne]
    /\ UNCHANGED <<rows, effects, lost, count, hooks, tasks, users, grants, runs, late>>
    /\ Watch

(* The middleware of the route, GetUserRoles: the groups of the user, who must be there. *)
GetUser(r) ==
    LET u == req[r].user IN
    /\ req[r].pc = "getUser"
    /\ IF u \in DOMAIN users
       THEN req' = [req EXCEPT ![r].pc = "getRoles", ![r].groups = users[u]]
       ELSE Turned(r, "error")
    /\ UNCHANGED <<rows, effects, lost, count, hooks, tasks, users, grants, runs, late>>
    /\ Watch

(* Mutant: a role on the webhook's task is asked for. *)
GetUserRolesOnTask(r) ==
    /\ req[r].pc = "getRoles"
    /\ IF req[r].groups \cap Granting(req[r].task) # {}
       THEN req' = [req EXCEPT ![r].pc = "first", ![r].groups = {}]
       ELSE Turned(r, "forbidden")
    /\ UNCHANGED <<rows, effects, lost, count, hooks, tasks, users, grants, runs, late>>
    /\ Watch

(* The roles of those groups, and the decision. *)
GetUserRoles(r) ==
    /\ req[r].pc = "getRoles"
    /\ IF req[r].groups \cap Granting(req[r].hook) # {}
       THEN req' = [req EXCEPT ![r].pc = "first", ![r].groups = {}]
       ELSE Turned(r, "forbidden")
    /\ UNCHANGED <<rows, effects, lost, count, hooks, tasks, users, grants, runs, late>>
    /\ Watch

(* RunWebhook stores a row that says "success" before it does anything. *)
RecordFirst(r) ==
    /\ req[r].pc = "first"
    /\ CreateAudit(r, [InitialiseAuditLog(r, req[r].user, RunHook) EXCEPT !.status = "success"])
    /\ req' = [req EXCEPT ![r].pc = "launch"]
    /\ UNCHANGED <<effects, hooks, tasks, users, grants, runs, late>>
    /\ Watch

(* JobService.CreateJob for the task the webhook had; Jobs has its steps. *)
Launch(r) ==
    LET started ==
            /\ req[r].task \in tasks
            /\ runs' = runs \cup {[by |-> r, task |-> req[r].task, owner |-> req[r].user]}
            /\ effects' = effects \cup {r}
    IN
    /\ req[r].pc = "launch"
    /\ \/ started /\ \E outcome \in {"ok", "error", "panic"} : Returns(r, outcome)
       \/ Returns(r, "error") /\ UNCHANGED <<runs, effects>>
    /\ UNCHANGED <<count, hooks, tasks, users, grants, late>>
    /\ Watch

-----------------------------------------------------------------------------
(* The handlers that write webhooks, and DeleteTask. *)
BeginHook(r) ==
    /\ \E u \in Callers :
          \/ \E id \in HookIds, body \in HookBodies :
                Start(r, [Idle EXCEPT !.pc = "create", !.handler = Writes("webHooks", "create"), !.user = u,
                                      !.hook = id, !.key = body[1], !.task = body[2]])
          \/ \E id \in HookIds :
                /\ MayCall(u, Writes("webHooks", "delete"))
                /\ Start(r, [Idle EXCEPT !.pc = "findOld", !.handler = Writes("webHooks", "delete"), !.user = u,
                                         !.hook = id])
          \/ \E t \in Tasks :
                /\ MayCall(u, Writes("tasks", "delete"))
                /\ Start(r, [Idle EXCEPT !.pc = "listHooks", !.handler = Writes("tasks", "delete"), !.user = u,
                                         !.task = t])
    /\ UNCHANGED <<rows, effects, lost, hooks, tasks, users, grants, runs, late>>
    /\ Watch

Going(t) == t \notin tasks \/ \E r \in Requests : req[r].pc = "dropTask" /\ req[r].task = t

(* The id is drawn, or the body's; the task is not looked for, and the owner is the caller,
   a user or not. *)
CreateWebhook(r) ==
    LET id == req[r].hook IN
    /\ req[r].pc = "create"
    /\ \/ /\ id \notin DOMAIN hooks
          /\ Returns(r, "ok") /\ effects' = effects \cup {r}
          /\ hooks' = Insert(hooks, id, [owner |-> req[r].user, secret |-> req[r].key, task |-> req[r].task])
          /\ late' = IF Going(req[r].task) THEN late \cup {id} ELSE late \ {id}
       \/ Returns(r, "error") /\ UNCHANGED <<effects, hooks, late>>
    /\ UNCHANGED <<count, tasks, users, grants, runs>>
    /\ Watch

(* DeleteWebhook: GetWebhook, and the deletion, which does not mind if the row is gone. *)
GetWebhook(r) ==
    /\ req[r].pc = "findOld"
    /\ IF req[r].hook \in DOMAIN hooks
       THEN req' = [req EXCEPT ![r].pc = "dropHook"] /\ UNCHANGED <<rows, lost>>
       ELSE Returns(r, "error")
    /\ UNCHANGED <<effects, count, hooks, tasks, users, grants, runs, late>>
    /\ Watch

DropHook(r) ==
    /\ req[r].pc = "dropHook"
    /\ \/ /\ Returns(r, "ok")
          /\ hooks' = Without(hooks, req[r].hook)
          /\ effects' = IF req[r].hook \in DOMAIN hooks THEN effects \cup {r} ELSE effects
       \/ Returns(r, "error") /\ UNCHANGED <<hooks, effects>>
    /\ UNCHANGED <<count, tasks, users, grants, runs, late>>
    /\ Watch

HooksOf(t) == {h \in DOMAIN hooks : hooks[h].task = t}

(* Mutant: the webhooks of the caller are looked at. *)
ListTaskWebhooksOfCaller(r) ==
    /\ req[r].pc = "listHooks"
    /\ IF \E h \in HooksOf(req[r].task) : hooks[h].owner = req[r].user
       THEN Returns(r, "error")
       ELSE req' = [req EXCEPT ![r].pc = "dropTask"] /\ UNCHANGED <<rows, lost>>
    /\ UNCHANGED <<effects, count, hooks, tasks, users, grants, runs, late>>
    /\ Watch

(* DeleteTask: the webhooks of the task. The error of the query is overwritten, so a
   query that failed found none. *)
ListTaskWebhooks(r) ==
    LET t == req[r].task IN
    /\ req[r].pc = "listHooks"
    /\ \/ /\ HooksOf(t) # {} /\ Returns(r, "error")
          /\ UNCHANGED <<count, late>>
       \/ /\ HooksOf(t) = {} /\ req' = [req EXCEPT ![r].pc = "dropTask"] /\ UNCHANGED <<rows, lost>>
          /\ UNCHANGED <<count, late>>
       \/ /\ Used("events", MaxEvents)
          /\ req' = [req EXCEPT ![r].pc = "dropTask"] /\ UNCHANGED <<rows, lost>>
          /\ late' = late \cup HooksOf(t)
    /\ UNCHANGED <<effects, hooks, tasks, users, grants, runs>>
    /\ Watch

DropTask(r) ==
    /\ req[r].pc = "dropTask"
    /\ \/ req[r].task \in tasks /\ Returns(r, "ok") /\ effects' = effects \cup {r} /\ tasks' = tasks \ {req[r].task}
       \/ Returns(r, "error") /\ UNCHANGED <<effects, tasks>>
    /\ UNCHANGED <<count, hooks, users, grants, runs, late>>
    /\ Watch

(* Users go, change groups, what the roles of a group list changes, and tasks are created. *)
Change ==
    /\ Used("events", MaxEvents)
    /\ \/ /\ \/ \E u \in DOMAIN users : users' = Without(users, u)
             \/ \E u \in DOMAIN users, gs \in SUBSET Groups : users' = [users EXCEPT ![u] = gs]
          /\ UNCHANGED <<tasks, grants>>
       \/ \E g \in Groups, ids \in {{}, {All}} : grants' = [grants EXCEPT ![g] = ids] /\ UNCHANGED <<tasks, users>>
       \/ \E t \in Tasks \ tasks : tasks' = tasks \cup {t} /\ UNCHANGED <<users, grants>>
    /\ UNCHANGED <<rows, req, effects, lost, hooks, runs, late>>
    /\ Watch

Next ==
    \/ AuditSteps /\ UNCHANGED <<hooks, tasks, users, grants, runs, late>> /\ Watch
    \/ \E r \in Requests :
          \/ Deliver(r) \/ FindHook(r) \/ FindOwner(r) \/ GetUser(r) \/ GetUserRoles(r)
          \/ RecordFirst(r) \/ Launch(r)
          \/ BeginHook(r) \/ CreateWebhook(r) \/ GetWebhook(r) \/ DropHook(r)
          \/ ListTaskWebhooks(r) \/ DropTask(r)
    \/ Change

Spec == Init /\ [][Next]_vars

-----------------------------------------------------------------------------
PCs == {"idle", "serve", "findHook", "findOwner", "getUser", "getRoles", "first", "launch", "create",
        "findOld", "dropHook", "listHooks", "dropTask", "record", "done"}

TypeOK ==
    /\ \A h \in DOMAIN hooks : hooks[h] \in HookRow
    /\ DOMAIN hooks \subseteq HookIds /\ tasks \subseteq Tasks
    /\ DOMAIN users \subseteq Users /\ users \in [DOMAIN users -> SUBSET Groups] /\ DOMAIN grants = Groups
    /\ runs \subseteq [by : Requests, task : Tasks, owner : Users]
    /\ effects \subseteq Requests /\ lost \subseteq Requests /\ late \subseteq HookIds
    /\ \A r \in Requests :
          /\ req[r].pc \in PCs /\ req[r].user \in Users \cup {NoOne}
          /\ req[r].handler = NoHandler \/ req[r].handler \in Handlers
          /\ Delivering(r) <=> moments[r] # {}
    /\ \A i \in DOMAIN rows : rows[i].by \in Requests /\ rows[i].status \in {"success", "error"}

Signed(r, x) == x.hook # NoHook /\ x.hook.secret = req[r].key

(* A job that the delivery starts, and a reason for which it is turned away: the webhook,
   the groups of its owner and what the groups are granted, each as it was at a moment. *)
StartedFor(r, run) ==
    \E x, y, z \in moments[r] :
        /\ Signed(r, x) /\ x.hook.task = run.task /\ x.hook.owner = run.owner
        /\ run.owner \in DOMAIN y.users /\ y.users[run.owner] \cap z.granting # {}

TurnedAway(r, answer) ==
    \E x, y, z \in moments[r] :
        CASE answer = "unauthorised" -> ~ Signed(r, x)
          [] answer = "forbidden" -> /\ Signed(r, x) /\ x.hook.owner \in DOMAIN y.users
                                     /\ y.users[x.hook.owner] \cap z.granting = {}
          [] OTHER -> Signed(r, x) /\ x.hook.owner \notin DOMAIN y.users

Decided(r) ==
    /\ \A run \in runs' \ runs : run.by = r => StartedFor(r, run)
    /\ Delivering(r) /\ req'[r].outcome = "refused" => TurnedAway(r, req'[r].answer)

(* A job that a delivery starts runs the task of a webhook that had the message's secret,
   for the owner of that webhook, a user that was there, one of whose groups had a role that
   lists the webhook. All of it was so since the delivery arrived, though perhaps never at
   one time: the webhook may have been deleted, or created again by somebody else, the owner
   may have left the group before it was granted anything. And a delivery is turned away
   only for a reason of that kind: a copy of a message is as good as the first
   (middlewares/auth.go:44, webhooks.go:56, users_svc.go:184 and :194). *)
DeliveriesAreDecidedBySignature == [][\A r \in Requests : Decided(r)]_vars

(* DeleteTask refuses a task with webhooks (task_svc.go:197): a webhook has lost its task
   only if it was created without one, or while the task was being deleted, or if the
   query for webhooks failed unnoticed. *)
OrphanHooksCameLate == \A h \in DOMAIN hooks : hooks[h].task \notin tasks => h \in late
=============================================================================
