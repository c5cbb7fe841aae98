--------------------------------- MODULE Audit ---------------------------------
(***************************************************************************)
(* What the handlers record: services/audit_svc.go, controllers/audit.go    *)
(* and the calls of CreateAudit in the other controllers.                   *)
(*                                                                          *)
(* A handler prepares a row that says "error", calls its service, sets the  *)
(* row to "success" when the service returned no error, stores it and       *)
(* answers. The service is its outcome here, with or without an effect; the *)
(* row is stored by a later statement, whose error is only logged. An API   *)
(* token whose owner is gone calls as nobody, a user without a name.        *)
(* Webhooks composes this with the handlers that touch webhooks.            *)
(***************************************************************************)
EXTENDS Rows, Sequences

CONSTANTS
    Users,
    Callers,        \* who calls the handlers: users, and perhaps nobody
    Served,         \* the handlers they use, beside those of Webhooks
    MaxRequests, MaxAlive,
    MaxEvents       \* crashes, failed statements, and changes elsewhere

Requests == 1 .. MaxRequests
NoOne    == ""

-----------------------------------------------------------------------------
(* The handlers that record something: category and event of the row. Reads of
   other tables record nothing, and neither does a refresh. *)
Handles(category, events) == {[category |-> category, op |-> e, event |-> e] : e \in events}

TokenHandlers  == Handles("apiTokens", {"create", "update", "delete"})
RunnerHandlers == Handles("runners", {"create", "update", "delete"})
SecretHandlers == Handles("runners", {"update_secret", "delete_secret"})
TaskHandlers   == Handles("tasks", {"create", "update", "delete"})
SchemaHandlers == Handles("tasks", {"update_schema", "delete_schema"})
GroupHandlers  == Handles("groups", {"create", "update", "delete"})
MemberHandlers == Handles("groups", {"add_users", "remove_users"})
RoleHandlers   == Handles("roles", {"get", "create", "update", "delete"})
CronHandlers   == Handles("cronjobs", {"create", "update", "delete"})
JobHandlers    == Handles("jobs", {"create"})
LoginHandlers  == Handles("authentication", {"login"})
HookHandlers   == Handles("webHooks", {"create", "delete", "run"})

(* Every write of a user is recorded as a list. *)
UserHandlers == {[category |-> "users", op |-> o, event |-> "list"] : o \in {"create", "update", "delete"}}

(* Role bindings are recorded as groups. *)
BindingHandlers ==
    {[category |-> "groups", op |-> h[1], event |-> h[2]] :
        h \in {<<"createBinding", "create">>, <<"updateBinding", "update">>, <<"deleteBinding", "delete">>}}

Handlers ==
    UNION {TokenHandlers, RunnerHandlers, SecretHandlers, TaskHandlers, SchemaHandlers, GroupHandlers,
           MemberHandlers, RoleHandlers, CronHandlers, JobHandlers, LoginHandlers, HookHandlers,
           UserHandlers, BindingHandlers}

ASSUME ServedAssumption ==
    Served \subseteq Handlers /\ Callers \subseteq Users \cup {NoOne} /\ NoOne \notin Users

(* What nobody is let through to: POST /webhooks and /api_tokens ask for no role, and the
   token routes let the owner of the token pass, nobody being that of a missing one. Every
   other route asks for the caller's roles, which is an error for a user who is not there. *)
OpenHandlers == TokenHandlers \cup {h \in HookHandlers : h.op = "create"}

MayCall(u, h) == u = NoOne => h \in OpenHandlers

(* CreateUser and CreateApiToken set the row to "success" and do not store it. *)
Quiet(h) == h.category \in {"users", "apiTokens"} /\ h.op = "create"

(* Services that may panic after they changed something: gin recovers, past the row. *)
Panics(h) == h \in JobHandlers \/ h.op \in {"remove_users", "run"}

-----------------------------------------------------------------------------
VARIABLES
    rows,      \* table audit_logs in the order of created_at
    req,       \* the local variables of each request
    effects,   \* requests whose service changed something
    lost,      \* requests that lost a row, to a crash or a failed statement
    count

NoHandler == [category |-> "none", op |-> "none", event |-> "none"]

Idle == [pc |-> "idle", handler |-> NoHandler, user |-> NoOne, outcome |-> "none", answer |-> "none",
         hook |-> "none", key |-> "none", task |-> "none", owner |-> NoOne, groups |-> {}]

InitAudit ==
    /\ rows = <<>> /\ effects = {} /\ lost = {}
    /\ req = [r \in Requests |-> Idle]
    /\ count = [requests |-> 0, events |-> 0]

Used(kind, max) == count[kind] < max /\ count' = [count EXCEPT ![kind] = @ + 1]

(* by is the request, which the table does not know. *)
InitialiseAuditLog(r, user, h) ==
    [by |-> r, user |-> user, category |-> h.category, event |-> h.event, status |-> "error"]

CreateAudit(r, row) ==
    \/ rows' = Append(rows, row) /\ UNCHANGED <<lost, count>>
    \/ Used("events", MaxEvents) /\ lost' = lost \cup {r} /\ UNCHANGED rows

Alive == {r \in Requests : req[r].pc \notin {"idle", "done"}}

(* Request number r, the next one, reaches its handler. *)
Start(r, row) ==
    /\ req[r].pc = "idle" /\ r = count.requests + 1 /\ Cardinality(Alive) < MaxAlive
    /\ Used("requests", MaxRequests)
    /\ req' = [req EXCEPT ![r] = row]

BeginHandler(r) ==
    /\ \E h \in Served \ HookHandlers, u \in Callers :
          /\ MayCall(u, h)
          /\ Start(r, [Idle EXCEPT !.pc = "serve", !.handler = h,
                                   !.user = IF h \in LoginHandlers THEN NoOne ELSE u])
    /\ UNCHANGED <<rows, effects, lost>>

Done(r, outcome, answer) == [Idle EXCEPT !.pc = "done", !.handler = req[r].handler,
                                         !.outcome = outcome, !.answer = answer]

(* The service returned: what it changed is there whether or not it returned an error. *)
Returns(r, outcome) ==
    /\ req' = [req EXCEPT ![r] = IF outcome = "panic"
                                 THEN Done(r, "panic", "panic")
                                 ELSE [@ EXCEPT !.outcome = outcome, !.pc = "record"]]
    /\ UNCHANGED <<rows, lost>>

(* Binding, the checks of the handler and its service. *)
Serve(r) ==
    /\ req[r].pc = "serve" /\ req[r].handler \notin LoginHandlers \cup HookHandlers
    /\ \E outcome \in {"ok", "error"} \cup (IF Panics(req[r].handler) THEN {"panic"} ELSE {}) :
          /\ Returns(r, outcome)
          /\ effects' \in {effects \cup {r}} \cup (IF outcome = "ok" THEN {} ELSE {effects})
    /\ UNCHANGED count

(* Login knows whom to record once the body is bound; a first login from the directory
   creates a user. *)
ServeLogin(r) ==
    /\ req[r].pc = "serve" /\ req[r].handler \in LoginHandlers
    /\ \/ /\ \E u \in Callers \ {NoOne}, outcome \in {"ok", "error"} :
                req' = [req EXCEPT ![r].user = u, ![r].outcome = outcome, ![r].pc = "record"]
          /\ effects' \in {effects, effects \cup {r}}
       \/ req' = [req EXCEPT ![r].outcome = "unbound", ![r].pc = "record"] /\ UNCHANGED effects
    /\ UNCHANGED <<rows, lost, count>>

(* Mutant: errors are answered before the row is stored. *)
RecordSuccess(r) ==
    LET row == InitialiseAuditLog(r, req[r].user, req[r].handler) IN
    /\ req[r].pc = "record"
    /\ IF req[r].outcome # "ok"
       THEN UNCHANGED <<rows, lost, count>>
       ELSE CreateAudit(r, [row EXCEPT !.status = "success"])
    /\ req' = [req EXCEPT ![r] = Done(r, req[r].outcome, IF req[r].outcome = "ok" THEN "ok" ELSE "error")]
    /\ UNCHANGED effects

(* Mutant: the row says how the service ended, in the service's own word. *)
RecordOutcome(r) ==
    /\ req[r].pc = "record"
    /\ CreateAudit(r, [InitialiseAuditLog(r, req[r].user, req[r].handler) EXCEPT !.status = req[r].outcome])
    /\ req' = [req EXCEPT ![r] = Done(r, req[r].outcome, IF req[r].outcome = "ok" THEN "ok" ELSE "error")]
    /\ UNCHANGED effects

(* The row is stored and the answer sent. RunWebhook set its row to "success" at the start. *)
Record(r) ==
    LET h      == req[r].handler
        ok     == req[r].outcome = "ok"
        row    == InitialiseAuditLog(r, req[r].user, h)
        status == IF ok \/ h.op = "run" THEN "success" ELSE "error"
    IN
    /\ req[r].pc = "record"
    /\ IF ok /\ Quiet(h)
       THEN UNCHANGED <<rows, lost, count>>
       ELSE CreateAudit(r, [row EXCEPT !.status = status])
    /\ req' = [req EXCEPT ![r] = Done(r, req[r].outcome, IF ok THEN "ok" ELSE "error")]
    /\ UNCHANGED effects

(* The server dies: what the services changed stays, and no row is written. *)
Crash ==
    /\ Alive # {}
    /\ Used("events", MaxEvents)
    /\ req' = [r \in Requests |-> IF r \in Alive THEN Done(r, req[r].outcome, "none") ELSE req[r]]
    /\ lost' = lost \cup Alive
    /\ UNCHANGED <<rows, effects>>

AuditSteps ==
    \/ \E r \in Requests :
          \/ BeginHandler(r) \/ Serve(r) \/ ServeLogin(r) \/ Record(r)
    \/ Crash

-----------------------------------------------------------------------------
RowsOf(r) == {i \in DOMAIN rows : rows[i].by = r}

(* How many rows an answered request leaves, when none was lost: the one a run has from
   the start, and the one that is stored when the service has returned. *)
DueOf(h, outcome) ==
    LET asked == h # NoHandler /\ outcome # "refused"
        last  == outcome # "panic" /\ ~ (Quiet(h) /\ outcome = "ok")
    IN
    (IF asked /\ h.op = "run" THEN 1 ELSE 0) + (IF asked /\ last THEN 1 ELSE 0)

RowsDue(r) == DueOf(req[r].handler, req[r].outcome)

(* A row is written after what it tells of: an effect has a row of its request unless
   the row is still to come, was lost to a crash or a failed statement, or the
   handler panicked or is one of the two that forget it; an error has its row as well, a
   run two; and "success" is what was answered, of a run whatever came of it. A row says
   who asked, unless it was a login that could not be read, or nobody, through one of the
   routes that let nobody in. *)
RowsTellWhatHappened ==
    /\ \A r \in effects :
          \/ RowsOf(r) # {} \/ req[r].pc = "record" \/ r \in lost
          \/ req[r].outcome = "panic" \/ (Quiet(req[r].handler) /\ req[r].outcome = "ok")
    /\ \A r \in Requests \ lost : req[r].pc = "done" => Cardinality(RowsOf(r)) = RowsDue(r)
    /\ \A i \in DOMAIN rows :
          /\ rows[i].status = "success" <=> (rows[i].event = "run" \/ req[rows[i].by].outcome = "ok")
          /\ req[rows[i].by].outcome = "unbound" => rows[i].user = NoOne
          /\ \/ rows[i].user # NoOne
             \/ req[rows[i].by].outcome = "unbound" \/ req[rows[i].by].handler \in OpenHandlers
=============================================================================
