# A TLA+ development for kriten

kriten turns Kubernetes Jobs into an HTTP API. It is a Go service (gin, gorm on
Postgres, client-go): *runners* (an image and a git repository) and *tasks* (a
command and an input schema) are ConfigMaps, launching a task creates a Job, and
users, groups, roles, role bindings, API tokens, webhooks and the audit log are
Postgres tables. This directory holds TLA+ modules translated from its source, the
TLC configurations that check them, and proofs that TLAPS checks.

File and line references are relative to the repository (`src/`). `PROJECT.json`
lists components, runs, hazards and theorems, and maps definitions to lines.

## 1. Inventory

The service keeps nothing in memory between requests. All shared state is in
Postgres and in the Kubernetes API; handlers run concurrently, one goroutine per
request, with no lock and with **no database transaction spanning statements**.
gin recovers a panicking handler, and whatever it wrote before stays.

| Component | State | Operations | Where it gets hard |
|---|---|---|---|
| Start-up and builtin rows (`main.go`, `config/db.go`) | tables `users`, `groups`, `roles`, `role_bindings`; Postgres rewrite rules | connect with retry, `InitDB`: about fifteen statements, errors mostly ignored | crash between statements, restart over other data, failing statements, rules installed last |
| Users, groups, membership (`services/users_svc.go`, `groups_svc.go`, their controllers) | `users.groups` and `groups.users`: membership stored twice | create, update, delete, add users to a group, remove them | two-sided writes without transaction, read-modify-write of whole lists, slice surgery under a `range` |
| Roles and bindings (`roles_svc.go`, `role_bindings_svc.go`) | `roles`, `role_bindings` | CRUD, checks that a role or group is not in use | lookups that mix names and uuids; check-then-delete |
| Authentication and authorisation (`auth_svc.go`, `middlewares/auth.go`) | JWTs held by clients, the tables above | login (local, Active Directory), refresh, validation, `IsAutorised`, webhook signatures | a token outlives what it says; precedence of wildcard roles; grants read in two queries |
| API tokens (`tokens_svc.go`) | `api_tokens` | CRUD, validation | write-back of a whole row; owner deleted meanwhile |
| Catalog (`runner_svc.go`, `task_svc.go`) | ConfigMaps, Secrets | CRUD of runners, tasks, schemas, secrets | one namespace of names for two kinds; several Kubernetes calls per handler; check-then-delete |
| Jobs (`job_svc.go`, `helpers/k8s.go`) | Jobs, Pods, logs | launch, synchronous wait, list, result extraction | polling against the job controller, the TTL and a timeout |
| Scheduled jobs (`cronjobs_svc.go`) | CronJobs | CRUD, suspend | copies of runner and task that go stale |
| Webhooks (`controllers/webhooks.go`, `webhook_svc.go`) | `webhooks` | CRUD, signed deliveries | repeated deliveries; the webhook outliving its task |
| Audit log (`audit_svc.go`) | `audit_logs` | one row per request | success recorded before the work |

The parts interact through data alone: `InitDB` writes the rows that membership,
authorisation and role handlers read; authorisation joins `users.groups` to
`role_bindings` and `roles`; `DeleteUser` consults `api_tokens`, `DeleteGroup` and
the role handlers consult `role_bindings`; a launch reads a task's ConfigMap, its
runner's ConfigMap and Secrets; a webhook or CronJob names a task by string.

What makes each correct:

- *Start-up*: every listening server that met no database error has an
  administrator, whose access no crash, restart or request takes away.
- *Membership*: the two records agree and name no row that is gone; root stays
  the only member of Admin; a deleted row comes back only by a POST that brings its id,
  and then without its memberships; what the API refuses it refuses for the stated reason.
- *Authorisation*: a request passes only if groups that the caller was in at one moment
  of the request are granted it at another; a row is written only under the id, and removed only
  under the name, that was authorised; a binding never starts to grant something new
  because its role went.
- *Credentials*: a key has one row and one owner for life; a disabled or expired token
  lives again only on purpose or by a write-back; nobody writes another's token.
- *Catalog*: no task names a runner that is gone; deleting one kind never removes
  the other; a failed creation can be retried; what is shown of a secret, a mask, changes
  nothing when it is sent back. The code keeps these only in part; section 3 says in which.
- *Jobs*: what is launched was in the catalogue while it was launched; an answer
  belongs to the job launched; a panic, an "unknown" or a "created" has a cause in the
  life of the job or in its log; every request is answered; a job's data is what its log
  encloses.
- *Webhooks*: a delivery runs what its signature, its owner's groups and their roles
  allow, each as it was at a moment of the delivery, and is turned away for nothing else; a webhook outlives its task only in a race.
- *Audit*: a row is written after what it tells of, one per answered request, and
  says what was answered.

## 2. Modules

    AdminAccess <--refines-- Boot --> BootProofs              MCBoot
    GroupLists --> Membership --> MembershipProofs            MCMembership
    Authorised  <--refines-- AccessControl --> AccessProofs   MCAccessControl
    Credentials --> CredentialProofs                          MCCredentials
    Catalog --> CatalogProofs                                 MCCatalog
    Jobs --> JobProofs                                        MCJobs
    LogJson --> LogProofs                                     MCLogJson
    Audit --> Webhooks --> WebhookProofs                      MCWebhooks

Every module but the abstract ones, GroupLists and LogJson extends Rows. An arrow to
the right is EXTENDS; on the right stand the modules that give the constants values.
The modules named Proofs hold the theorems of section 4 and nothing that is modelled.

**Rows** - a table is a function from primary keys to rows; `Insert` (`db.Create`),
`Without` (`db.Delete`) and `FirstId` (what `FirstOrCreate` without a condition
selects: the lowest primary key). A uuid is a natural because the code depends on
uuids only by equality and, through `ORDER BY id LIMIT 1`, by order; 0 is Go's zero
uuid.

**Boot** - `main.go`'s connection loop and `config.InitDB`, one action for each
statement (`FirstUser`, `AssignUser`, `AdminRole`, `AdminGroup`, `LinkRoot`,
`BindRoot`, `BuiltinRoles`, `CreateRule` eight times), since each commits on its
own. `pc` is the statement that runs next, `mem` is InitDB's local variables, which
a crash loses. Every statement may fail (`Fault`); the code ignores the error except
at `AssignUser`, where `InitDB` returns and the server starts anyway. `Update` and
`Delete` apply the rewrite rules `builtin_upd` and `builtin_del` of the table when
they are installed. `Api` is the effect of the handlers on the same tables once the
server listens; any write is allowed there except those that need rights nobody
holds, so it over-approximates the handlers modelled elsewhere.

**AdminAccess** - the abstract specification of a start: two booleans. A server
that begins to listen has granted the administrator its access, and access granted
is never withdrawn. `Boot!ImplementsAdminAccess` is the refinement.

**GroupLists** - the two slice helpers of `groups_svc.go`. `RemoveFromSlice` deletes
from the slice it is ranging over: Go's `range` keeps the original length but reads
the shared backing array, which `append(s[:k], s[k+1:]...)` shifts. The operator
has exactly that loop, including the panic of `s[k+1:]` past the current length.
`RemoveOutcomes` is a closed form of what it can do to a list in unknown order;
Membership uses it so that it can keep lists as sets. `ExactOn` says of a list's members
and a batch that the closed form and the loop agree over all orders.

**Membership** - one action for each SQL statement of a handler, for any number of
requests at a time. `req[r]` holds the local variables of the handler of request
`r`: where it is (`pc`), the copy of the group row it read (`groupRow`), the copy of
the user row (`userRow`), the usernames it still has to do (`todo`) and the ids it
has done (`ids`).

| Action | Code |
|---|---|
| `GetGroup` | `GetGroupByID` and the checks of `AddUsersToGroup` and `DeleteGroup` |
| `FindUser`, `PutUser` | `UpdateUsers` in `groups_svc.go`: `GetByUsernameAndProvider`, then `AddGroup` or `RemoveGroup` of `users_svc.go` |
| `PutGroup` | `RemoveDuplicates` or `RemoveFromSlice`, then `UpdateGroup` |
| `DropGroup` | `db.Delete` of `DeleteGroup` |
| `GetUser`, `FindTokens`, `DropUser` | the three statements of `DeleteUser` |
| `CreateUser`, `CreateGroup`, `UpdateUser`, `UpdateGroup` | the handlers with one writing statement; a body may carry lists, stored as they come, and a creation an id, also that of a deleted row |
| `Restart` | the process dies with its requests and `InitDB` runs over the rows |

`isNull` keeps apart a `users` column never written (Go `nil`) and an empty one
(`{}`): `DeleteGroup` does. `SaveUser` writes the *whole* row read before, as
`db.Updates(user)` does. `tainted` is bookkeeping of the model, not of the program:
the rows for which agreement is not claimed, because two requests held a copy at
once (a lost update is then possible, and TLC shows it if the taint is dropped),
because a request ended between the two sides of its work, or because a body or a
restart wrote a list directly. Everything else must agree.

**Catalog** - runners, tasks, schemas, tokens and secrets. `maps` is the ConfigMaps
of the namespace and `secrets` its Secrets, both from names to contents; a runner is
a ConfigMap with an image, a task one with a runner, and one name has one ConfigMap.
One action is one call to Kubernetes, and `req[r]` again holds the local variables of
a handler; a call may fail (`Fail`), and then the handler answers an error and undoes
nothing. No call carries a resource version, so a write replaces what is there.

| Action | Code |
|---|---|
| `BeginRunner`, `BeginTask`, `BeginDelete`, `BeginSchema`, `BeginSecret` | the routes of `controllers/runner.go` and `task.go`; the name of the body, not of the path, is what counts |
| `FindMap`, `FindRunner`, `ReadMap` | the reads before a ConfigMap is written, with their checks |
| `CreateMap`, `UpdateMap`, `DropMap` | the write. `DeleteSchema` loses the synchronous flag on the way |
| `CreateToken`, `FindToken`, `PutToken`, `DropToken` | the object `<name>-token` in `CreateRunner` and `UpdateRunner` |
| `GetSecret`, `PutSecret`, `DropSecret` | `UpdateSecret` with its merge (`Merge`), `DeleteSecret` |
| `ListTasks`, `FindWebhooks` | what `DeleteRunner` and `DeleteTask` check; `DeleteTask` ignores an error of the query |
| `ReadBack` | the `GetRunner` or `GetTask` that ends a handler |

`TokenOf` is the concatenation with `-token`: any injective function, which may give
the name of another runner. `raced`, `echo`, `fresh` and `left` are bookkeeping of the
model. A
runner's name enters `raced` when `DeleteRunner` has listed the tasks and a request
that already read the runner is about to write a task for it (or the other way
round), and when a task route overwrites or deletes the runner; everywhere else a
task's runner must exist. A request is in `echo` as long as it writes back exactly
what `GetRunner` answered and nobody else has written. Likewise `fresh` holds the
requests that nobody has disturbed, and `left` the tokens of names that have no runner.

**Authorised** - the abstract specification of a decision. A question is open from the
time it is asked; it is decided once, from the groups its caller was in at *some*
moment since then and from what those groups may do *now*. That is weaker than a
decision at one instant, and it is what two queries can promise.

**AccessControl** - roles, role bindings and the decision of every request.
`Begin` is a request that has a user; `GetUser` and `Decide` are the two queries
of `GetUserRoles` with `IsAutorised` after them, `SetAuthorizationList` and `List` the
listings. `CheckRole`, `InsertRole`, `PutRole`, `ReadBack`, `ListBinds`, `FindRole`,
`DropRole`, `FindGroup`, `InsertBind`, `PutBind`, `FindBind`, `DropBind` are the
statements of the six writing handlers and of the reads. Path ids are strings, and
names and uuids are different ones: that is how the module shows which routes look
up a name and which a uuid. `ChangeUser` and `DropGroup` stand for the handlers of
Membership. `moments` holds the groups an undecided caller has been in; with it,
`ImplementsAuthorised` is the refinement. `given` holds the ids that bodies chose: such a
row may be found, under its name, for one that had the id before.

**Credentials** - API tokens and JWTs against the clock. `FindKey` and `FindOwner`
are `ValidateAPIToken`; `AskOwner` and `GetRoles` the two ways in which
`IsAutorised` decides; `InsertToken`, `ListTokens`, `ReadToken`, `PutToken`,
`ReadBack`, `DropToken` the handlers of `tokens_svc.go`; `CountTokens` and `DropUser`
are `DeleteUser`; `Login`, `CreateUser`, `FindUser` and `Refresh` the two login paths
and the renewal. `Tick` lets a second pass. An owner who is not found is the zero uuid,
as in the code, not an error. `late` collects the keys made, or whose owner was
written back, behind the back of `DeleteUser`, and `given` the ids that bodies chose.

**Jobs** - launches, jobs and CronJobs. `ReadTask`, `ReadRunner` and `ReadToken` copy
the catalogue, `CreateJob` and `PutCron` write the copy; `Poll`, `PollTimeout`,
`ReadPods`, `ReadJob` and `ReadLog` are the synchronous wait and the `GetJob` after it:
the pods, the job with its start time, the logs and the search in them. Of a job's log
the module keeps which of the three cases of LogJson it is in: no mark, too short after
its first mark (`half`, where the search panics), or long enough;
`ListJobs`, `ReadCron`, `ListCrons`, `ReadSchema`, `DropCron` the rest; `Fail` a call
that returns an error. Kubernetes is the environment: `Control` starts a job, adds a
pod, fails it, succeeds, marks the job for collection and collects it, `Fire` makes a
job of a CronJob. `seen` holds the catalogues since a request began.

**LogJson** - `findDelimitedString`, which cuts a job's data out of its logs, on the
logs as `GetLog` joins them: for each pod of the list a header and the log of its init
container, then a header and the log of its application container. Containers write, the
application's starts after the other, and a failed pod is retried (`Write`, `StartApp`,
`Retry`) while clients look. The two headers are one, and every log is read: the text of
an error that `GetLog` puts in place of a log is left out.
The loop is a recursive function over positions with both of the code's bounds,
including the slice past the end that panics.

**Audit** - which row which handler writes. `Handlers` lists every handler that
records something, with the category and event it writes (which are not always
its own: users are recorded as lists, bindings as groups). `Callers` may contain nobody,
the zero user as whom the key of a token without an owner authenticates: the routes that
ask for no role (`OpenHandlers`) let it in, and their rows have no user name. `Serve` is the
service, by its outcome and whether it changed something; `Record` is the row,
built at the start (`InitialiseAuditLog`) and stored at the end (`CreateAudit`), and
the answer; `Crash` ends all requests. `effects` and `lost` are bookkeeping.

**Webhooks** - extends Audit with the handlers that touch webhooks, statement by
statement. A delivery is `Deliver`, `FindHook` (the signature), `FindOwner`, `GetUser` and
`GetUserRoles` (the two queries of the decision: the owner's groups, then what those are
granted), `RecordFirst`, `Launch`; the others are `CreateWebhook`, whose owner may be
nobody, `GetWebhook` and `DropHook`, `ListTaskWebhooks` and `DropTask` of `DeleteTask`. A
message is the id of a webhook and the secret it was signed with, and may arrive at any
time and any number of times. `moments` holds what a delivery could have seen since it
arrived: the webhook, who is in which group, and which groups are granted it.

**MCBoot, MCMembership, MCAccessControl, MCCredentials, MCCatalog, MCJobs, MCLogJson,
MCWebhooks** - the values of the constants.

Definitions marked "Mutant" are plausible mistakes in the code (a dropped check, a
write of the wrong id, `db.Save` for `db.Updates`): putting one in place of the
definition after it must break a property, which shows that the property watches
that line. No specification uses them.

## 3. What TLC checks

| Run | Question | Bounds |
|---|---|---|
| `boot_faults` | What does a start, with any statement failing, leave behind, and what does the next one change? `ServedMeansSealed`, `SealedForever`, `RestartFootprint`, `EventuallyServing` | 2 users, 2 groups, 2 roles, 1 crash, 2 failing statements |
| `boot_crashes` | Does the start-up implement AdminAccess, and does root end up an administrator? `ImplementsAdminAccess`, `EventuallySealed` | 2 users, 2 groups, 3 roles, 3 crashes, no failing statement |
| `membership_races` | Do the two records agree wherever no two requests met? `MembershipAgrees`; what the slice helpers return, `OutcomesExact` | 3 users, 3 groups, 3 requests, 2 at a time, batches of 1 and 2; lists of at most 5 |
| `membership_lifecycle` | Do root and filled groups stay what they are, and how does a deleted row come back, with creations, updates and a restart between any two statements? `RootKeepsAdmin`, `DeletedReturnsAsNew`, `FilledGroupsStay` | two providers, builtin rows that are *not* the first of their table, 2 requests, 1 single write, 1 restart |
| `membership_refusal` | refutes the sentence of a refusal (section 5) | 1 user and 1 group beside the builtin ones, 3 requests |
| `catalog_tasks` | Can a task lose its runner, or another field through the schema routes, other than by a race? `TasksHaveRunners`, `SchemaRoutesKeepTask` | 3 names, 4 requests, 2 at a time, 1 failing call |
| `catalog_secrets` | Is an empty Secret or value ever kept? Does writing back what was read, masks included, change anything? When is a creation refused half-way? `TypeOK`, `EchoIsHarmless`, `ConflictMeansLeftOrRaced` | 2 names, 2 keys, 2 values, 3 requests, 2 at a time, 1 failing call |
| `log_json` | When exactly does the search panic, what does it return, and does a later look agree? `PanicsExactly`, `ReadsEnclosed`, `AnswersAreStable` | 7 characters of an alphabet of 3, a mark of 2, 2 pods of 2 containers, the pods in either order |
| `access` | Is every decision one that Authorised allows? Do bindings and roles name each other, what does a binding without its role grant later, and who writes which row? `ImplementsAuthorised`, `BindingNamesItsRole`, `DanglingStays`, `WritesWhatWasAuthorised`, `UpdatesNeedWildcard` | 2 users, 2 groups, 3 roles, 3 bindings, 3 requests, 2 at a time, 1 change of membership |
| `credentials` | Who is left without an owner, which token lives again, whose token is written? `OrphansCameLate`, `RevivedOnPurpose`, `KeysAreForLife`, `WritesOwnTokens` | 3 users, 3 tokens, 3 requests, 2 at a time, 2 seconds, JWTs of 1 second |
| `jobs` | Is what runs what was in the catalogue? What can a synchronous launch answer, what panics, and does every request end? `CopiesTheCatalogue`, `SyncAnswers`, `RequestsAnswered` | 2 requests, 1 event (a change, a failed call or a fired CronJob), 3 jobs, of which those of one of 2 commands write marks |
| `webhooks` | Is a delivery decided by signature, owner and role? Which webhook loses its task? Does the log tell what happened? `DeliveriesAreDecidedBySignature`, `OrphanHooksCameLate`, `RowsTellWhatHappened` | 1 webhook, 2 tasks, 2 users and nobody as callers, 2 groups, 2 requests, 2 events (a crash, a failed statement or a change) |

Why the bounds are enough. In Boot, two rows per table are what it takes for
"the first row" and "the builtin row" to differ, which is all `FirstOrCreate` can
confuse; one crash reaches every prefix of `InitDB` followed by a complete start, and
two faults let a second statement fail because of what the first left. In Membership
the smallest lost update takes two requests on one group; a batch of two users is
the smallest one in which a half-done request and a panicking `RemoveFromSlice`
occur, and a third request sees what two of them left. Five users are enough for
runs of adjacent hits of length one to four with something to separate them. In
Catalog a task, its runner and a free name are what the checks between kinds relate;
two requests at a time meet in every pair of calls, and two more come before or
after. `catalog_secrets` starts from a runner with a token and a secret, so that every
body meets present and absent keys. In LogJson only the length of the mark and that
its occurrences do not overlap matter to the loop; with a mark of two, seven
characters hold two marks with text between them, and before or after them, and a job has
two pods because its `backoffLimit` is 1. In `membership_lifecycle` two requests and one
write are a deletion, a creation with the deleted id and a request that still holds the
deleted row.

In AccessControl a second role and binding can be created, and a builtin and an
ordinary one exist; the bodies include one that widens a scope, one with no
resource ids and one that brings back an id. Two requests meet in every pair of
statements and a third comes before or after; the change of membership can fall
between the two queries of a decision. In Credentials a JWT expires while its holder
is at work, and one second more lets a token expire as well; a body may reuse the id of
a token that was deleted. In Jobs each of task, runner and token has two versions,
one event turns one into the other between any two reads, and a second request sees
the job of the first; the command that writes marks arrives by such an event and is
launched synchronously, so that a wait ends at every point of the log. In Webhooks two events are what it takes for the owner to leave a group and
that group to be granted something, between the two queries of a decision. The webhook is
deleted during its delivery, or registered before one, by a user or by nobody; both
during one delivery, so that it comes back with another secret, take three requests and
are left to the theorem `SignedDeliveries`. The theorems of section 4 carry all safety
properties beyond these instances.

Requests are interchangeable in AccessControl and Credentials, whose runs use symmetry;
no liveness property is checked there.

Deadlock is not checked: each bound on requests, writes, crashes and restarts ends a
behaviour that the program would continue.

Fairness. In Boot, `FairSpec` is weak fairness of `BootStep` alone. `InitDB` is straight-line
code on the main goroutine with one bounded loop, and the connection loop retries
for ever, so a step that stays possible is taken; that Postgres is reachable in
the end is the assumption inside it. Crashes are bounded and the API is not assumed
to do anything. Under it `EventuallyServing` says that no error keeps a start from
ending, and `EventuallySealed` that root becomes an administrator for good when no
statement fails. In Jobs each request has weak fairness of its own statements: a
handler is a goroutine, a call to Kubernetes returns, and the wait of twenty
seconds passes (`PollTimeout`). Nothing is asked of the job controller: a job may
never start. Under it `RequestsAnswered` says that no request hangs. The other modules
state safety only: their requests are straight-line code without a loop that waits.

## 4. What is proved

Every safety property of section 3 that the runs find true is a theorem, for any sets of
ids, names, bodies and seeds, any number of requests, of requests at a time, of crashes,
failing statements and other events, any log and any list of users. "Bounds" are still
constants, but of any value.

| Module | Theorem | Statement |
|---|---|---|
| `BootProofs` | `TypeCorrect` | `Spec => []TypeOK` |
| | `ServedIsSealed` | `Spec => []ServedMeansSealed` |
| | `SealIsForever` | `Spec => SealedForever` |
| | `RestartsAreHarmless` | `Spec => RestartFootprint` |
| | `BootImplementsAdminAccess` | `MaxFaults = 0 => (Spec => ImplementsAdminAccess)` |
| `MembershipProofs` | `TypeCorrect` | `Spec => []TypeOK` |
| | `RootIsAdmin` | `Spec => []RootKeepsAdmin` |
| | `MembershipAgreement` | `Spec => []MembershipAgrees` |
| | `DeletedReturns` | `Spec => DeletedReturnsAsNew` |
| | `FilledIsFinal` | `Spec => FilledGroupsStay` |
| | `ListsAreExact` | `\A members, batch : IsFiniteSet(members) /\ IsFiniteSet(batch) => ExactOn(members, batch)` |
| | `OutcomesSafe` | `Spec => []OutcomesExact` |
| `AccessProofs` | `TypeCorrect` | `Spec => []TypeOK` |
| | `BindingsNameTheirRoles` | `Spec => []BindingNamesItsRole` |
| | `DanglingBindingsStay` | `Spec => DanglingStays` |
| | `WritesAreAuthorised` | `Spec => WritesWhatWasAuthorised` |
| | `OnlyWildcardsUpdate` | `Spec => UpdatesNeedWildcard` |
| | `DecisionsArePromised` | `Spec => ImplementsAuthorised` |
| `CredentialProofs` | `TypeCorrect` | `Spec => []TypeOK` |
| | `OrphanTokensCameLate` | `Spec => []OrphansCameLate` |
| | `TokenKeysAreForLife` | `Spec => KeysAreForLife` |
| | `TokenWritesAreOwn` | `Spec => WritesOwnTokens` |
| | `TokensReviveOnPurpose` | `Spec => RevivedOnPurpose` |
| `CatalogProofs` | `TypeCorrect` | `Spec => []TypeOK` |
| | `TasksKeepTheirRunner` | `Spec => []TasksHaveRunners` |
| | `SchemaRoutesWriteTheSchema` | `Spec => SchemaRoutesKeepTask` |
| | `ConflictsAreOfTokens` | `Spec => ConflictMeansLeftOrRaced` |
| | `EchoesAreHarmless` | `NoClash => (Spec => EchoIsHarmless)` |
| `JobProofs` | `TypeCorrect` | `Spec => []TypeOK` |
| | `CopiesAreOfTheCatalogue` | `Spec => CopiesTheCatalogue` |
| | `LaunchesAnswerTruly` | `Spec => SyncAnswers` |
| `LogProofs` | `TypeSafe` | `Spec => []TypeInv` |
| | `PanicsSafe` | `Spec => []PanicsExactly` |
| | `ReadsSafe` | `Spec => []ReadsEnclosed` |
| | `AnswersSafe` | `Spec => AnswersAreStable` |
| `WebhookProofs` | `TypeCorrect` | `Spec => []TypeOK` |
| | `OrphansCameLate` | `Spec => []OrphanHooksCameLate` |
| | `SignedDeliveries` | `Spec => DeliveriesAreDecidedBySignature` |
| | `RowsAreTrue` | `Spec => []RowsTellWhatHappened` |

**Assumptions.** Only the named `ASSUME`s of the modules, which TLC evaluates in the runs:
ids of different tables differ, what is seeded has its types, bodies and batches are drawn
from the constants, `Nobody` is no user, the mark is not empty and no header has a
character of it, a bound is a natural number. No constant is assumed finite. Three theorems
have a hypothesis of their own. `ListsAreExact` is about finite sets, since a Go slice has
finitely many elements; no other theorem rests on it but `OutcomesSafe`, which is about
subsets of `1..5`: the actions of Membership use the closed form whatever the size of their
lists, and `ListsAreExact` is why they may. `BootImplementsAdminAccess` takes
`MaxFaults = 0`, because AdminAccess has no failing statement: the code listens after a
failed `AssignUser` without having bound anything, which `ServedMeansSealed` says.
`EchoesAreHarmless` takes `NoClash`, that no runner has the name of another one's token;
without it the property is false (section 5).

**Shape.** An invariant here is seldom inductive: it speaks of tables, and a handler writes
from what it read in an earlier statement. So each inductive invariant says, for every
request, what its position in the handler lets it rely on, and of which other requests'
statements that survives. There is a lemma for each statement, in two parts: the request
that moves, and the others. The theorems combine them with PTL; action properties
follow from the invariant of the state before the step.

*Boot.* `TypeInv` adds to the types what `mem` holds at each statement (`FirstLoaded`:
what is taken for root and Admin is the first row). `Seal(u, b)` names the rows of a
sealed installation; every statement and every API write keeps them, because all rules
are there. `BootInv` is behind `ServedMeansSealed` and the refinement: while no statement
has failed, the tables are sealed or `Resumable`, that is, they hold nothing that
`InitDB` did not write, no rule protects the binding yet (it is the last one), and the
local variables name the rows of the statements that have run.

*Membership.* `IInv == TypeInv /\ BuiltinsStay /\ Agreement`. `BuiltinsStay`: the builtin
rows are what `InitDB` left, because every write goes through `Writable`.
`Agreement` has three parts. `HeldOnce`: an untainted row is held by at most one
request. `CopiesFresh`: a copy held of an untainted row still equals the row, because a
write by another request would be by another holder. `PairsOK`: for an untainted pair
the two records agree, or one request has written the user's side and holds the group
with that user in `ids`, and the difference is exactly what its `PutGroup` will write.
`DeletedReturns` follows: only a creation adds a row (`OnlyPostsAdd`), and as a row that is
not there has no member, the other side lists it in no untainted pair.

*AccessControl.* `Authorised`, `Checked` and `Found` follow a request: which path id it was
let pass for, which of the ids of its body are names of roles, and under which
name it found the row it is about to write, that row being what it was unless a body
has chosen its id (`given`). `RolesOK` carries what `CheckRole` leaves in the table: a
scope on roles is the wildcard or lists names, so that a uuid in a path matches only a
wildcard (`UpdatesNeedWildcard`). `MomentsOK` is the refinement's: the groups that
`GetUser` read are among the moments of the question. `DecisionsArePromised` then maps
`Decide` to a verdict of Authorised, every other statement to a change of what is granted
or a stutter.

*Credentials.* `FoundNone`: a user about to be deleted owns no token but excused ones.
`LookedUp` and `ActsForNobody` say the same between the statements of
`ValidateAPIToken`, `HasCopy` that an update holds the owner the row has, `OnOwn` that
a request past the check is on a token of its user. All are excused for ids that
bodies chose. The first form of `OrphansCameLate` was not inductive, and rightly: see
section 5, *Credentials*.

*Catalog.* `BoundOK`: a runner that a task names, in a ConfigMap or in a request that is
about to write one, is there and nobody is about to delete it, unless its name is in
`raced`. `FreshOK` says what an undisturbed request knows (`Knows`): a schema route that
its copy is the row up to the schema; `CreateRunner` that an object under its token's
name had been left behind. `EchoOK` adds that a request in `echo` still holds what is stored.

*Jobs.* `CopiesOK`: each piece a request has copied was in a catalogue of `seen`, which the
present one always belongs to. `JobsOK` has the life of a job (`Life`): no result
before a start, no more pods than the limit, pods for whatever came of it until it is
collected. `WaitsOK`: the job a launch waits for is its own, and when the wait ended by
itself the job has started and has a result or a failed pod, or is gone. `CountOK`
bounds the jobs by the requests and events that are left, so that names never run out.
`SyncAnswers` is proved in two halves: what any panic tells (`PanicsHaveTheirReason`) and
what a launch answers after its wait (`LaunchAnswers`).

*Webhooks.* The types need what each statement finds in the variables of its request
(`SlotOK`). `OrphanInv`: a request about to delete a task has seen that no webhook uses
it, so that the webhooks of the task are in `late`. `MomentsInv` has one conjunct for each
statement that a delivery has behind it: the moment now is among its moments; one of them
had the webhook that signed it, with the task and owner it carries; its user is
that owner, or nobody and the owner was not there at one of them; the groups it has read
were the owner's at one of them, and after the decision one of those groups was granted
the webhook at one of them. `LogInv` counts rows: none until a run stores its
first one, one until its end, and then as many as are due (`RowsSoFar`); a row is
of a request that has not ended only if it is the first of a run (`Tells`); and a request
about to store its row has a user unless its body could not be bound or its route lets
nobody in (`Remembers`).

*Loops.* `findDelimitedString`, `RemoveFromSlice`, `RemoveDuplicates` and `FlattenSeq` are
recursive functions, that is, a CHOOSE of a function that satisfies an equation, about
which nothing is known until one is shown to exist. The proofs give one: for the search
its closed form (`Found`), for the joined logs and the slice loops a table made step by step
(`JoinsExist`, `RunExists`). What the chosen function returns then follows by `Induction`, in
which a set of numbers stands for the predicate; it rests on `LeastExists`.

*LogJson.* `Found(str, from, i)` is what the loop returns from position `i`, by the marks it
accepts: all from `i` on, but for one that ends the text and does not stand right at `i`
(`Accepted`). `PanicsExactly` and `ReadsEnclosed` are read off it for any text. For
`AnswersAreStable`, a step that writes at the end of the list makes the log a longer one
(`LogGrows`: an append to the last container's log, since a new pod's init container never
is the last), and a text keeps its marks when it grows, so that what was accepted first still is.

*The slice helpers.* The positions that `RemoveFromSlice` deletes are those of a hit whose
left neighbour it has not deleted (`Chain`), because the shift hides the next element from
the loop. `Skips` says that of every state of the loop, with what has been shifted: the
elements ahead of the key stand as many places to the left as have been deleted, and
those behind it are the ones spared. `Nearing` leads to the panic when the last element
is a hit and not the only one. That `RemoveOutcomes` allows no less than that is a
count (`ChainCount`): a skipped hit follows a deleted one, and a deleted one that no skipped
one follows is followed by a user to keep. That it allows no more takes an order of
the list for each outcome: `Woven` puts those to delete in the odd places and behind them
first those to skip, then users to keep; for the panic a hit is put at the end.

**Only model-checked.** Liveness (`EventuallyServing`, `EventuallySealed`,
`RequestsAnswered`), which with `ENABLED` is out of the prover's reach.
`RefusalMeansMembers` is refuted, not proved.

## 5. Findings

- **A group that once had users cannot be deleted** (`membership_refusal`).
  `DeleteGroup` refuses when `group.Users != nil` (`services/groups_svc.go:217`), and
  an emptied list is stored as `{}` and read back as an empty, non-nil slice.
  `FilledGroupsStay` says exactly which groups stay.

What follows holds in the models as it does in the code. It has no run of its own; the
property or action that shows it is named.

*Membership.* A body's `"id"` reaches the INSERT (`models/user.go:11`, `group.go:11`), so that
a client may create a user or group under the id of a deleted one, and an old JWT then
speaks for the new user (`DeletedReturnsAsNew`). `RemoveFromSlice`
(`services/groups_svc.go:278`) leaves every second one
of adjacent matches, and panics when the last element of the list is a match and
another went before it; the users' side has been written by then (`OutcomesExact`).
The provider of a user in a group, or of a group with users, can be changed
(`controllers/users.go:194`), although adding a user requires equal ones.

*Catalog.* `DeleteRunner` leaves `<name>-token`: `CreateRunner` of the name makes the
ConfigMap, fails on the token (`services/runner_svc.go:132`) and answers that the
runner already exists, and without a token in the request the new runner uses the old
one (`ConflictMeansLeftOrRaced`). Deleting a schema makes the task asynchronous
(`services/task_svc.go:272`, `SchemaRoutesKeepTask`). `UpdateTask` overwrites and
`DeleteTask` deletes a runner of the name (`:155`, `:202`), past the check for bound
tasks. The token of runner `x` and the secret of runner `x-token` are one object
(`services/runner_svc.go:129`): writing `x` back as it was read may then delete the secret
of the other, which is why `EchoesAreHarmless` excludes such names.

*Roles.* `UpdateRole` and `UpdateRoleBinding` write and then look the row up by uuid in
a lookup by name, so that the answer is an error (`ReadBack`). `DeleteRole` compares
`role_id` with a name, so a role that is bound is deleted (`DanglingStays`). The route
of an update asks for a uuid, which no role can list (`UpdatesNeedWildcard`). A role
with an empty list of ids panics every listing of its holders
(`services/auth_svc.go:300`, `AuthLists`).

*Credentials.* A deleted user renews a JWT for ever and makes tokens with it, which then
authenticate as the zero uuid. So does the old key of a token when a body has chosen
its id: an update that read the row under that id writes its own copy of the owner into
the new row, whoever that is by now (`OrphansCameLate`; it takes four requests, and the
proof found it, not the run). Disabling a token while its
description is edited can leave it enabled (`RevivedOnPurpose`).

*Jobs.* A job that failed, or that was still running when the wait ended, is answered
"job created successfully" (`SyncAnswers`). The checks of container states in `GetJob`
ask for a container that is both ready and terminated or waiting, which Kubernetes does
not report. `UpdateCronJob` uses the name in the body, not the one in the path it was
authorised for, and replaces the owner; the label by which CronJobs are listed is never
set, so that only a wildcard lists any (`CronJobObject`, `ListCrons`). Reading a job panics
while its start time is not set or its log has just passed its first mark, a synchronous
launch included (`SyncAnswers`).

*Logs of jobs.* `GetJob` panics on exactly the logs that go on for less than the
length of a mark after the first one, and does not find data whose closing mark ends
the log (`services/job_svc.go:63`, `PanicsExactly`, `ReadsEnclosed`).

*Webhooks.* Creating one asks for no role, so that the key of a token without an owner
creates webhooks of nobody, whose deliveries are turned away. The route of a delivery asks for a role on
the id of the webhook, not on the task. Copies of a message are as good as the first. A
webhook outlives its owner, and then never runs (`DeliveriesAreDecidedBySignature`).

*Audit.* `CreateUser` and `CreateApiToken` record no success; what is done to users is
recorded as a list, and to bindings as to groups; `RunWebhook` records success twice,
whatever came of it; what the key of a token without an owner does through the routes that
ask for no role has no user name in its row (`RowsTellWhatHappened`). `GetAuditLog` does not find a row
without a user name, which is what a login that could not be bound leaves.

## 6. Not modelled

- In Credentials users are created by logins from the directory alone, whose ids
  Postgres draws; a user created under the id of a deleted one is in Membership.
- In Catalog and Jobs: the syntax of names, schemas and the validation against them,
  and reads that only shape an answer. In LogJson: parsing the text that was cut out,
  and logs that could not be read.
- In Jobs: the variables of a launch, and the wording of statuses.
- In Audit: the targets of rows, and the reads of the log. Which handlers a run serves
  is a constant; `webhooks` serves one of each shape.
- In the middleware: cutting the last six characters from a job id, which panics on a
  shorter one before anything is decided, and the headers of the two kinds of webhook
  messages, whose signatures are modelled alike.
- Passwords, LDAP, HMACs and the cryptography of JWTs: their outcomes are inputs.
- Configuration (read once), the error helper, the generated API documentation,
  the unused Elasticsearch client: no state.
- Postgres is taken at read-committed, a statement at a time; what a single
  statement does is not refined further.

## 7. Plan

Composition: Webhooks' `Launch` and Jobs' steps of a launch stand for the same code,
`CreateJob`. `Launch` takes it for one step, at which the task is there; that the task was
there at some moment of the launch is `CopiesTheCatalogue`. A refinement of the one by the
other, with the steps of other requests between, is not stated.
