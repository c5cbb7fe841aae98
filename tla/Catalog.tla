------------------------------- MODULE Catalog -------------------------------
(***************************************************************************)
(* Runners, tasks and their secrets: services/runner_svc.go and             *)
(* services/task_svc.go, behind controllers/runner.go and task.go, over the *)
(* ConfigMaps and Secrets of one Kubernetes namespace (helpers/k8s.go).     *)
(*                                                                          *)
(* Runners and tasks are told apart by what is in a ConfigMap: a runner has *)
(* an image, a task has a runner. A handler makes several calls, each       *)
(* unconditional (no resourceVersion is sent) and each of which may fail;   *)
(* requests run concurrently. One action is one call to Kubernetes.         *)
(***************************************************************************)
EXTENDS Rows

CONSTANTS
    Names,         \* names of ConfigMaps that clients use
    SecretNames,   \* names of Secrets
    TokenOf,       \* name of a runner -> name + "-token"
    Images, Commands, Schemas, Values,  \* Values: tokens and secret values
    Mask,          \* "************", shown in place of a value
    Keys,          \* keys of Secrets
    RunnerBodies,  \* bodies of POST and PUT /runners: [image, token, secret]
    TaskBodies,    \* bodies of POST and PUT /tasks: [runner, command, sync, schema]
    SecretBodies,  \* bodies of PUT /runners/:id/secret
    SeedMaps, SeedSecrets,   \* the catalog when the behaviour starts
    Routes,        \* the routes clients use
    Requests, MaxRequests, MaxFaults

None == "absent"   \* the empty string: what an absent key of a ConfigMap reads as

(* A runner's image stands for all of its own fields (image, gitURL, branch). *)
Data == [image : Images \cup {None}, runner : Names \cup {None}, command : Commands \cup {None},
         sync : {None, "true", "false"}, schema : Schemas \cup {None}]

Secret(values) == UNION {[ks -> values] : ks \in SUBSET Keys}

RunnerData(body) == [image |-> body.image, runner |-> None, command |-> None,
                     sync |-> None, schema |-> None]
TaskData(body)   == [image |-> None, runner |-> body.runner, command |-> body.command,
                     sync |-> body.sync, schema |-> body.schema]

RunnerBody == [image : Images, token : Values \cup {None, Mask},
               secret : SUBSET Secret(Values \cup {None, Mask})]
TaskBody   == [runner : Names, command : Commands, sync : {"true", "false"},
               schema : Schemas \cup {None}]

ASSUME NamesAssumption ==
    /\ None \notin Names /\ Names \subseteq SecretNames /\ "token" \in Keys
    /\ TokenOf \in [Names -> SecretNames]
    /\ \A m, n \in Names : TokenOf[m] = TokenOf[n] => m = n
ASSUME ValuesAssumption ==
    None \notin Images \cup Commands \cup Schemas \cup Values /\ Mask \notin Values \cup {None}
ASSUME BodiesAssumption ==
    /\ \A b \in RunnerBodies : b \in RunnerBody /\ Cardinality(b.secret) <= 1
    /\ TaskBodies \subseteq TaskBody
    /\ \A s \in SecretBodies : s \in Secret(Values \cup {None, Mask})
ASSUME SeedsAssumption ==
    /\ DOMAIN SeedMaps \subseteq Names /\ SeedMaps \in [DOMAIN SeedMaps -> Data]
    /\ \A n \in DOMAIN SeedMaps :
         LET d == SeedMaps[n]
         IN IF d.runner = None THEN d.image # None /\ d = RunnerData(d)
            ELSE d.image = None /\ d.runner \in DOMAIN SeedMaps /\ SeedMaps[d.runner].image # None
    /\ DOMAIN SeedSecrets \subseteq SecretNames /\ SeedSecrets \in [DOMAIN SeedSecrets -> Secret(Values)]
    /\ \A s \in DOMAIN SeedSecrets : DOMAIN SeedSecrets[s] # {}
    /\ \A n \in Names : TokenOf[n] \in DOMAIN SeedSecrets \ Names => "token" \in DOMAIN SeedSecrets[TokenOf[n]]
ASSUME BoundsAssumption == MaxRequests \in Nat /\ MaxFaults \in Nat

VARIABLES
    maps,      \* ConfigMaps: name -> data
    secrets,   \* Secrets: name -> (key -> value)
    webhooks,  \* names of the tasks in table webhooks
    req,       \* the local variables of the handler of each request
    raced,     \* names whose users are not claimed to find a runner
    echo,      \* requests that write back what they read, undisturbed so far
    fresh,     \* requests that nobody has disturbed since they read or made their object
    left,      \* names whose token was there when no ConfigMap was
    work

vars == <<maps, secrets, webhooks, req, raced, echo, fresh, left, work>>

RunnerOps == {"createRunner", "updateRunner", "deleteRunner"}
TaskOps   == {"createTask", "updateTask", "deleteTask", "updateSchema", "deleteSchema"}
SchemaOps == {"updateSchema", "deleteSchema"}
SecretOps == {"updateSecret", "deleteSecret"}
AllRoutes == RunnerOps \cup TaskOps \cup SecretOps \cup {"webhooks"}

PCs == {"idle", "findMap", "findRunner", "readMap", "createMap", "updateMap", "createToken",
        "findToken", "putToken", "dropToken", "getSecret", "putSecret", "readBack",
        "listTasks", "findWebhooks", "dropMap", "dropSecret"}

NoData == [image |-> None, runner |-> None, command |-> None, sync |-> None, schema |-> None]

Idle == [pc |-> "idle", op |-> "none", name |-> None, data |-> NoData, token |-> None,
         secret |-> {}, found |-> EmptyTable, answer |-> "none"]

Field(n, f) == IF n \in DOMAIN maps THEN maps[n][f] ELSE None
IsRunner(n) == Field(n, "image") # None
IsTask(n)   == Field(n, "runner") # None

(* The values in a Secret, none when there is no such object: stored ones are not empty. *)
Object(s) == IF s \in DOMAIN secrets THEN secrets[s] ELSE EmptyTable

(* A runner that is deleted leaves its token behind. *)
LeftTokens == {n \in Names : n \notin DOMAIN maps /\ TokenOf[n] \in DOMAIN secrets}

Init ==
    /\ maps = SeedMaps /\ secrets = SeedSecrets /\ webhooks = {}
    /\ req = [r \in Requests |-> Idle]
    /\ raced = {} /\ echo = {} /\ fresh = {} /\ left = LeftTokens
    /\ work = [requests |-> 0, faults |-> 0]

-----------------------------------------------------------------------------
(* raced is bookkeeping of the model: a runner's name enters it when one request is
   about to delete the runner and another to write a task bound to it, both from
   what they read before, and when a task route replaces or deletes the runner. *)
Relies(r, n) == req[r].pc \in {"createMap", "updateMap"} /\ req[r].data.runner = n
Drops(r, n)  == req[r].pc = "dropMap" /\ req[r].op = "deleteRunner" /\ req[r].name = n

RacedIf(condition, n) == raced' = IF condition THEN raced \cup {n} ELSE raced

(* What GetRunner answers, as the body of a request that writes it back. *)
ReadRunner(n) ==
    [image  |-> maps[n].image,
     token  |-> IF "token" \in DOMAIN Object(TokenOf[n]) THEN Mask ELSE None,
     secret |-> {[k \in DOMAIN secrets[s] |-> Mask] : s \in {n} \cap DOMAIN secrets}]

(* Bookkeeping of echo: a request enters it with what GetRunner answers at that
   moment, and leaves it when another request writes. *)
Echoes(r) ==
    LET n == req'[r].name IN
    /\ req[r].pc = "idle" /\ req'[r].op = "updateRunner" /\ IsRunner(n)
    /\ [image |-> req'[r].data.image, token |-> req'[r].token, secret |-> req'[r].secret] = ReadRunner(n)

Undisturbed(r) == maps' = maps /\ secrets' = secrets /\ req'[r].pc # "idle"

(* Bookkeeping of fresh: a schema route from its read to its write, CreateRunner from its
   ConfigMap on, unless another request writes in between. *)
Fresh(r) ==
    \/ /\ req[r].op \in SchemaOps /\ req'[r].pc = "updateMap"
       /\ req[r].pc = "readMap" \/ (r \in fresh /\ maps' = maps)
    \/ /\ req[r].op = "createRunner" /\ req'[r].pc # "idle"
       /\ (req[r].pc = "createMap" /\ req'[r] # req[r]) \/ (r \in fresh /\ (secrets' = secrets \/ req'[r] # req[r]))

Watch ==
    /\ echo' = {r \in Requests : Echoes(r) \/ (r \in echo /\ Undisturbed(r))}
    /\ fresh' = {r \in Requests : Fresh(r)}
    /\ left' = left \cup LeftTokens'

Used(kind, max) == work[kind] < max /\ work' = [work EXCEPT ![kind] = @ + 1]

Goto(r, pc)       == req' = [req EXCEPT ![r].pc = pc]
Answer(r, answer) == req' = [req EXCEPT ![r] = [Idle EXCEPT !.answer = answer]]

(* What follows the ConfigMap, and what follows the token, in CreateRunner and UpdateRunner. *)
AfterToken(r) == IF req[r].secret # {} THEN "getSecret" ELSE "readBack"

AfterCreate(r) ==
    IF req[r].op = "createRunner" /\ req[r].token # None THEN "createToken" ELSE AfterToken(r)

(* Mutant: the mask that stands for a stored token is taken for a token. *)
AfterUpdateWritingMask(r) ==
    IF req[r].op = "updateTask" THEN "readBack"
    ELSE IF req[r].token = None THEN "dropToken" ELSE "findToken"

AfterUpdate(r) ==
    IF req[r].op = "updateTask" THEN "readBack"
    ELSE IF req[r].token = None THEN "dropToken"
    ELSE IF req[r].token = Mask THEN AfterToken(r)
    ELSE "findToken"

-----------------------------------------------------------------------------
Begin(r, request) ==
    /\ req[r].pc = "idle" /\ request.op \in Routes
    /\ Used("requests", MaxRequests)
    /\ req' = [req EXCEPT ![r] = request]
    /\ UNCHANGED <<maps, secrets, webhooks, raced>>
    /\ Watch

(* The name is the one in the body; that of the path is not used. *)
BeginRunner(r) ==
    \E n \in Names :
    \E body \in RunnerBodies \cup {ReadRunner(x) : x \in {n} \cap {y \in Names : IsRunner(y)}} :
        LET request == [Idle EXCEPT !.name = n, !.data = RunnerData(body),
                                    !.token = body.token, !.secret = body.secret]
        IN \/ Begin(r, [request EXCEPT !.op = "createRunner", !.pc = "createMap"])
           \/ Begin(r, [request EXCEPT !.op = "updateRunner", !.pc = "findMap"])

BeginTask(r) ==
    \E n \in Names, body \in TaskBodies :
        LET request == [Idle EXCEPT !.name = n, !.data = TaskData(body)]
        IN \/ Begin(r, [request EXCEPT !.op = "createTask", !.pc = "findRunner"])
           \/ Begin(r, [request EXCEPT !.op = "updateTask", !.pc = "findMap"])

BeginDelete(r) ==
    \E n \in Names :
        \/ Begin(r, [Idle EXCEPT !.name = n, !.op = "deleteRunner", !.pc = "listTasks"])
        \/ Begin(r, [Idle EXCEPT !.name = n, !.op = "deleteTask", !.pc = "findWebhooks"])
        \/ Begin(r, [Idle EXCEPT !.name = n, !.op = "deleteSecret", !.pc = "dropSecret"])

BeginSchema(r) ==
    \E n \in Names :
        \/ \E s \in Schemas : Begin(r, [Idle EXCEPT !.name = n, !.op = "updateSchema", !.pc = "readMap",
                                                    !.data = [NoData EXCEPT !.schema = s]])
        \/ Begin(r, [Idle EXCEPT !.name = n, !.op = "deleteSchema", !.pc = "readMap"])

BeginSecret(r) ==
    \E n \in Names, s \in SecretBodies :
        Begin(r, [Idle EXCEPT !.name = n, !.op = "updateSecret", !.pc = "getSecret", !.secret = {s}])

-----------------------------------------------------------------------------
(* UpdateRunner and UpdateTask: GetConfigMap only says that the name exists. *)
FindMap(r) ==
    /\ req[r].pc = "findMap"
    /\ IF req[r].name \in DOMAIN maps
       THEN Goto(r, IF req[r].op = "updateRunner" THEN "updateMap" ELSE "findRunner")
       ELSE Answer(r, "error")
    /\ UNCHANGED <<maps, secrets, webhooks, raced, work>>
    /\ Watch

(* CreateTask and UpdateTask: the runner must exist and have an image. *)
FindRunner(r) ==
    LET n == req[r].data.runner IN
    /\ req[r].pc = "findRunner"
    /\ \/ ~ IsRunner(n) /\ Answer(r, "error") /\ UNCHANGED raced
       \/ /\ IsRunner(n)
          /\ Goto(r, IF req[r].op = "createTask" THEN "createMap" ELSE "updateMap")
          /\ RacedIf(\E q \in Requests \ {r} : Drops(q, n), n)
    /\ UNCHANGED <<maps, secrets, webhooks, work>>
    /\ Watch

(* Mutant: UpdateSchema unmarshals as DeleteSchema does. *)
ReadMapLosingSync(r) ==
    LET t == maps[req[r].name] IN
    /\ req[r].pc = "readMap" /\ IsTask(req[r].name)
    /\ req' = [req EXCEPT ![r].pc = "updateMap",
                          ![r].data = [t EXCEPT !.schema = req[r].data.schema, !.sync = None]]
    /\ UNCHANGED <<maps, secrets, webhooks, raced, work>>
    /\ Watch

(* UpdateSchema and DeleteSchema: the task as it will be written back. DeleteSchema
   writes what became of a models.Task in a map[string]string: the boolean is lost. *)
ReadMap(r) ==
    LET t    == maps[req[r].name]
        data == IF req[r].op = "updateSchema" THEN [t EXCEPT !.schema = req[r].data.schema]
                ELSE [t EXCEPT !.schema = None, !.sync = None]
    IN
    /\ req[r].pc = "readMap"
    /\ \/ ~ IsTask(req[r].name) /\ Answer(r, "error") /\ UNCHANGED raced
       \/ /\ IsTask(req[r].name) /\ req[r].op = "deleteSchema" /\ t.schema = None
          /\ Answer(r, "ok") /\ UNCHANGED raced
       \/ /\ IsTask(req[r].name) /\ (req[r].op = "updateSchema" \/ t.schema # None)
          /\ req' = [req EXCEPT ![r].pc = "updateMap", ![r].data = data]
          /\ RacedIf(\E q \in Requests \ {r} : Drops(q, t.runner), t.runner)
    /\ UNCHANGED <<maps, secrets, webhooks, work>>
    /\ Watch

CreateMap(r) ==
    LET n == req[r].name IN
    /\ req[r].pc = "createMap"
    /\ \/ n \in DOMAIN maps /\ Answer(r, "conflict") /\ UNCHANGED maps
       \/ /\ n \notin DOMAIN maps
          /\ maps' = Insert(maps, n, req[r].data)
          /\ Goto(r, AfterCreate(r))
    /\ UNCHANGED <<secrets, webhooks, raced, work>>
    /\ Watch

(* An update replaces the whole data of whatever has the name. *)
UpdateMap(r) ==
    LET n == req[r].name
        replacesRunner == IsRunner(n) /\ req[r].op # "updateRunner"
    IN
    /\ req[r].pc = "updateMap"
    /\ \/ n \notin DOMAIN maps /\ Answer(r, "error") /\ UNCHANGED <<maps, raced>>
       \/ /\ n \in DOMAIN maps
          /\ maps' = [maps EXCEPT ![n] = req[r].data]
          /\ IF req[r].op \in SchemaOps THEN Answer(r, "ok")
             ELSE Goto(r, AfterUpdate(r))
          /\ RacedIf(replacesRunner, n)
    /\ UNCHANGED <<secrets, webhooks, work>>
    /\ Watch

(* CreateRunner *)
CreateToken(r) ==
    LET s == TokenOf[req[r].name] IN
    /\ req[r].pc = "createToken"
    /\ \/ s \in DOMAIN secrets /\ Answer(r, "conflict") /\ UNCHANGED secrets
       \/ /\ s \notin DOMAIN secrets
          /\ secrets' = Insert(secrets, s, [k \in {"token"} |-> req[r].token])
          /\ Goto(r, AfterToken(r))
    /\ UNCHANGED <<maps, webhooks, raced, work>>
    /\ Watch

(* UpdateRunner: whether the token is to be created or updated. *)
FindToken(r) ==
    /\ req[r].pc = "findToken"
    /\ req' = [req EXCEPT ![r].pc = "putToken", ![r].found = Object(TokenOf[req[r].name])]
    /\ UNCHANGED <<maps, secrets, webhooks, raced, work>>
    /\ Watch

(* CreateOrUpdateSecret: what happens to an object that was found, or not found, before. *)
PutObject(r, s, value, next) ==
    LET exists == s \in DOMAIN secrets IN
    \/ /\ exists <=> DOMAIN req[r].found # {}
       /\ secrets' = Insert(secrets, s, value) /\ next
    \/ exists /\ DOMAIN req[r].found = {} /\ Answer(r, "conflict") /\ UNCHANGED secrets
    \/ ~ exists /\ DOMAIN req[r].found # {} /\ Answer(r, "error") /\ UNCHANGED secrets

PutToken(r) ==
    /\ req[r].pc = "putToken"
    /\ PutObject(r, TokenOf[req[r].name], [k \in {"token"} |-> req[r].token],
                 req' = [req EXCEPT ![r].pc = AfterToken(r), ![r].found = EmptyTable])
    /\ UNCHANGED <<maps, webhooks, raced, work>>
    /\ Watch

DropToken(r) ==
    /\ req[r].pc = "dropToken"
    /\ secrets' = Without(secrets, TokenOf[req[r].name])
    /\ Goto(r, AfterToken(r))
    /\ UNCHANGED <<maps, webhooks, raced, work>>
    /\ Watch

(* Mutant: the object is not looked for. *)
GetSecretUnread(r) ==
    /\ req[r].pc = "getSecret"
    /\ req' = [req EXCEPT ![r].pc = "putSecret"]
    /\ UNCHANGED <<maps, secrets, webhooks, raced, work>>
    /\ Watch

(* UpdateSecret, as a route and within CreateRunner and UpdateRunner *)
GetSecret(r) ==
    /\ req[r].pc = "getSecret"
    /\ req' = [req EXCEPT ![r].pc = "putSecret", ![r].found = Object(req[r].name)]
    /\ UNCHANGED <<maps, secrets, webhooks, raced, work>>
    /\ Watch

(* Mutant: an empty value is stored instead of deleting its key. *)
MergeKeepingEmpty(current, body) ==
    LET given == {k \in DOMAIN body : body[k] # Mask}
    IN [k \in DOMAIN current \cup given |-> IF k \in given THEN body[k] ELSE current[k]]

(* The loop over the body: an empty value deletes its key, the mask keeps it. *)
Merge(current, body) ==
    LET given == {k \in DOMAIN body : body[k] \notin {None, Mask}}
        gone  == {k \in DOMAIN body : body[k] = None}
    IN [k \in (DOMAIN current \ gone) \cup given |-> IF k \in given THEN body[k] ELSE current[k]]

(* An empty result deletes the object, and it is an error when there is none. *)
PutSecret(r) ==
    LET n    == req[r].name
        next == IF req[r].op = "updateSecret" THEN Answer(r, "ok") ELSE Goto(r, "readBack")
    IN
    /\ req[r].pc = "putSecret"
    /\ \E body \in req[r].secret :
         LET merged == Merge(req[r].found, body) IN
         \/ DOMAIN merged # {} /\ PutObject(r, n, merged, next)
         \/ /\ DOMAIN merged = {} /\ n \in DOMAIN secrets
            /\ secrets' = Without(secrets, n) /\ next
         \/ DOMAIN merged = {} /\ n \notin DOMAIN secrets /\ Answer(r, "error") /\ UNCHANGED secrets
    /\ UNCHANGED <<maps, webhooks, raced, work>>
    /\ Watch

(* The handlers of runners and tasks end in GetRunner or GetTask. *)
ReadBack(r) ==
    LET n == req[r].name
        there == IF req[r].op \in RunnerOps THEN IsRunner(n) ELSE IsTask(n)
    IN
    /\ req[r].pc = "readBack"
    /\ Answer(r, IF there THEN "ok" ELSE "error")
    /\ UNCHANGED <<maps, secrets, webhooks, raced, work>>
    /\ Watch

(* Mutant: DeleteRunner does not look for tasks. *)
ListTasksUnchecked(r) ==
    /\ req[r].pc = "listTasks"
    /\ Goto(r, "dropMap")
    /\ RacedIf(\E q \in Requests \ {r} : Relies(q, req[r].name), req[r].name)
    /\ UNCHANGED <<maps, secrets, webhooks, work>>
    /\ Watch

(* DeleteRunner *)
ListTasks(r) ==
    LET n == req[r].name
        bound == \E t \in DOMAIN maps : maps[t].runner = n
    IN
    /\ req[r].pc = "listTasks"
    /\ \/ bound /\ Answer(r, "error") /\ UNCHANGED raced
       \/ /\ ~ bound /\ Goto(r, "dropMap")
          /\ RacedIf(\E q \in Requests \ {r} : Relies(q, n), n)
    /\ UNCHANGED <<maps, secrets, webhooks, work>>
    /\ Watch

(* DeleteTask: the error of the query is overwritten before it is looked at. *)
FindWebhooks(r) ==
    /\ req[r].pc = "findWebhooks"
    /\ \/ req[r].name \in webhooks /\ Answer(r, "error") /\ UNCHANGED work
       \/ req[r].name \notin webhooks /\ Goto(r, "dropMap") /\ UNCHANGED work
       \/ Used("faults", MaxFaults) /\ Goto(r, "dropMap")
    /\ UNCHANGED <<maps, secrets, webhooks, raced>>
    /\ Watch

DropMap(r) ==
    LET n == req[r].name IN
    /\ req[r].pc = "dropMap"
    /\ \/ n \notin DOMAIN maps /\ Answer(r, "error") /\ UNCHANGED <<maps, raced>>
       \/ /\ n \in DOMAIN maps
          /\ maps' = Without(maps, n)
          /\ IF req[r].op = "deleteRunner" THEN Goto(r, "dropSecret") ELSE Answer(r, "ok")
          /\ RacedIf(IsRunner(n) /\ req[r].op = "deleteTask", n)
    /\ UNCHANGED <<secrets, webhooks, work>>
    /\ Watch

(* DeleteRunner and DeleteSecret: a missing object is no error. *)
DropSecret(r) ==
    /\ req[r].pc = "dropSecret"
    /\ secrets' = Without(secrets, req[r].name)
    /\ Answer(r, "ok")
    /\ UNCHANGED <<maps, webhooks, raced, work>>
    /\ Watch

(* A call to Kubernetes fails: the handler returns and undoes nothing. *)
Fail(r) ==
    /\ req[r].pc \notin {"idle", "findWebhooks"}
    /\ Used("faults", MaxFaults)
    /\ Answer(r, "error")
    /\ UNCHANGED <<maps, secrets, webhooks, raced>>
    /\ Watch

(* CreateWebhook does not look at the task; DeleteWebhook may leave others for it. *)
WriteWebhook ==
    /\ "webhooks" \in Routes
    /\ \E t \in Names :
          \/ webhooks' = webhooks \cup {t}
          \/ t \in webhooks /\ webhooks' = webhooks \ {t}
    /\ Used("requests", MaxRequests)
    /\ UNCHANGED <<maps, secrets, req, raced>>
    /\ Watch

Handler(r) ==
    \/ BeginRunner(r) \/ BeginTask(r) \/ BeginDelete(r) \/ BeginSchema(r) \/ BeginSecret(r)
    \/ FindMap(r) \/ FindRunner(r) \/ ReadMap(r) \/ CreateMap(r) \/ UpdateMap(r)
    \/ CreateToken(r) \/ FindToken(r) \/ PutToken(r) \/ DropToken(r)
    \/ GetSecret(r) \/ PutSecret(r) \/ ReadBack(r)
    \/ ListTasks(r) \/ FindWebhooks(r) \/ DropMap(r) \/ DropSecret(r)
    \/ Fail(r)

Next == (\E r \in Requests : Handler(r)) \/ WriteWebhook

Spec == Init /\ [][Next]_vars

-----------------------------------------------------------------------------
TypeOK ==
    /\ DOMAIN maps \subseteq Names /\ maps \in [DOMAIN maps -> Data]
    /\ DOMAIN secrets \subseteq SecretNames
    /\ \A s \in DOMAIN secrets : secrets[s] \in Secret(Values \cup {Mask}) /\ DOMAIN secrets[s] # {}
    /\ webhooks \subseteq Names /\ raced \subseteq Names /\ echo \cup fresh \subseteq Requests
    /\ left \subseteq Names
    /\ \A r \in Requests :
         /\ req[r].pc \in PCs /\ req[r].op \in AllRoutes \cup {"none"}
         /\ req[r].name \in Names \cup {None} /\ req[r].data \in Data
         /\ req[r].token \in Values \cup {None, Mask}
         /\ req[r].secret \subseteq Secret(Values \cup {None, Mask})
         /\ req[r].found \in Secret(Values \cup {Mask})
         /\ req[r].answer \in {"none", "ok", "conflict", "error"}

(* A task is bound to a runner that exists, unless a request that deleted the runner
   met one that wrote the task, or a task route was used on the runner (CreateTask,
   UpdateTask, UpdateSchema and DeleteSchema against DeleteRunner). *)
TasksHaveRunners ==
    \A t \in DOMAIN maps : IsTask(t) /\ maps[t].runner \notin raced => IsRunner(maps[t].runner)

(* Writing a runner back as GetRunner answers it, masks and all, changes nothing
   as long as nobody else writes (UpdateRunner and UpdateSecret). *)
EchoIsHarmless ==
    [][\A r \in echo : req'[r] # req[r] => maps' = maps /\ secrets' = secrets]_vars

(* "runner already exists, please use a different name" (controllers/runner.go:153) is
   answered after the runner was made only if a token of that name had once been left
   without a runner, by a deletion or by a request that a deletion overtook, or if
   another request wrote tokens or secrets meanwhile (CreateRunner's three calls). *)
ConflictMeansLeftOrRaced ==
    [][\A r \in fresh :
         req[r].op = "createRunner" /\ req'[r].answer = "conflict" => req[r].name \in left]_vars

(* UpdateSchema and DeleteSchema write back a whole task they read before. Unless
   somebody else wrote in between, the other fields stay as they are, but for the
   boolean that DeleteSchema loses (task_svc.go:251, :272). *)
SchemaRoutesKeepTask ==
    [][\A r \in fresh :
         LET n == req[r].name
             Others(task) == [task EXCEPT !.schema = None,
                                          !.sync = IF req[r].op = "deleteSchema" THEN None ELSE @]
         IN req'[r].answer = "ok" /\ n \in DOMAIN maps' => Others(maps'[n]) = Others(maps[n])]_vars
=============================================================================
