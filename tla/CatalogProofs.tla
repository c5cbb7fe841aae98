----------------------------- MODULE CatalogProofs -----------------------------
(***************************************************************************)
(* Proofs about Catalog. Its handlers look and write in separate calls, so  *)
(* the invariant says what a request that is about to write relies on, and  *)
(* which meetings of two requests take that away.                           *)
(***************************************************************************)
EXTENDS Catalog, TLAPS

Stored   == Values \cup {Mask}
Given    == Values \cup {None, Mask}
Answers  == {"none", "ok", "conflict", "error"}

ReqRow == [pc : PCs, op : AllRoutes \cup {"none"}, name : Names \cup {None}, data : Data, token : Given,
           secret : SUBSET Secret(Given), found : Secret(Stored), answer : Answers]

(* What a ConfigMap of the catalog looks like: a runner, or a task. *)
RunnerForm(d) == d.image # None /\ d = RunnerData(d)
TaskForm(d)   == d.image = None /\ d.runner # None

(* Which operation a call belongs to. *)
Placed(q) ==
    /\ q.pc = "idle" => q.op = "none"
    /\ q.pc # "idle" => q.name \in Names /\ q.answer = "none"
    /\ q.pc = "findMap" => q.op \in {"updateRunner", "updateTask"}
    /\ q.pc = "findRunner" => q.op \in {"createTask", "updateTask"}
    /\ q.pc = "readMap" => q.op \in SchemaOps
    /\ q.pc = "createMap" => q.op \in {"createRunner", "createTask"}
    /\ q.pc = "updateMap" => q.op \in {"updateRunner", "updateTask"} \cup SchemaOps
    /\ q.pc = "createToken" => q.op = "createRunner"
    /\ q.pc \in {"findToken", "putToken", "dropToken"} => q.op = "updateRunner"
    /\ q.pc \in {"getSecret", "putSecret"} => q.op \in {"createRunner", "updateRunner", "updateSecret"}
    /\ q.pc = "readBack" => q.op \in {"createRunner", "updateRunner", "createTask", "updateTask"}
    /\ q.pc = "listTasks" => q.op = "deleteRunner"
    /\ q.pc = "findWebhooks" => q.op = "deleteTask"
    /\ q.pc = "dropMap" => q.op \in {"deleteRunner", "deleteTask"}
    /\ q.pc = "dropSecret" => q.op \in {"deleteRunner", "deleteSecret"}

(* What it is about to write. *)
Carried(q) ==
    /\ q.op \in {"createRunner", "updateRunner"} => RunnerForm(q.data)
    /\ q.op \in {"createTask", "updateTask"} => TaskForm(q.data) /\ q.secret = {}
    /\ q.op \in SchemaOps /\ q.pc = "updateMap" => TaskForm(q.data)
    /\ q.pc \in {"createToken", "findToken", "putToken"} => q.token # None

Holds(q) == q \in ReqRow /\ Placed(q) /\ Carried(q)

ReqsOK == DOMAIN req = Requests /\ \A r \in Requests : Holds(req[r])

MapsOK ==
    /\ DOMAIN maps \subseteq Names /\ maps = [n \in DOMAIN maps |-> maps[n]]
    /\ \A n \in DOMAIN maps : maps[n] \in Data /\ (RunnerForm(maps[n]) \/ TaskForm(maps[n]))

SecretsOK ==
    /\ DOMAIN secrets \subseteq SecretNames /\ secrets = [s \in DOMAIN secrets |-> secrets[s]]
    /\ \A s \in DOMAIN secrets : secrets[s] \in Secret(Stored) /\ DOMAIN secrets[s] # {}

MarksOK ==
    /\ webhooks \subseteq Names /\ raced \subseteq Names
    /\ echo \subseteq Requests /\ fresh \subseteq Requests /\ left \subseteq Names
    /\ LeftTokens \subseteq left

(* A runner that a task is bound to or about to be bound to exists, and nobody is about to
   delete it, unless its name is in raced. *)
Kept(n) ==
    n \notin raced =>
        /\ IsRunner(n)
        /\ \A q \in Requests : ~ Drops(q, n)

BoundOK ==
    /\ \A t \in DOMAIN maps : IsTask(t) => Kept(maps[t].runner)
    /\ \A r \in Requests : req[r].pc \in {"createMap", "updateMap"} /\ req[r].data.runner # None =>
          Kept(req[r].data.runner)

(* What a task is but for its schema, and for the boolean that DeleteSchema loses. *)
Others(op, task) == [task EXCEPT !.schema = None, !.sync = IF op = "deleteSchema" THEN None ELSE @]

(* What an undisturbed request knows. *)
Knows(r) ==
    /\ req[r].op \in SchemaOps \cup {"createRunner"} /\ req[r].pc # "idle"
    /\ req[r].op \in SchemaOps =>
          /\ req[r].pc = "updateMap" /\ req[r].name \in DOMAIN maps
          /\ Others(req[r].op, req[r].data) = Others(req[r].op, maps[req[r].name])
    /\ req[r].op = "createRunner" =>
          /\ req[r].pc # "createMap"
          /\ req[r].pc = "createToken" /\ TokenOf[req[r].name] \in DOMAIN secrets => req[r].name \in left
          /\ req[r].pc = "putSecret" => req[r].found = Object(req[r].name)

FreshOK == \A r \in fresh : Knows(r)

(* The inductive invariant. *)
IInv == ReqsOK /\ MapsOK /\ SecretsOK /\ MarksOK /\ BoundOK /\ FreshOK

(* No runner has the name of another one's token. *)
NoClash == \A n \in Names : TokenOf[n] \notin Names

(* What a request that writes back what it read has read. *)
Echoing(r) ==
    LET n == req[r].name IN
    /\ req[r].op = "updateRunner"
    /\ req[r].pc \in {"findMap", "updateMap", "dropToken", "getSecret", "putSecret", "readBack"}
    /\ n \in DOMAIN maps /\ req[r].data = maps[n]
    /\ [image |-> req[r].data.image, token |-> req[r].token, secret |-> req[r].secret] = ReadRunner(n)
    /\ req[r].pc = "dropToken" => req[r].token = None
    /\ req[r].pc = "putSecret" => req[r].found = Object(n)

(* The token of a runner is in its object. *)
TokensHeld == \A n \in Names : TokenOf[n] \in DOMAIN secrets => "token" \in DOMAIN secrets[TokenOf[n]]

EchoOK ==
    /\ TokensHeld
    /\ \A r \in echo : Echoing(r)

-----------------------------------------------------------------------------
LEMMA SecretShape ==
    ASSUME NEW V, NEW x
    PROVE  x \in Secret(V) <=> x \in [DOMAIN x -> V] /\ DOMAIN x \subseteq Keys
<1>1. ASSUME x \in Secret(V) PROVE x \in [DOMAIN x -> V] /\ DOMAIN x \subseteq Keys
  <2>1. PICK ks \in SUBSET Keys : x \in [ks -> V]
    BY <1>1 DEF Secret
  <2> QED BY <2>1
<1>2. ASSUME x \in [DOMAIN x -> V], DOMAIN x \subseteq Keys PROVE x \in Secret(V)
  BY <1>2 DEF Secret
<1> QED BY <1>1, <1>2

LEMMA EmptyStored == EmptyTable \in Secret(Stored) /\ DOMAIN EmptyTable = {}
<1>1. DOMAIN EmptyTable = {} /\ EmptyTable \in [{} -> Stored]
  BY DEF EmptyTable
<1> QED BY <1>1, SecretShape

LEMMA ObjectStored ==
    ASSUME SecretsOK, NEW s
    PROVE  Object(s) \in Secret(Stored) /\ (DOMAIN Object(s) # {} <=> s \in DOMAIN secrets)
  BY EmptyStored DEF Object, SecretsOK

LEMMA IdleTyped == NoData \in Data /\ Idle \in ReqRow
<1>1. NoData \in Data
  BY DEF NoData, Data
<1>2. "idle" \in PCs /\ "none" \in Answers
  BY DEF PCs, Answers
<1> QED BY <1>1, <1>2, EmptyStored DEF Idle, ReqRow, Given

LEMMA AnswerHolds ==
    ASSUME NEW a \in Answers
    PROVE  LET q == [Idle EXCEPT !.answer = a]
           IN  Holds(q) /\ q.pc = "idle" /\ q.data = NoData /\ q.op = "none"
<1> DEFINE q == [Idle EXCEPT !.answer = a]
<1>1. Idle.pc = "idle" /\ Idle.op = "none" /\ Idle.data = NoData
  BY DEF Idle
<1>2. q \in ReqRow /\ q.pc = "idle" /\ q.data = NoData /\ q.op = "none"
  BY <1>1, IdleTyped DEF ReqRow
<1> HIDE DEF q
<1>3. Holds(q)
  BY <1>2 DEF Holds, Placed, Carried, SchemaOps
<1> QED BY <1>2, <1>3 DEF q

(* A step of one request: what is left to show of it. *)
LEMMA Assemble ==
    ASSUME IInv, NEW r \in Requests, NEW q, req' = [req EXCEPT ![r] = q], Holds(q), Watch,
           MapsOK', SecretsOK', BoundOK', webhooks' \subseteq Names, raced' \subseteq Names,
           Fresh(r) => Knows(r)'
    PROVE  IInv'
<1>1. DOMAIN req' = Requests /\ req'[r] = q /\ \A s \in Requests \ {r} : req'[s] = req[s]
  BY DEF IInv, ReqsOK
<1>2. ReqsOK'
  <2>1. \A s \in Requests : Holds(req'[s])
    BY <1>1 DEF IInv, ReqsOK
  <2> QED BY <1>1, <2>1 DEF ReqsOK, Holds, Placed, Carried
<1>3. MarksOK'
  <2>1. echo' \subseteq Requests /\ fresh' \subseteq Requests /\ LeftTokens' \subseteq left' /\ LeftTokens' \subseteq Names
    BY DEF Watch, LeftTokens
  <2>2. left' \subseteq Names
    BY <2>1 DEF Watch, IInv, MarksOK
  <2> QED BY <2>1, <2>2 DEF MarksOK
<1>4. FreshOK'
  <2> SUFFICES ASSUME NEW s \in fresh' PROVE Knows(s)'
    BY DEF FreshOK
  <2>1. s \in Requests /\ Fresh(s)
    BY DEF Watch
  <2>2. CASE s = r
    BY <2>1, <2>2
  <2>3. CASE s # r
    <3>1. req'[s] = req[s]
      BY <1>1, <2>1, <2>3
    <3>2. Placed(req[s])
      BY <2>1 DEF IInv, ReqsOK, Holds
    <3>3. CASE req[s].op \in SchemaOps
      <4>1. s \in fresh /\ maps' = maps
        BY <2>1, <3>1, <3>3 DEF Fresh, SchemaOps
      <4>2. Knows(s)
        BY <4>1 DEF IInv, FreshOK
      <4> QED BY <3>1, <3>3, <4>1, <4>2 DEF Knows, SchemaOps
    <3>4. CASE req[s].op = "createRunner"
      <4>1. s \in fresh /\ secrets' = secrets
        BY <2>1, <3>1, <3>4 DEF Fresh, SchemaOps
      <4>2. Knows(s)
        BY <4>1 DEF IInv, FreshOK
      <4>3. left \subseteq left'
        BY DEF Watch
      <4> QED BY <3>1, <3>4, <4>1, <4>2, <4>3 DEF Knows, SchemaOps, Object
    <3> QED BY <2>1, <3>3, <3>4 DEF Fresh
  <2> QED BY <2>2, <2>3
<1> QED BY <1>2, <1>3, <1>4 DEF IInv

(* A step that writes no ConfigMap, and after which its request relies on no runner that it
   did not rely on before and is not about to delete one. *)
LEMMA QuietBound ==
    ASSUME IInv, NEW r \in Requests, NEW q, req' = [req EXCEPT ![r] = q], maps' = maps, raced \subseteq raced',
           q.pc = "dropMap" => q.op # "deleteRunner",
           q.pc \in {"createMap", "updateMap"} => q.data.runner = None
    PROVE  BoundOK'
<1>1. DOMAIN req' = Requests /\ req'[r] = q /\ \A s \in Requests \ {r} : req'[s] = req[s]
  BY DEF IInv, ReqsOK
<1>2. ASSUME NEW n, Kept(n) PROVE Kept(n)'
  BY <1>1, <1>2 DEF Kept, IsRunner, Field, Drops
<1>3. \A t \in DOMAIN maps' : IsTask(t)' => Kept(maps[t].runner)'
  BY <1>2 DEF IInv, BoundOK, IsTask, Field
<1>4. ASSUME NEW s \in Requests, req'[s].pc \in {"createMap", "updateMap"}, req'[s].data.runner # None
      PROVE  Kept(req[s].data.runner)'
  <2>1. s # r /\ req'[s] = req[s]
    BY <1>1, <1>4
  <2>2. Kept(req[s].data.runner)
    BY <1>4, <2>1 DEF IInv, BoundOK
  <2> QED BY <1>2, <2>1, <2>2
<1> QED BY <1>3, <1>4 DEF BoundOK

Tables == <<maps, secrets, webhooks>>

(* A step that writes nothing, and starts to rely on nothing. *)
LEMMA Quiet ==
    ASSUME IInv, NEW r \in Requests, NEW q, req' = [req EXCEPT ![r] = q], Holds(q), Watch,
           UNCHANGED Tables, raced' = raced, Fresh(r) => Knows(r)',
           q.pc = "dropMap" => q.op # "deleteRunner",
           q.pc \in {"createMap", "updateMap"} => q.data.runner = None
    PROVE  IInv'
<1>1. maps' = maps /\ secrets' = secrets /\ webhooks' = webhooks
  BY DEF Tables
<1>2. BoundOK'
  BY <1>1, QuietBound
<1>3. MapsOK' /\ SecretsOK' /\ webhooks' \subseteq Names /\ raced' \subseteq Names
  BY <1>1 DEF IInv, MapsOK, SecretsOK, MarksOK
<1> QED BY <1>2, <1>3, Assemble

LEMMA NotFreshIdle ==
    ASSUME NEW r, req'[r].pc = "idle"
    PROVE  ~ Fresh(r)
  BY DEF Fresh

(* A request that ends without a write. *)
LEMMA Ends ==
    ASSUME IInv, NEW r \in Requests, NEW a \in Answers, Answer(r, a), Watch, UNCHANGED Tables, raced' = raced
    PROVE  IInv'
<1> DEFINE q == [Idle EXCEPT !.answer = a]
<1>1. Holds(q) /\ q.pc = "idle"
  BY AnswerHolds
<1>2. req' = [req EXCEPT ![r] = q]
  BY DEF Answer
<1> HIDE DEF q
<1>3. req'[r] = q
  BY <1>2 DEF IInv, ReqsOK
<1>4. ~ Fresh(r)
  BY <1>1, <1>3, NotFreshIdle
<1> QED BY <1>1, <1>2, <1>4, Quiet

-----------------------------------------------------------------------------
(* Requests as they arrive. *)
LEMMA Arrives ==
    ASSUME IInv, NEW r \in Requests, NEW q, Begin(r, q), Holds(q), q.pc \notin {"dropMap", "updateMap"},
           q.pc = "createMap" => q.data.runner = None
    PROVE  IInv'
<1>1. /\ req[r].pc = "idle" /\ req' = [req EXCEPT ![r] = q] /\ Watch /\ UNCHANGED Tables /\ raced' = raced
  BY DEF Begin, Tables
<1>2. req[r].op = "none"
  BY <1>1 DEF IInv, ReqsOK, Holds, Placed
<1>3. ~ Fresh(r)
  BY <1>2 DEF Fresh, SchemaOps
<1> QED BY <1>1, <1>3, Quiet

LEMMA ReadTyped ==
    ASSUME IInv, NEW n \in Names, IsRunner(n)
    PROVE  LET body == ReadRunner(n)
           IN  /\ body.image \in Images /\ body.token \in Given /\ body.secret \subseteq Secret(Given)
               /\ body = [image |-> body.image, token |-> body.token, secret |-> body.secret]
<1> DEFINE body == ReadRunner(n)
<1>1. n \in DOMAIN maps /\ maps[n].image # None /\ maps[n] \in Data
  BY DEF IsRunner, Field, IInv, MapsOK
<1>2. maps[n].image \in Images
  BY <1>1 DEF Data
<1>3. \A s \in DOMAIN secrets : [k \in DOMAIN secrets[s] |-> Mask] \in Secret(Given)
  <2>1. ASSUME NEW s \in DOMAIN secrets PROVE [k \in DOMAIN secrets[s] |-> Mask] \in Secret(Given)
    <3> DEFINE masks == [k \in DOMAIN secrets[s] |-> Mask]
    <3>1. DOMAIN secrets[s] \subseteq Keys
      BY SecretShape DEF IInv, SecretsOK
    <3>2. DOMAIN masks = DOMAIN secrets[s] /\ masks \in [DOMAIN secrets[s] -> Given]
      BY DEF Given
    <3> HIDE DEF masks
    <3>3. masks \in Secret(Given)
      BY <3>1, <3>2, SecretShape
    <3> QED BY <3>3 DEF masks
  <2> QED BY <2>1
<1>4. body.token \in Given /\ body.image = maps[n].image /\ body.secret \subseteq Secret(Given)
      /\ body = [image |-> body.image, token |-> body.token, secret |-> body.secret]
  BY <1>3 DEF ReadRunner, Given
<1> QED BY <1>2, <1>4

LEMMA BodyTyped ==
    ASSUME IInv, NEW n \in Names,
           NEW body \in RunnerBodies \cup {ReadRunner(x) : x \in {n} \cap {y \in Names : IsRunner(y)}}
    PROVE  body.image \in Images /\ body.token \in Given /\ body.secret \subseteq Secret(Given)
<1>1. CASE body \in RunnerBodies
  BY <1>1, BodiesAssumption DEF RunnerBody, Given
<1>2. CASE IsRunner(n) /\ body = ReadRunner(n)
  BY <1>2, ReadTyped
<1> QED BY <1>1, <1>2

LEMMA BeginRunnerOK ==
    ASSUME IInv, NEW r \in Requests, BeginRunner(r)
    PROVE  IInv'
<1>1. PICK n \in Names : \E body \in RunnerBodies \cup {ReadRunner(x) : x \in {n} \cap {y \in Names : IsRunner(y)}} :
         LET request == [Idle EXCEPT !.name = n, !.data = RunnerData(body),
                                    !.token = body.token, !.secret = body.secret]
         IN \/ Begin(r, [request EXCEPT !.op = "createRunner", !.pc = "createMap"])
            \/ Begin(r, [request EXCEPT !.op = "updateRunner", !.pc = "findMap"])
  BY DEF BeginRunner
<1>2. PICK body \in RunnerBodies \cup {ReadRunner(x) : x \in {n} \cap {y \in Names : IsRunner(y)}} :
         LET request == [Idle EXCEPT !.name = n, !.data = RunnerData(body),
                                    !.token = body.token, !.secret = body.secret]
         IN \/ Begin(r, [request EXCEPT !.op = "createRunner", !.pc = "createMap"])
            \/ Begin(r, [request EXCEPT !.op = "updateRunner", !.pc = "findMap"])
  BY <1>1
<1> DEFINE data == RunnerData(body)
           token == body.token
           secret == body.secret
           request == [Idle EXCEPT !.name = n, !.data = data, !.token = token, !.secret = secret]
<1>3. token \in Given /\ secret \in SUBSET Secret(Given) /\ body.image \in Images
  BY BodyTyped
<1>4. data \in Data /\ RunnerForm(data) /\ data.runner = None
  BY <1>3, ValuesAssumption DEF RunnerData, Data, RunnerForm
<1>5. Begin(r, [request EXCEPT !.op = "createRunner", !.pc = "createMap"])
      \/ Begin(r, [request EXCEPT !.op = "updateRunner", !.pc = "findMap"])
  BY <1>2
<1> HIDE DEF data, token, secret
<1>6. request \in ReqRow /\ request.name = n /\ request.data = data /\ request.answer = "none"
  <2>1. Idle.answer = "none"
    BY DEF Idle
  <2> QED BY <1>3, <1>4, <2>1, IdleTyped DEF ReqRow
<1> HIDE DEF request
<1>7. ASSUME NEW op \in {"createRunner", "updateRunner"}, NEW pc \in {"createMap", "findMap"},
             pc = "createMap" <=> op = "createRunner", Begin(r, [request EXCEPT !.op = op, !.pc = pc])
      PROVE  IInv'
  <2> DEFINE q == [request EXCEPT !.op = op, !.pc = pc]
  <2>1. q \in ReqRow /\ q.op = op /\ q.pc = pc /\ q.name = n /\ q.data = data /\ q.answer = "none"
    BY <1>6 DEF ReqRow, PCs, AllRoutes, RunnerOps
  <2> HIDE DEF q
  <2>2. Holds(q)
    BY <1>4, <1>7, <2>1 DEF Holds, Placed, Carried, SchemaOps
  <2>3. Begin(r, q)
    BY <1>7 DEF q
  <2> QED BY <1>4, <2>1, <2>2, <2>3, Arrives
<1> QED BY <1>5, <1>7

LEMMA BeginTaskOK ==
    ASSUME IInv, NEW r \in Requests, BeginTask(r)
    PROVE  IInv'
<1>1. PICK n \in Names, body \in TaskBodies :
         LET request == [Idle EXCEPT !.name = n, !.data = TaskData(body)]
         IN \/ Begin(r, [request EXCEPT !.op = "createTask", !.pc = "findRunner"])
            \/ Begin(r, [request EXCEPT !.op = "updateTask", !.pc = "findMap"])
  BY DEF BeginTask
<1> DEFINE data == TaskData(body)
           request == [Idle EXCEPT !.name = n, !.data = data]
<1>2. data \in Data /\ TaskForm(data)
  <2>1. body \in TaskBody
    BY BodiesAssumption
  <2> QED BY <2>1, NamesAssumption DEF TaskBody, TaskData, Data, TaskForm
<1>3. Begin(r, [request EXCEPT !.op = "createTask", !.pc = "findRunner"])
      \/ Begin(r, [request EXCEPT !.op = "updateTask", !.pc = "findMap"])
  BY <1>1
<1> HIDE DEF data
<1>4. request \in ReqRow /\ request.name = n /\ request.data = data /\ request.answer = "none"
      /\ request.secret = {}
  <2>1. Idle.answer = "none" /\ Idle.secret = {}
    BY DEF Idle
  <2> QED BY <1>2, <2>1, IdleTyped DEF ReqRow
<1> HIDE DEF request
<1>5. ASSUME NEW op \in {"createTask", "updateTask"}, NEW pc \in {"findRunner", "findMap"},
             pc = "findRunner" <=> op = "createTask", Begin(r, [request EXCEPT !.op = op, !.pc = pc])
      PROVE  IInv'
  <2> DEFINE q == [request EXCEPT !.op = op, !.pc = pc]
  <2>1. q \in ReqRow /\ q.op = op /\ q.pc = pc /\ q.name = n /\ q.data = data /\ q.answer = "none"
        /\ q.secret = {}
    BY <1>4 DEF ReqRow, PCs, AllRoutes, TaskOps
  <2> HIDE DEF q
  <2>2. Holds(q)
    BY <1>2, <1>5, <2>1 DEF Holds, Placed, Carried, SchemaOps
  <2>3. Begin(r, q)
    BY <1>5 DEF q
  <2> QED BY <2>1, <2>2, <2>3, Arrives
<1> QED BY <1>3, <1>5

LEMMA BeginDeleteOK ==
    ASSUME IInv, NEW r \in Requests, BeginDelete(r)
    PROVE  IInv'
<1>1. PICK n \in Names :
        \/ Begin(r, [Idle EXCEPT !.name = n, !.op = "deleteRunner", !.pc = "listTasks"])
        \/ Begin(r, [Idle EXCEPT !.name = n, !.op = "deleteTask", !.pc = "findWebhooks"])
        \/ Begin(r, [Idle EXCEPT !.name = n, !.op = "deleteSecret", !.pc = "dropSecret"])
  BY DEF BeginDelete
<1>2. ASSUME NEW op \in {"deleteRunner", "deleteTask", "deleteSecret"},
             NEW pc \in {"listTasks", "findWebhooks", "dropSecret"},
             op = "deleteRunner" => pc = "listTasks", op = "deleteTask" => pc = "findWebhooks",
             op = "deleteSecret" => pc = "dropSecret",
             Begin(r, [Idle EXCEPT !.name = n, !.op = op, !.pc = pc])
      PROVE  IInv'
  <2> DEFINE q == [Idle EXCEPT !.name = n, !.op = op, !.pc = pc]
  <2>1. Idle.answer = "none"
    BY DEF Idle
  <2>2. q \in ReqRow /\ q.op = op /\ q.pc = pc /\ q.name = n /\ q.answer = "none"
    BY <2>1, IdleTyped DEF ReqRow, PCs, AllRoutes, RunnerOps, TaskOps, SecretOps
  <2> HIDE DEF q
  <2>3. Holds(q)
    BY <1>2, <2>2 DEF Holds, Placed, Carried, SchemaOps
  <2>4. Begin(r, q)
    BY <1>2 DEF q
  <2> QED BY <2>2, <2>3, <2>4, Arrives
<1> QED BY <1>1, <1>2

LEMMA BeginSchemaOK ==
    ASSUME IInv, NEW r \in Requests, BeginSchema(r)
    PROVE  IInv'
<1>1. PICK n \in Names :
        \/ \E s \in Schemas : Begin(r, [Idle EXCEPT !.name = n, !.op = "updateSchema", !.pc = "readMap",
                                                    !.data = [NoData EXCEPT !.schema = s]])
        \/ Begin(r, [Idle EXCEPT !.name = n, !.op = "deleteSchema", !.pc = "readMap"])
  BY DEF BeginSchema
<1>2. Idle.answer = "none" /\ Idle.data = NoData
  BY DEF Idle
<1>3. ASSUME NEW s \in Schemas, Begin(r, [Idle EXCEPT !.name = n, !.op = "updateSchema", !.pc = "readMap",
                                                    !.data = [NoData EXCEPT !.schema = s]])
      PROVE  IInv'
  <2> DEFINE data == [NoData EXCEPT !.schema = s]
             q == [Idle EXCEPT !.name = n, !.op = "updateSchema", !.pc = "readMap", !.data = data]
  <2>1. data \in Data
    BY IdleTyped DEF Data
  <2> HIDE DEF data
  <2>2. q \in ReqRow /\ q.op = "updateSchema" /\ q.pc = "readMap" /\ q.name = n /\ q.answer = "none"
    BY <1>2, <2>1, IdleTyped DEF ReqRow, PCs, AllRoutes, TaskOps
  <2>3. Begin(r, q)
    BY <1>3 DEF data
  <2> HIDE DEF q
  <2>4. Holds(q)
    BY <2>2 DEF Holds, Placed, Carried, SchemaOps
  <2> QED BY <2>2, <2>3, <2>4, Arrives
<1>4. CASE Begin(r, [Idle EXCEPT !.name = n, !.op = "deleteSchema", !.pc = "readMap"])
  <2> DEFINE q == [Idle EXCEPT !.name = n, !.op = "deleteSchema", !.pc = "readMap"]
  <2>1. q \in ReqRow /\ q.op = "deleteSchema" /\ q.pc = "readMap" /\ q.name = n /\ q.answer = "none"
    BY <1>2, IdleTyped DEF ReqRow, PCs, AllRoutes, TaskOps
  <2> HIDE DEF q
  <2>2. Holds(q)
    BY <2>1 DEF Holds, Placed, Carried, SchemaOps
  <2>3. Begin(r, q)
    BY <1>4 DEF q
  <2> QED BY <2>1, <2>2, <2>3, Arrives
<1> QED BY <1>1, <1>3, <1>4

LEMMA BeginSecretOK ==
    ASSUME IInv, NEW r \in Requests, BeginSecret(r)
    PROVE  IInv'
<1>1. PICK n \in Names, s \in SecretBodies :
        Begin(r, [Idle EXCEPT !.name = n, !.op = "updateSecret", !.pc = "getSecret", !.secret = {s}])
  BY DEF BeginSecret
<1> DEFINE q == [Idle EXCEPT !.name = n, !.op = "updateSecret", !.pc = "getSecret", !.secret = {s}]
<1>2. Idle.answer = "none" /\ s \in Secret(Given)
  BY BodiesAssumption DEF Idle, Given
<1>3. q \in ReqRow /\ q.op = "updateSecret" /\ q.pc = "getSecret" /\ q.name = n /\ q.answer = "none"
  BY <1>2, IdleTyped DEF ReqRow, PCs, AllRoutes, SecretOps
<1> HIDE DEF q
<1>4. Holds(q)
  BY <1>3 DEF Holds, Placed, Carried, SchemaOps
<1>5. Begin(r, q)
  BY <1>1 DEF q
<1> QED BY <1>3, <1>4, <1>5, Arrives

-----------------------------------------------------------------------------
(* Calls that look. *)
Moves(q, p, pc) ==
    /\ q \in ReqRow /\ q.pc = pc /\ q.op = p.op /\ q.name = p.name /\ q.data = p.data /\ q.token = p.token
    /\ q.secret = p.secret /\ q.answer = p.answer

LEMMA GotoMoves ==
    ASSUME IInv, NEW r \in Requests, NEW pc \in PCs, Goto(r, pc)
    PROVE  \E q : req' = [req EXCEPT ![r] = q] /\ Moves(q, req[r], pc) /\ q.found = req[r].found
<1> DEFINE q == [req[r] EXCEPT !.pc = pc]
<1>1. req' = [req EXCEPT ![r] = q] /\ req[r] \in ReqRow
  BY DEF Goto, IInv, ReqsOK, Holds
<1>2. Moves(q, req[r], pc) /\ q.found = req[r].found
  BY <1>1 DEF ReqRow, Moves
<1> QED BY <1>1, <1>2

LEMMA NotFreshOp ==
    ASSUME NEW r, req[r].op \notin SchemaOps \cup {"createRunner"}
    PROVE  ~ Fresh(r)
  BY DEF Fresh

LEMMA FindMapOK ==
    ASSUME IInv, NEW r \in Requests, FindMap(r)
    PROVE  IInv'
<1>1. req[r].pc = "findMap" /\ Watch /\ UNCHANGED Tables /\ raced' = raced /\ Holds(req[r])
  BY DEF FindMap, Tables, IInv, ReqsOK
<1>2. CASE Answer(r, "error")
  BY <1>1, <1>2, Ends DEF Answers
<1>3. ASSUME NEW pc \in {"updateMap", "findRunner"}, pc = "updateMap" <=> req[r].op = "updateRunner", Goto(r, pc)
      PROVE  IInv'
  <2>1. pc \in PCs
    BY DEF PCs
  <2>2. PICK q : req' = [req EXCEPT ![r] = q] /\ Moves(q, req[r], pc)
    BY <1>3, <2>1, GotoMoves
  <2>3. Holds(q)
    BY <1>1, <1>3, <2>2 DEF Holds, Placed, Carried, Moves, SchemaOps
  <2>4. q.pc \in {"createMap", "updateMap"} => q.data.runner = None
    BY <1>1, <1>3, <2>2 DEF Moves, Holds, Carried, RunnerForm, RunnerData
  <2>5. ~ Fresh(r)
    BY <1>1, NotFreshOp DEF Holds, Placed, SchemaOps
  <2> QED BY <1>1, <1>3, <2>2, <2>3, <2>4, <2>5, Quiet DEF Moves
<1> QED BY <1>2, <1>3 DEF FindMap

(* A request comes to rely on a runner. *)
LEMMA RelyBound ==
    ASSUME IInv, NEW r \in Requests, NEW q, req' = [req EXCEPT ![r] = q], maps' = maps,
           q.pc \in {"createMap", "updateMap"}, NEW n, q.data.runner = n, IsRunner(n) \/ n \in raced,
           RacedIf(\E s \in Requests \ {r} : Drops(s, n), n)
    PROVE  BoundOK'
<1>1. DOMAIN req' = Requests /\ req'[r] = q /\ \A s \in Requests \ {r} : req'[s] = req[s]
  BY DEF IInv, ReqsOK
<1>2. raced \subseteq raced' /\ ((\E s \in Requests \ {r} : Drops(s, n)) => n \in raced')
  BY DEF RacedIf
<1>3. ASSUME NEW m, Kept(m) PROVE Kept(m)'
  BY <1>1, <1>2, <1>3 DEF Kept, IsRunner, Field, Drops
<1>4. Kept(n)'
  BY <1>1, <1>2 DEF Kept, IsRunner, Field, Drops
<1>5. \A t \in DOMAIN maps' : IsTask(t)' => Kept(maps[t].runner)'
  BY <1>3 DEF IInv, BoundOK, IsTask, Field
<1>6. ASSUME NEW s \in Requests, req'[s].pc \in {"createMap", "updateMap"}, req'[s].data.runner # None
      PROVE  Kept(req[s].data.runner)'
  <2>1. CASE s = r
    BY <1>1, <1>4, <2>1
  <2>2. CASE s # r
    <3>1. req'[s] = req[s]
      BY <1>1, <2>2
    <3>2. Kept(req[s].data.runner)
      BY <1>6, <3>1 DEF IInv, BoundOK
    <3> QED BY <1>3, <3>1, <3>2
  <2> QED BY <2>1, <2>2
<1> QED BY <1>5, <1>6 DEF BoundOK

LEMMA FindRunnerOK ==
    ASSUME IInv, NEW r \in Requests, FindRunner(r)
    PROVE  IInv'
<1> DEFINE n == req[r].data.runner
<1>1. req[r].pc = "findRunner" /\ Watch /\ UNCHANGED Tables /\ Holds(req[r])
  BY DEF FindRunner, Tables, IInv, ReqsOK
<1>2. CASE Answer(r, "error") /\ UNCHANGED raced
  BY <1>1, <1>2, Ends DEF Answers
<1>3. ASSUME NEW pc \in {"createMap", "updateMap"}, pc = "createMap" <=> req[r].op = "createTask", Goto(r, pc),
             IsRunner(n), RacedIf(\E q \in Requests \ {r} : Drops(q, n), n)
      PROVE  IInv'
  <2>1. pc \in PCs
    BY DEF PCs
  <2>2. PICK q : req' = [req EXCEPT ![r] = q] /\ Moves(q, req[r], pc)
    BY <1>3, <2>1, GotoMoves
  <2>3. Holds(q)
    BY <1>1, <1>3, <2>2 DEF Holds, Placed, Carried, Moves, SchemaOps
  <2>4. q.pc \in {"createMap", "updateMap"} /\ q.data.runner = n /\ maps' = maps
    BY <1>1, <2>2 DEF Moves, Tables
  <2>5. BoundOK'
    <3> HIDE DEF n
    <3> QED BY <1>3, <2>2, <2>4, RelyBound
  <2>6. ~ Fresh(r)
    BY <1>1, NotFreshOp DEF Holds, Placed, SchemaOps
  <2>7. n \in Names
    BY <1>3 DEF IsRunner, Field, IInv, MapsOK
  <2>8. MapsOK' /\ SecretsOK' /\ webhooks' \subseteq Names /\ raced' \subseteq Names
    BY <1>1, <1>3, <2>7 DEF Tables, IInv, MapsOK, SecretsOK, MarksOK, RacedIf
  <2> QED BY <1>1, <2>2, <2>3, <2>5, <2>6, <2>8, Assemble
<1> QED BY <1>2, <1>3 DEF FindRunner

LEMMA ReadMapOK ==
    ASSUME IInv, NEW r \in Requests, ReadMap(r)
    PROVE  IInv'
<1> DEFINE t == maps[req[r].name]
           data == IF req[r].op = "updateSchema" THEN [t EXCEPT !.schema = req[r].data.schema]
                   ELSE [t EXCEPT !.schema = None, !.sync = None]
           n == t.runner
<1>1. req[r].pc = "readMap" /\ Watch /\ UNCHANGED Tables /\ Holds(req[r]) /\ req[r].op \in SchemaOps
  BY DEF ReadMap, Tables, IInv, ReqsOK, Holds, Placed
<1>2. CASE (Answer(r, "error") \/ Answer(r, "ok")) /\ UNCHANGED raced
  BY <1>1, <1>2, Ends DEF Answers
<1>3. CASE /\ IsTask(req[r].name)
           /\ req' = [req EXCEPT ![r].pc = "updateMap", ![r].data = data]
           /\ RacedIf(\E q \in Requests \ {r} : Drops(q, n), n)
  <2>1. req[r].name \in DOMAIN maps /\ n # None /\ t \in Data
    BY <1>3 DEF IsTask, Field, IInv, MapsOK
  <2>2. t.image = None
    BY <2>1 DEF IInv, MapsOK, TaskForm, RunnerForm, RunnerData
  <2>3. req[r].data \in Data /\ req[r] \in ReqRow
    BY <1>1 DEF Holds, ReqRow
  <2>4. data \in Data /\ data.image = None /\ data.runner = n /\ Others(req[r].op, data) = Others(req[r].op, t)
    <3> HIDE DEF t
    <3>1. t \in Data /\ t.image = None /\ n = t.runner
      BY <2>1, <2>2
    <3>2. CASE req[r].op = "updateSchema"
      BY <2>3, <3>1, <3>2 DEF Data, Others
    <3>3. CASE req[r].op = "deleteSchema"
      BY <2>3, <3>1, <3>3 DEF Data, Others
    <3> QED BY <1>1, <3>2, <3>3 DEF SchemaOps
  <2> HIDE DEF data
  <2> DEFINE q == [req[r] EXCEPT !.pc = "updateMap", !.data = data]
  <2>5. req' = [req EXCEPT ![r] = q]
    BY <1>3 DEF IInv, ReqsOK
  <2>6. q \in ReqRow /\ q.pc = "updateMap" /\ q.op = req[r].op /\ q.name = req[r].name /\ q.data = data
        /\ q.answer = req[r].answer
    BY <2>3, <2>4 DEF ReqRow, PCs
  <2> HIDE DEF q
  <2>7. TaskForm(data)
    BY <2>1, <2>4 DEF TaskForm
  <2>8. Holds(q)
    BY <1>1, <2>6, <2>7 DEF Holds, Placed, Carried, SchemaOps
  <2>9. IsRunner(n) \/ n \in raced
    BY <1>3, <2>1 DEF IInv, BoundOK, Kept
  <2>10. n \in Names /\ maps' = maps /\ secrets' = secrets
    BY <1>1, <2>1 DEF Data, Tables
  <2>11. BoundOK'
    <3> HIDE DEF n
    <3>1. RacedIf(\E s \in Requests \ {r} : Drops(s, n), n)
      BY <1>3
    <3>2. q.pc \in {"createMap", "updateMap"} /\ q.data.runner = n
      BY <2>4, <2>6
    <3> QED BY <2>5, <2>9, <2>10, <3>1, <3>2, RelyBound
  <2>12. Knows(r)'
    <3>1. req'[r] = q
      BY <2>5 DEF IInv, ReqsOK
    <3> QED BY <1>1, <2>1, <2>4, <2>6, <2>10, <3>1 DEF Knows, SchemaOps
  <2>13. MapsOK' /\ SecretsOK' /\ webhooks' \subseteq Names /\ raced' \subseteq Names
    BY <1>1, <1>3, <2>10 DEF Tables, IInv, MapsOK, SecretsOK, MarksOK, RacedIf
  <2> QED BY <1>1, <2>5, <2>8, <2>11, <2>12, <2>13, Assemble
<1> QED BY <1>2, <1>3 DEF ReadMap

LEMMA FindTokenOK ==
    ASSUME IInv, NEW r \in Requests, FindToken(r)
    PROVE  IInv'
<1> DEFINE found == Object(TokenOf[req[r].name])
           q == [req[r] EXCEPT !.pc = "putToken", !.found = found]
<1>1. /\ req[r].pc = "findToken" /\ Watch /\ UNCHANGED Tables /\ raced' = raced /\ Holds(req[r])
      /\ req[r].op = "updateRunner"
  BY DEF FindToken, Tables, IInv, ReqsOK, Holds, Placed
<1>2. req' = [req EXCEPT ![r] = q]
  BY DEF FindToken, IInv, ReqsOK
<1>3. found \in Secret(Stored)
  BY ObjectStored DEF IInv
<1> HIDE DEF found
<1>4. Moves(q, req[r], "putToken")
  BY <1>1, <1>3 DEF Holds, ReqRow, Moves, PCs
<1> HIDE DEF q
<1>5. Holds(q)
  BY <1>1, <1>4 DEF Holds, Placed, Carried, Moves, SchemaOps
<1>6. ~ Fresh(r)
  BY <1>1, NotFreshOp DEF SchemaOps
<1> QED BY <1>1, <1>2, <1>4, <1>5, <1>6, Quiet DEF Moves

LEMMA GetSecretOK ==
    ASSUME IInv, NEW r \in Requests, GetSecret(r)
    PROVE  IInv'
<1> DEFINE found == Object(req[r].name)
           q == [req[r] EXCEPT !.pc = "putSecret", !.found = found]
<1>1. /\ req[r].pc = "getSecret" /\ Watch /\ UNCHANGED Tables /\ raced' = raced /\ Holds(req[r])
      /\ req[r].op \in {"createRunner", "updateRunner", "updateSecret"}
  BY DEF GetSecret, Tables, IInv, ReqsOK, Holds, Placed
<1>2. req' = [req EXCEPT ![r] = q]
  BY DEF GetSecret, IInv, ReqsOK
<1>3. found \in Secret(Stored)
  BY ObjectStored DEF IInv
<1>4. Object(req[r].name) = found /\ secrets' = secrets
  BY <1>1 DEF Tables
<1> HIDE DEF found
<1>5. Moves(q, req[r], "putSecret") /\ q.found = found
  BY <1>1, <1>3 DEF Holds, ReqRow, Moves, PCs
<1> HIDE DEF q
<1>6. Holds(q)
  BY <1>1, <1>5 DEF Holds, Placed, Carried, Moves, SchemaOps
<1>7. Knows(r)' \/ req[r].op # "createRunner"
  <2>1. req'[r] = q
    BY <1>2 DEF IInv, ReqsOK
  <2> QED BY <1>1, <1>4, <1>5, <2>1 DEF Knows, SchemaOps, Moves, Object
<1>8. Fresh(r) => Knows(r)'
  BY <1>1, <1>7, NotFreshOp DEF SchemaOps
<1> QED BY <1>1, <1>2, <1>5, <1>6, <1>8, Quiet DEF Moves

LEMMA ReadBackOK ==
    ASSUME IInv, NEW r \in Requests, ReadBack(r)
    PROVE  IInv'
<1>1. Watch /\ UNCHANGED Tables /\ raced' = raced /\ (Answer(r, "ok") \/ Answer(r, "error"))
  BY DEF ReadBack, Tables
<1> QED BY <1>1, Ends DEF Answers

LEMMA FailOK ==
    ASSUME IInv, NEW r \in Requests, Fail(r)
    PROVE  IInv'
<1>1. Watch /\ UNCHANGED Tables /\ raced' = raced /\ Answer(r, "error")
  BY DEF Fail, Tables
<1> QED BY <1>1, Ends DEF Answers

LEMMA ListTasksOK ==
    ASSUME IInv, NEW r \in Requests, ListTasks(r)
    PROVE  IInv'
<1> DEFINE n == req[r].name
<1>1. /\ req[r].pc = "listTasks" /\ Watch /\ UNCHANGED Tables /\ Holds(req[r])
      /\ req[r].op = "deleteRunner" /\ n \in Names
  BY DEF ListTasks, Tables, IInv, ReqsOK, Holds, Placed
<1>2. CASE Answer(r, "error") /\ UNCHANGED raced
  BY <1>1, <1>2, Ends DEF Answers
<1>3. CASE /\ \A t \in DOMAIN maps : maps[t].runner # n
           /\ Goto(r, "dropMap")
           /\ RacedIf(\E q \in Requests \ {r} : Relies(q, n), n)
  <2>1. PICK q : req' = [req EXCEPT ![r] = q] /\ Moves(q, req[r], "dropMap")
    BY <1>3, GotoMoves DEF PCs
  <2>2. Holds(q)
    BY <1>1, <2>1 DEF Holds, Placed, Carried, Moves, SchemaOps
  <2>3. DOMAIN req' = Requests /\ req'[r] = q /\ \A s \in Requests \ {r} : req'[s] = req[s]
    BY <2>1 DEF IInv, ReqsOK
  <2>4. maps' = maps /\ q.name = n /\ q.pc = "dropMap" /\ n # None
    BY <1>1, <2>1, NamesAssumption DEF Tables, Moves
  <2> HIDE DEF n
  <2>5. raced \subseteq raced' /\ raced' \subseteq raced \cup {n}
    BY <1>3 DEF RacedIf
  <2>6. ASSUME NEW m, Kept(m), m # n \/ m \in raced' PROVE Kept(m)'
    BY <2>3, <2>4, <2>5, <2>6 DEF Kept, IsRunner, Field, Drops
  <2>7. \A t \in DOMAIN maps' : IsTask(t)' => Kept(maps[t].runner)'
    BY <1>3, <2>4, <2>6 DEF IInv, BoundOK, IsTask, Field
  <2>8. ASSUME NEW s \in Requests, req'[s].pc \in {"createMap", "updateMap"}, req'[s].data.runner # None
        PROVE  Kept(req[s].data.runner)'
    <3>1. s # r /\ req'[s] = req[s]
      BY <2>3, <2>4, <2>8
    <3>2. Kept(req[s].data.runner)
      BY <2>8, <3>1 DEF IInv, BoundOK
    <3>3. req[s].data.runner = n => n \in raced'
      BY <1>3, <2>8, <3>1 DEF RacedIf, Relies
    <3> QED BY <2>6, <3>1, <3>2, <3>3
  <2>9. BoundOK'
    BY <2>7, <2>8 DEF BoundOK
  <2>10. MapsOK' /\ SecretsOK' /\ webhooks' \subseteq Names /\ raced' \subseteq Names
    BY <1>1, <2>5 DEF n, Tables, IInv, MapsOK, SecretsOK, MarksOK
  <2>11. ~ Fresh(r)
    BY <1>1, NotFreshOp DEF SchemaOps
  <2> QED BY <1>1, <2>1, <2>2, <2>9, <2>10, <2>11, Assemble
<1> QED BY <1>2, <1>3 DEF ListTasks

LEMMA FindWebhooksOK ==
    ASSUME IInv, NEW r \in Requests, FindWebhooks(r)
    PROVE  IInv'
<1>1. /\ req[r].pc = "findWebhooks" /\ Watch /\ UNCHANGED Tables /\ Holds(req[r]) /\ raced' = raced
      /\ req[r].op = "deleteTask"
  BY DEF FindWebhooks, Tables, IInv, ReqsOK, Holds, Placed
<1>2. CASE Answer(r, "error")
  BY <1>1, <1>2, Ends DEF Answers
<1>3. CASE Goto(r, "dropMap")
  <2>1. PICK q : req' = [req EXCEPT ![r] = q] /\ Moves(q, req[r], "dropMap")
    BY <1>3, GotoMoves DEF PCs
  <2>2. Holds(q)
    BY <1>1, <2>1 DEF Holds, Placed, Carried, Moves, SchemaOps
  <2>3. ~ Fresh(r)
    BY <1>1, NotFreshOp DEF SchemaOps
  <2> QED BY <1>1, <2>1, <2>2, <2>3, Quiet DEF Moves
<1> QED BY <1>2, <1>3 DEF FindWebhooks

-----------------------------------------------------------------------------
(* Calls that write a ConfigMap. *)
LEMMA WriteBound ==
    ASSUME IInv, NEW r \in Requests, NEW q, req' = [req EXCEPT ![r] = q],
           q.pc \notin {"createMap", "updateMap", "dropMap"}, raced \subseteq raced',
           \A m : Kept(m) /\ IsRunner(m) /\ m \notin raced' => IsRunner(m)',
           \A t \in DOMAIN maps' : maps'[t].runner # None =>
              \/ t \in DOMAIN maps /\ maps'[t] = maps[t]
              \/ req[r].pc \in {"createMap", "updateMap"} /\ maps'[t].runner = req[r].data.runner
    PROVE  BoundOK'
<1>1. DOMAIN req' = Requests /\ req'[r] = q /\ \A s \in Requests \ {r} : req'[s] = req[s]
  BY DEF IInv, ReqsOK
<1>2. ASSUME NEW m, Kept(m) PROVE Kept(m)'
  BY <1>1, <1>2 DEF Kept, Drops
<1>3. ASSUME NEW t \in DOMAIN maps', maps'[t].runner # None PROVE Kept(maps[t].runner)'
  <2>1. CASE t \in DOMAIN maps /\ maps'[t] = maps[t]
    <3>1. Kept(maps[t].runner)
      BY <1>3, <2>1 DEF IInv, BoundOK, IsTask, Field
    <3> QED BY <1>2, <2>1, <3>1
  <2>2. CASE req[r].pc \in {"createMap", "updateMap"} /\ maps'[t].runner = req[r].data.runner
    <3>1. Kept(req[r].data.runner)
      BY <1>3, <2>2 DEF IInv, BoundOK
    <3> QED BY <1>2, <2>2, <3>1
  <2> QED BY <1>3, <2>1, <2>2
<1>4. ASSUME NEW s \in Requests, req'[s].pc \in {"createMap", "updateMap"}, req'[s].data.runner # None
      PROVE  Kept(req[s].data.runner)'
  <2>1. s # r /\ req'[s] = req[s]
    BY <1>1, <1>4
  <2>2. Kept(req[s].data.runner)
    BY <1>4, <2>1 DEF IInv, BoundOK
  <2> QED BY <1>2, <2>1, <2>2
<1> QED BY <1>3, <1>4 DEF BoundOK, IsTask, Field

LEMMA CreateMapOK ==
    ASSUME IInv, NEW r \in Requests, CreateMap(r)
    PROVE  IInv'
<1> DEFINE n == req[r].name
           data == req[r].data
           pc == AfterCreate(r)
<1>1. /\ req[r].pc = "createMap" /\ Watch /\ UNCHANGED <<secrets, webhooks, raced>> /\ Holds(req[r])
      /\ req[r].op \in {"createRunner", "createTask"} /\ n \in Names
  BY DEF CreateMap, IInv, ReqsOK, Holds, Placed
<1>2. CASE Answer(r, "conflict") /\ UNCHANGED maps
  BY <1>1, <1>2, Ends DEF Answers, Tables
<1>3. CASE n \notin DOMAIN maps /\ maps' = Insert(maps, n, data) /\ Goto(r, pc)
  <2>1. /\ pc \in {"createToken", "getSecret", "readBack"}
        /\ pc = "createToken" => req[r].op = "createRunner" /\ req[r].token # None
        /\ pc = "getSecret" => req[r].op = "createRunner"
    BY <1>1 DEF AfterCreate, AfterToken, Holds, Carried
  <2> HIDE DEF pc
  <2>2. pc \in PCs
    BY <2>1 DEF PCs
  <2>3. PICK q : req' = [req EXCEPT ![r] = q] /\ Moves(q, req[r], pc)
    BY <1>3, <2>2, GotoMoves
  <2>4. Holds(q)
    BY <1>1, <2>1, <2>3 DEF Holds, Placed, Carried, Moves, SchemaOps
  <2>5. /\ DOMAIN maps' = DOMAIN maps \cup {n} /\ maps'[n] = data
        /\ \A m \in DOMAIN maps : maps'[m] = maps[m]
        /\ maps' = [m \in DOMAIN maps' |-> maps'[m]]
    BY <1>3 DEF Insert
  <2>6. data \in Data /\ (RunnerForm(data) \/ TaskForm(data))
    BY <1>1 DEF Holds, ReqRow, Carried
  <2>7. MapsOK'
    BY <1>1, <2>5, <2>6 DEF IInv, MapsOK, RunnerForm, TaskForm
  <2>8. \A m : IsRunner(m) => IsRunner(m)'
    BY <2>5 DEF IsRunner, Field
  <2>9. q.pc \notin {"createMap", "updateMap", "dropMap"}
    BY <2>1, <2>3 DEF Moves
  <2>10. BoundOK'
    BY <1>1, <2>3, <2>5, <2>8, <2>9, WriteBound
  <2>11. ASSUME req[r].op = "createRunner" PROVE Knows(r)'
    <3>1. req'[r] = q
      BY <2>3 DEF IInv, ReqsOK
    <3>2. TokenOf[n] \in DOMAIN secrets => n \in left'
      BY <1>1, <1>3 DEF IInv, MarksOK, LeftTokens, Watch
    <3> QED BY <1>1, <2>1, <2>3, <2>11, <3>1, <3>2 DEF Knows, Moves, SchemaOps
  <2>12. Fresh(r) => Knows(r)'
    BY <1>1, <2>11, NotFreshOp DEF SchemaOps
  <2>13. SecretsOK' /\ webhooks' \subseteq Names /\ raced' \subseteq Names
    BY <1>1 DEF IInv, SecretsOK, MarksOK
  <2> QED BY <1>1, <2>3, <2>4, <2>7, <2>10, <2>12, <2>13, Assemble
<1> QED BY <1>2, <1>3 DEF CreateMap

LEMMA UpdateMapOK ==
    ASSUME IInv, NEW r \in Requests, UpdateMap(r)
    PROVE  IInv'
<1> DEFINE n == req[r].name
           data == req[r].data
<1>1. /\ req[r].pc = "updateMap" /\ Watch /\ UNCHANGED <<secrets, webhooks>> /\ Holds(req[r])
      /\ req[r].op \in {"updateRunner", "updateTask"} \cup SchemaOps /\ n \in Names
  BY DEF UpdateMap, IInv, ReqsOK, Holds, Placed
<1>2. CASE Answer(r, "error") /\ UNCHANGED <<maps, raced>>
  BY <1>1, <1>2, Ends DEF Answers, Tables
<1>3. ASSUME n \in DOMAIN maps, maps' = [maps EXCEPT ![n] = data],
             RacedIf(IsRunner(n) /\ req[r].op # "updateRunner", n),
             NEW q, req' = [req EXCEPT ![r] = q], Holds(q), q.pc \notin {"createMap", "updateMap", "dropMap"},
             q.op \notin SchemaOps \cup {"createRunner"} \/ q.pc = "idle"
      PROVE  IInv'
  <2>1. /\ DOMAIN maps' = DOMAIN maps /\ maps'[n] = data
        /\ \A m \in DOMAIN maps \ {n} : maps'[m] = maps[m]
        /\ maps' = [m \in DOMAIN maps' |-> maps'[m]]
    BY <1>3 DEF IInv, MapsOK
  <2>2. data \in Data /\ (RunnerForm(data) \/ TaskForm(data))
    BY <1>1 DEF Holds, ReqRow, Carried
  <2>3. req[r].op = "updateRunner" => data.image # None
    BY <1>1 DEF Holds, Carried, RunnerForm
  <2>4. MapsOK'
    BY <1>1, <2>1, <2>2 DEF IInv, MapsOK, RunnerForm, TaskForm
  <2>5. raced \subseteq raced' /\ raced' \subseteq Names /\ (IsRunner(n) /\ req[r].op # "updateRunner" => n \in raced')
    BY <1>1, <1>3 DEF RacedIf, IInv, MarksOK
  <2>6. \A m : IsRunner(m) /\ m \notin raced' => IsRunner(m)'
    BY <2>1, <2>3, <2>5 DEF IsRunner, Field
  <2>7. BoundOK'
    BY <1>1, <1>3, <2>1, <2>5, <2>6, WriteBound
  <2>8. req'[r] = q
    BY <1>3 DEF IInv, ReqsOK
  <2>9. ~ Fresh(r)
    BY <1>1, <1>3, <2>8 DEF Fresh, SchemaOps
  <2>10. SecretsOK' /\ webhooks' \subseteq Names
    BY <1>1 DEF IInv, SecretsOK, MarksOK
  <2> QED BY <1>1, <1>3, <2>4, <2>5, <2>7, <2>9, <2>10, Assemble
<1>4. ASSUME req[r].op \in SchemaOps, Answer(r, "ok")
      PROVE  \E q : /\ req' = [req EXCEPT ![r] = q] /\ Holds(q) /\ q.pc = "idle"
  BY <1>4, AnswerHolds DEF Answer, Answers
<1>5. ASSUME req[r].op \notin SchemaOps, Goto(r, AfterUpdate(r))
      PROVE  \E q : /\ req' = [req EXCEPT ![r] = q] /\ Holds(q) /\ q.op = req[r].op
                    /\ q.pc \notin {"createMap", "updateMap", "dropMap"}
  <2> DEFINE pc == AfterUpdate(r)
  <2>1. /\ pc \in {"dropToken", "findToken", "getSecret", "readBack"}
        /\ pc # "readBack" => req[r].op = "updateRunner"
        /\ pc = "findToken" => req[r].token # None
    BY <1>1, <1>5 DEF AfterUpdate, AfterToken
  <2> HIDE DEF pc
  <2>2. pc \in PCs
    BY <2>1 DEF PCs
  <2>3. PICK q : req' = [req EXCEPT ![r] = q] /\ Moves(q, req[r], pc)
    BY <1>5, <2>2, GotoMoves DEF pc
  <2>4. Holds(q)
    BY <1>1, <1>5, <2>1, <2>3 DEF Holds, Placed, Carried, Moves, SchemaOps
  <2> QED BY <2>1, <2>3, <2>4 DEF Moves
<1> QED BY <1>1, <1>2, <1>3, <1>4, <1>5 DEF UpdateMap, SchemaOps

LEMMA DropMapOK ==
    ASSUME IInv, NEW r \in Requests, DropMap(r)
    PROVE  IInv'
<1> DEFINE n == req[r].name
<1>1. /\ req[r].pc = "dropMap" /\ Watch /\ UNCHANGED <<secrets, webhooks>> /\ Holds(req[r])
      /\ req[r].op \in {"deleteRunner", "deleteTask"} /\ n \in Names
  BY DEF DropMap, IInv, ReqsOK, Holds, Placed
<1>2. CASE Answer(r, "error") /\ UNCHANGED <<maps, raced>>
  BY <1>1, <1>2, Ends DEF Answers, Tables
<1>3. ASSUME n \in DOMAIN maps, maps' = Without(maps, n),
             RacedIf(IsRunner(n) /\ req[r].op = "deleteTask", n),
             NEW q, req' = [req EXCEPT ![r] = q], Holds(q), q.pc \notin {"createMap", "updateMap", "dropMap"}
      PROVE  IInv'
  <2>1. /\ DOMAIN maps' = DOMAIN maps \ {n} /\ \A m \in DOMAIN maps' : maps'[m] = maps[m]
        /\ maps' = [m \in DOMAIN maps' |-> maps'[m]]
    BY <1>3 DEF Without
  <2>2. MapsOK'
    BY <1>1, <2>1 DEF IInv, MapsOK, RunnerForm, TaskForm
  <2>3. raced \subseteq raced' /\ raced' \subseteq Names /\ (IsRunner(n) /\ req[r].op = "deleteTask" => n \in raced')
    BY <1>1, <1>3 DEF RacedIf, IInv, MarksOK
  <2>4. Kept(n) /\ IsRunner(n) => n \in raced'
    <3>1. CASE req[r].op = "deleteTask"
      BY <2>3, <3>1
    <3>2. CASE req[r].op = "deleteRunner"
      <4>1. Drops(r, n)
        BY <1>1, <3>2 DEF Drops
      <4> QED BY <2>3, <4>1 DEF Kept
    <3> QED BY <1>1, <3>1, <3>2
  <2>5. \A m : Kept(m) /\ IsRunner(m) /\ m \notin raced' => IsRunner(m)'
    BY <2>1, <2>4 DEF IsRunner, Field
  <2>6. BoundOK'
    BY <1>3, <2>1, <2>3, <2>5, WriteBound
  <2>7. ~ Fresh(r)
    BY <1>1, NotFreshOp DEF SchemaOps
  <2>8. SecretsOK' /\ webhooks' \subseteq Names
    BY <1>1 DEF IInv, SecretsOK, MarksOK
  <2> QED BY <1>1, <1>3, <2>2, <2>3, <2>6, <2>7, <2>8, Assemble
<1>4. CASE Answer(r, "ok")
  <2>1. \E q : req' = [req EXCEPT ![r] = q] /\ Holds(q) /\ q.pc = "idle"
    BY <1>4, AnswerHolds DEF Answer, Answers
  <2> QED BY <1>2, <1>3, <2>1 DEF DropMap
<1>5. CASE req[r].op = "deleteRunner" /\ Goto(r, "dropSecret")
  <2>1. PICK q : req' = [req EXCEPT ![r] = q] /\ Moves(q, req[r], "dropSecret")
    BY <1>5, GotoMoves DEF PCs
  <2>2. Holds(q) /\ q.pc = "dropSecret"
    BY <1>1, <1>5, <2>1 DEF Holds, Placed, Carried, Moves, SchemaOps
  <2> QED BY <1>2, <1>3, <2>1, <2>2 DEF DropMap
<1> QED BY <1>2, <1>4, <1>5 DEF DropMap

-----------------------------------------------------------------------------
(* Calls that write a Secret. *)
LEMMA InsertSecret ==
    ASSUME SecretsOK, NEW s \in SecretNames, NEW v \in Secret(Stored), DOMAIN v # {}, secrets' = Insert(secrets, s, v)
    PROVE  SecretsOK'
<1>1. /\ DOMAIN secrets' = DOMAIN secrets \cup {s}
      /\ \A t \in DOMAIN secrets' : secrets'[t] = IF t = s THEN v ELSE secrets[t]
      /\ secrets' = [t \in DOMAIN secrets' |-> secrets'[t]]
  BY DEF Insert
<1> QED BY <1>1 DEF SecretsOK

LEMMA WithoutSecret ==
    ASSUME SecretsOK, NEW s, secrets' = Without(secrets, s)
    PROVE  SecretsOK'
  BY DEF Without, SecretsOK

LEMMA SecretStep ==
    ASSUME IInv, NEW r \in Requests, NEW q, req' = [req EXCEPT ![r] = q], Holds(q), Watch,
           UNCHANGED <<maps, webhooks, raced>>, SecretsOK', req[r].op \notin SchemaOps,
           q.pc \in {"idle", "getSecret", "readBack"}, q.pc # "idle" => q.op = req[r].op
    PROVE  IInv'
<1>1. BoundOK'
  BY QuietBound
<1>2. MapsOK' /\ webhooks' \subseteq Names /\ raced' \subseteq Names
  BY DEF IInv, MapsOK, MarksOK
<1>3. req'[r] = q
  BY DEF IInv, ReqsOK
<1>4. Fresh(r) => Knows(r)'
  BY <1>3 DEF Fresh, Knows, SchemaOps
<1> QED BY <1>1, <1>2, <1>4, Assemble

LEMMA SecretAnswer ==
    ASSUME IInv, NEW r \in Requests, NEW a \in Answers, Answer(r, a), Watch,
           UNCHANGED <<maps, webhooks, raced>>, SecretsOK', req[r].op \notin SchemaOps
    PROVE  IInv'
<1>1. PICK q : req' = [req EXCEPT ![r] = q] /\ Holds(q) /\ q.pc = "idle"
  BY AnswerHolds DEF Answer
<1> QED BY <1>1, SecretStep

LEMMA TokenTyped ==
    ASSUME NEW t \in Given, t # None
    PROVE  [k \in {"token"} |-> t] \in Secret(Stored) /\ DOMAIN [k \in {"token"} |-> t] # {}
<1> DEFINE v == [k \in {"token"} |-> t]
<1>1. DOMAIN v = {"token"} /\ v \in [{"token"} -> Stored]
  BY DEF Given, Stored
<1> HIDE DEF v
<1>2. v \in Secret(Stored) /\ DOMAIN v # {}
  BY <1>1, SecretShape, NamesAssumption
<1> QED BY <1>2 DEF v

LEMMA AfterTokenHolds ==
    ASSUME IInv, NEW r \in Requests, req[r].op \in {"createRunner", "updateRunner"},
           NEW q, Moves(q, req[r], AfterToken(r)), req[r].pc # "idle"
    PROVE  Holds(q) /\ q.pc \in {"getSecret", "readBack"} /\ q.op = req[r].op
<1>1. Holds(req[r]) /\ AfterToken(r) \in {"getSecret", "readBack"}
  BY DEF IInv, ReqsOK, AfterToken
<1>2. q.pc \in {"getSecret", "readBack"} /\ q.op = req[r].op
  BY <1>1 DEF Moves
<1>3. Holds(q)
  BY <1>1, <1>2 DEF Holds, Placed, Carried, Moves, SchemaOps
<1> QED BY <1>2, <1>3

LEMMA CreateTokenOK ==
    ASSUME IInv, NEW r \in Requests, CreateToken(r)
    PROVE  IInv'
<1> DEFINE s == TokenOf[req[r].name]
           v == [k \in {"token"} |-> req[r].token]
<1>1. /\ req[r].pc = "createToken" /\ Watch /\ UNCHANGED <<maps, webhooks, raced>> /\ Holds(req[r])
      /\ req[r].op = "createRunner" /\ req[r].name \in Names
  BY DEF CreateToken, IInv, ReqsOK, Holds, Placed
<1>2. CASE Answer(r, "conflict") /\ UNCHANGED secrets
  BY <1>1, <1>2, Ends DEF Answers, Tables
<1>3. CASE secrets' = Insert(secrets, s, v) /\ Goto(r, AfterToken(r))
  <2>1. s \in SecretNames /\ v \in Secret(Stored) /\ DOMAIN v # {}
    BY <1>1, NamesAssumption, TokenTyped DEF Holds, ReqRow, Carried
  <2> HIDE DEF s, v
  <2>2. SecretsOK'
    BY <1>3, <2>1, InsertSecret DEF IInv
  <2>3. AfterToken(r) \in PCs
    BY DEF AfterToken, PCs
  <2>4. PICK q : req' = [req EXCEPT ![r] = q] /\ Moves(q, req[r], AfterToken(r))
    BY <1>3, <2>3, GotoMoves
  <2>5. Holds(q) /\ q.pc \in {"getSecret", "readBack"} /\ q.op = req[r].op
    BY <1>1, <2>4, AfterTokenHolds
  <2> QED BY <1>1, <2>2, <2>4, <2>5, SecretStep DEF SchemaOps
<1> QED BY <1>2, <1>3 DEF CreateToken

LEMMA PutTokenOK ==
    ASSUME IInv, NEW r \in Requests, PutToken(r)
    PROVE  IInv'
<1> DEFINE s == TokenOf[req[r].name]
           v == [k \in {"token"} |-> req[r].token]
<1>1. /\ req[r].pc = "putToken" /\ Watch /\ UNCHANGED <<maps, webhooks, raced>> /\ Holds(req[r])
      /\ req[r].op = "updateRunner" /\ req[r].name \in Names
  BY DEF PutToken, IInv, ReqsOK, Holds, Placed
<1>2. CASE (Answer(r, "conflict") \/ Answer(r, "error")) /\ UNCHANGED secrets
  BY <1>1, <1>2, Ends DEF Answers, Tables
<1>3. CASE secrets' = Insert(secrets, s, v) /\ req' = [req EXCEPT ![r].pc = AfterToken(r), ![r].found = EmptyTable]
  <2> DEFINE q == [req[r] EXCEPT !.pc = AfterToken(r), !.found = EmptyTable]
  <2>1. s \in SecretNames /\ v \in Secret(Stored) /\ DOMAIN v # {}
    BY <1>1, NamesAssumption, TokenTyped DEF Holds, ReqRow, Carried
  <2> HIDE DEF s, v
  <2>2. SecretsOK'
    BY <1>3, <2>1, InsertSecret DEF IInv
  <2>3. AfterToken(r) \in PCs
    BY DEF AfterToken, PCs
  <2>4. req' = [req EXCEPT ![r] = q]
    BY <1>3 DEF IInv, ReqsOK
  <2>5. Moves(q, req[r], AfterToken(r))
    BY <1>1, <2>3, EmptyStored DEF Moves, Holds, ReqRow
  <2> HIDE DEF q
  <2>6. Holds(q) /\ q.pc \in {"getSecret", "readBack"} /\ q.op = req[r].op
    BY <1>1, <2>5, AfterTokenHolds
  <2> QED BY <1>1, <2>2, <2>4, <2>6, SecretStep DEF SchemaOps
<1> QED BY <1>2, <1>3 DEF PutToken, PutObject

LEMMA DropTokenOK ==
    ASSUME IInv, NEW r \in Requests, DropToken(r)
    PROVE  IInv'
<1>1. /\ req[r].pc = "dropToken" /\ Watch /\ UNCHANGED <<maps, webhooks, raced>> /\ Holds(req[r])
      /\ req[r].op = "updateRunner" /\ Goto(r, AfterToken(r))
  BY DEF DropToken, IInv, ReqsOK, Holds, Placed
<1>2. SecretsOK'
  BY WithoutSecret DEF DropToken, IInv
<1>3. AfterToken(r) \in PCs
  BY DEF AfterToken, PCs
<1>4. PICK q : req' = [req EXCEPT ![r] = q] /\ Moves(q, req[r], AfterToken(r))
  BY <1>1, <1>3, GotoMoves
<1>5. Holds(q) /\ q.pc \in {"getSecret", "readBack"} /\ q.op = req[r].op
  BY <1>1, <1>4, AfterTokenHolds
<1> QED BY <1>1, <1>2, <1>4, <1>5, SecretStep DEF SchemaOps

LEMMA MergeTyped ==
    ASSUME NEW current \in Secret(Stored), NEW body \in Secret(Given)
    PROVE  Merge(current, body) \in Secret(Stored)
<1> DEFINE given == {k \in DOMAIN body : body[k] \notin {None, Mask}}
           gone  == {k \in DOMAIN body : body[k] = None}
           ks == (DOMAIN current \ gone) \cup given
           merged == [k \in ks |-> IF k \in given THEN body[k] ELSE current[k]]
<1>1. current \in [DOMAIN current -> Stored] /\ DOMAIN current \subseteq Keys
      /\ body \in [DOMAIN body -> Given] /\ DOMAIN body \subseteq Keys
  BY SecretShape
<1>2. \A k \in given : body[k] \in Stored
  BY <1>1 DEF Given, Stored
<1>3. \A k \in ks \ given : k \in DOMAIN current /\ current[k] \in Stored
  BY <1>1
<1>4. ks \subseteq Keys
  BY <1>1
<1>5. Merge(current, body) = merged
  BY DEF Merge
<1> HIDE DEF given, gone, ks
<1>6. merged \in [ks -> Stored] /\ DOMAIN merged = ks
  BY <1>2, <1>3
<1> HIDE DEF merged
<1>7. merged \in Secret(Stored)
  BY <1>4, <1>6, SecretShape
<1> QED BY <1>5, <1>7

LEMMA PutSecretOK ==
    ASSUME IInv, NEW r \in Requests, PutSecret(r)
    PROVE  IInv'
<1> DEFINE n == req[r].name
           next == IF req[r].op = "updateSecret" THEN Answer(r, "ok") ELSE Goto(r, "readBack")
<1>1. /\ req[r].pc = "putSecret" /\ Watch /\ UNCHANGED <<maps, webhooks, raced>> /\ Holds(req[r])
      /\ req[r].op \in {"createRunner", "updateRunner", "updateSecret"} /\ n \in SecretNames
  BY NamesAssumption DEF PutSecret, IInv, ReqsOK, Holds, Placed
<1>2. CASE (Answer(r, "conflict") \/ Answer(r, "error")) /\ UNCHANGED secrets
  BY <1>1, <1>2, Ends DEF Answers, Tables
<1>3. ASSUME SecretsOK', next
      PROVE  IInv'
  <2>1. CASE Answer(r, "ok")
    BY <1>1, <1>3, <2>1, SecretAnswer DEF Answers, SchemaOps
  <2>2. CASE req[r].op # "updateSecret" /\ Goto(r, "readBack")
    <3>1. PICK q : req' = [req EXCEPT ![r] = q] /\ Moves(q, req[r], "readBack")
      BY <2>2, GotoMoves DEF PCs
    <3>2. Holds(q)
      BY <1>1, <2>2, <3>1 DEF Holds, Placed, Carried, Moves, SchemaOps
    <3>3. q.pc = "readBack" /\ q.op = req[r].op /\ req[r].op \notin SchemaOps
      BY <1>1, <3>1 DEF Moves, SchemaOps
    <3> QED BY <1>1, <1>3, <3>1, <3>2, <3>3, SecretStep
  <2> QED BY <1>3, <2>1, <2>2
<1>4. PICK body \in req[r].secret :
         LET merged == Merge(req[r].found, body) IN
         \/ DOMAIN merged # {} /\ PutObject(r, n, merged, next)
         \/ /\ DOMAIN merged = {} /\ n \in DOMAIN secrets
            /\ secrets' = Without(secrets, n) /\ next
         \/ DOMAIN merged = {} /\ n \notin DOMAIN secrets /\ Answer(r, "error") /\ UNCHANGED secrets
  BY DEF PutSecret
<1> DEFINE merged == Merge(req[r].found, body)
<1>5. merged \in Secret(Stored)
  BY <1>1, MergeTyped DEF Holds, ReqRow
<1> HIDE DEF merged, n, next
<1>6. CASE DOMAIN merged # {} /\ secrets' = Insert(secrets, n, merged) /\ next
  BY <1>1, <1>3, <1>5, <1>6, InsertSecret DEF IInv
<1>7. CASE secrets' = Without(secrets, n) /\ next
  BY <1>3, <1>7, WithoutSecret DEF IInv
<1>8. \/ DOMAIN merged # {} /\ PutObject(r, n, merged, next)
      \/ secrets' = Without(secrets, n) /\ next
      \/ Answer(r, "error") /\ UNCHANGED secrets
  BY <1>4 DEF merged, n, next
<1> QED BY <1>2, <1>6, <1>7, <1>8 DEF PutObject

LEMMA DropSecretOK ==
    ASSUME IInv, NEW r \in Requests, DropSecret(r)
    PROVE  IInv'
<1>1. /\ Watch /\ UNCHANGED <<maps, webhooks, raced>> /\ Answer(r, "ok")
      /\ req[r].op \notin SchemaOps
  BY DEF DropSecret, IInv, ReqsOK, Holds, Placed, SchemaOps
<1>2. SecretsOK'
  BY WithoutSecret DEF DropSecret, IInv
<1> QED BY <1>1, <1>2, SecretAnswer DEF Answers

-----------------------------------------------------------------------------
(* What no request does, and the whole. *)
LEMMA KeptStays ==
    ASSUME NEW n, Kept(n), UNCHANGED <<maps, req, raced>>
    PROVE  Kept(n)'
  BY DEF Kept, IsRunner, Field, Drops

LEMMA BoundStays ==
    ASSUME BoundOK, UNCHANGED <<maps, req, raced>>
    PROVE  BoundOK'
  BY KeptStays DEF BoundOK, IsTask, Field

LEMMA WriteWebhookOK ==
    ASSUME IInv, WriteWebhook
    PROVE  IInv'
<1>1. maps' = maps /\ secrets' = secrets /\ req' = req /\ raced' = raced /\ Watch
  BY DEF WriteWebhook
<1>2. ReqsOK' /\ MapsOK' /\ SecretsOK' /\ BoundOK'
  BY <1>1, BoundStays DEF IInv, ReqsOK, MapsOK, SecretsOK
<1>3. MarksOK'
  <2>1. webhooks' \subseteq Names
    BY DEF WriteWebhook, IInv, MarksOK
  <2>2. LeftTokens' \subseteq Names
    BY DEF LeftTokens
  <2> QED BY <1>1, <2>1, <2>2 DEF Watch, IInv, MarksOK
<1>4. FreshOK'
  <2> SUFFICES ASSUME NEW s \in fresh' PROVE Knows(s)'
    BY DEF FreshOK
  <2>1. s \in Requests /\ Fresh(s)
    BY <1>1 DEF Watch
  <2>2. s \in fresh
    <3>1. Holds(req[s])
      BY <2>1 DEF IInv, ReqsOK
    <3> QED BY <1>1, <2>1, <3>1 DEF Fresh, Holds, Placed, SchemaOps
  <2>3. Knows(s)
    BY <2>2 DEF IInv, FreshOK
  <2>4. left \subseteq left'
    BY <1>1 DEF Watch
  <2> QED BY <1>1, <2>3, <2>4 DEF Knows, Object
<1> QED BY <1>2, <1>3, <1>4 DEF IInv

LEMMA InitIInv ==
    ASSUME Init
    PROVE  IInv
<1>1. /\ maps = SeedMaps /\ secrets = SeedSecrets /\ webhooks = {} /\ raced = {} /\ echo = {} /\ fresh = {}
      /\ left = LeftTokens /\ DOMAIN req = Requests /\ \A r \in Requests : req[r] = Idle
  BY DEF Init
<1>2. ReqsOK
  <2>1. Idle \in ReqRow /\ Idle.pc = "idle" /\ Idle.op = "none"
    BY IdleTyped DEF Idle
  <2>2. Holds(Idle)
    BY <2>1 DEF Holds, Placed, Carried, SchemaOps
  <2> QED BY <1>1, <2>2 DEF ReqsOK
<1>3. \A n \in DOMAIN maps : maps[n] \in Data /\ n \in Names
  BY <1>1, SeedsAssumption
<1>4. ASSUME NEW n \in DOMAIN maps, maps[n].runner = None
      PROVE  RunnerForm(maps[n])
  BY <1>1, <1>4, SeedsAssumption DEF RunnerForm
<1>5. ASSUME NEW n \in DOMAIN maps, maps[n].runner # None
      PROVE  TaskForm(maps[n]) /\ maps[n].runner \in DOMAIN maps /\ maps[maps[n].runner].image # None
  BY <1>1, <1>5, SeedsAssumption DEF TaskForm
<1>6. MapsOK
  BY <1>1, <1>3, <1>4, <1>5, SeedsAssumption DEF MapsOK
<1>7. SecretsOK
  <2>1. ASSUME NEW s \in DOMAIN secrets PROVE secrets[s] \in Secret(Stored) /\ DOMAIN secrets[s] # {}
    <3>1. secrets[s] \in Secret(Values) /\ DOMAIN secrets[s] # {}
      BY <1>1, SeedsAssumption
    <3> QED BY <3>1, SecretShape DEF Stored
  <2>2. DOMAIN secrets \subseteq SecretNames
    BY <1>1, SeedsAssumption
  <2>3. secrets = [s \in DOMAIN secrets |-> secrets[s]]
    BY <1>1, SeedsAssumption
  <2> QED BY <2>1, <2>2, <2>3 DEF SecretsOK
<1>8. MarksOK
  BY <1>1 DEF MarksOK, LeftTokens
<1>9. BoundOK
  <2>1. \A r \in Requests : req[r].pc = "idle"
    BY <1>1 DEF Idle
  <2>2. \A t \in DOMAIN maps : IsTask(t) => Kept(maps[t].runner)
    BY <1>5, <2>1 DEF IsTask, IsRunner, Field, Kept, Drops
  <2> QED BY <2>1, <2>2 DEF BoundOK
<1> QED BY <1>1, <1>2, <1>6, <1>7, <1>8, <1>9 DEF IInv, FreshOK

LEMMA StutterIInv ==
    ASSUME IInv, UNCHANGED vars
    PROVE  IInv'
<1>1. UNCHANGED <<maps, req, raced>> /\ UNCHANGED <<secrets, webhooks, echo, fresh, left>>
  BY DEF vars
<1>2. ReqsOK' /\ MapsOK' /\ SecretsOK' /\ BoundOK'
  BY <1>1, BoundStays DEF IInv, ReqsOK, MapsOK, SecretsOK
<1>3. MarksOK' /\ FreshOK'
  BY <1>1 DEF IInv, MarksOK, LeftTokens, FreshOK, Knows, Object
<1> QED BY <1>2, <1>3 DEF IInv

LEMMA NextIInv ==
    ASSUME IInv, [Next]_vars
    PROVE  IInv'
<1>1. ASSUME NEW r \in Requests, Handler(r) PROVE IInv'
  BY <1>1, BeginRunnerOK, BeginTaskOK, BeginDeleteOK, BeginSchemaOK, BeginSecretOK, FindMapOK, FindRunnerOK,
     ReadMapOK, CreateMapOK, UpdateMapOK, CreateTokenOK, FindTokenOK, PutTokenOK, DropTokenOK, GetSecretOK,
     PutSecretOK, ReadBackOK, ListTasksOK, FindWebhooksOK, DropMapOK, DropSecretOK, FailOK DEF Handler
<1>2. CASE WriteWebhook
  BY <1>2, WriteWebhookOK
<1>3. CASE UNCHANGED vars
  BY <1>3, StutterIInv
<1> QED BY <1>1, <1>2, <1>3 DEF Next

(* Every state of every behaviour satisfies the inductive invariant. *)
THEOREM Inductive == Spec => []IInv
<1>1. Init => IInv
  BY InitIInv
<1>2. IInv /\ [Next]_vars => IInv'
  BY NextIInv
<1> QED BY <1>1, <1>2, PTL DEF Spec

(* The tables hold what their columns and objects can hold, whatever the requests, their
   interleaving and the calls to Kubernetes that fail. *)
THEOREM TypeCorrect == Spec => []TypeOK
<1>1. IInv => TypeOK
  <2> SUFFICES ASSUME IInv PROVE TypeOK
    OBVIOUS
  <2>1. DOMAIN maps \subseteq Names /\ maps \in [DOMAIN maps -> Data]
    BY DEF IInv, MapsOK
  <2>2. DOMAIN secrets \subseteq SecretNames
        /\ \A s \in DOMAIN secrets : secrets[s] \in Secret(Values \cup {Mask}) /\ DOMAIN secrets[s] # {}
    BY DEF IInv, SecretsOK, Stored
  <2>3. webhooks \subseteq Names /\ raced \subseteq Names /\ echo \cup fresh \subseteq Requests /\ left \subseteq Names
    BY DEF IInv, MarksOK
  <2>4. ASSUME NEW r \in Requests
        PROVE /\ req[r].pc \in PCs /\ req[r].op \in AllRoutes \cup {"none"}
              /\ req[r].name \in Names \cup {None} /\ req[r].data \in Data
              /\ req[r].token \in Values \cup {None, Mask}
              /\ req[r].secret \subseteq Secret(Values \cup {None, Mask})
              /\ req[r].found \in Secret(Values \cup {Mask})
              /\ req[r].answer \in {"none", "ok", "conflict", "error"}
    <3>1. req[r] \in ReqRow
      BY DEF IInv, ReqsOK, Holds
    <3> QED BY <3>1 DEF ReqRow, Given, Stored, Answers
  <2> QED BY <2>1, <2>2, <2>3, <2>4 DEF TypeOK
<1> QED BY <1>1, Inductive, PTL

(* A task has its runner, unless a request that deleted the runner met one that wrote the
   task, or a task route was used on the runner: DeleteRunner looks for tasks, CreateTask
   and UpdateTask look for the runner, each before a write that looks at nothing. *)
THEOREM TasksKeepTheirRunner == Spec => []TasksHaveRunners
<1>1. IInv => TasksHaveRunners
  BY DEF IInv, BoundOK, Kept, TasksHaveRunners
<1> QED BY <1>1, Inductive, PTL

-----------------------------------------------------------------------------
(* What a step of one request leaves alone. *)
LEMMA BeginStep ==
    ASSUME NEW r \in Requests,
           BeginRunner(r) \/ BeginTask(r) \/ BeginDelete(r) \/ BeginSchema(r) \/ BeginSecret(r)
    PROVE  req[r].pc = "idle" /\ UNCHANGED Tables /\ \E q : req' = [req EXCEPT ![r] = q]
<1>1. ASSUME NEW q, Begin(r, q) PROVE req[r].pc = "idle" /\ UNCHANGED Tables /\ \E p : req' = [req EXCEPT ![r] = p]
  BY <1>1 DEF Begin, Tables
<1>2. \E q : Begin(r, q)
  <2>1. CASE BeginRunner(r)
    BY <2>1, Zenon DEF BeginRunner
  <2>2. CASE BeginTask(r)
    BY <2>2, Zenon DEF BeginTask
  <2>3. CASE BeginDelete(r)
    BY <2>3, Zenon DEF BeginDelete
  <2>4. CASE BeginSchema(r)
    BY <2>4, Zenon DEF BeginSchema
  <2>5. CASE BeginSecret(r)
    BY <2>5, Zenon DEF BeginSecret
  <2> QED BY <2>1, <2>2, <2>3, <2>4, <2>5
<1> QED BY <1>1, <1>2

LEMMA OwnRequest ==
    ASSUME IInv, NEW s \in Requests, Handler(s), NEW r \in Requests, r # s
    PROVE  req'[r] = req[r]
<1>1. ASSUME NEW q, req' = [req EXCEPT ![s] = q] PROVE req'[r] = req[r]
  BY <1>1 DEF IInv, ReqsOK
<1>2. CASE BeginRunner(s) \/ BeginTask(s) \/ BeginDelete(s) \/ BeginSchema(s) \/ BeginSecret(s)
  BY <1>1, <1>2, BeginStep
<1>3. CASE FindMap(s) \/ FindRunner(s) \/ ReadMap(s) \/ CreateMap(s) \/ UpdateMap(s)
  BY <1>3 DEF IInv, ReqsOK, FindMap, FindRunner, ReadMap, CreateMap, UpdateMap, Goto, Answer
<1>4. CASE CreateToken(s) \/ FindToken(s) \/ PutToken(s) \/ DropToken(s)
  BY <1>4 DEF IInv, ReqsOK, CreateToken, FindToken, PutToken, DropToken, PutObject, Goto, Answer
<1>5. CASE GetSecret(s) \/ PutSecret(s) \/ ReadBack(s)
  BY <1>5 DEF IInv, ReqsOK, GetSecret, PutSecret, ReadBack, PutObject, Goto, Answer
<1>6. CASE ListTasks(s) \/ FindWebhooks(s) \/ DropMap(s) \/ DropSecret(s) \/ Fail(s)
  BY <1>6 DEF IInv, ReqsOK, ListTasks, FindWebhooks, DropMap, DropSecret, Fail, Goto, Answer
<1> QED BY <1>2, <1>3, <1>4, <1>5, <1>6 DEF Handler

(* The calls that write a ConfigMap. *)
LEMMA MapWriters ==
    ASSUME NEW r \in Requests, Handler(r), req[r].pc \notin {"createMap", "updateMap", "dropMap"}
    PROVE  maps' = maps
<1>1. CASE BeginRunner(r) \/ BeginTask(r) \/ BeginDelete(r) \/ BeginSchema(r) \/ BeginSecret(r)
  BY <1>1, BeginStep DEF Tables
<1>2. CASE FindMap(r) \/ FindRunner(r) \/ ReadMap(r) \/ CreateMap(r) \/ UpdateMap(r)
  BY <1>2 DEF FindMap, FindRunner, ReadMap, CreateMap, UpdateMap
<1>3. CASE CreateToken(r) \/ FindToken(r) \/ PutToken(r) \/ DropToken(r) \/ GetSecret(r) \/ PutSecret(r) \/ ReadBack(r)
  BY <1>3 DEF CreateToken, FindToken, PutToken, DropToken, GetSecret, PutSecret, ReadBack
<1>4. CASE ListTasks(r) \/ FindWebhooks(r) \/ DropMap(r) \/ DropSecret(r) \/ Fail(r)
  BY <1>4 DEF ListTasks, FindWebhooks, DropMap, DropSecret, Fail
<1> QED BY <1>1, <1>2, <1>3, <1>4 DEF Handler

(* What a request does next is decided by where it stands. *)
LEMMA NextCall ==
    ASSUME NEW r \in Requests, Handler(r), ~ Fail(r)
    PROVE  /\ req[r].pc = "findMap" => FindMap(r)
           /\ req[r].pc = "updateMap" => UpdateMap(r)
           /\ req[r].pc = "createToken" => CreateToken(r)
           /\ req[r].pc = "dropToken" => DropToken(r)
           /\ req[r].pc = "getSecret" => GetSecret(r)
           /\ req[r].pc = "putSecret" => PutSecret(r)
           /\ req[r].pc = "readBack" => ReadBack(r)
<1>1. CASE BeginRunner(r) \/ BeginTask(r) \/ BeginDelete(r) \/ BeginSchema(r) \/ BeginSecret(r)
  BY <1>1, BeginStep
<1>2. CASE FindRunner(r) \/ ReadMap(r) \/ CreateMap(r) \/ FindToken(r) \/ PutToken(r)
  BY <1>2 DEF FindRunner, ReadMap, CreateMap, FindToken, PutToken
<1>3. CASE ListTasks(r) \/ FindWebhooks(r) \/ DropMap(r) \/ DropSecret(r)
  BY <1>3 DEF ListTasks, FindWebhooks, DropMap, DropSecret
<1>4. CASE FindMap(r) \/ UpdateMap(r) \/ CreateToken(r) \/ DropToken(r) \/ GetSecret(r) \/ PutSecret(r) \/ ReadBack(r)
  BY <1>4 DEF FindMap, UpdateMap, CreateToken, DropToken, GetSecret, PutSecret, ReadBack
<1> QED BY <1>1, <1>2, <1>3, <1>4 DEF Handler

(* A schema route that nobody disturbed changes the schema of its task, and no other field
   but for the boolean that DeleteSchema loses: GetTask, then the whole object is written. *)
THEOREM SchemaRoutesWriteTheSchema == Spec => SchemaRoutesKeepTask
<1> DEFINE Same(r, op) == LET n == req[r].name
                          IN req'[r].answer = "ok" /\ n \in DOMAIN maps' => Others(op, maps'[n]) = Others(op, maps[n])
<1>1. ASSUME IInv, [Next]_vars, NEW r \in fresh PROVE Same(r, req[r].op)
  <2>1. r \in Requests /\ Knows(r) /\ Holds(req[r])
    BY <1>1 DEF IInv, MarksOK, FreshOK, ReqsOK
  <2>2. req[r].answer # "ok"
    BY <2>1 DEF Knows, Holds, Placed
  <2>3. CASE req'[r] = req[r]
    BY <2>2, <2>3
  <2>4. CASE Handler(r)
    <3>1. CASE req[r].op \in SchemaOps
      <4>1. UpdateMap(r) \/ Fail(r)
        BY <2>1, <2>4, <3>1, NextCall DEF Knows
      <4>2. CASE Answer(r, "error")
        BY <1>1, <2>1, <4>2 DEF Answer, IInv, ReqsOK, Idle
      <4>3. CASE maps' = [maps EXCEPT ![req[r].name] = req[r].data]
        BY <2>1, <3>1, <4>3 DEF Knows
      <4> QED BY <4>1, <4>2, <4>3 DEF UpdateMap, Fail
    <3>2. CASE req[r].op = "createRunner"
      <4>1. req[r].pc \notin {"createMap", "updateMap", "dropMap"}
        BY <2>1, <3>2 DEF Knows, Holds, Placed, SchemaOps
      <4> QED BY <2>1, <2>4, <4>1, MapWriters
    <3> QED BY <2>1, <3>1, <3>2 DEF Knows
  <2>5. ASSUME NEW s \in Requests, Handler(s), s # r PROVE req'[r] = req[r]
    BY <1>1, <2>1, <2>5, OwnRequest
  <2>6. CASE WriteWebhook \/ UNCHANGED vars
    BY <2>3, <2>6 DEF WriteWebhook, vars
  <2> QED BY <1>1, <2>3, <2>4, <2>5, <2>6 DEF Next
<1>2. IInv /\ [Next]_vars => [\A r \in fresh :
         LET n == req[r].name
             Rest(task) == [task EXCEPT !.schema = None,
                                        !.sync = IF req[r].op = "deleteSchema" THEN None ELSE @]
         IN req'[r].answer = "ok" /\ n \in DOMAIN maps' => Rest(maps'[n]) = Rest(maps[n])]_vars
  BY <1>1 DEF Others
<1> QED BY <1>2, Inductive, PTL DEF Spec, SchemaRoutesKeepTask

(* CreateRunner does not answer that a runner whose ConfigMap it just made exists already, unless
   a token had been left under that name, or another request wrote tokens or secrets meanwhile. *)
THEOREM ConflictsAreOfTokens == Spec => ConflictMeansLeftOrRaced
<1>1. ASSUME IInv, [Next]_vars, NEW r \in fresh, req[r].op = "createRunner", req'[r].answer = "conflict"
      PROVE  req[r].name \in left
  <2>1. r \in Requests /\ Knows(r) /\ Holds(req[r]) /\ DOMAIN req = Requests /\ SecretsOK
    BY <1>1 DEF IInv, MarksOK, FreshOK, ReqsOK
  <2>2. req[r].answer # "conflict" /\ req[r].pc \in {"createToken", "getSecret", "putSecret", "readBack"}
    BY <1>1, <2>1 DEF Knows, Holds, Placed, ReqRow, PCs, SchemaOps
  <2>3. Handler(r)
    <3>1. req'[r] # req[r]
      BY <1>1, <2>2
    <3>2. ~ WriteWebhook /\ ~ UNCHANGED vars
      BY <3>1 DEF WriteWebhook, vars
    <3> QED BY <1>1, <2>1, <3>1, <3>2, OwnRequest DEF Next
  <2>4. ~ Answer(r, "error") /\ ~ Answer(r, "ok")
    BY <1>1, <2>1 DEF Answer, Idle
  <2>5. ~ Fail(r)
    BY <2>4 DEF Fail
  <2>6. CASE req[r].pc = "createToken"
    <3>1. CreateToken(r)
      BY <2>1, <2>3, <2>5, <2>6, NextCall
    <3>2. ~ Goto(r, AfterToken(r))
      BY <1>1, <2>1, <2>2 DEF Goto, Holds, ReqRow
    <3> QED BY <1>1, <2>1, <2>6, <3>1, <3>2 DEF CreateToken, Knows
  <2>7. CASE req[r].pc = "getSecret"
    <3>1. GetSecret(r)
      BY <2>1, <2>3, <2>5, <2>7, NextCall
    <3> QED BY <1>1, <2>1, <2>2, <3>1 DEF GetSecret
  <2>8. CASE req[r].pc = "putSecret"
    <3>1. PutSecret(r)
      BY <2>1, <2>3, <2>5, <2>8, NextCall
    <3>2. ~ Goto(r, "readBack")
      BY <1>1, <2>1, <2>2 DEF Goto, Holds, ReqRow
    <3>3. req[r].name \in DOMAIN secrets /\ DOMAIN req[r].found = {}
      BY <2>4, <3>1, <3>2 DEF PutSecret, PutObject
    <3>4. req[r].found = Object(req[r].name)
      BY <1>1, <2>1, <2>8 DEF Knows
    <3> QED BY <2>1, <3>3, <3>4, ObjectStored
  <2>9. CASE req[r].pc = "readBack"
    <3>1. ReadBack(r)
      BY <2>1, <2>3, <2>5, <2>9, NextCall
    <3> QED BY <2>4, <3>1 DEF ReadBack
  <2> QED BY <2>2, <2>6, <2>7, <2>8, <2>9
<1>2. IInv /\ [Next]_vars => [\A r \in fresh :
         req[r].op = "createRunner" /\ req'[r].answer = "conflict" => req[r].name \in left]_vars
  BY <1>1
<1> QED BY <1>2, Inductive, PTL DEF Spec, ConflictMeansLeftOrRaced

-----------------------------------------------------------------------------
(* A runner that is written back as it was read. *)
LEMMA SecretWriters ==
    ASSUME IInv, NEW r \in Requests, Handler(r)
    PROVE  \/ secrets' = secrets
           \/ \E s : secrets' = Without(secrets, s)
           \/ \E v : secrets' = Insert(secrets, TokenOf[req[r].name], [k \in {"token"} |-> v])
           \/ req[r].name \in Names /\ \E v : secrets' = Insert(secrets, req[r].name, v)
<1>1. CASE BeginRunner(r) \/ BeginTask(r) \/ BeginDelete(r) \/ BeginSchema(r) \/ BeginSecret(r)
  BY <1>1, BeginStep DEF Tables
<1>2. CASE FindMap(r) \/ FindRunner(r) \/ ReadMap(r) \/ CreateMap(r) \/ UpdateMap(r)
  BY <1>2 DEF FindMap, FindRunner, ReadMap, CreateMap, UpdateMap
<1>3. CASE CreateToken(r) \/ FindToken(r) \/ PutToken(r)
  BY <1>3 DEF CreateToken, FindToken, PutToken, PutObject
<1>4. CASE DropToken(r) \/ GetSecret(r) \/ ReadBack(r)
  BY <1>4 DEF DropToken, GetSecret, ReadBack
<1>5. CASE PutSecret(r)
  <2>1. req[r].name \in Names
    BY <1>5 DEF PutSecret, IInv, ReqsOK, Holds, Placed
  <2> QED BY <1>5, <2>1 DEF PutSecret, PutObject
<1>6. CASE ListTasks(r) \/ FindWebhooks(r) \/ DropMap(r) \/ DropSecret(r) \/ Fail(r)
  BY <1>6 DEF ListTasks, FindWebhooks, DropMap, DropSecret, Fail
<1> QED BY <1>1, <1>2, <1>3, <1>4, <1>5, <1>6 DEF Handler

LEMMA TokensStayHeld ==
    ASSUME NoClash, IInv, TokensHeld, NEW r \in Requests, Handler(r)
    PROVE  TokensHeld'
<1>1. CASE secrets' = secrets
  BY <1>1 DEF TokensHeld
<1>2. CASE \E s : secrets' = Without(secrets, s)
  BY <1>2 DEF TokensHeld, Without
<1>3. CASE \E v : secrets' = Insert(secrets, TokenOf[req[r].name], [k \in {"token"} |-> v])
  BY <1>3 DEF TokensHeld, Insert
<1>4. CASE req[r].name \in Names /\ \E v : secrets' = Insert(secrets, req[r].name, v)
  BY <1>4 DEF TokensHeld, Insert, NoClash
<1> QED BY <1>1, <1>2, <1>3, <1>4, SecretWriters

(* The body that GetRunner answers asks for no change. *)
LEMMA EchoWritesNothing ==
    ASSUME IInv, TokensHeld, NEW r \in Requests, Echoing(r), Handler(r)
    PROVE  maps' = maps /\ secrets' = secrets
<1> DEFINE n == req[r].name
<1>1. /\ req[r].pc \in {"findMap", "updateMap", "dropToken", "getSecret", "putSecret", "readBack"}
      /\ req[r].op = "updateRunner" /\ n \in DOMAIN maps /\ n \in Names
  BY DEF Echoing, IInv, MapsOK
<1>2. CASE Fail(r)
  BY <1>2 DEF Fail
<1>3. CASE req[r].pc = "findMap" /\ FindMap(r)
  BY <1>3 DEF FindMap
<1>4. CASE req[r].pc = "updateMap" /\ UpdateMap(r)
  <2>1. req[r].data = maps[n] /\ maps = [m \in DOMAIN maps |-> maps[m]]
    BY DEF Echoing, IInv, MapsOK
  <2>2. [maps EXCEPT ![n] = req[r].data] = maps
    BY <1>1, <2>1
  <2> QED BY <1>4, <2>2 DEF UpdateMap
<1>5. CASE req[r].pc = "dropToken" /\ DropToken(r)
  <2>1. req[r].token = None /\ req[r].token = ReadRunner(n).token
    BY <1>5 DEF Echoing, ReadRunner
  <2>2. "token" \notin DOMAIN Object(TokenOf[n])
    BY <2>1, ValuesAssumption DEF ReadRunner
  <2>3. TokenOf[n] \notin DOMAIN secrets
    BY <1>1, <2>2 DEF TokensHeld, Object
  <2> QED BY <1>5, <2>3 DEF DropToken, Without, IInv, SecretsOK
<1>6. CASE req[r].pc = "getSecret" /\ GetSecret(r)
  BY <1>6 DEF GetSecret
<1>7. CASE req[r].pc = "putSecret" /\ PutSecret(r)
  <2>1. maps' = maps
    BY <1>7 DEF PutSecret
  <2>2. SUFFICES ASSUME secrets' # secrets PROVE FALSE
    BY <2>1
  <2>3. req[r].secret = {[k \in DOMAIN secrets[s] |-> Mask] : s \in {n} \cap DOMAIN secrets} /\ req[r].found = Object(n)
    BY <1>7 DEF Echoing, ReadRunner
  <2>4. PICK body \in req[r].secret :
           LET merged == Merge(req[r].found, body) IN
           \/ DOMAIN merged # {} /\ secrets' = Insert(secrets, n, merged)
           \/ DOMAIN merged = {} /\ secrets' = Without(secrets, n)
    BY <1>7, <2>2 DEF PutSecret, PutObject
  <2>5. n \in DOMAIN secrets /\ body = [k \in DOMAIN secrets[n] |-> Mask] /\ req[r].found = secrets[n]
    BY <2>3 DEF Object
  <2>6. secrets[n] = [k \in DOMAIN secrets[n] |-> secrets[n][k]] /\ DOMAIN secrets[n] # {}
    BY <2>5, SecretShape DEF IInv, SecretsOK
  <2>7. Merge(secrets[n], body) = secrets[n]
    <3>1. {k \in DOMAIN body : body[k] \notin {None, Mask}} = {} /\ {k \in DOMAIN body : body[k] = None} = {}
      BY <2>5, ValuesAssumption
    <3>2. Merge(secrets[n], body) = [k \in DOMAIN secrets[n] |-> secrets[n][k]]
      BY <3>1 DEF Merge
    <3> QED BY <2>6, <3>2
  <2>8. secrets' = Insert(secrets, n, secrets[n])
    BY <2>4, <2>5, <2>6, <2>7
  <2>9. Insert(secrets, n, secrets[n]) = [s \in DOMAIN secrets |-> secrets[s]]
    BY <2>5 DEF Insert
  <2> QED BY <2>2, <2>8, <2>9 DEF IInv, SecretsOK
<1>8. CASE req[r].pc = "readBack" /\ ReadBack(r)
  BY <1>8 DEF ReadBack
<1> QED BY <1>1, <1>2, <1>3, <1>4, <1>5, <1>6, <1>7, <1>8, NextCall

(* A request that goes on, and is not disturbed, still knows what it reads. *)
LEMMA EchoGoesOn ==
    ASSUME IInv, NEW r \in Requests, Echoing(r), Handler(r), Undisturbed(r)
    PROVE  Echoing(r)'
<1> DEFINE n == req[r].name
           p == req[r]
<1>1. /\ p.pc \in {"findMap", "updateMap", "dropToken", "getSecret", "putSecret", "readBack"}
      /\ p.op = "updateRunner" /\ p \in ReqRow /\ DOMAIN req = Requests
  BY DEF Echoing, IInv, ReqsOK, Holds
<1>2. maps' = maps /\ secrets' = secrets /\ req'[r].pc # "idle"
  BY DEF Undisturbed
<1>3. \A a : ~ Answer(r, a)
  BY <1>1, <1>2 DEF Answer, Idle
<1>4. ASSUME NEW q, req' = [req EXCEPT ![r] = q], NEW pc, Moves(q, p, pc),
             pc \in {"updateMap", "dropToken", "getSecret", "putSecret", "readBack"},
             pc = "dropToken" => p.token = None, pc = "putSecret" => q.found = Object(n)
      PROVE  Echoing(r)'
  <2>1. req'[r] = q
    BY <1>1, <1>4
  <2>2. q.pc = pc /\ q.op = p.op /\ q.name = n /\ q.data = p.data /\ q.token = p.token /\ q.secret = p.secret
    BY <1>4 DEF Moves
  <2> QED BY <1>2, <1>4, <2>1, <2>2 DEF Echoing, ReadRunner, Object
<1>5. ASSUME NEW pc \in {"updateMap", "dropToken", "getSecret", "readBack"}, Goto(r, pc),
             pc = "dropToken" => p.token = None
      PROVE  Echoing(r)'
  <2>1. pc \in PCs
    BY DEF PCs
  <2>2. PICK q : req' = [req EXCEPT ![r] = q] /\ Moves(q, p, pc)
    BY <1>5, <2>1, GotoMoves
  <2> QED BY <1>4, <1>5, <2>2
<1>6. AfterToken(r) \in {"getSecret", "readBack"}
  BY DEF AfterToken
<1>7. CASE p.pc = "findMap" /\ FindMap(r)
  BY <1>1, <1>3, <1>5, <1>7 DEF FindMap
<1>8. CASE p.pc = "updateMap" /\ UpdateMap(r)
  <2>1. p.token \in {None, Mask}
    BY DEF Echoing, ReadRunner
  <2>2. AfterUpdate(r) \in {"dropToken", "getSecret", "readBack"} /\ (AfterUpdate(r) = "dropToken" => p.token = None)
    BY <1>1, <1>6, <2>1 DEF AfterUpdate
  <2> QED BY <1>1, <1>3, <1>5, <1>8, <2>2 DEF UpdateMap, SchemaOps
<1>9. CASE p.pc = "dropToken" /\ DropToken(r)
  BY <1>5, <1>6, <1>9 DEF DropToken
<1>10. CASE p.pc = "getSecret" /\ GetSecret(r)
  <2> DEFINE q == [p EXCEPT !.pc = "putSecret", !.found = Object(n)]
  <2>1. req' = [req EXCEPT ![r] = q]
    BY <1>1, <1>10 DEF GetSecret
  <2>2. Object(n) \in Secret(Stored) /\ "putSecret" \in PCs
    BY ObjectStored DEF IInv, PCs
  <2>3. Moves(q, p, "putSecret") /\ q.found = Object(n)
    BY <1>1, <2>2 DEF Moves, ReqRow
  <2> QED BY <1>4, <2>1, <2>3
<1>11. CASE p.pc = "putSecret" /\ PutSecret(r)
  <2>1. Goto(r, "readBack")
    BY <1>1, <1>3, <1>11 DEF PutSecret, PutObject
  <2> QED BY <1>5, <2>1
<1>12. ~ Fail(r) /\ ~ (p.pc = "readBack" /\ ReadBack(r))
  BY <1>3 DEF Fail, ReadBack
<1> QED BY <1>1, <1>7, <1>8, <1>9, <1>10, <1>11, <1>12, NextCall

(* Such a request arrives. *)
LEMMA EchoBegins ==
    ASSUME IInv, IInv', NEW r \in Requests, Echoes(r), Handler(r)
    PROVE  Echoing(r)'
<1> DEFINE n == req'[r].name
<1>1. req[r].pc = "idle" /\ req'[r].op = "updateRunner" /\ IsRunner(n)
      /\ [image |-> req'[r].data.image, token |-> req'[r].token, secret |-> req'[r].secret] = ReadRunner(n)
  BY DEF Echoes
<1>2. Holds(req'[r]) /\ req[r].op = "none" /\ DOMAIN req = Requests
  BY <1>1 DEF IInv, ReqsOK, Holds, Placed
<1>3. BeginRunner(r) \/ BeginTask(r) \/ BeginDelete(r) \/ BeginSchema(r) \/ BeginSecret(r)
  <2>1. ~ (FindMap(r) \/ FindRunner(r) \/ ReadMap(r) \/ CreateMap(r) \/ UpdateMap(r) \/ CreateToken(r) \/ FindToken(r)
           \/ PutToken(r) \/ DropToken(r))
    BY <1>1 DEF FindMap, FindRunner, ReadMap, CreateMap, UpdateMap, CreateToken, FindToken, PutToken, DropToken
  <2>2. ~ (GetSecret(r) \/ PutSecret(r) \/ ReadBack(r) \/ ListTasks(r) \/ FindWebhooks(r) \/ DropMap(r)
           \/ DropSecret(r) \/ Fail(r))
    BY <1>1 DEF GetSecret, PutSecret, ReadBack, ListTasks, FindWebhooks, DropMap, DropSecret, Fail
  <2> QED BY <2>1, <2>2 DEF Handler
<1>4. maps' = maps /\ secrets' = secrets
  BY <1>3, BeginStep DEF Tables
<1>5. req'[r].pc = "findMap"
  <2>1. ASSUME NEW q, Begin(r, q) PROVE req'[r] = q
    BY <1>2, <2>1 DEF Begin
  <2>2. CASE BeginRunner(r)
    <3>1. PICK m \in Names : \E body \in RunnerBodies \cup {ReadRunner(x) : x \in {m} \cap {y \in Names : IsRunner(y)}} :
             LET request == [Idle EXCEPT !.name = m, !.data = RunnerData(body),
                                        !.token = body.token, !.secret = body.secret]
             IN \/ Begin(r, [request EXCEPT !.op = "createRunner", !.pc = "createMap"])
                \/ Begin(r, [request EXCEPT !.op = "updateRunner", !.pc = "findMap"])
      BY <2>2 DEF BeginRunner
    <3>2. PICK request : /\ DOMAIN request = DOMAIN Idle
                         /\ \/ Begin(r, [request EXCEPT !.op = "createRunner", !.pc = "createMap"])
                            \/ Begin(r, [request EXCEPT !.op = "updateRunner", !.pc = "findMap"])
      BY <3>1
    <3>3. "op" \in DOMAIN request /\ "pc" \in DOMAIN request
      BY <3>2 DEF Idle
    <3> QED BY <1>1, <2>1, <3>2, <3>3
  <2>3. CASE BeginTask(r)
    <3>1. PICK request : /\ DOMAIN request = DOMAIN Idle
                         /\ \/ Begin(r, [request EXCEPT !.op = "createTask", !.pc = "findRunner"])
                            \/ Begin(r, [request EXCEPT !.op = "updateTask", !.pc = "findMap"])
      BY <2>3 DEF BeginTask
    <3>2. "op" \in DOMAIN request
      BY <3>1 DEF Idle
    <3> QED BY <1>1, <2>1, <3>1, <3>2
  <2>4. CASE BeginDelete(r)
    BY <1>1, <2>1, <2>4 DEF BeginDelete, Idle
  <2>5. CASE BeginSchema(r)
    BY <1>1, <2>1, <2>5 DEF BeginSchema, Idle
  <2>6. CASE BeginSecret(r)
    BY <1>1, <2>1, <2>6 DEF BeginSecret, Idle
  <2> QED BY <1>3, <2>2, <2>3, <2>4, <2>5, <2>6
<1>6. n \in DOMAIN maps /\ req'[r].data = maps[n]
  <2>1. n \in DOMAIN maps /\ maps[n].image # None /\ req'[r].data.image = maps[n].image
    BY <1>1 DEF IsRunner, Field, ReadRunner
  <2>2. RunnerForm(maps[n]) /\ RunnerForm(req'[r].data)
    BY <1>1, <1>2, <2>1 DEF IInv, MapsOK, TaskForm, Holds, Carried
  <2> QED BY <2>1, <2>2 DEF RunnerForm, RunnerData
<1>7. \A m : ReadRunner(m)' = ReadRunner(m)
  BY <1>4 DEF ReadRunner, Object
<1> QED BY <1>1, <1>4, <1>5, <1>6, <1>7 DEF Echoing, ReadRunner, Object

LEMMA EchoInductive ==
    ASSUME NoClash, IInv, IInv', EchoOK, [Next]_vars
    PROVE  EchoOK'
<1>1. TokensHeld /\ \A r \in echo : Echoing(r)
  BY DEF EchoOK
<1>2. TokensHeld'
  <2>1. CASE WriteWebhook \/ UNCHANGED vars
    BY <1>1, <2>1 DEF WriteWebhook, vars, TokensHeld
  <2> QED BY <1>1, <2>1, TokensStayHeld DEF Next
<1>3. ASSUME NEW r \in Requests, maps' = maps, secrets' = secrets, req'[r] = req[r], Echoing(r)
      PROVE  Echoing(r)'
  BY <1>3 DEF Echoing, ReadRunner, Object
<1>4. ASSUME NEW r \in Requests, Echoes(r) PROVE req'[r] # req[r]
  BY <1>4 DEF Echoes, IInv, ReqsOK, Holds, Placed
<1>5. CASE UNCHANGED vars
  BY <1>1, <1>2, <1>3, <1>5 DEF vars, IInv, MarksOK, EchoOK, TokensHeld
<1>6. CASE Watch
  <2> SUFFICES ASSUME NEW r \in echo' PROVE Echoing(r)'
    BY <1>2 DEF EchoOK, TokensHeld
  <2>1. r \in Requests /\ (Echoes(r) \/ (Echoing(r) /\ Undisturbed(r)))
    BY <1>1, <1>6 DEF Watch
  <2>2. CASE req'[r] = req[r]
    BY <1>3, <1>4, <2>1, <2>2 DEF Undisturbed
  <2>3. CASE req'[r] # req[r]
    <3>1. Handler(r)
      BY <2>1, <2>3, OwnRequest DEF Next, WriteWebhook, vars
    <3> QED BY <2>1, <3>1, EchoBegins, EchoGoesOn
  <2> QED BY <2>2, <2>3
<1>7. Watch \/ UNCHANGED vars
  <2>1. ASSUME NEW r \in Requests, Handler(r) PROVE Watch
    <3>1. \A q : Begin(r, q) => Watch
      BY DEF Begin
    <3>2. CASE BeginRunner(r) \/ BeginTask(r)
      BY <3>1, <3>2 DEF BeginRunner, BeginTask
    <3>3. CASE BeginDelete(r) \/ BeginSchema(r) \/ BeginSecret(r)
      BY <3>1, <3>3 DEF BeginDelete, BeginSchema, BeginSecret
    <3>4. CASE FindMap(r) \/ FindRunner(r) \/ ReadMap(r) \/ CreateMap(r) \/ UpdateMap(r)
      BY <3>4 DEF FindMap, FindRunner, ReadMap, CreateMap, UpdateMap
    <3>5. CASE CreateToken(r) \/ FindToken(r) \/ PutToken(r) \/ DropToken(r) \/ GetSecret(r) \/ PutSecret(r) \/ ReadBack(r)
      BY <3>5 DEF CreateToken, FindToken, PutToken, DropToken, GetSecret, PutSecret, ReadBack
    <3>6. CASE ListTasks(r) \/ FindWebhooks(r) \/ DropMap(r) \/ DropSecret(r) \/ Fail(r)
      BY <3>6 DEF ListTasks, FindWebhooks, DropMap, DropSecret, Fail
    <3> QED BY <2>1, <3>2, <3>3, <3>4, <3>5, <3>6 DEF Handler
  <2> QED BY <2>1 DEF Next, WriteWebhook
<1> QED BY <1>5, <1>6, <1>7

(* UpdateRunner called with what GetRunner answers, masks and all, changes nothing as long as nobody
   else writes: neither the ConfigMap nor the token nor the secret. It takes that no runner has the
   name of another one's token, name + "-token": the two would share an object. *)
THEOREM EchoesAreHarmless == NoClash => (Spec => EchoIsHarmless)
<1> SUFFICES ASSUME NoClash PROVE Spec => EchoIsHarmless
  OBVIOUS
<1>1. Init => EchoOK
  <2> SUFFICES ASSUME Init PROVE EchoOK
    OBVIOUS
  <2>1. echo = {} /\ secrets = SeedSecrets
    BY DEF Init
  <2>2. ASSUME NEW n \in Names, TokenOf[n] \in DOMAIN SeedSecrets PROVE "token" \in DOMAIN SeedSecrets[TokenOf[n]]
    BY <2>2, SeedsAssumption DEF NoClash
  <2> QED BY <2>1, <2>2 DEF EchoOK, TokensHeld
<1>2. IInv /\ IInv' /\ EchoOK /\ [Next]_vars => EchoOK'
  BY EchoInductive
<1>3. ASSUME IInv, EchoOK, [Next]_vars, NEW r \in echo, req'[r] # req[r] PROVE maps' = maps /\ secrets' = secrets
  <2>1. r \in Requests /\ Echoing(r) /\ TokensHeld
    BY <1>3 DEF IInv, MarksOK, EchoOK, TokensHeld
  <2>2. Handler(r)
    BY <1>3, <2>1, OwnRequest DEF Next, WriteWebhook, vars
  <2> QED BY <1>3, <2>1, <2>2, EchoWritesNothing
<1>4. IInv /\ EchoOK /\ [Next]_vars => [\A r \in echo : req'[r] # req[r] => maps' = maps /\ secrets' = secrets]_vars
  BY <1>3
<1> QED BY <1>1, <1>2, <1>4, Inductive, PTL DEF Spec, EchoIsHarmless
=============================================================================
