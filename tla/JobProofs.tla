------------------------------ MODULE JobProofs ------------------------------
(***************************************************************************)
(* Proofs about Jobs: what a launch and a CronJob copy while the catalogue  *)
(* changes, what a synchronous launch may answer while the job controller   *)
(* goes its own way, and how many jobs there can be.                        *)
(***************************************************************************)
EXTENDS Jobs, FiniteSetTheorems, TLAPS

SpecRow == [task : Tasks \cup {None}, owner : Callers \cup {None}, command : Commands \cup {None},
            image : Images \cup {None}, token : Tokens \cup {None}]

Ops     == {"none", "launch", "getSchema", "getJob", "getLog", "createCron", "updateCron", "readCron", "dropCron",
            "listJobs", "listCrons"}
Answers == {"none", "ok", "created", "status", "error", "panic"}
Waited  == {"none", "done", "timeout", "fault"}
Listed  == [id : Nat, started : BOOLEAN]   \* what a listing keeps of a job

ReqRow == [pc : PCs, op : Ops, spec : SpecRow, runner : Runners \cup {None}, sync : BOOLEAN,
           cron : CronNames \cup {None}, suspend : BOOLEAN, job : Nat, todo : Seq(STRING),
           listed : SUBSET Listed, shown : SUBSET CronNames, complete : BOOLEAN,
           wait : Waited, answer : Answers]

JobRow == [spec : Copies, started : BOOLEAN, pods : Nat, failed : Nat, succeeded : BOOLEAN, expiring : BOOLEAN,
           log : Logs]

(* Where a request copies the catalogue, piece by piece. *)
Copying == {"readTask", "readRunner", "readToken", "createJob", "putCron"}
Waiting == {"poll", "readPods", "readJob", "readLog"}

(* What a request has found where it stands. *)
Placed(q) ==
    /\ q.pc # "idle" => q.answer = "none"
    /\ q.pc \in Copying => q.spec.task \in Tasks /\ q.spec.owner \in Callers
    /\ q.pc \in Copying \ {"readTask"} => q.spec.command \in Commands
    /\ q.pc \in {"readRunner", "readToken"} => q.runner \in Runners
    /\ q.pc \in {"readToken", "createJob", "putCron"} => q.spec.image \in Images
    /\ q.pc \in Copying => (q.op = "launch" \/ q.cron \in CronNames)
    /\ q.pc \in {"createJob", "poll"} => q.op = "launch"
    /\ q.pc = "putCron" => q.op # "launch"
    /\ q.wait = "done" => q.pc \in {"readPods", "readJob", "readLog"}

Holds(q) == q \in ReqRow /\ Placed(q)

ReqsOK == DOMAIN req = Requests /\ \A r \in Requests : Holds(req[r])

CatalogueOK ==
    /\ DOMAIN tasks \subseteq Tasks /\ tasks \in [DOMAIN tasks -> TaskRow]
    /\ DOMAIN runners \subseteq Runners /\ runners \in [DOMAIN runners -> RunnerRow]
    /\ DOMAIN tokens \subseteq Runners /\ tokens \in [DOMAIN tokens -> Tokens]

(* The life of a job: a start time before any result, pods for whatever came of it until
   they are collected, and no more of them than the limit allows. *)
Life(job) ==
    /\ job.failed =< BackoffLimit + 1
    /\ ~ job.expiring => job.failed =< job.pods /\ job.pods =< BackoffLimit + 1
    /\ job.succeeded => job.started /\ job.failed =< BackoffLimit
    /\ job.failed > 0 => job.started
    /\ job.succeeded /\ ~ job.expiring => job.failed < job.pods

JobsOK ==
    /\ next \in Nat \ {0} /\ DOMAIN jobs \subseteq 1 .. next - 1
    /\ jobs = [j \in DOMAIN jobs |-> jobs[j]]
    /\ \A j \in DOMAIN jobs : jobs[j] \in JobRow /\ Life(jobs[j])

CronsOK == DOMAIN crons \subseteq CronNames /\ \A c \in DOMAIN crons : crons[c].spec \in Copies

(* What a request has copied was in a catalogue since it began; the one there is now counts. *)
ReadTaskOf(q, c) ==
    /\ q.spec.task \in DOMAIN c.tasks /\ c.tasks[q.spec.task].command = q.spec.command
    /\ c.tasks[q.spec.task].runner = q.runner
ReadRunnerOf(q, c) == q.runner \in DOMAIN c.runners /\ c.runners[q.runner].image = q.spec.image

Copied(r) ==
    /\ req[r].pc \in Copying => Catalogue \in seen[r]
    /\ req[r].pc \in {"readRunner", "readToken"} => \E c \in seen[r] : ReadTaskOf(req[r], c)
    /\ req[r].pc = "readToken" => \E c \in seen[r] : ReadRunnerOf(req[r], c)
    /\ req[r].pc \in {"createJob", "putCron"} => Began(req[r].spec, r)

CopiesOK == DOMAIN seen = Requests /\ \A r \in Requests : Copied(r)

(* The job that a launch waits for is its own; when the wait ended by itself the job has a
   result or has been collected. What a launch has read of its job before it reads the log
   still holds: a job that was complete is, and one that was not has its failed pod. *)
Waits(r) ==
    req[r].pc \in Waiting =>
        /\ req[r].job \in 1 .. next - 1
        /\ req[r].op = "launch" /\ req[r].job \in DOMAIN jobs =>
              LET job == jobs[req[r].job] IN
              /\ job.spec.owner = req[r].spec.owner
              /\ req[r].wait = "done" => job.started /\ (job.succeeded \/ job.failed > 0)
              /\ req[r].pc = "readLog" /\ req[r].complete => job.succeeded
              /\ req[r].pc = "readLog" /\ req[r].wait = "done" /\ ~ req[r].complete => job.failed > 0

WaitsOK == \A r \in Requests : Waits(r)

(* Each request makes at most one job. *)
Busy == {r \in Requests : req[r].pc \in Copying}

CountOK ==
    /\ count \in [requests : 0 .. MaxRequests, events : 0 .. MaxEvents]
    /\ next - 1 + Cardinality(Busy) =< count.requests + count.events

(* The inductive invariant. *)
IInv == ReqsOK /\ CatalogueOK /\ JobsOK /\ CronsOK /\ CopiesOK /\ WaitsOK /\ CountOK

-----------------------------------------------------------------------------
(* The rows of requests. *)
LEMMA IdleTyped ==
    /\ Idle \in ReqRow /\ Idle.pc = "idle" /\ Idle.answer = "none" /\ Idle.wait = "none" /\ Idle.op = "none"
    /\ Idle.spec = NoSpec /\ NoSpec \in SpecRow
<1>1. NoSpec \in SpecRow
  BY DEF NoSpec, SpecRow
<1>2. "idle" \in PCs /\ <<>> \in Seq(STRING)
  BY DEF PCs
<1> DEFINE todo == <<>>
<1> HIDE DEF todo
<1>3. Idle = [pc |-> "idle", op |-> "none", spec |-> NoSpec, runner |-> None, sync |-> FALSE, cron |-> None,
              suspend |-> FALSE, job |-> 0, todo |-> todo, listed |-> {}, shown |-> {}, complete |-> FALSE,
              wait |-> "none", answer |-> "none"]
  BY DEF Idle, todo
<1>4. todo \in Seq(STRING)
  BY DEF todo
<1>5. Idle \in ReqRow
  BY <1>1, <1>2, <1>3, <1>4 DEF ReqRow, Ops, Answers, Waited
<1> QED BY <1>1, <1>3, <1>5

LEMMA AnsweredHolds ==
    ASSUME NEW row \in ReqRow, row.pc = "idle", row.wait = "none", NEW answer \in Answers
    PROVE  LET q == [row EXCEPT !.answer = answer] IN Holds(q) /\ q.pc = "idle"
<1> DEFINE q == [row EXCEPT !.answer = answer]
<1>1. q \in ReqRow /\ q.pc = "idle" /\ q.wait = "none"
  BY DEF ReqRow
<1> HIDE DEF q
<1>2. Holds(q)
  BY <1>1 DEF Holds, Placed, Copying
<1> QED BY <1>1, <1>2 DEF q

-----------------------------------------------------------------------------
(* Counting requests. *)
LEMMA BusyFinite == IsFiniteSet(Busy) /\ Cardinality(Busy) \in Nat
<1>1. IsFiniteSet(Requests)
  BY FS_Interval, BoundsAssumption DEF Requests
<1>2. Busy \subseteq Requests
  BY DEF Busy
<1> QED BY <1>1, <1>2, FS_Subset, FS_CardinalityType

LEMMA UsedEvents ==
    ASSUME CountOK, Used("events", MaxEvents)
    PROVE  /\ count' \in [requests : 0 .. MaxRequests, events : 0 .. MaxEvents]
           /\ count'.requests = count.requests /\ count'.events = count.events + 1
  BY BoundsAssumption DEF CountOK, Used

(* No request is busier, and a job for each that is less or for each event. *)
LEMMA CountStays ==
    ASSUME CountOK, JobsOK, next' \in Nat,
           \/ count' = count /\ next' = next /\ Busy' \subseteq Busy
           \/ Used("events", MaxEvents) /\ next' =< next + 1 /\ Busy' \subseteq Busy
           \/ count' = count /\ next' = next + 1 /\ \E r \in Busy : Busy' = Busy \ {r}
    PROVE  CountOK'
<1>1. IsFiniteSet(Busy) /\ Cardinality(Busy) \in Nat
  BY BusyFinite
<1>2. next \in Nat /\ count.requests \in Nat /\ count.events \in Nat
  BY BoundsAssumption DEF JobsOK, CountOK
<1>3. Busy' \subseteq Busy /\ Cardinality(Busy') =< Cardinality(Busy) /\ Cardinality(Busy') \in Nat
  <2>1. Busy' \subseteq Busy
    OBVIOUS
  <2>2. IsFiniteSet(Busy') /\ Cardinality(Busy') =< Cardinality(Busy)
    BY <1>1, <2>1, FS_Subset
  <2> QED BY <2>1, <2>2, FS_CardinalityType
<1>4. CASE count' = count /\ next' = next
  BY <1>1, <1>2, <1>3, <1>4 DEF CountOK
<1>5. CASE Used("events", MaxEvents) /\ next' =< next + 1
  BY <1>1, <1>2, <1>3, <1>5, UsedEvents DEF CountOK
<1>6. CASE count' = count /\ next' = next + 1 /\ \E r \in Busy : Busy' = Busy \ {r}
  <2>1. Cardinality(Busy') = Cardinality(Busy) - 1
    BY <1>1, <1>6, FS_RemoveElement
  <2> QED BY <1>1, <1>2, <1>6, <2>1 DEF CountOK
<1> QED BY <1>4, <1>5, <1>6

-----------------------------------------------------------------------------
(* A request moves, and no object changes but perhaps a CronJob. *)
LEMMA RequestMoves ==
    ASSUME IInv, NEW r \in Requests, NEW q, req' = [req EXCEPT ![r] = q], Holds(q),
           UNCHANGED <<tasks, runners, tokens, jobs, next>>, CronsOK',
           count' = count \/ Used("events", MaxEvents),
           DOMAIN seen' = Requests, \A s \in Requests \ {r} : seen'[s] = seen[s],
           Copied(r)', Waits(r)', q.pc \in Copying => req[r].pc \in Copying
    PROVE  IInv'
<1>1. DOMAIN req' = Requests /\ req'[r] = q /\ \A s \in Requests \ {r} : req'[s] = req[s]
  BY DEF IInv, ReqsOK
<1>2. tasks' = tasks /\ runners' = runners /\ tokens' = tokens /\ jobs' = jobs /\ next' = next
  OBVIOUS
<1>3. ReqsOK'
  <2>1. \A s \in Requests : Holds(req'[s])
    BY <1>1 DEF IInv, ReqsOK
  <2> QED BY <1>1, <2>1 DEF ReqsOK, Holds, Placed
<1>4. CatalogueOK' /\ JobsOK' /\ CronsOK'
  BY <1>2 DEF IInv, CatalogueOK, JobsOK
<1>5. CopiesOK'
  <2>1. ASSUME NEW s \in Requests \ {r} PROVE Copied(s)'
    <3>1. Copied(s) /\ req'[s] = req[s] /\ seen'[s] = seen[s]
      BY <1>1, <2>1 DEF IInv, CopiesOK
    <3>2. Catalogue' = Catalogue
      BY <1>2 DEF Catalogue
    <3>3. Began(req[s].spec, s)' <=> Began(req[s].spec, s)
      BY <3>1 DEF Began
    <3> QED BY <3>1, <3>2, <3>3 DEF Copied
  <2> QED BY <2>1 DEF CopiesOK
<1>6. WaitsOK'
  <2>1. ASSUME NEW s \in Requests \ {r} PROVE Waits(s)'
    BY <1>1, <1>2, <2>1 DEF IInv, WaitsOK, Waits
  <2> QED BY <2>1 DEF WaitsOK
<1>7. CountOK'
  <2>1. Busy' \subseteq Busy
    BY <1>1 DEF Busy
  <2> QED BY <1>2, <2>1, CountStays DEF IInv, JobsOK
<1> QED BY <1>3, <1>4, <1>5, <1>6, <1>7 DEF IInv

LEMMA RequestStep ==
    ASSUME IInv, NEW r \in Requests, NEW q, req' = [req EXCEPT ![r] = q], Holds(q), UNCHANGED Objects,
           count' = count \/ Used("events", MaxEvents),
           DOMAIN seen' = Requests, \A s \in Requests \ {r} : seen'[s] = seen[s],
           Copied(r)', Waits(r)', q.pc \in Copying => req[r].pc \in Copying
    PROVE  IInv'
<1>1. UNCHANGED <<tasks, runners, tokens, jobs, next>> /\ CronsOK'
  BY DEF Objects, IInv, CronsOK
<1> QED BY <1>1, RequestMoves

(* A request is answered. *)
LEMMA ReplyOK ==
    ASSUME IInv, NEW r \in Requests, NEW row \in ReqRow, row.pc = "idle", row.wait = "none", NEW answer \in Answers,
           Reply(r, row, answer), UNCHANGED <<tasks, runners, tokens, jobs, next>>, CronsOK',
           count' = count \/ Used("events", MaxEvents)
    PROVE  IInv'
<1> DEFINE q == [row EXCEPT !.answer = answer]
<1>1. req' = [req EXCEPT ![r] = q] /\ seen' = [seen EXCEPT ![r] = {}]
  BY DEF Reply
<1>2. Holds(q) /\ q.pc = "idle"
  BY AnsweredHolds
<1> HIDE DEF q
<1>3. DOMAIN seen' = Requests /\ \A s \in Requests \ {r} : seen'[s] = seen[s]
  BY <1>1 DEF IInv, CopiesOK
<1>4. req'[r].pc = "idle"
  BY <1>1, <1>2 DEF IInv, ReqsOK
<1>5. Copied(r)' /\ Waits(r)' /\ q.pc \notin Copying
  BY <1>2, <1>4 DEF Copied, Waits, Copying, Waiting
<1> QED BY <1>1, <1>2, <1>3, <1>5, RequestMoves

LEMMA AnswerOK ==
    ASSUME IInv, NEW r \in Requests, NEW answer \in Answers, Answer(r, answer),
           UNCHANGED Objects, count' = count \/ Used("events", MaxEvents)
    PROVE  IInv'
<1>1. Idle \in ReqRow /\ Idle.pc = "idle" /\ Idle.wait = "none" /\ Reply(r, Idle, answer)
  BY IdleTyped DEF Answer
<1>2. UNCHANGED <<tasks, runners, tokens, jobs, next>> /\ CronsOK'
  BY DEF Objects, IInv, CronsOK
<1> QED BY <1>1, <1>2, ReplyOK

-----------------------------------------------------------------------------
(* Requests as they arrive. *)
LEMMA RouteTyped ==
    ASSUME IInv, NEW caller \in Callers, NEW row \in JobRoutes \cup CronRoutes \cup ListRoutes
    PROVE  LET q == [row EXCEPT !.spec.owner = caller] IN
           /\ q \in ReqRow /\ q.answer = "none" /\ q.wait = "none" /\ q.spec.owner = caller
           /\ q.pc \notin Copying \cup Waiting \cup {"idle"} \/ q.pc \in {"readTask", "readPods"}
           /\ q.pc = "readTask" => q.spec.task \in Tasks /\ (q.op = "launch" \/ q.cron \in CronNames)
           /\ q.pc = "readPods" => q.job \in 1 .. next - 1 /\ q.op # "launch"
<1>1. Idle \in ReqRow /\ Idle.answer = "none" /\ Idle.wait = "none" /\ Idle.spec = NoSpec /\ NoSpec \in SpecRow
  BY IdleTyped
<1>2. ASSUME row \in ReqRow, row.answer = "none", row.wait = "none",
             row.pc \notin Copying \cup Waiting \cup {"idle"} \/ row.pc \in {"readTask", "readPods"},
             row.pc = "readTask" => row.spec.task \in Tasks /\ (row.op = "launch" \/ row.cron \in CronNames),
             row.pc = "readPods" => row.job \in 1 .. next - 1 /\ row.op # "launch"
      PROVE  LET q == [row EXCEPT !.spec.owner = caller] IN
             /\ q \in ReqRow /\ q.answer = "none" /\ q.wait = "none" /\ q.spec.owner = caller
             /\ q.pc \notin Copying \cup Waiting \cup {"idle"} \/ q.pc \in {"readTask", "readPods"}
             /\ q.pc = "readTask" => q.spec.task \in Tasks /\ (q.op = "launch" \/ q.cron \in CronNames)
             /\ q.pc = "readPods" => q.job \in 1 .. next - 1 /\ q.op # "launch"
  <2> DEFINE spec == [row.spec EXCEPT !.owner = caller]
             q == [row EXCEPT !.spec = spec]
  <2>1. row.spec \in SpecRow
    BY <1>2 DEF ReqRow
  <2>2. spec \in SpecRow /\ spec.task = row.spec.task /\ spec.owner = caller
    BY <2>1 DEF SpecRow
  <2>3. [row EXCEPT !.spec.owner = caller] = q
    BY <1>2, <2>1 DEF ReqRow, SpecRow
  <2> HIDE DEF spec
  <2>4. /\ q \in ReqRow /\ q.answer = "none" /\ q.wait = "none" /\ q.spec = spec
        /\ q.pc = row.pc /\ q.op = row.op /\ q.job = row.job /\ q.cron = row.cron
    BY <1>2, <2>2 DEF ReqRow
  <2> HIDE DEF q
  <2> QED BY <1>2, <2>2, <2>3, <2>4
<1>3. ASSUME NEW t \in Tasks, NEW pc \in {"readTask", "readSchema"}, NEW op \in Ops
      PROVE  LET route == TaskRoute(pc, op, t) IN
             /\ route \in ReqRow /\ route.answer = "none" /\ route.wait = "none" /\ route.pc = pc /\ route.op = op
             /\ route.spec.task = t
  <2> DEFINE spec == [NoSpec EXCEPT !.task = t]
             route == [Idle EXCEPT !.pc = pc, !.op = op, !.spec = spec]
  <2>1. TaskRoute(pc, op, t) = route
    BY <1>1 DEF TaskRoute
  <2>2. spec \in SpecRow /\ spec.task = t
    BY <1>1 DEF SpecRow
  <2> HIDE DEF spec
  <2>3. /\ route \in ReqRow /\ route.answer = "none" /\ route.wait = "none" /\ route.pc = pc /\ route.op = op
        /\ route.spec = spec
    BY <1>1, <2>2 DEF ReqRow, PCs
  <2> HIDE DEF route
  <2> QED BY <2>1, <2>2, <2>3
<1>4. ASSUME NEW j \in DOMAIN jobs PROVE j \in Nat /\ j \in 1 .. next - 1
  BY <1>4 DEF IInv, JobsOK
<1>5. CASE row \in JobRoutes
  <2>1. ASSUME NEW t \in Tasks, NEW pc \in {"readTask", "readSchema"}, NEW op \in Ops, row = TaskRoute(pc, op, t)
        PROVE  /\ row \in ReqRow /\ row.answer = "none" /\ row.wait = "none" /\ row.pc = pc /\ row.op = op
               /\ row.spec.task = t
    BY <1>3, <2>1
  <2>2. ASSUME NEW op \in {"getJob", "getLog"}, NEW j \in DOMAIN jobs, row = PodsRoute(op, j)
        PROVE  /\ row \in ReqRow /\ row.answer = "none" /\ row.wait = "none" /\ row.pc = "readPods"
               /\ row.op = op /\ row.job = j
    BY <1>1, <1>4, <2>2 DEF PodsRoute, ReqRow, PCs, Ops
  <2>3. \/ \E t \in Tasks : row = TaskRoute("readTask", "launch", t) \/ row = TaskRoute("readSchema", "getSchema", t)
        \/ \E op \in {"getJob", "getLog"}, j \in DOMAIN jobs : row = PodsRoute(op, j)
    BY <1>5 DEF JobRoutes
  <2>4. CASE \E t \in Tasks : row = TaskRoute("readTask", "launch", t)
    BY <1>2, <2>1, <2>4 DEF Ops
  <2>5. CASE \E t \in Tasks : row = TaskRoute("readSchema", "getSchema", t)
    BY <1>2, <2>1, <2>5 DEF Ops, Copying, Waiting
  <2>6. CASE \E op \in {"getJob", "getLog"}, j \in DOMAIN jobs : row = PodsRoute(op, j)
    BY <1>2, <1>4, <2>2, <2>6
  <2> QED BY <2>3, <2>4, <2>5, <2>6
<1>6. CASE row \in CronRoutes
  <2>1. ASSUME NEW op \in {"createCron", "updateCron"}, NEW t \in Tasks, NEW c \in CronNames, NEW halt \in BOOLEAN,
               row = WriteRoute(op, t, c, halt)
        PROVE  /\ row \in ReqRow /\ row.answer = "none" /\ row.wait = "none" /\ row.pc = "readTask"
               /\ row.spec.task = t /\ row.cron = c
    <3> DEFINE route == TaskRoute("readTask", op, t)
    <3>1. /\ route \in ReqRow /\ route.answer = "none" /\ route.wait = "none" /\ route.pc = "readTask"
          /\ route.spec.task = t
      BY <1>3 DEF Ops
    <3>2. row = [route EXCEPT !.cron = c, !.suspend = halt]
      BY <2>1 DEF WriteRoute
    <3> HIDE DEF route
    <3> QED BY <3>1, <3>2 DEF ReqRow
  <2>2. ASSUME NEW pc \in {"readCron", "dropCron"}, NEW c \in CronNames, row = NameRoute(pc, c)
        PROVE  row \in ReqRow /\ row.answer = "none" /\ row.wait = "none" /\ row.pc = pc
    BY <1>1, <2>2 DEF NameRoute, ReqRow, PCs, Ops
  <2>3. \/ \E op \in {"createCron", "updateCron"}, t \in Tasks, c \in CronNames, halt \in BOOLEAN :
              row = WriteRoute(op, t, c, halt)
        \/ \E pc \in {"readCron", "dropCron"}, c \in CronNames : row = NameRoute(pc, c)
    BY <1>6 DEF CronRoutes
  <2>4. CASE \E op \in {"createCron", "updateCron"}, t \in Tasks, c \in CronNames, halt \in BOOLEAN :
                row = WriteRoute(op, t, c, halt)
    BY <1>2, <2>1, <2>4
  <2>5. CASE \E pc \in {"readCron", "dropCron"}, c \in CronNames : row = NameRoute(pc, c)
    BY <1>2, <2>2, <2>5 DEF Copying, Waiting
  <2> QED BY <2>3, <2>4, <2>5
<1>7. CASE row \in ListRoutes
  <2>1. PICK pc \in {"listJobs", "listCrons"}, list \in Lists : row = ListRoute(pc, list)
    BY <1>7 DEF ListRoutes
  <2>2. row \in ReqRow /\ row.answer = "none" /\ row.wait = "none" /\ row.pc = pc
    BY <1>1, <2>1, SeedsAssumption DEF ListRoute, ReqRow, PCs, Ops
  <2> QED BY <1>2, <2>2 DEF Copying, Waiting
<1> QED BY <1>5, <1>6, <1>7

LEMMA BeginOK ==
    ASSUME IInv, NEW r \in Requests, Begin(r)
    PROVE  IInv'
<1>1. /\ req[r].pc = "idle" /\ UNCHANGED Objects /\ Used("requests", MaxRequests)
      /\ seen' = [seen EXCEPT ![r] = IF req'[r].pc = "readTask" THEN {Catalogue} ELSE {}]
  BY DEF Begin
<1>2. PICK caller \in Callers, row \in JobRoutes \cup CronRoutes \cup ListRoutes :
         req' = [req EXCEPT ![r] = [row EXCEPT !.spec.owner = caller]]
  BY DEF Begin
<1> DEFINE q == [row EXCEPT !.spec.owner = caller]
<1>3. /\ q \in ReqRow /\ q.answer = "none" /\ q.wait = "none" /\ q.spec.owner = caller
      /\ q.pc \notin Copying \cup Waiting \cup {"idle"} \/ q.pc \in {"readTask", "readPods"}
      /\ q.pc = "readTask" => q.spec.task \in Tasks /\ (q.op = "launch" \/ q.cron \in CronNames)
      /\ q.pc = "readPods" => q.job \in 1 .. next - 1 /\ q.op # "launch"
  BY RouteTyped
<1>4. req' = [req EXCEPT ![r] = q]
  BY <1>2
<1> HIDE DEF q
<1>5. DOMAIN req' = Requests /\ req'[r] = q /\ \A s \in Requests \ {r} : req'[s] = req[s]
  BY <1>4 DEF IInv, ReqsOK
<1>6. tasks' = tasks /\ runners' = runners /\ tokens' = tokens /\ jobs' = jobs /\ crons' = crons /\ next' = next
  BY <1>1 DEF Objects
<1>7. ReqsOK'
  <2>1. Holds(q)
    BY <1>3 DEF Holds, Placed, Copying, Waiting
  <2>2. \A s \in Requests : Holds(req'[s])
    BY <1>5, <2>1 DEF IInv, ReqsOK
  <2> QED BY <1>5, <2>2 DEF ReqsOK, Holds, Placed
<1>8. CatalogueOK' /\ JobsOK' /\ CronsOK'
  BY <1>6 DEF IInv, CatalogueOK, JobsOK, CronsOK
<1>9. CopiesOK'
  <2>1. DOMAIN seen' = Requests /\ \A s \in Requests \ {r} : seen'[s] = seen[s]
    BY <1>1 DEF IInv, CopiesOK
  <2>2. Catalogue' = Catalogue
    BY <1>6 DEF Catalogue
  <2>3. ASSUME NEW s \in Requests \ {r} PROVE Copied(s)'
    <3>1. Copied(s) /\ req'[s] = req[s] /\ seen'[s] = seen[s]
      BY <1>5, <2>1, <2>3 DEF IInv, CopiesOK
    <3>2. Began(req[s].spec, s)' <=> Began(req[s].spec, s)
      BY <3>1 DEF Began
    <3> QED BY <2>2, <3>1, <3>2 DEF Copied
  <2>4. Copied(r)'
    <3>1. q.pc \in Copying => q.pc = "readTask" /\ seen'[r] = {Catalogue}
      BY <1>1, <1>3, <1>5 DEF IInv, CopiesOK, Waiting, Copying
    <3> QED BY <1>5, <2>2, <3>1 DEF Copied, Copying
  <2> QED BY <2>1, <2>3, <2>4 DEF CopiesOK
<1>10. WaitsOK'
  <2>1. ASSUME NEW s \in Requests \ {r} PROVE Waits(s)'
    BY <1>5, <1>6, <2>1 DEF IInv, WaitsOK, Waits
  <2>2. Waits(r)'
    BY <1>3, <1>5, <1>6 DEF Waits, Waiting, Copying
  <2> QED BY <2>1, <2>2 DEF WaitsOK
<1>11. CountOK'
  <2>1. Busy' \subseteq Busy \cup {r}
    BY <1>5 DEF Busy
  <2>2. IsFiniteSet(Busy) /\ Cardinality(Busy) \in Nat
    BY BusyFinite
  <2>3. IsFiniteSet(Busy \cup {r}) /\ Cardinality(Busy \cup {r}) =< Cardinality(Busy) + 1
        /\ Cardinality(Busy \cup {r}) \in Nat
    <3> DEFINE B == Busy
    <3> HIDE DEF B
    <3>1. IsFiniteSet(B) /\ Cardinality(B) \in Nat
      BY <2>2 DEF B
    <3>2. IsFiniteSet(B \cup {r}) /\ Cardinality(B \cup {r}) = IF r \in B THEN Cardinality(B) ELSE Cardinality(B) + 1
      BY <3>1, FS_AddElement
    <3> QED BY <3>1, <3>2 DEF B
  <2>4. IsFiniteSet(Busy') /\ Cardinality(Busy') =< Cardinality(Busy \cup {r})
    BY <2>1, <2>3, FS_Subset
  <2>5. Cardinality(Busy') \in Nat
    BY <2>4, FS_CardinalityType
  <2>6. /\ count' \in [requests : 0 .. MaxRequests, events : 0 .. MaxEvents]
        /\ count'.requests = count.requests + 1 /\ count'.events = count.events
    BY <1>1, BoundsAssumption DEF IInv, CountOK, Used
  <2>7. next' = next /\ next \in Nat /\ count.requests \in Nat /\ count.events \in Nat
    BY <1>6, BoundsAssumption DEF IInv, JobsOK, CountOK
  <2> QED BY <2>2, <2>3, <2>4, <2>5, <2>6, <2>7 DEF IInv, CountOK
<1> QED BY <1>7, <1>8, <1>9, <1>10, <1>11 DEF IInv

-----------------------------------------------------------------------------
(* Calls that read the catalogue. *)
LEMMA ReadTaskOK ==
    ASSUME IInv, NEW r \in Requests, ReadTask(r)
    PROVE  IInv'
<1> DEFINE p == req[r]
           t == p.spec.task
           spec == [p.spec EXCEPT !.command = tasks[t].command]
           q == [p EXCEPT !.pc = "readRunner", !.runner = tasks[t].runner, !.spec = spec, !.sync = tasks[t].sync]
<1>1. /\ p.pc = "readTask" /\ UNCHANGED Objects /\ count' = count /\ DOMAIN req = Requests
      /\ p \in ReqRow /\ Placed(p) /\ Copied(r)
  BY DEF ReadTask, IInv, ReqsOK, Holds, CopiesOK
<1>2. CASE Answer(r, "error")
  BY <1>1, <1>2, AnswerOK DEF Answers
<1>3. CASE /\ t \in DOMAIN tasks /\ UNCHANGED seen
           /\ req' = [req EXCEPT ![r].pc = "readRunner", ![r].runner = tasks[t].runner,
                                ![r].spec.command = tasks[t].command, ![r].sync = tasks[t].sync]
  <2>1. tasks[t] \in TaskRow
    BY <1>3 DEF IInv, CatalogueOK
  <2>2. p.spec \in SpecRow
    BY <1>1 DEF ReqRow
  <2>3. spec \in SpecRow /\ spec.command = tasks[t].command /\ spec.task = t /\ spec.owner = p.spec.owner
    BY <2>1, <2>2 DEF SpecRow, TaskRow
  <2>4. req' = [req EXCEPT ![r] = q]
    BY <1>1, <1>3, <2>2 DEF ReqRow, SpecRow
  <2> HIDE DEF spec
  <2>5. /\ q \in ReqRow /\ q.pc = "readRunner" /\ q.runner = tasks[t].runner /\ q.spec = spec
        /\ q.op = p.op /\ q.cron = p.cron /\ q.answer = p.answer /\ q.wait = p.wait
    BY <1>1, <2>1, <2>3 DEF ReqRow, PCs, TaskRow
  <2>6. q.runner \in Runners /\ spec.command \in Commands
    BY <2>1, <2>3, <2>5 DEF TaskRow
  <2> HIDE DEF q
  <2>7. Holds(q)
    BY <1>1, <2>3, <2>5, <2>6 DEF Holds, Placed, Copying
  <2>8. req'[r] = q /\ seen' = seen /\ Catalogue \in seen[r] /\ Catalogue' = Catalogue
    BY <1>1, <1>3, <2>4 DEF Copied, Copying, Objects, Catalogue
  <2>9. ReadTaskOf(q, Catalogue)
    BY <1>3, <2>3, <2>5 DEF ReadTaskOf, Catalogue
  <2>10. Copied(r)' /\ Waits(r)'
    BY <2>5, <2>8, <2>9 DEF Copied, Waits, Waiting
  <2> QED BY <1>1, <1>3, <2>4, <2>5, <2>7, <2>10, RequestStep DEF Copying, IInv, CopiesOK
<1> QED BY <1>2, <1>3 DEF ReadTask

LEMMA ReadRunnerOK ==
    ASSUME IInv, NEW r \in Requests, ReadRunner(r)
    PROVE  IInv'
<1> DEFINE p == req[r]
           rn == p.runner
           spec == [p.spec EXCEPT !.image = runners[rn].image]
           q == [p EXCEPT !.pc = "readToken", !.spec = spec]
<1>1. /\ p.pc = "readRunner" /\ UNCHANGED Objects /\ count' = count /\ DOMAIN req = Requests
      /\ p \in ReqRow /\ Placed(p) /\ Copied(r)
  BY DEF ReadRunner, IInv, ReqsOK, Holds, CopiesOK
<1>2. CASE Answer(r, "error")
  BY <1>1, <1>2, AnswerOK DEF Answers
<1>3. CASE /\ rn \in DOMAIN runners /\ UNCHANGED seen
           /\ req' = [req EXCEPT ![r].pc = "readToken", ![r].spec.image = runners[rn].image]
  <2>1. runners[rn] \in RunnerRow
    BY <1>3 DEF IInv, CatalogueOK
  <2>2. p.spec \in SpecRow
    BY <1>1 DEF ReqRow
  <2>3. /\ spec \in SpecRow /\ spec.image = runners[rn].image /\ spec.image \in Images
        /\ spec.task = p.spec.task /\ spec.owner = p.spec.owner /\ spec.command = p.spec.command
    BY <2>1, <2>2 DEF SpecRow, RunnerRow
  <2>4. req' = [req EXCEPT ![r] = q]
    BY <1>1, <1>3, <2>2 DEF ReqRow, SpecRow
  <2> HIDE DEF spec
  <2>5. /\ q \in ReqRow /\ q.pc = "readToken" /\ q.runner = rn /\ q.spec = spec
        /\ q.op = p.op /\ q.cron = p.cron /\ q.answer = p.answer /\ q.wait = p.wait
    BY <1>1, <2>3 DEF ReqRow, PCs
  <2> HIDE DEF q
  <2>6. Holds(q)
    BY <1>1, <2>3, <2>5 DEF Holds, Placed, Copying
  <2>7. req'[r] = q /\ seen' = seen /\ Catalogue \in seen[r] /\ Catalogue' = Catalogue
    BY <1>1, <1>3, <2>4 DEF Copied, Copying, Objects, Catalogue
  <2>8. ReadRunnerOf(q, Catalogue)
    BY <1>3, <2>3, <2>5 DEF ReadRunnerOf, Catalogue
  <2>9. PICK c \in seen[r] : ReadTaskOf(p, c)
    BY <1>1 DEF Copied
  <2>10. ReadTaskOf(q, c)
    BY <2>3, <2>5, <2>9 DEF ReadTaskOf
  <2>11. Copied(r)' /\ Waits(r)'
    BY <2>5, <2>7, <2>8, <2>9, <2>10 DEF Copied, Waits, Waiting
  <2> QED BY <1>1, <1>3, <2>4, <2>5, <2>6, <2>11, RequestStep DEF Copying, IInv, CopiesOK
<1> QED BY <1>2, <1>3 DEF ReadRunner

(* The third piece makes the copy. *)
LEMMA ReadTokenOK ==
    ASSUME IInv, NEW r \in Requests, ReadToken(r)
    PROVE  IInv'
<1> DEFINE p == req[r]
           rn == p.runner
           token == IF rn \in DOMAIN tokens THEN tokens[rn] ELSE None
           spec == [p.spec EXCEPT !.token = token]
           pc == IF p.op = "launch" THEN "createJob" ELSE "putCron"
           q == [p EXCEPT !.pc = pc, !.spec = spec]
<1>1. /\ p.pc = "readToken" /\ UNCHANGED Objects /\ count' = count /\ DOMAIN req = Requests /\ seen' = seen
      /\ p \in ReqRow /\ Placed(p) /\ Copied(r)
      /\ req' = [req EXCEPT ![r].pc = pc, ![r].spec.token = token]
  BY DEF ReadToken, IInv, ReqsOK, Holds, CopiesOK
<1>2. token \in Tokens \cup {None}
  BY DEF IInv, CatalogueOK
<1>3. p.spec \in SpecRow
  BY <1>1 DEF ReqRow
<1>4. token = IF rn \in DOMAIN tokens THEN tokens[rn] ELSE None
  OBVIOUS
<1> HIDE DEF token
<1>5. /\ spec \in SpecRow /\ spec.token = token /\ spec.image = p.spec.image
      /\ spec.task = p.spec.task /\ spec.owner = p.spec.owner /\ spec.command = p.spec.command
  BY <1>2, <1>3 DEF SpecRow
<1>6. pc \in {"createJob", "putCron"} /\ pc \in PCs /\ (pc = "createJob" <=> p.op = "launch")
  BY DEF PCs
<1> HIDE DEF pc
<1>7. req' = [req EXCEPT ![r] = q]
  BY <1>1, <1>3 DEF ReqRow, SpecRow
<1> HIDE DEF spec
<1>8. /\ q \in ReqRow /\ q.pc = pc /\ q.spec = spec
      /\ q.op = p.op /\ q.cron = p.cron /\ q.answer = p.answer /\ q.wait = p.wait
  BY <1>1, <1>5, <1>6 DEF ReqRow
<1> HIDE DEF q
<1>9. Holds(q)
  BY <1>1, <1>5, <1>6, <1>8 DEF Holds, Placed, Copying
<1>10. req'[r] = q /\ Catalogue \in seen[r] /\ Catalogue' = Catalogue
  BY <1>1, <1>7 DEF Copied, Copying, Objects, Catalogue
<1>11. PICK c1 \in seen[r] : ReadTaskOf(p, c1)
  BY <1>1 DEF Copied
<1>12. PICK c2 \in seen[r] : ReadRunnerOf(p, c2)
  BY <1>1 DEF Copied
<1>13. token = IF rn \in DOMAIN Catalogue.tokens THEN Catalogue.tokens[rn] ELSE None
  BY <1>4 DEF Catalogue
<1>14. Began(spec, r)
  BY <1>5, <1>10, <1>11, <1>12, <1>13 DEF Began, ReadTaskOf, ReadRunnerOf
<1>15. req'[r].spec = spec /\ req'[r].pc = pc
  BY <1>8, <1>10
<1>16. Copied(r)' /\ Waits(r)'
  <2>1. Began(req[r].spec, r)'
    <3> DEFINE t == spec
    <3> HIDE DEF t
    <3>1. req'[r].spec = t /\ seen'[r] = seen[r] /\ Began(t, r)
      BY <1>1, <1>14, <1>15 DEF t
    <3> QED BY <3>1 DEF Began
  <2> QED BY <1>1, <1>6, <1>10, <1>15, <2>1 DEF Copied, Waits, Waiting, Copying
<1> QED BY <1>1, <1>6, <1>7, <1>8, <1>9, <1>16, RequestStep DEF Copying, IInv, CopiesOK

-----------------------------------------------------------------------------
(* Jobs are made. *)
LEMMA NewJob ==
    ASSUME JobsOK, NEW s \in Copies, next' = next + 1, jobs' = Insert(jobs, next, JobObject(s))
    PROVE  /\ JobsOK' /\ next \notin DOMAIN jobs /\ DOMAIN jobs' = DOMAIN jobs \cup {next}
           /\ jobs'[next] = JobObject(s) /\ \A j \in DOMAIN jobs : jobs'[j] = jobs[j]
<1>1. next \in Nat \ {0} /\ next \notin DOMAIN jobs /\ DOMAIN jobs \subseteq 1 .. next - 1
  BY DEF JobsOK
<1>2. /\ DOMAIN jobs' = DOMAIN jobs \cup {next} /\ jobs'[next] = JobObject(s)
      /\ \A j \in DOMAIN jobs : jobs'[j] = jobs[j]
      /\ jobs' = [j \in DOMAIN jobs' |-> jobs'[j]]
  BY <1>1 DEF Insert
<1>3. JobObject(s) \in JobRow /\ Life(JobObject(s))
  BY DEF JobObject, JobRow, Life, BackoffLimit, Logs
<1>4. \A j \in DOMAIN jobs' : jobs'[j] \in JobRow /\ Life(jobs'[j])
  BY <1>2, <1>3 DEF JobsOK
<1>5. next' \in Nat \ {0} /\ DOMAIN jobs' \subseteq 1 .. next' - 1
  BY <1>1, <1>2
<1>6. JobsOK'
  BY <1>2, <1>4, <1>5 DEF JobsOK, Life
<1> QED BY <1>1, <1>2, <1>6

(* The waits of requests when a job is made, all but that of the request that made it. *)
LEMMA NewJobKeepsWaits ==
    ASSUME JobsOK, NEW s \in Copies, next' = next + 1, jobs' = Insert(jobs, next, JobObject(s)),
           NEW r \in Requests, Waits(r), req'[r] = req[r]
    PROVE  Waits(r)'
<1>1. next \in Nat \ {0} /\ DOMAIN jobs' = DOMAIN jobs \cup {next} /\ \A j \in DOMAIN jobs : jobs'[j] = jobs[j]
  BY NewJob DEF JobsOK
<1>2. ASSUME req[r].pc \in Waiting PROVE req[r].job \in 1 .. next - 1 /\ req[r].job \in 1 .. next' - 1
  BY <1>1, <1>2 DEF Waits
<1> QED BY <1>1, <1>2 DEF Waits

LEMMA MakesJob ==
    ASSUME IInv, NEW r \in Requests, req[r].pc = "createJob", next' = next + 1,
           jobs' = Insert(jobs, next, JobObject(req[r].spec)), UNCHANGED <<tasks, runners, tokens, crons>>,
           NEW q, req' = [req EXCEPT ![r] = q], Holds(q), q.pc \notin Copying,
           q.pc # "readLog", q.pc \in Waiting => q.job = next /\ q.spec.owner = req[r].spec.owner /\ q.wait # "done",
           seen' = [seen EXCEPT ![r] = {}], count' = count \/ Used("events", MaxEvents)
    PROVE  IInv'
<1>1. /\ DOMAIN req' = Requests /\ req'[r] = q /\ \A s \in Requests \ {r} : req'[s] = req[s]
      /\ DOMAIN seen' = Requests /\ \A s \in Requests \ {r} : seen'[s] = seen[s]
  BY DEF IInv, ReqsOK, CopiesOK
<1>2. req[r].spec \in Copies
  <2>1. req[r] \in ReqRow /\ Placed(req[r])
    BY DEF IInv, ReqsOK, Holds
  <2>2. req[r].spec \in SpecRow
    BY <2>1 DEF ReqRow
  <2> QED BY <2>1, <2>2 DEF Placed, SpecRow, Copies, Copying
<1>3. /\ JobsOK' /\ next \notin DOMAIN jobs /\ DOMAIN jobs' = DOMAIN jobs \cup {next}
      /\ jobs'[next] = JobObject(req[r].spec) /\ next \in Nat \ {0}
  BY <1>2, NewJob DEF IInv, JobsOK
<1>4. ReqsOK'
  <2>1. \A s \in Requests : Holds(req'[s])
    BY <1>1 DEF IInv, ReqsOK
  <2> QED BY <1>1, <2>1 DEF ReqsOK, Holds, Placed
<1>5. CatalogueOK' /\ CronsOK'
  BY DEF IInv, CatalogueOK, CronsOK
<1>6. CopiesOK'
  <2>1. ASSUME NEW s \in Requests \ {r} PROVE Copied(s)'
    <3>1. Copied(s) /\ req'[s] = req[s] /\ seen'[s] = seen[s]
      BY <1>1, <2>1 DEF IInv, CopiesOK
    <3>2. Catalogue' = Catalogue
      BY DEF Catalogue
    <3>3. Began(req[s].spec, s)' <=> Began(req[s].spec, s)
      BY <3>1 DEF Began
    <3> QED BY <3>1, <3>2, <3>3 DEF Copied
  <2>2. Copied(r)'
    BY <1>1 DEF Copied, Copying
  <2> QED BY <1>1, <2>1, <2>2 DEF CopiesOK
<1>7. WaitsOK'
  <2>1. ASSUME NEW s \in Requests \ {r} PROVE Waits(s)'
    BY <1>1, <1>2, <2>1, NewJobKeepsWaits DEF IInv, WaitsOK
  <2>2. jobs'[next].spec = req[r].spec
    BY <1>3 DEF JobObject
  <2>3. q.pc # "readLog"
    OBVIOUS
  <2>4. Waits(r)'
    BY <1>1, <1>3, <2>2, <2>3 DEF Waits
  <2> QED BY <2>1, <2>4 DEF WaitsOK
<1>8. CountOK'
  <2>1. r \in Busy /\ Busy' = Busy \ {r}
    BY <1>1 DEF Busy, Copying
  <2>2. next' \in Nat /\ next' =< next + 1
    BY <1>3
  <2> QED BY <2>1, <2>2, CountStays DEF IInv
<1> QED BY <1>3, <1>4, <1>5, <1>6, <1>7, <1>8 DEF IInv

LEMMA CreateJobOK ==
    ASSUME IInv, NEW r \in Requests, CreateJob(r)
    PROVE  IInv'
<1> DEFINE p == req[r]
           s1 == [p.spec EXCEPT !.command = None]
           s2 == [s1 EXCEPT !.image = None]
           spec == [s2 EXCEPT !.token = None]
           q == [p EXCEPT !.pc = "poll", !.job = next, !.spec = spec, !.runner = None]
<1>1. /\ p.pc = "createJob" /\ next' = next + 1 /\ jobs' = Insert(jobs, next, JobObject(p.spec))
      /\ UNCHANGED <<tasks, runners, tokens, crons>> /\ count' = count
      /\ p \in ReqRow /\ Placed(p) /\ next \in Nat /\ DOMAIN req = Requests
  BY DEF CreateJob, IInv, ReqsOK, Holds, JobsOK
<1>2. CASE Answer(r, "created")
  <2>1. [Idle EXCEPT !.answer = "created"] \in ReqRow /\ Holds([Idle EXCEPT !.answer = "created"])
        /\ [Idle EXCEPT !.answer = "created"].pc = "idle"
    BY IdleTyped, AnsweredHolds DEF Answers, Holds
  <2>2. req' = [req EXCEPT ![r] = [Idle EXCEPT !.answer = "created"]] /\ seen' = [seen EXCEPT ![r] = {}]
    BY <1>2 DEF Answer, Reply
  <2> QED BY <1>1, <2>1, <2>2, MakesJob DEF Copying, Waiting
<1>3. CASE /\ req' = [req EXCEPT ![r].pc = "poll", ![r].job = next, ![r].spec.command = None,
                                ![r].spec.image = None, ![r].spec.token = None, ![r].runner = None]
           /\ seen' = [seen EXCEPT ![r] = {}]
  <2>1. p.spec \in SpecRow
    BY <1>1 DEF ReqRow
  <2>2. spec \in SpecRow /\ spec.owner = p.spec.owner
    BY <2>1 DEF SpecRow
  <2>3. req' = [req EXCEPT ![r] = q]
    <3> DEFINE f == [req EXCEPT ![r].pc = "poll", ![r].job = next, ![r].spec.command = None]
               g == [f EXCEPT ![r].spec.image = None, ![r].spec.token = None, ![r].runner = None]
    <3>0. req' = g
      BY <1>3
    <3>1. f = [req EXCEPT ![r] = [p EXCEPT !.pc = "poll", !.job = next, !.spec = s1]]
      BY <1>1, <2>1 DEF ReqRow, SpecRow
    <3>2. DOMAIN f = Requests /\ f[r] = [p EXCEPT !.pc = "poll", !.job = next, !.spec = s1]
      BY <1>1, <3>1
    <3>3. f[r] \in ReqRow /\ f[r].spec = s1
      <4>1. s1 \in SpecRow
        BY <2>1 DEF SpecRow
      <4> HIDE DEF f, s1
      <4> QED BY <1>1, <3>2, <4>1 DEF ReqRow, PCs
    <3> HIDE DEF f
    <3>4. g = [f EXCEPT ![r] = [f[r] EXCEPT !.spec = spec, !.runner = None]]
      <4> DEFINE h == [f EXCEPT ![r].spec.image = None, ![r].spec.token = None]
      <4>1. h = [f EXCEPT ![r] = [f[r] EXCEPT !.spec = spec]]
        <5> HIDE DEF s1
        <5> QED BY <3>2, <3>3 DEF ReqRow, SpecRow
      <4>2. g = [h EXCEPT ![r].runner = None]
        OBVIOUS
      <4> HIDE DEF h, g, s1, spec
      <4> QED BY <3>2, <3>3, <4>1, <4>2 DEF ReqRow
    <3>5. [f[r] EXCEPT !.spec = spec, !.runner = None] = q
      <4> HIDE DEF s1, spec
      <4> QED BY <1>1, <3>2 DEF ReqRow
    <3>6. g = [f EXCEPT ![r] = q]
      BY <3>4, <3>5
    <3> HIDE DEF q, g
    <3> QED BY <3>0, <3>1, <3>2, <3>6
  <2> HIDE DEF spec
  <2>4. /\ q \in ReqRow /\ q.pc = "poll" /\ q.job = next /\ q.spec = spec
        /\ q.op = p.op /\ q.cron = p.cron /\ q.answer = p.answer /\ q.wait = p.wait
    BY <1>1, <2>2 DEF ReqRow, PCs
  <2> HIDE DEF q
  <2>5. Holds(q) /\ q.wait # "done" /\ q.pc \notin Copying
    BY <1>1, <2>4 DEF Holds, Placed, Copying
  <2> QED BY <1>1, <1>3, <2>2, <2>3, <2>4, <2>5, MakesJob
<1> QED BY <1>2, <1>3 DEF CreateJob

-----------------------------------------------------------------------------
(* Calls that look at jobs. *)
LEMMA WaitStep ==
    ASSUME IInv, NEW r \in Requests, NEW pc \in {"readPods", "readJob"}, NEW wait \in Waited, req[r].pc \in Waiting,
           req' = [req EXCEPT ![r] = [req[r] EXCEPT !.pc = pc, !.wait = wait]],
           UNCHANGED <<Objects, seen>>, count' = count \/ Used("events", MaxEvents),
           wait = "done" => \/ req[r].wait = "done"
                            \/ req[r].job \in DOMAIN jobs =>
                                  LET job == jobs[req[r].job] IN job.started /\ (job.succeeded \/ job.failed > 0)
    PROVE  IInv'
<1> DEFINE p == req[r]
           q == [p EXCEPT !.pc = pc, !.wait = wait]
<1>1. p \in ReqRow /\ Placed(p) /\ Waits(r) /\ DOMAIN req = Requests /\ DOMAIN seen = Requests
  BY DEF IInv, ReqsOK, Holds, WaitsOK, CopiesOK
<1>2. /\ q \in ReqRow /\ q.pc = pc /\ q.wait = wait /\ q.op = p.op /\ q.spec = p.spec /\ q.cron = p.cron
      /\ q.job = p.job /\ q.answer = p.answer
  BY <1>1 DEF ReqRow, PCs
<1>3. req' = [req EXCEPT ![r] = q]
  OBVIOUS
<1> HIDE DEF q
<1>4. Holds(q)
  BY <1>1, <1>2 DEF Holds, Placed, Copying, Waiting
<1>5. req'[r] = q /\ jobs' = jobs /\ next' = next
  BY <1>1, <1>3 DEF Objects
<1>6. Copied(r)'
  BY <1>2, <1>5 DEF Copied, Copying
<1>7. Waits(r)'
  BY <1>1, <1>2, <1>5 DEF Waits
<1> QED BY <1>1, <1>2, <1>3, <1>4, <1>6, <1>7, RequestStep DEF Copying

LEMMA PollOK ==
    ASSUME IInv, NEW r \in Requests, Poll(r)
    PROVE  IInv'
<1> DEFINE j == req[r].job
<1>1. /\ req[r].pc = "poll" /\ UNCHANGED <<Objects, seen>> /\ count' = count
      /\ DOMAIN req = Requests /\ req[r] \in ReqRow
      /\ req' = [req EXCEPT ![r].pc = "readPods", ![r].wait = "done"]
      /\ j \in DOMAIN jobs => jobs[j].succeeded \/ jobs[j].failed # 0
  BY DEF Poll, IInv, ReqsOK, Holds
<1>2. ASSUME j \in DOMAIN jobs PROVE jobs[j].started /\ (jobs[j].succeeded \/ jobs[j].failed > 0)
  <2>1. jobs[j] \in JobRow /\ Life(jobs[j])
    BY <1>2 DEF IInv, JobsOK
  <2>2. jobs[j].failed \in Nat
    BY <2>1 DEF JobRow
  <2> QED BY <1>1, <1>2, <2>1, <2>2 DEF Life
<1>3. req' = [req EXCEPT ![r] = [req[r] EXCEPT !.pc = "readPods", !.wait = "done"]]
  BY <1>1 DEF ReqRow
<1> QED BY <1>1, <1>2, <1>3, WaitStep DEF Waited, Waiting

LEMMA PollTimeoutOK ==
    ASSUME IInv, NEW r \in Requests, PollTimeout(r)
    PROVE  IInv'
<1>1. /\ req[r].pc = "poll" /\ UNCHANGED <<Objects, seen>> /\ count' = count
      /\ DOMAIN req = Requests /\ req[r] \in ReqRow
      /\ req' = [req EXCEPT ![r].pc = "readPods", ![r].wait = "timeout"]
  BY DEF PollTimeout, IInv, ReqsOK, Holds
<1>2. req' = [req EXCEPT ![r] = [req[r] EXCEPT !.pc = "readPods", !.wait = "timeout"]]
  BY <1>1 DEF ReqRow
<1> QED BY <1>1, <1>2, WaitStep DEF Waited, Waiting

LEMMA ReadPodsOK ==
    ASSUME IInv, NEW r \in Requests, ReadPods(r)
    PROVE  IInv'
<1>1. req[r].pc = "readPods" /\ UNCHANGED Objects /\ count' = count /\ DOMAIN req = Requests /\ req[r] \in ReqRow
  BY DEF ReadPods, IInv, ReqsOK, Holds
<1>2. CASE \E answer \in {"ok", "error"} : Answer(r, answer)
  BY <1>1, <1>2, AnswerOK DEF Answers
<1>3. CASE Goto(r, "readJob")
  <2>1. req' = [req EXCEPT ![r] = [req[r] EXCEPT !.pc = "readJob", !.wait = req[r].wait]]
    BY <1>1, <1>3 DEF ReqRow, Goto
  <2>2. req[r].wait \in Waited
    BY <1>1 DEF ReqRow
  <2> QED BY <1>1, <1>3, <2>1, <2>2, WaitStep DEF Waiting, Goto
<1> QED BY <1>2, <1>3 DEF ReadPods

(* The job is kept for the answer as it was, and goes on. *)
LEMMA ReadJobOK ==
    ASSUME IInv, NEW r \in Requests, ReadJob(r)
    PROVE  IInv'
<1> DEFINE p == req[r]
           j == p.job
           complete == jobs[j].succeeded
           q == [p EXCEPT !.pc = "readLog", !.complete = complete]
<1>1. /\ p.pc = "readJob" /\ UNCHANGED Objects /\ count' = count /\ DOMAIN req = Requests /\ DOMAIN seen = Requests
      /\ p \in ReqRow /\ Placed(p) /\ Waits(r)
  BY DEF ReadJob, IInv, ReqsOK, Holds, CopiesOK, WaitsOK
<1>2. CASE \E answer \in {"error", "panic"} : Answer(r, answer)
  BY <1>1, <1>2, AnswerOK DEF Answers
<1>3. CASE /\ j \in DOMAIN jobs /\ jobs[j].started /\ UNCHANGED seen
           /\ req' = [req EXCEPT ![r].pc = "readLog", ![r].complete = jobs[j].succeeded]
  <2>1. complete \in BOOLEAN
    <3>1. jobs[j] \in JobRow
      BY <1>3 DEF IInv, JobsOK
    <3> QED BY <3>1 DEF JobRow
  <2>2. req' = [req EXCEPT ![r] = q]
    BY <1>1, <1>3 DEF ReqRow
  <2>3. complete = jobs[j].succeeded
    OBVIOUS
  <2> HIDE DEF complete
  <2>4. /\ q \in ReqRow /\ q.pc = "readLog" /\ q.complete = complete /\ q.wait = p.wait /\ q.op = p.op
        /\ q.spec = p.spec /\ q.job = j /\ q.answer = p.answer
    BY <1>1, <2>1 DEF ReqRow, PCs
  <2> HIDE DEF q
  <2>5. Holds(q)
    BY <1>1, <2>4 DEF Holds, Placed, Copying
  <2>6. req'[r] = q /\ jobs' = jobs /\ next' = next
    BY <1>1, <2>2 DEF Objects
  <2>7. Copied(r)' /\ q.pc \notin Copying
    BY <2>4, <2>6 DEF Copied, Copying
  <2>8. Waits(r)'
    BY <1>1, <2>3, <2>4, <2>6 DEF Waits, Waiting
  <2> QED BY <1>1, <1>3, <2>2, <2>5, <2>7, <2>8, RequestStep
<1> QED BY <1>2, <1>3 DEF ReadJob

LEMMA StatusTyped == \A r : Status(r) \in {"created", "status"}
  BY DEF Status

LEMMA ReadLogOK ==
    ASSUME IInv, NEW r \in Requests, ReadLog(r)
    PROVE  IInv'
<1>1. UNCHANGED Objects /\ count' = count
  BY DEF ReadLog
<1>2. \E answer \in {"panic", "created", "status"} : Answer(r, answer)
  BY StatusTyped DEF ReadLog
<1> QED BY <1>1, <1>2, AnswerOK DEF Answers

LEMMA ListJobsOK ==
    ASSUME IInv, NEW r \in Requests, ListJobs(r)
    PROVE  IInv'
<1> DEFINE p == req[r]
           todo == p.todo
           found  == {j \in DOMAIN jobs : todo # <<>> /\ Head(todo) \in {All, jobs[j].spec.task}}
           new == {[id |-> j, started |-> jobs[j].started] : j \in found}
           listed == p.listed \cup new
           q == [p EXCEPT !.todo = Tail(todo), !.listed = listed]
<1>1. /\ p.pc = "listJobs" /\ UNCHANGED Objects /\ count' = count /\ DOMAIN req = Requests
      /\ p \in ReqRow /\ Placed(p) /\ DOMAIN seen = Requests
  BY DEF ListJobs, IInv, ReqsOK, Holds, CopiesOK
<1>2. CASE LastList(todo)
  <2>1. \E answer \in {"ok", "panic"} : Answer(r, answer)
    BY <1>2 DEF ListJobs
  <2> QED BY <1>1, <2>1, AnswerOK DEF Answers
<1>3. CASE ~ LastList(todo)
  <2>1. req' = [req EXCEPT ![r].todo = Tail(todo), ![r].listed = listed] /\ seen' = seen
    BY <1>3 DEF ListJobs
  <2>2. todo \in Seq(STRING) /\ p.listed \subseteq Listed
    BY <1>1 DEF ReqRow
  <2>3. Tail(todo) \in Seq(STRING)
    <3> DEFINE list == todo
    <3> HIDE DEF list
    <3>1. list \in Seq(STRING) /\ ~ (Len(list) =< 1)
      BY <1>3, <2>2 DEF LastList, list
    <3>2. Tail(list) \in Seq(STRING)
      BY <3>1
    <3> QED BY <3>2 DEF list
  <2>4. listed \subseteq Listed
    <3>1. ASSUME NEW j \in DOMAIN jobs PROVE [id |-> j, started |-> jobs[j].started] \in Listed
      <4>1. j \in Nat /\ jobs[j] \in JobRow
        BY <3>1 DEF IInv, JobsOK
      <4> QED BY <4>1 DEF Listed, JobRow
    <3>2. ASSUME NEW e \in new PROVE e \in Listed
      <4>1. PICK j \in found : e = [id |-> j, started |-> jobs[j].started]
        OBVIOUS
      <4>2. j \in DOMAIN jobs
        OBVIOUS
      <4> HIDE DEF found, new
      <4> QED BY <3>1, <4>1, <4>2
    <3> HIDE DEF new
    <3> QED BY <2>2, <3>2
  <2>5. req' = [req EXCEPT ![r] = q]
    BY <1>1, <2>1 DEF ReqRow
  <2> HIDE DEF listed
  <2>6. q \in ReqRow /\ q.pc = "listJobs" /\ q.answer = p.answer /\ q.wait = p.wait
    BY <1>1, <2>3, <2>4 DEF ReqRow
  <2> HIDE DEF q
  <2>7. Holds(q)
    BY <1>1, <2>6 DEF Holds, Placed, Copying
  <2>8. req'[r] = q
    BY <1>1, <2>5
  <2>9. Copied(r)' /\ Waits(r)' /\ q.pc \notin Copying
    BY <2>6, <2>8 DEF Copied, Copying, Waits, Waiting
  <2> QED BY <1>1, <2>1, <2>5, <2>7, <2>9, RequestStep
<1> QED BY <1>2, <1>3

-----------------------------------------------------------------------------
(* CronJobs. *)
LEMMA PutCronOK ==
    ASSUME IInv, NEW r \in Requests, PutCron(r)
    PROVE  IInv'
<1> DEFINE c == req[r].cron
<1>1. /\ req[r].pc = "putCron" /\ UNCHANGED <<tasks, runners, tokens, jobs, next>> /\ count' = count
      /\ req[r] \in ReqRow /\ Placed(req[r])
  BY DEF PutCron, IInv, ReqsOK, Holds
<1>2. c \in CronNames /\ req[r].spec \in Copies
  <2>1. req[r].spec \in SpecRow
    BY <1>1 DEF ReqRow
  <2> QED BY <1>1, <2>1 DEF Placed, Copying, SpecRow, Copies
<1>3. \E answer \in {"ok", "error"} : Answer(r, answer)
  BY DEF PutCron
<1>4. crons' = crons \/ crons' = Insert(crons, c, CronJobObject(req[r].spec, req[r].suspend))
  BY DEF PutCron
<1>5. CronsOK'
  <2>1. CASE crons' = crons
    BY <2>1 DEF IInv, CronsOK
  <2>2. CASE crons' = Insert(crons, c, CronJobObject(req[r].spec, req[r].suspend))
    BY <1>2, <2>2 DEF IInv, CronsOK, Insert, CronJobObject
  <2> QED BY <1>4, <2>1, <2>2
<1> QED BY <1>1, <1>3, <1>5, IdleTyped, ReplyOK DEF Answer, Answers

LEMMA DropCronOK ==
    ASSUME IInv, NEW r \in Requests, DropCron(r)
    PROVE  IInv'
<1>1. UNCHANGED <<tasks, runners, tokens, jobs, next>> /\ count' = count /\ crons' = Without(crons, req[r].cron)
  BY DEF DropCron
<1>2. \E answer \in {"ok", "error"} : Answer(r, answer)
  BY DEF DropCron
<1>3. CronsOK'
  BY <1>1 DEF IInv, CronsOK, Without
<1> QED BY <1>1, <1>2, <1>3, IdleTyped, ReplyOK DEF Answer, Answers

LEMMA ReadCronOK ==
    ASSUME IInv, NEW r \in Requests, ReadCron(r)
    PROVE  IInv'
<1>1. UNCHANGED Objects /\ count' = count /\ \E answer \in {"ok", "error"} : Answer(r, answer)
  BY DEF ReadCron
<1> QED BY <1>1, AnswerOK DEF Answers

LEMMA ReadSchemaOK ==
    ASSUME IInv, NEW r \in Requests, ReadSchema(r)
    PROVE  IInv'
<1>1. UNCHANGED Objects /\ count' = count /\ \E answer \in {"ok", "error"} : Answer(r, answer)
  BY DEF ReadSchema
<1> QED BY <1>1, AnswerOK DEF Answers

LEMMA ListCronsOK ==
    ASSUME IInv, NEW r \in Requests, ListCrons(r)
    PROVE  IInv'
<1> DEFINE p == req[r]
           todo == p.todo
           found == {c \in DOMAIN crons : todo # <<>> /\ (Head(todo) = All \/ Head(todo) \in crons[c].labels)}
           shown == p.shown \cup found
           q == [p EXCEPT !.todo = Tail(todo), !.shown = shown]
<1>1. /\ p.pc = "listCrons" /\ UNCHANGED Objects /\ count' = count /\ DOMAIN req = Requests
      /\ p \in ReqRow /\ Placed(p) /\ DOMAIN seen = Requests
  BY DEF ListCrons, IInv, ReqsOK, Holds, CopiesOK
<1>2. shown \in SUBSET CronNames
  <2>1. p.shown \subseteq CronNames
    BY <1>1 DEF ReqRow
  <2>2. found \subseteq CronNames
    BY DEF IInv, CronsOK
  <2> QED BY <2>1, <2>2
<1>3. CASE LastList(todo)
  <2> DEFINE row == [Idle EXCEPT !.shown = shown]
  <2>1. Reply(r, row, "ok")
    BY <1>3 DEF ListCrons
  <2> HIDE DEF shown
  <2>2. row \in ReqRow /\ row.pc = "idle" /\ row.wait = "none"
    BY <1>2, IdleTyped DEF ReqRow
  <2>3. UNCHANGED <<tasks, runners, tokens, jobs, next>> /\ CronsOK' /\ "ok" \in Answers
    BY <1>1 DEF Objects, IInv, CronsOK, Answers
  <2> HIDE DEF row
  <2> QED BY <1>1, <2>1, <2>2, <2>3, ReplyOK
<1>4. CASE ~ LastList(todo)
  <2>1. req' = [req EXCEPT ![r].todo = Tail(todo), ![r].shown = shown] /\ seen' = seen
    BY <1>4 DEF ListCrons
  <2>2. todo \in Seq(STRING)
    BY <1>1 DEF ReqRow
  <2>3. Tail(todo) \in Seq(STRING)
    <3> DEFINE list == todo
    <3> HIDE DEF list
    <3>1. list \in Seq(STRING) /\ ~ (Len(list) =< 1)
      BY <1>4, <2>2 DEF LastList, list
    <3>2. Tail(list) \in Seq(STRING)
      BY <3>1
    <3> QED BY <3>2 DEF list
  <2> HIDE DEF shown
  <2>4. req' = [req EXCEPT ![r] = q]
    BY <1>1, <2>1 DEF ReqRow
  <2>5. q \in ReqRow /\ q.pc = "listCrons" /\ q.answer = p.answer /\ q.wait = p.wait
    BY <1>1, <1>2, <2>3 DEF ReqRow
  <2> HIDE DEF q
  <2>6. Holds(q)
    BY <1>1, <2>5 DEF Holds, Placed, Copying
  <2>7. req'[r] = q
    BY <1>1, <2>4
  <2>8. Copied(r)' /\ Waits(r)' /\ q.pc \notin Copying
    BY <2>5, <2>7 DEF Copied, Copying, Waits, Waiting
  <2> QED BY <1>1, <2>1, <2>4, <2>6, <2>8, RequestStep
<1> QED BY <1>3, <1>4

-----------------------------------------------------------------------------
(* A call fails. *)
LEMMA FailOK ==
    ASSUME IInv, NEW r \in Requests, Fail(r)
    PROVE  IInv'
<1>1. Used("events", MaxEvents) /\ DOMAIN req = Requests /\ req[r] \in ReqRow
  BY DEF Fail, IInv, ReqsOK, Holds
<1>2. CASE Answer(r, IF req[r].pc = "readLog" THEN Status(r) ELSE "error") /\ UNCHANGED Objects
  <2>1. \E answer \in {"created", "status", "error"} : Answer(r, answer)
    BY <1>2, StatusTyped
  <2> QED BY <1>1, <1>2, <2>1, AnswerOK DEF Answers
<1>3. CASE /\ req[r].pc = "createJob" /\ next' = next + 1
           /\ jobs' = Insert(jobs, next, JobObject(req[r].spec))
           /\ Answer(r, "error")
           /\ UNCHANGED <<tasks, runners, tokens, crons>>
  <2>1. Holds([Idle EXCEPT !.answer = "error"]) /\ [Idle EXCEPT !.answer = "error"].pc = "idle"
    BY IdleTyped, AnsweredHolds DEF Answers
  <2>2. req' = [req EXCEPT ![r] = [Idle EXCEPT !.answer = "error"]] /\ seen' = [seen EXCEPT ![r] = {}]
    BY <1>3 DEF Answer, Reply
  <2> QED BY <1>1, <1>3, <2>1, <2>2, MakesJob DEF Copying, Waiting
<1>4. CASE /\ req[r].pc = "poll"
           /\ req' = [req EXCEPT ![r].pc = "readPods", ![r].wait = "fault"]
           /\ UNCHANGED <<Objects, seen>>
  <2>1. req' = [req EXCEPT ![r] = [req[r] EXCEPT !.pc = "readPods", !.wait = "fault"]]
    BY <1>1, <1>4 DEF ReqRow
  <2> QED BY <1>1, <1>4, <2>1, WaitStep DEF Waited, Waiting
<1> QED BY <1>2, <1>3, <1>4 DEF Fail

-----------------------------------------------------------------------------
(* The job controller: nothing that a job has come to is undone. *)
LEMMA JobsMove ==
    ASSUME IInv, UNCHANGED <<tasks, runners, tokens, crons, next, req, seen, count>>, JobsOK',
           \A k \in DOMAIN jobs' :
              /\ k \in DOMAIN jobs /\ jobs'[k].spec = jobs[k].spec
              /\ jobs[k].started => jobs'[k].started
              /\ jobs[k].succeeded => jobs'[k].succeeded
              /\ jobs[k].failed > 0 => jobs'[k].failed > 0
    PROVE  IInv'
<1>1. ReqsOK' /\ CatalogueOK' /\ CronsOK'
  BY DEF IInv, ReqsOK, CatalogueOK, CronsOK, Holds, Placed
<1>2. CopiesOK'
  <2>1. ASSUME NEW r \in Requests PROVE Copied(r)'
    <3>1. Copied(r) /\ Catalogue' = Catalogue
      BY DEF IInv, CopiesOK, Catalogue
    <3>2. Began(req[r].spec, r)' <=> Began(req[r].spec, r)
      BY DEF Began
    <3> QED BY <3>1, <3>2 DEF Copied
  <2> QED BY <2>1 DEF IInv, CopiesOK
<1>3. WaitsOK'
  <2>1. ASSUME NEW r \in Requests PROVE Waits(r)'
    BY <2>1 DEF IInv, WaitsOK, Waits
  <2> QED BY <2>1 DEF WaitsOK
<1>4. CountOK'
  <2>1. Busy' = Busy
    BY DEF Busy
  <2> QED BY <2>1 DEF IInv, CountOK
<1> QED BY <1>1, <1>2, <1>3, <1>4 DEF IInv

LEMMA ControlOK ==
    ASSUME IInv, NEW j \in DOMAIN jobs, Control(j)
    PROVE  IInv'
<1> DEFINE job == jobs[j]
<1>1. job \in JobRow /\ Life(job) /\ jobs = [k \in DOMAIN jobs |-> jobs[k]]
  BY DEF IInv, JobsOK
<1>2. ASSUME NEW new \in JobRow, SetJob(j, new), Life(new), new.spec = job.spec, job.started => new.started,
             job.succeeded => new.succeeded, job.failed > 0 => new.failed > 0
      PROVE  IInv'
  <2>1. /\ jobs' = [jobs EXCEPT ![j] = new]
        /\ UNCHANGED <<tasks, runners, tokens, crons, next, req, seen, count>>
    BY <1>2 DEF SetJob
  <2>2. DOMAIN jobs' = DOMAIN jobs /\ jobs'[j] = new /\ \A k \in DOMAIN jobs \ {j} : jobs'[k] = jobs[k]
    BY <2>1
  <2>3. \A k \in DOMAIN jobs' : jobs'[k] \in JobRow /\ Life(jobs'[k])
    BY <1>2, <2>2 DEF IInv, JobsOK
  <2>4. JobsOK'
    BY <2>1, <2>2, <2>3 DEF IInv, JobsOK, Life
  <2>5. \A k \in DOMAIN jobs' :
           /\ k \in DOMAIN jobs /\ jobs'[k].spec = jobs[k].spec
           /\ jobs[k].started => jobs'[k].started
           /\ jobs[k].succeeded => jobs'[k].succeeded
           /\ jobs[k].failed > 0 => jobs'[k].failed > 0
    BY <1>2, <2>2
  <2> QED BY <2>1, <2>4, <2>5, JobsMove
<1>3. CASE ~ job.started /\ SetJob(j, [job EXCEPT !.started = TRUE])
  <2> DEFINE new == [job EXCEPT !.started = TRUE]
  <2>1. new \in JobRow /\ Life(new) /\ new.spec = job.spec /\ new.started /\ (job.succeeded => new.succeeded)
        /\ new.failed = job.failed
    BY <1>1, <1>3 DEF JobRow, Life
  <2> HIDE DEF new
  <2> QED BY <1>2, <1>3, <2>1 DEF new
<1>4. ASSUME job.pods = job.failed, ~ Over(job), NEW log \in Logs, SetJob(j, [job EXCEPT !.pods = @ + 1, !.log = log])
      PROVE  IInv'
  <2> DEFINE mid == [job EXCEPT !.pods = @ + 1]
             new == [mid EXCEPT !.log = log]
  <2>1. new \in JobRow /\ Life(new) /\ new.spec = job.spec /\ (job.started => new.started)
        /\ (job.succeeded => new.succeeded) /\ new.failed = job.failed
    <3>0. /\ mid \in JobRow /\ mid.spec = job.spec /\ mid.started = job.started /\ mid.pods = job.pods + 1
          /\ mid.failed = job.failed /\ mid.succeeded = job.succeeded /\ mid.expiring = job.expiring
      BY <1>1 DEF JobRow
    <3> HIDE DEF mid
    <3>1. /\ new \in JobRow /\ new.spec = job.spec /\ new.started = job.started /\ new.pods = job.pods + 1
          /\ new.failed = job.failed /\ new.succeeded = job.succeeded /\ new.expiring = job.expiring
      BY <1>4, <3>0 DEF JobRow
    <3>2. job.failed \in Nat /\ job.pods \in Nat /\ job.failed =< BackoffLimit /\ ~ job.succeeded
      BY <1>1, <1>4 DEF JobRow, Over, BackoffLimit
    <3> HIDE DEF new
    <3> QED BY <1>1, <1>4, <3>1, <3>2 DEF Life, BackoffLimit
  <2> HIDE DEF new
  <2> QED BY <1>2, <1>4, <2>1 DEF new
<1>5. CASE job.started /\ job.pods > job.failed /\ ~ Over(job) /\ SetJob(j, [job EXCEPT !.succeeded = TRUE])
  <2> DEFINE new == [job EXCEPT !.succeeded = TRUE]
  <2>1. new \in JobRow /\ Life(new) /\ new.spec = job.spec /\ (job.started => new.started)
        /\ new.succeeded /\ new.failed = job.failed
    <3>1. /\ new \in JobRow /\ new.spec = job.spec /\ new.started = job.started /\ new.pods = job.pods
          /\ new.failed = job.failed /\ new.succeeded /\ new.expiring = job.expiring
      BY <1>1 DEF JobRow
    <3>2. job.failed \in Nat /\ job.pods \in Nat /\ job.failed =< BackoffLimit /\ job.failed < job.pods
      BY <1>1, <1>5 DEF JobRow, Over, BackoffLimit
    <3> HIDE DEF new
    <3> QED BY <1>1, <1>5, <3>1, <3>2 DEF Life
  <2> HIDE DEF new
  <2> QED BY <1>2, <1>5, <2>1 DEF new
<1>6. CASE job.started /\ job.pods > job.failed /\ ~ Over(job) /\ SetJob(j, [job EXCEPT !.failed = @ + 1])
  <2> DEFINE new == [job EXCEPT !.failed = @ + 1]
  <2>1. new \in JobRow /\ Life(new) /\ new.spec = job.spec /\ (job.started => new.started)
        /\ (job.succeeded => new.succeeded) /\ new.failed > 0
    BY <1>1, <1>6 DEF JobRow, Life, Over, BackoffLimit
  <2> HIDE DEF new
  <2> QED BY <1>2, <1>6, <2>1 DEF new
<1>7. CASE Over(job) /\ ~ job.expiring /\ SetJob(j, [job EXCEPT !.pods = 0, !.expiring = TRUE])
  <2> DEFINE new == [job EXCEPT !.pods = 0, !.expiring = TRUE]
  <2>1. new \in JobRow /\ Life(new) /\ new.spec = job.spec /\ (job.started => new.started)
        /\ (job.succeeded => new.succeeded) /\ new.failed = job.failed
    BY <1>1, <1>7 DEF JobRow, Life
  <2> HIDE DEF new
  <2> QED BY <1>2, <1>7, <2>1 DEF new
<1>8. ASSUME NEW log \in Logs, SetJob(j, [job EXCEPT !.log = log])
      PROVE  IInv'
  <2> DEFINE new == [job EXCEPT !.log = log]
  <2>1. new \in JobRow /\ Life(new) /\ new.spec = job.spec /\ (job.started => new.started)
        /\ (job.succeeded => new.succeeded) /\ new.failed = job.failed
    BY <1>1, <1>8 DEF JobRow, Life
  <2> HIDE DEF new
  <2> QED BY <1>2, <1>8, <2>1 DEF new
<1>9. CASE jobs' = Without(jobs, j) /\ UNCHANGED <<tasks, runners, tokens, crons, next, req, seen, count>>
  <2>1. DOMAIN jobs' = DOMAIN jobs \ {j} /\ \A k \in DOMAIN jobs' : jobs'[k] = jobs[k]
    BY <1>9 DEF Without
  <2>2. jobs' = [k \in DOMAIN jobs' |-> jobs'[k]]
    BY <1>9 DEF Without
  <2>3. \A k \in DOMAIN jobs' : jobs'[k] \in JobRow /\ Life(jobs'[k])
    BY <2>1 DEF IInv, JobsOK
  <2>4. JobsOK'
    BY <1>9, <2>1, <2>2, <2>3 DEF IInv, JobsOK, Life
  <2> QED BY <1>9, <2>1, <2>4, JobsMove
<1>10. job.log \in Logs /\ {"half", "past"} \subseteq Logs
  BY <1>1 DEF JobRow, Logs
<1>11. CASE /\ job.pods = job.failed /\ ~ Over(job)
            /\ \E log \in {job.log} \cup (IF job.log = "half" THEN {"past"} ELSE {}) :
                  SetJob(j, [job EXCEPT !.pods = @ + 1, !.log = log])
  BY <1>4, <1>10, <1>11
<1>12. CASE \E log \in (IF job.log = "half" THEN {"past"} ELSE {"half", "past"}) :
                SetJob(j, [job EXCEPT !.log = log])
  BY <1>8, <1>10, <1>12
<1> QED BY <1>3, <1>5, <1>6, <1>7, <1>9, <1>11, <1>12 DEF Control

LEMMA FireOK ==
    ASSUME IInv, NEW c \in DOMAIN crons, Fire(c)
    PROVE  IInv'
<1> DEFINE s == crons[c].spec
<1>1. /\ Used("events", MaxEvents) /\ next' = next + 1 /\ jobs' = Insert(jobs, next, JobObject(s))
      /\ UNCHANGED <<tasks, runners, tokens, crons, req, seen>>
  BY DEF Fire
<1>2. s \in Copies
  BY DEF IInv, CronsOK
<1> HIDE DEF s
<1>3. JobsOK' /\ next \in Nat
  BY <1>1, <1>2, NewJob DEF IInv, JobsOK
<1>4. ReqsOK' /\ CatalogueOK' /\ CronsOK'
  BY <1>1 DEF IInv, ReqsOK, CatalogueOK, CronsOK, Holds, Placed
<1>5. CopiesOK'
  <2>1. ASSUME NEW r \in Requests PROVE Copied(r)'
    <3>1. Copied(r) /\ Catalogue' = Catalogue
      BY <1>1 DEF IInv, CopiesOK, Catalogue
    <3>2. Began(req[r].spec, r)' <=> Began(req[r].spec, r)
      BY <1>1 DEF Began
    <3> QED BY <1>1, <3>1, <3>2 DEF Copied
  <2> QED BY <1>1, <2>1 DEF IInv, CopiesOK
<1>6. WaitsOK'
  <2>1. ASSUME NEW r \in Requests PROVE Waits(r)'
    BY <1>1, <1>2, <2>1, NewJobKeepsWaits DEF IInv, WaitsOK
  <2> QED BY <2>1 DEF WaitsOK
<1>7. CountOK'
  <2>1. Busy' \subseteq Busy
    BY <1>1 DEF Busy
  <2> QED BY <1>1, <1>3, <2>1, CountStays DEF IInv
<1> QED BY <1>3, <1>4, <1>5, <1>6, <1>7 DEF IInv

(* The catalogue changes; what was seen of it stays seen. *)
LEMMA ChangeCatalogueOK ==
    ASSUME IInv, ChangeCatalogue
    PROVE  IInv'
<1>1. Used("events", MaxEvents) /\ UNCHANGED <<jobs, crons, next, req>>
  BY DEF ChangeCatalogue
<1>2. seen' = [r \in Requests |-> IF seen[r] = {} THEN {} ELSE seen[r] \cup {Catalogue'}]
  BY DEF ChangeCatalogue, Catalogue
<1>3. CatalogueOK'
  <2>1. CASE /\ \E b \in TaskBodies : tasks' = Insert(tasks, b[1], b[2])
             /\ UNCHANGED <<runners, tokens>>
    <3>1. PICK b \in TaskBodies : tasks' = Insert(tasks, b[1], b[2])
      BY <2>1
    <3>2. b[1] \in Tasks /\ b[2] \in TaskRow
      BY SeedsAssumption
    <3> QED BY <2>1, <3>1, <3>2 DEF IInv, CatalogueOK, Insert
  <2>2. CASE \E b \in RunnerBodies :
                \/ runners' = Insert(runners, b[1], [image |-> b[2].image]) /\ UNCHANGED <<tasks, tokens>>
                \/ tokens' = Insert(tokens, b[1], b[2].token) /\ UNCHANGED <<tasks, runners>>
    <3>1. PICK b \in RunnerBodies :
             \/ runners' = Insert(runners, b[1], [image |-> b[2].image]) /\ UNCHANGED <<tasks, tokens>>
             \/ tokens' = Insert(tokens, b[1], b[2].token) /\ UNCHANGED <<tasks, runners>>
      BY <2>2
    <3>2. b[1] \in Runners /\ b[2] \in [image : Images, token : Tokens]
      BY SeedsAssumption
    <3>3. [image |-> b[2].image] \in RunnerRow /\ b[2].token \in Tokens
      BY <3>2 DEF RunnerRow
    <3>4. CASE runners' = Insert(runners, b[1], [image |-> b[2].image]) /\ UNCHANGED <<tasks, tokens>>
      <4> DEFINE row == [image |-> b[2].image]
      <4> HIDE DEF row
      <4>1. runners' = Insert(runners, b[1], row) /\ row \in RunnerRow
        BY <3>3, <3>4 DEF row
      <4> QED BY <3>2, <3>4, <4>1 DEF IInv, CatalogueOK, Insert
    <3>5. CASE tokens' = Insert(tokens, b[1], b[2].token) /\ UNCHANGED <<tasks, runners>>
      BY <3>2, <3>3, <3>5 DEF IInv, CatalogueOK, Insert
    <3> QED BY <3>1, <3>4, <3>5
  <2>3. CASE \E t \in DOMAIN tasks : tasks' = Without(tasks, t) /\ UNCHANGED <<runners, tokens>>
    BY <2>3 DEF IInv, CatalogueOK, Without
  <2>4. CASE \E rn \in DOMAIN runners : runners' = Without(runners, rn) /\ UNCHANGED <<tasks, tokens>>
    BY <2>4 DEF IInv, CatalogueOK, Without
  <2> QED BY <2>1, <2>2, <2>3, <2>4 DEF ChangeCatalogue
<1>4. ReqsOK' /\ JobsOK' /\ CronsOK'
  BY <1>1 DEF IInv, ReqsOK, JobsOK, CronsOK, Holds, Placed, Life
<1>5. CopiesOK'
  <2>1. ASSUME NEW r \in Requests PROVE Copied(r)'
    <3>1. Copied(r) /\ req' = req
      BY <1>1 DEF IInv, CopiesOK
    <3>2. CASE req[r].pc \notin Copying
      BY <3>1, <3>2 DEF Copied, Copying
    <3>3. CASE req[r].pc \in Copying
      <4>1. Catalogue' \in seen'[r] /\ seen[r] \subseteq seen'[r]
        BY <1>2, <3>1, <3>3 DEF Copied
      <4>2. Began(req[r].spec, r) => Began(req[r].spec, r)'
        BY <3>1, <4>1 DEF Began
      <4> QED BY <3>1, <4>1, <4>2 DEF Copied
    <3> QED BY <3>2, <3>3
  <2> QED BY <1>2, <2>1 DEF CopiesOK
<1>6. WaitsOK'
  BY <1>1 DEF IInv, WaitsOK, Waits
<1>7. CountOK'
  <2>1. Busy' \subseteq Busy /\ next \in Nat
    BY <1>1 DEF Busy, IInv, JobsOK
  <2> QED BY <1>1, <2>1, CountStays DEF IInv
<1> QED BY <1>3, <1>4, <1>5, <1>6, <1>7 DEF IInv

-----------------------------------------------------------------------------
LEMMA InitIInv == Init => IInv
<1> SUFFICES ASSUME Init PROVE IInv
  OBVIOUS
<1>1. DOMAIN req = Requests /\ \A r \in Requests : req[r] = Idle
  BY DEF Init
<1>2. Holds(Idle) /\ Idle.pc = "idle"
  BY IdleTyped DEF Holds, Placed, Copying
<1>3. ReqsOK
  BY <1>1, <1>2 DEF ReqsOK
<1>4. CatalogueOK
  BY SeedsAssumption DEF Init, CatalogueOK
<1>5. JobsOK /\ CronsOK
  BY DEF Init, JobsOK, CronsOK, EmptyTable
<1>6. CopiesOK /\ WaitsOK
  BY <1>1, <1>2 DEF Init, CopiesOK, Copied, Copying, WaitsOK, Waits, Waiting
<1>7. CountOK
  <2>1. Busy = {}
    BY <1>1, <1>2 DEF Busy, Copying
  <2> QED BY <2>1, FS_EmptySet, BoundsAssumption DEF Init, CountOK
<1> QED BY <1>3, <1>4, <1>5, <1>6, <1>7 DEF IInv

LEMMA NextIInv == IInv /\ [Next]_vars => IInv'
<1> SUFFICES ASSUME IInv, [Next]_vars PROVE IInv'
  OBVIOUS
<1>1. ASSUME NEW r \in Requests, Begin(r) \/ Statement(r) \/ Fail(r) PROVE IInv'
  <2>1. CASE Statement(r)
    BY <2>1, ReadTaskOK, ReadRunnerOK, ReadTokenOK, CreateJobOK, PollOK, PollTimeoutOK, ReadPodsOK, ReadJobOK,
       ReadLogOK, ListJobsOK, PutCronOK, DropCronOK, ReadCronOK, ListCronsOK, ReadSchemaOK DEF Statement
  <2> QED BY <1>1, <2>1, BeginOK, FailOK
<1>2. CASE UNCHANGED vars
  <2>1. \A k \in DOMAIN jobs' : k \in DOMAIN jobs /\ jobs'[k] = jobs[k]
    BY <1>2 DEF vars
  <2>2. JobsOK' /\ UNCHANGED <<tasks, runners, tokens, crons, next, req, seen, count>>
    BY <1>2 DEF vars, IInv, JobsOK, Life
  <2> QED BY <2>1, <2>2, JobsMove
<1> QED BY <1>1, <1>2, ControlOK, FireOK, ChangeCatalogueOK DEF Next

-----------------------------------------------------------------------------
(* What a step does to a request that is not its own. *)
LEMMA OthersStay ==
    ASSUME IInv, NEW s \in Requests, Begin(s) \/ Statement(s) \/ Fail(s), NEW r \in Requests \ {s}
    PROVE  req'[r] = req[r]
<1>1. DOMAIN req = Requests
  BY DEF IInv, ReqsOK
<1>2. \A answer : Answer(s, answer) => req'[r] = req[r]
  BY <1>1 DEF Answer, Reply
<1>3. \A pc : Goto(s, pc) => req'[r] = req[r]
  BY <1>1 DEF Goto
<1>4. CASE Begin(s)
  BY <1>1, <1>4 DEF Begin
<1>5. CASE ReadTask(s)
  BY <1>1, <1>2, <1>5 DEF ReadTask
<1>6. CASE ReadRunner(s)
  BY <1>1, <1>2, <1>6 DEF ReadRunner
<1>7. CASE ReadToken(s)
  BY <1>1, <1>7 DEF ReadToken
<1>8. CASE CreateJob(s)
  BY <1>1, <1>2, <1>8 DEF CreateJob
<1>9. CASE Poll(s) \/ PollTimeout(s)
  BY <1>1, <1>9 DEF Poll, PollTimeout
<1>10. CASE ReadPods(s)
  BY <1>2, <1>3, <1>10 DEF ReadPods
<1>11. CASE ReadJob(s) \/ ReadLog(s)
  BY <1>1, <1>2, <1>11 DEF ReadJob, ReadLog
<1>12. CASE ListJobs(s)
  BY <1>1, <1>2, <1>12 DEF ListJobs
<1>13. CASE PutCron(s) \/ DropCron(s) \/ ReadCron(s) \/ ReadSchema(s)
  BY <1>2, <1>13 DEF PutCron, DropCron, ReadCron, ReadSchema
<1>14. CASE ListCrons(s)
  BY <1>1, <1>14 DEF ListCrons, Reply
<1>15. CASE Fail(s)
  BY <1>1, <1>2, <1>15 DEF Fail
<1> QED BY <1>4, <1>5, <1>6, <1>7, <1>8, <1>9, <1>10, <1>11, <1>12, <1>13, <1>14, <1>15 DEF Statement

LEMMA StepsOf ==
    ASSUME IInv, [Next]_vars, NEW r \in Requests
    PROVE  req'[r] = req[r] \/ Begin(r) \/ Statement(r) \/ Fail(r)
<1>1. CASE \E s \in Requests : Begin(s) \/ Statement(s) \/ Fail(s)
  BY <1>1, OthersStay
<1>2. CASE \E j \in DOMAIN jobs : Control(j)
  BY <1>2 DEF Control, SetJob
<1>3. CASE \E c \in DOMAIN crons : Fire(c)
  BY <1>3 DEF Fire
<1>4. CASE ChangeCatalogue \/ UNCHANGED vars
  BY <1>4 DEF ChangeCatalogue, vars
<1> QED BY <1>1, <1>2, <1>3, <1>4 DEF Next

(* The answer of a step that answers. *)
LEMMA AnswerIs ==
    ASSUME IInv, NEW r \in Requests, NEW answer, Answer(r, answer)
    PROVE  req'[r].answer = answer /\ req'[r].pc = "idle"
<1>1. DOMAIN req = Requests /\ Idle \in ReqRow /\ Idle.pc = "idle"
  BY IdleTyped DEF IInv, ReqsOK
<1>2. req'[r] = [Idle EXCEPT !.answer = answer]
  BY <1>1 DEF Answer, Reply
<1> QED BY <1>1, <1>2 DEF ReqRow

-----------------------------------------------------------------------------
(* The invariant holds in every behaviour. *)
THEOREM Inductive == Spec => []IInv
<1>1. Init => IInv
  BY InitIInv
<1>2. IInv /\ [Next]_vars => IInv'
  BY NextIInv
<1> QED BY <1>1, <1>2, PTL DEF Spec

(* The types of the state, that no job has more pods than its limit allows and no
   result before its start, that generated names never run out, and that the job a
   launch waits for is one that was made. *)
THEOREM TypeCorrect == Spec => []TypeOK
<1>1. IInv => TypeOK
  <2> SUFFICES ASSUME IInv PROVE TypeOK
    OBVIOUS
  <2>1. next \in JobIds
    <3>1. Cardinality(Busy) \in Nat
      BY BusyFinite
    <3> QED BY <3>1, BoundsAssumption DEF IInv, JobsOK, CountOK, JobIds
  <2>2. ASSUME NEW j \in DOMAIN jobs
        PROVE  /\ jobs[j].spec \in Copies /\ jobs[j].failed =< BackoffLimit + 1
               /\ ~ jobs[j].expiring => jobs[j].pods \in jobs[j].failed .. BackoffLimit + 1
               /\ jobs[j].succeeded => jobs[j].started /\ jobs[j].failed =< BackoffLimit
               /\ jobs[j].log \in Logs
    <3>1. jobs[j] \in JobRow /\ Life(jobs[j])
      BY DEF IInv, JobsOK
    <3> QED BY <3>1 DEF JobRow, Life, BackoffLimit
  <2>3. ASSUME NEW r \in Requests
        PROVE  /\ req[r].pc \in PCs
               /\ req[r].pc \in {"createJob", "putCron"} => req[r].spec \in Copies
               /\ req[r].pc \in {"poll", "readPods", "readJob", "readLog"} => req[r].job \in 1 .. next - 1
    <3>1. req[r] \in ReqRow /\ Placed(req[r]) /\ Waits(r)
      BY DEF IInv, ReqsOK, Holds, WaitsOK
    <3>2. req[r].pc \in PCs /\ req[r].spec \in SpecRow
      BY <3>1 DEF ReqRow
    <3> QED BY <3>1, <3>2 DEF Placed, Waits, Waiting, Copying, SpecRow, Copies
  <2> QED BY <2>1, <2>2, <2>3 DEF IInv, CatalogueOK, JobsOK, CronsOK, TypeOK
<1> QED BY <1>1, Inductive, PTL

(* Whatever a launch or a CronJob is made of was in the catalogue since the request
   began, each piece at its own time, whoever changes the catalogue meanwhile and however
   many requests there are: the three reads of job_svc.go:244 never bring in a stale piece. *)
THEOREM CopiesAreOfTheCatalogue == Spec => CopiesTheCatalogue
<1> DEFINE Body ==
      \A r \in Requests :
          /\ req[r].pc = "createJob" /\ req'[r].pc # "createJob" /\ next' # next => Began(jobs'[next].spec, r)
          /\ req[r].pc = "putCron" /\ req'[r].pc # "putCron" /\ crons' # crons =>
                Began(crons'[req[r].cron].spec, r)
<1>1. IInv /\ [Next]_vars => Body
  <2> SUFFICES ASSUME IInv, [Next]_vars, NEW r \in Requests
               PROVE  /\ req[r].pc = "createJob" /\ req'[r].pc # "createJob" /\ next' # next =>
                            Began(jobs'[next].spec, r)
                      /\ req[r].pc = "putCron" /\ req'[r].pc # "putCron" /\ crons' # crons =>
                            Began(crons'[req[r].cron].spec, r)
    OBVIOUS
  <2>1. Copied(r)
    BY DEF IInv, CopiesOK
  <2>2. ASSUME req[r].pc = "createJob", req'[r].pc # "createJob", next' # next PROVE Began(jobs'[next].spec, r)
    <3>1. CreateJob(r) \/ Fail(r)
      BY <2>2, StepsOf DEF Statement, Begin, ReadTask, ReadRunner, ReadToken, Poll, PollTimeout, ReadPods, ReadJob,
         ReadLog, ListJobs, PutCron, DropCron, ReadCron, ListCrons, ReadSchema
    <3>2. jobs' = Insert(jobs, next, JobObject(req[r].spec))
      BY <2>2, <3>1 DEF CreateJob, Fail, Objects
    <3>3. jobs'[next].spec = req[r].spec
      BY <3>2 DEF Insert, JobObject
    <3> QED BY <2>1, <2>2, <3>3 DEF Copied
  <2>3. ASSUME req[r].pc = "putCron", req'[r].pc # "putCron", crons' # crons
        PROVE  Began(crons'[req[r].cron].spec, r)
    <3>1. PutCron(r) \/ Fail(r)
      BY <2>3, StepsOf DEF Statement, Begin, ReadTask, ReadRunner, ReadToken, CreateJob, Poll, PollTimeout, ReadPods,
         ReadJob, ReadLog, ListJobs, DropCron, ReadCron, ListCrons, ReadSchema
    <3>2. crons' = Insert(crons, req[r].cron, CronJobObject(req[r].spec, req[r].suspend))
      BY <2>3, <3>1 DEF PutCron, Fail, Objects
    <3>3. crons'[req[r].cron].spec = req[r].spec
      BY <3>2 DEF Insert, CronJobObject
    <3> QED BY <2>1, <2>3, <3>3 DEF Copied
  <2> QED BY <2>2, <2>3
<1>2. IInv /\ [Next]_vars => [Body]_vars
  BY <1>1
<1> QED BY <1>2, Inductive, PTL DEF Spec, CopiesTheCatalogue

-----------------------------------------------------------------------------
(* A listing panics only where a start time is not there, and a read of a job where it is the
   one of that job, or where the job's log has just passed its first mark. *)
LEMMA PanicsHaveTheirReason ==
    ASSUME IInv, [Next]_vars, NEW r \in Requests, req[r].answer # "panic", req'[r].answer = "panic"
    PROVE  /\ req[r].pc = "listJobs" =>
                 (\E k \in DOMAIN jobs : ~ jobs[k].started) \/ (\E e \in req[r].listed : ~ e.started)
           /\ req[r].pc # "listJobs" =>
                 req[r].job \in DOMAIN jobs /\ (~ jobs[req[r].job].started \/ jobs[req[r].job].log = "half")
<1> DEFINE p == req[r]
<1>1. DOMAIN req = Requests /\ p \in ReqRow /\ p.spec \in SpecRow
  BY DEF IInv, ReqsOK, Holds, ReqRow
<1>2. \A answer : Answer(r, answer) => answer = "panic"
  BY AnswerIs
<1>3. ~ Begin(r)
  <2>1. SUFFICES ASSUME Begin(r) PROVE FALSE
    OBVIOUS
  <2>2. PICK caller \in Callers, row \in JobRoutes \cup CronRoutes \cup ListRoutes :
           req' = [req EXCEPT ![r] = [row EXCEPT !.spec.owner = caller]]
    BY <2>1 DEF Begin
  <2> DEFINE q == [row EXCEPT !.spec.owner = caller]
  <2>3. q.answer = "none"
    BY RouteTyped
  <2>4. req' = [req EXCEPT ![r] = q]
    BY <2>2
  <2> HIDE DEF q
  <2> QED BY <1>1, <2>3, <2>4
<1>4. ~ ReadTask(r) /\ ~ ReadRunner(r) /\ ~ ReadToken(r)
  <2>1. ~ Answer(r, "error")
    BY <1>2
  <2> DEFINE row == tasks[p.spec.task]
  <2>2. ASSUME req' = [req EXCEPT ![r].pc = "readRunner", ![r].runner = row.runner,
                                  ![r].spec.command = row.command, ![r].sync = row.sync]
        PROVE  FALSE
    BY <1>1, <2>2 DEF ReqRow, SpecRow
  <2>3. ASSUME NEW i, req' = [req EXCEPT ![r].pc = "readToken", ![r].spec.image = i]
        PROVE  FALSE
    BY <1>1, <2>3 DEF ReqRow, SpecRow
  <2>4. ASSUME NEW pc, NEW t, req' = [req EXCEPT ![r].pc = pc, ![r].spec.token = t]
        PROVE  FALSE
    BY <1>1, <2>4 DEF ReqRow, SpecRow
  <2>5. ~ ReadTask(r)
    BY <2>1, <2>2 DEF ReadTask
  <2>6. ~ ReadRunner(r)
    BY <2>1, <2>3 DEF ReadRunner
  <2>7. ~ ReadToken(r)
    BY <2>4 DEF ReadToken
  <2> QED BY <2>5, <2>6, <2>7
<1>5. ~ CreateJob(r)
  <2>1. ~ Answer(r, "created")
    BY <1>2
  <2>2. ASSUME req' = [req EXCEPT ![r].pc = "poll", ![r].job = next, ![r].spec.command = None,
                                  ![r].spec.image = None, ![r].spec.token = None, ![r].runner = None]
        PROVE  FALSE
    BY <1>1, <2>2 DEF ReqRow, SpecRow
  <2> QED BY <2>1, <2>2 DEF CreateJob
<1>6. ~ Poll(r) /\ ~ PollTimeout(r) /\ ~ Fail(r)
  <2>1. ASSUME NEW wait, req' = [req EXCEPT ![r].pc = "readPods", ![r].wait = wait]
        PROVE  FALSE
    BY <1>1, <2>1 DEF ReqRow
  <2>2. ~ Answer(r, "error") /\ ~ Answer(r, Status(r))
    BY <1>2, StatusTyped
  <2>3. ~ Poll(r) /\ ~ PollTimeout(r)
    BY <2>1 DEF Poll, PollTimeout
  <2>4. ~ Fail(r)
    BY <2>1, <2>2 DEF Fail
  <2> QED BY <2>3, <2>4
<1>7. ~ ReadPods(r)
  <2>1. ~ Goto(r, "readJob")
    BY <1>1 DEF Goto, ReqRow
  <2> QED BY <1>2, <2>1 DEF ReadPods
<1>8. ~ PutCron(r) /\ ~ DropCron(r) /\ ~ ReadCron(r) /\ ~ ReadSchema(r)
  BY <1>2 DEF PutCron, DropCron, ReadCron, ReadSchema
<1>9. ~ ListCrons(r)
  <2> DEFINE todo == p.todo
             found == {c \in DOMAIN crons : todo # <<>> /\ (Head(todo) = All \/ Head(todo) \in crons[c].labels)}
             shown == p.shown \cup found
  <2>1. ASSUME ListCrons(r)
        PROVE  \/ Reply(r, [Idle EXCEPT !.shown = shown], "ok")
               \/ req' = [req EXCEPT ![r].todo = Tail(todo), ![r].shown = shown]
    BY <2>1 DEF ListCrons
  <2> HIDE DEF shown, todo
  <2>2. ASSUME req' = [req EXCEPT ![r].todo = Tail(todo), ![r].shown = shown]
        PROVE  FALSE
    BY <1>1, <2>2 DEF ReqRow
  <2>3. ASSUME Reply(r, [Idle EXCEPT !.shown = shown], "ok")
        PROVE  FALSE
    BY <1>1, <2>3, IdleTyped DEF Reply, ReqRow
  <2> QED BY <2>1, <2>2, <2>3
<1>10. ReadJob(r) \/ ReadLog(r) \/ ListJobs(r)
  BY <1>3, <1>4, <1>5, <1>6, <1>7, <1>8, <1>9, StepsOf DEF Statement
<1>11. CASE ReadJob(r)
  <2>1. ~ Answer(r, "error")
    BY <1>2
  <2>2. ASSUME NEW complete, req' = [req EXCEPT ![r].pc = "readLog", ![r].complete = complete]
        PROVE  FALSE
    BY <1>1, <2>2 DEF ReqRow
  <2> QED BY <1>11, <2>1, <2>2 DEF ReadJob
<1>12. CASE ReadLog(r)
  <2>1. ~ Answer(r, Status(r))
    BY <1>2, StatusTyped
  <2> QED BY <1>12, <2>1 DEF ReadLog
<1>13. ASSUME ListJobs(r)
       PROVE  (\E k \in DOMAIN jobs : ~ jobs[k].started) \/ (\E e \in req[r].listed : ~ e.started)
  <2> DEFINE todo == p.todo
             found == {j \in DOMAIN jobs : todo # <<>> /\ Head(todo) \in {All, jobs[j].spec.task}}
             new == {[id |-> j, started |-> jobs[j].started] : j \in found}
             listed == p.listed \cup new
  <2>1. CASE LastList(todo)
    <3>1. Answer(r, IF AllStarted(listed) THEN "ok" ELSE "panic")
      BY <1>13, <2>1 DEF ListJobs
    <3>2. ~ AllStarted(listed)
      BY <1>2, <3>1
    <3>3. PICK e \in listed : ~ e.started
      BY <3>2 DEF AllStarted
    <3>4. CASE e \in new
      <4>1. PICK j \in found : e = [id |-> j, started |-> jobs[j].started]
        BY <3>4
      <4>2. j \in DOMAIN jobs /\ ~ jobs[j].started
        BY <3>3, <4>1
      <4> QED BY <4>2
    <3>5. e \in new \/ e \in p.listed
      BY <3>3
    <3> QED BY <3>3, <3>4, <3>5
  <2>2. CASE ~ LastList(todo)
    <3>1. req' = [req EXCEPT ![r].todo = Tail(todo), ![r].listed = listed]
      BY <1>13, <2>2 DEF ListJobs
    <3> HIDE DEF listed, todo
    <3> QED BY <1>1, <3>1 DEF ReqRow
  <2> QED BY <2>1, <2>2
<1>14. req[r].pc = "listJobs" <=> ListJobs(r)
  BY <1>10 DEF ReadJob, ReadLog, ListJobs
<1> QED BY <1>10, <1>11, <1>12, <1>13, <1>14

(* The end of a launch that has waited for its job. *)
LEMMA LaunchAnswers ==
    ASSUME IInv, [Next]_vars, NEW r \in Requests,
           req[r].op = "launch", req[r].pc \in {"readPods", "readJob", "readLog"}, count'.events = count.events
    PROVE  LET j      == req[r].job
               answer == req'[r].answer
           IN
           /\ answer = "status" => (j \in DOMAIN jobs => jobs[j].succeeded)
           /\ req[r].wait = "done" =>
                 /\ answer = "panic" => j \in DOMAIN jobs /\ jobs[j].log = "half"
                 /\ answer = "created" => (j \in DOMAIN jobs => jobs[j].failed > 0)
                 /\ answer = "error" => (j \in DOMAIN jobs => jobs[j].expiring)
<1> DEFINE j == req[r].job
<1>1. DOMAIN req = Requests /\ req[r] \in ReqRow /\ req[r].answer = "none"
  BY DEF IInv, ReqsOK, Holds, Placed
<1>2. ASSUME j \in DOMAIN jobs
      PROVE  /\ jobs[j] \in JobRow /\ Life(jobs[j]) /\ jobs[j].spec.owner = req[r].spec.owner
             /\ req[r].wait = "done" => jobs[j].started /\ (jobs[j].succeeded \/ jobs[j].failed > 0)
             /\ req[r].pc = "readLog" /\ req[r].complete => jobs[j].succeeded
             /\ req[r].pc = "readLog" /\ req[r].wait = "done" /\ ~ req[r].complete => jobs[j].failed > 0
  BY <1>2 DEF IInv, JobsOK, WaitsOK, Waits, Waiting
<1>3. ~ Fail(r)
  BY BoundsAssumption, UsedEvents DEF IInv, CountOK, Fail
<1>4. req'[r].answer = "none" \/ ReadPods(r) \/ ReadJob(r) \/ ReadLog(r)
  BY <1>1, <1>3, StepsOf DEF Statement, Begin, ReadTask, ReadRunner, ReadToken, CreateJob, Poll, PollTimeout,
     ListJobs, PutCron, DropCron, ReadCron, ListCrons, ReadSchema
<1>5. CASE req'[r].answer = "none"
  BY <1>5
<1>6. CASE ReadPods(r)
  <2>1. CASE Goto(r, "readJob")
    <3>1. req'[r].answer = "none"
      BY <1>1, <2>1 DEF Goto, ReqRow
    <3> QED BY <3>1
  <2>2. CASE /\ j \in DOMAIN jobs => jobs[j].pods = 0 \/ jobs[j].spec.owner # req[r].spec.owner
             /\ Answer(r, "error")
    <3>1. req'[r].answer = "error"
      BY <2>2, AnswerIs
    <3>2. ASSUME j \in DOMAIN jobs, req[r].wait = "done" PROVE jobs[j].expiring
      BY <1>2, <2>2, <3>2 DEF JobRow, Life
    <3> QED BY <3>1, <3>2
  <2> QED BY <1>6, <2>1, <2>2 DEF ReadPods
<1>7. CASE ReadJob(r)
  <2>1. CASE j \notin DOMAIN jobs /\ Answer(r, "error")
    <3>1. req'[r].answer = "error"
      BY <2>1, AnswerIs
    <3> QED BY <2>1, <3>1
  <2>2. CASE j \in DOMAIN jobs /\ ~ jobs[j].started /\ Answer(r, "panic")
    <3>1. req'[r].answer = "panic"
      BY <2>2, AnswerIs
    <3> QED BY <1>2, <2>2, <3>1
  <2>3. CASE req' = [req EXCEPT ![r].pc = "readLog", ![r].complete = jobs[j].succeeded]
    <3>1. req'[r].answer = "none"
      BY <1>1, <2>3 DEF ReqRow
    <3> QED BY <3>1
  <2> QED BY <1>7, <2>1, <2>2, <2>3 DEF ReadJob
<1>8. CASE ReadLog(r)
  <2>1. CASE j \in DOMAIN jobs /\ jobs[j].log = "half" /\ Answer(r, "panic")
    <3>1. req'[r].answer = "panic"
      BY <2>1, AnswerIs
    <3> QED BY <2>1, <3>1
  <2>2. CASE Answer(r, Status(r))
    <3>1. req'[r].answer = IF ~ req[r].complete THEN "created" ELSE "status"
      BY <2>2, AnswerIs DEF Status
    <3>2. req[r].pc = "readLog"
      BY <1>8 DEF ReadLog
    <3> QED BY <1>2, <3>1, <3>2
  <2> QED BY <1>8, <2>1, <2>2 DEF ReadLog
<1> QED BY <1>4, <1>5, <1>6, <1>7, <1>8

(* A synchronous launch says of its own job what is so, whatever the job controller does
   between its calls and whatever else is launched, fired or listed: a status only after a
   success; and when the wait ended by itself, that it was created only with a failed pod
   and that it is unknown only when it is being collected. It then ends in a panic only by
   the search in a log that has just passed its first mark; any other read of a job does so
   too when its start time is not there yet, and a listing only because of such a job. *)
THEOREM LaunchesAnswerTruly == Spec => SyncAnswers
<1> DEFINE Body ==
      \A r \in Requests :
          LET j        == req[r].job
              answer   == req'[r].answer
              panicked == answer = "panic" /\ req[r].answer # "panic"
          IN
          /\ panicked /\ req[r].pc = "listJobs" =>
                (\E k \in DOMAIN jobs : ~ jobs[k].started) \/ (\E e \in req[r].listed : ~ e.started)
          /\ panicked /\ req[r].pc # "listJobs" => j \in DOMAIN jobs /\ (~ jobs[j].started \/ jobs[j].log = "half")
          /\ req[r].op = "launch" /\ req[r].pc \in {"readPods", "readJob", "readLog"} /\ count'.events = count.events =>
             /\ answer = "status" => (j \in DOMAIN jobs => jobs[j].succeeded)
             /\ req[r].wait = "done" =>
                   /\ answer = "panic" => j \in DOMAIN jobs /\ jobs[j].log = "half"
                   /\ answer = "created" => (j \in DOMAIN jobs => jobs[j].failed > 0)
                   /\ answer = "error" => (j \in DOMAIN jobs => jobs[j].expiring)
<1>1. IInv /\ [Next]_vars => Body
  BY PanicsHaveTheirReason, LaunchAnswers
<1>2. IInv /\ [Next]_vars => [Body]_vars
  BY <1>1
<1> QED BY <1>2, Inductive, PTL DEF Spec, SyncAnswers
=============================================================================
