--------------------------------- MODULE Jobs ---------------------------------
(***************************************************************************)
(* Launching tasks and reading what they did: services/job_svc.go and       *)
(* cronjobs_svc.go with controllers/job.go and cronjobs.go, over the calls  *)
(* of helpers/k8s.go. One action is one call to Kubernetes.                 *)
(*                                                                          *)
(* A launch copies a task, its runner and the runner's git token, read one  *)
(* after the other, into a Job; a CronJob keeps such a copy and fires it.   *)
(* The job controller starts, retries, finishes and collects jobs at its    *)
(* own pace. Of a log it matters here how far it goes on after its first    *)
(* mark, which is what LogJson is about; the decision to admit a request is *)
(* AccessControl's; variables and schemas are their outcome.                *)
(***************************************************************************)
EXTENDS Rows, Sequences, SequencesExt

CONSTANTS
    Tasks, Runners, CronNames, Callers,
    Commands, Images, Tokens,     \* what a task, a runner and a token's object hold
    Marking,                      \* the commands that write marks to their log
    SeedTasks, SeedRunners, SeedTokens,
    TaskBodies, RunnerBodies,     \* what the routes of Catalog write meanwhile
    Lists,                        \* the lists the authorisation gives to listings
    MaxRequests,
    MaxEvents                     \* changes of the catalogue, failed calls, fired CronJobs

None == "none"
All  == "*"
BackoffLimit == 1                 \* a job runs at most two pods

TaskRow   == [runner : Runners, command : Commands, sync : BOOLEAN]
RunnerRow == [image : Images]
Copies    == [task : Tasks, owner : Callers, command : Commands, image : Images, token : Tokens \cup {None}]
Requests  == 1 .. MaxRequests
JobIds    == 1 .. MaxRequests + MaxEvents + 1

ASSUME SeedsAssumption ==
    /\ DOMAIN SeedTasks \subseteq Tasks /\ SeedTasks \in [DOMAIN SeedTasks -> TaskRow]
    /\ DOMAIN SeedRunners \subseteq Runners /\ SeedRunners \in [DOMAIN SeedRunners -> RunnerRow]
    /\ DOMAIN SeedTokens \subseteq Runners /\ SeedTokens \in [DOMAIN SeedTokens -> Tokens]
    /\ TaskBodies \subseteq Tasks \X TaskRow
    /\ RunnerBodies \subseteq Runners \X [image : Images, token : Tokens]
    /\ Lists \subseteq Seq(STRING) /\ None \notin Tokens
ASSUME BoundsAssumption == MaxRequests \in Nat /\ MaxEvents \in Nat

VARIABLES
    tasks, runners, tokens,    \* the catalogue: name -> row, and runner -> token
    jobs,      \* id -> what it runs and its status
    crons,     \* name -> the copy and whether it is suspended
    next,      \* the id of the next job: generated names are not given out twice
    req,
    seen,      \* the catalogues there have been since each launch or CronJob request began
    count

vars == <<tasks, runners, tokens, jobs, crons, next, req, seen, count>>

Objects == <<tasks, runners, tokens, jobs, crons, next>>

Catalogue == [tasks |-> tasks, runners |-> runners, tokens |-> tokens]

NoSpec == [task |-> None, owner |-> None, command |-> None, image |-> None, token |-> None]

Idle == [pc |-> "idle", op |-> "none", spec |-> NoSpec, runner |-> None, sync |-> FALSE, cron |-> None,
         suspend |-> FALSE, job |-> 0, todo |-> <<>>, listed |-> {}, shown |-> {}, complete |-> FALSE,
         wait |-> "none", answer |-> "none"]

Init ==
    /\ tasks = SeedTasks /\ runners = SeedRunners /\ tokens = SeedTokens
    /\ jobs = EmptyTable /\ crons = EmptyTable /\ next = 1
    /\ req = [r \in Requests |-> Idle]
    /\ seen = [r \in Requests |-> {}]
    /\ count = [requests |-> 0, events |-> 0]

Used(kind, max) == count[kind] < max /\ count' = [count EXCEPT ![kind] = @ + 1]

Goto(r, pc) == req' = [req EXCEPT ![r].pc = pc] /\ UNCHANGED seen

Reply(r, row, answer) ==
    /\ req' = [req EXCEPT ![r] = [row EXCEPT !.answer = answer]]
    /\ seen' = [seen EXCEPT ![r] = {}]

Answer(r, answer) == Reply(r, Idle, answer)

-----------------------------------------------------------------------------
(* The routes of jobs and of CronJobs, and the lists a listing may be given. *)
TaskRoute(pc, op, t)       == [Idle EXCEPT !.pc = pc, !.op = op, !.spec.task = t]
PodsRoute(op, j)           == [Idle EXCEPT !.pc = "readPods", !.op = op, !.job = j]
WriteRoute(op, t, c, halt) == [TaskRoute("readTask", op, t) EXCEPT !.cron = c, !.suspend = halt]
NameRoute(pc, c)           == [Idle EXCEPT !.pc = pc, !.op = pc, !.cron = c]
ListRoute(pc, list)        == [Idle EXCEPT !.pc = pc, !.op = pc, !.todo = list]

JobRoutes ==
    {TaskRoute("readTask", "launch", t) : t \in Tasks} \cup {TaskRoute("readSchema", "getSchema", t) : t \in Tasks}
    \cup {PodsRoute(op, j) : op \in {"getJob", "getLog"}, j \in DOMAIN jobs}

CronRoutes ==
    {WriteRoute(op, t, c, halt) : op \in {"createCron", "updateCron"}, t \in Tasks, c \in CronNames, halt \in BOOLEAN}
    \cup {NameRoute(pc, c) : pc \in {"readCron", "dropCron"}, c \in CronNames}

ListRoutes == {ListRoute(pc, list) : pc \in {"listJobs", "listCrons"}, list \in Lists}

(* Request number r reaches its handler. *)
Begin(r) ==
    /\ req[r].pc = "idle" /\ r = count.requests + 1
    /\ Used("requests", MaxRequests)
    /\ \E caller \in Callers, row \in JobRoutes \cup CronRoutes \cup ListRoutes :
          req' = [req EXCEPT ![r] = [row EXCEPT !.spec.owner = caller]]
    /\ seen' = [seen EXCEPT ![r] = IF req'[r].pc = "readTask" THEN {Catalogue} ELSE {}]
    /\ UNCHANGED Objects

(* CreateJob and PreFlightChecks, the task; its schema may refuse the variables. *)
ReadTask(r) ==
    LET t == req[r].spec.task IN
    /\ req[r].pc = "readTask"
    /\ \/ /\ t \in DOMAIN tasks
          /\ req' = [req EXCEPT ![r].pc = "readRunner", ![r].runner = tasks[t].runner,
                                ![r].spec.command = tasks[t].command, ![r].sync = tasks[t].sync]
          /\ UNCHANGED seen
       \/ Answer(r, "error")
    /\ UNCHANGED <<Objects, count>>

(* Mutant: the error of the read is dropped. *)
ReadRunnerUnchecked(r) ==
    LET rn == req[r].runner IN
    /\ req[r].pc = "readRunner"
    /\ req' = [req EXCEPT ![r].pc = "readToken",
                          ![r].spec.image = IF rn \in DOMAIN runners THEN runners[rn].image ELSE None]
    /\ UNCHANGED <<Objects, count, seen>>

ReadRunner(r) ==
    LET rn == req[r].runner IN
    /\ req[r].pc = "readRunner"
    /\ \/ /\ rn \in DOMAIN runners
          /\ req' = [req EXCEPT ![r].pc = "readToken", ![r].spec.image = runners[rn].image]
          /\ UNCHANGED seen
       \/ rn \notin DOMAIN runners /\ Answer(r, "error")
    /\ UNCHANGED <<Objects, count>>

(* The object <runner>-token, which need not be there. *)
ReadToken(r) ==
    LET rn == req[r].runner IN
    /\ req[r].pc = "readToken"
    /\ req' = [req EXCEPT ![r].pc = IF req[r].op = "launch" THEN "createJob" ELSE "putCron",
                          ![r].spec.token = IF rn \in DOMAIN tokens THEN tokens[rn] ELSE None]
    /\ UNCHANGED <<Objects, count, seen>>

(* The logs of the pods of a job, as GetLog joins them: without a mark, going on for less than
   the length of a mark after the first one, or longer. *)
Logs == {"plain", "half", "past"}

(* JobObject: what the job is to run; the controller has not looked at it. *)
JobObject(s) ==
    [spec |-> s, started |-> FALSE, pods |-> 0, failed |-> 0, succeeded |-> FALSE, expiring |-> FALSE,
     log |-> "plain"]

CreateJob(r) ==
    /\ req[r].pc = "createJob"
    /\ next' = next + 1
    /\ jobs' = Insert(jobs, next, JobObject(req[r].spec))
    /\ IF req[r].sync
       THEN /\ req' = [req EXCEPT ![r].pc = "poll", ![r].job = next, ![r].spec.command = None,
                                  ![r].spec.image = None, ![r].spec.token = None, ![r].runner = None]
            /\ seen' = [seen EXCEPT ![r] = {}]
       ELSE Answer(r, "created")
    /\ UNCHANGED <<tasks, runners, tokens, crons, count>>

Over(job) == job.succeeded \/ job.failed > BackoffLimit

(* Mutant: a job that has been started counts as done. *)
PollUntilStarted(r) ==
    /\ req[r].pc = "poll"
    /\ \/ req[r].job \in DOMAIN jobs /\ jobs[req[r].job].started
       \/ req[r].job \notin DOMAIN jobs
    /\ req' = [req EXCEPT ![r].pc = "readPods", ![r].wait = "done"]
    /\ UNCHANGED <<Objects, count, seen>>

(* wait.Poll: one failed pod ends it, though the job may have another; so does a job that
   is not found, whose error nobody looks at. *)
Poll(r) ==
    /\ req[r].pc = "poll"
    /\ \/ /\ req[r].job \in DOMAIN jobs
          /\ jobs[req[r].job].succeeded \/ jobs[req[r].job].failed # 0
       \/ req[r].job \notin DOMAIN jobs
    /\ req' = [req EXCEPT ![r].pc = "readPods", ![r].wait = "done"]
    /\ UNCHANGED <<Objects, count, seen>>

(* Mutant: the wait has no end. *)
PollForever(r) == FALSE

(* Its twenty seconds are over, at whatever point of the job's life. *)
PollTimeout(r) ==
    /\ req[r].pc = "poll"
    /\ req' = [req EXCEPT ![r].pc = "readPods", ![r].wait = "timeout"]
    /\ UNCHANGED <<Objects, count, seen>>

(* GetJob and GetLog, the pods of the job with the label of the caller. *)
ReadPods(r) ==
    LET j == req[r].job IN
    /\ req[r].pc = "readPods"
    /\ \/ /\ j \in DOMAIN jobs /\ jobs[j].pods > 0 /\ jobs[j].spec.owner = req[r].spec.owner
          /\ IF req[r].op = "getLog" THEN Answer(r, "ok") ELSE Goto(r, "readJob")
       \/ /\ j \in DOMAIN jobs => jobs[j].pods = 0 \/ jobs[j].spec.owner # req[r].spec.owner
          /\ Answer(r, "error")
    /\ UNCHANGED <<Objects, count>>

(* GetJob, the job: its start time is dereferenced, and gin recovers the panic. *)
ReadJob(r) ==
    LET j == req[r].job IN
    /\ req[r].pc = "readJob"
    /\ \/ j \notin DOMAIN jobs /\ Answer(r, "error")
       \/ j \in DOMAIN jobs /\ ~ jobs[j].started /\ Answer(r, "panic")
       \/ /\ j \in DOMAIN jobs /\ jobs[j].started
          /\ req' = [req EXCEPT ![r].pc = "readLog", ![r].complete = jobs[j].succeeded]
          /\ UNCHANGED seen
    /\ UNCHANGED <<Objects, count>>

(* A launch says that the job was created unless it was complete. *)
Status(r) == IF req[r].op = "launch" /\ ~ req[r].complete THEN "created" ELSE "status"

(* GetJob, the pods again, their logs, and findDelimitedString, which goes out of bounds on a
   log that has just passed its first mark. An error of these reads is text of the answer. *)
ReadLog(r) ==
    LET j == req[r].job IN
    /\ req[r].pc = "readLog"
    /\ Answer(r, IF j \in DOMAIN jobs /\ jobs[j].pods > 0 /\ jobs[j].log = "half" THEN "panic" ELSE Status(r))
    /\ UNCHANGED <<Objects, count>>

(* The sort and the loop of ListJobs dereference every start time. *)
AllStarted(listed) == \A e \in listed : e.started

(* One call for each name of the list, and one without a label for the wildcard. *)
LastList(todo) == Len(todo) <= 1 \/ Head(todo) = All

(* A job has the labels of its pods, among them its task: Kubernetes gives them to a
   Job that has none. The list is asked for one label at a time. *)
ListJobs(r) ==
    LET todo   == req[r].todo
        found  == {j \in DOMAIN jobs : todo # <<>> /\ Head(todo) \in {All, jobs[j].spec.task}}
        listed == req[r].listed \cup {[id |-> j, started |-> jobs[j].started] : j \in found}
    IN
    /\ req[r].pc = "listJobs"
    /\ IF LastList(todo)
       THEN Answer(r, IF AllStarted(listed) THEN "ok" ELSE "panic")
       ELSE req' = [req EXCEPT ![r].todo = Tail(todo), ![r].listed = listed] /\ UNCHANGED seen
    /\ UNCHANGED <<Objects, count>>

-----------------------------------------------------------------------------
(* CronJobObject: no label of its own. *)
CronJobObject(s, suspend) == [spec |-> s, suspend |-> suspend, labels |-> {}]

(* Mutant: an update writes the schedule and keeps the pod template. *)
PutCronKeeping(r) ==
    LET c == req[r].cron
        s == IF c \in DOMAIN crons THEN crons[c].spec ELSE req[r].spec
    IN
    /\ req[r].pc = "putCron"
    /\ IF (req[r].op = "createCron") = (c \in DOMAIN crons)
       THEN Answer(r, "error") /\ UNCHANGED crons
       ELSE crons' = Insert(crons, c, CronJobObject(s, req[r].suspend)) /\ Answer(r, "ok")
    /\ UNCHANGED <<tasks, runners, tokens, jobs, next, count>>

(* CreateOrUpdateCronJob: an update replaces the whole object, its owner included. *)
PutCron(r) ==
    LET c == req[r].cron IN
    /\ req[r].pc = "putCron"
    /\ IF (req[r].op = "createCron") = (c \in DOMAIN crons)
       THEN Answer(r, "error") /\ UNCHANGED crons
       ELSE /\ crons' = Insert(crons, c, CronJobObject(req[r].spec, req[r].suspend))
            /\ Answer(r, "ok")
    /\ UNCHANGED <<tasks, runners, tokens, jobs, next, count>>

ReadCron(r) ==
    /\ req[r].pc = "readCron"
    /\ Answer(r, IF req[r].cron \in DOMAIN crons THEN "ok" ELSE "error")
    /\ UNCHANGED <<Objects, count>>

(* GetSchema of a job or a CronJob: a task is an object with a runner. *)
ReadSchema(r) ==
    /\ req[r].pc = "readSchema"
    /\ Answer(r, IF req[r].spec.task \in DOMAIN tasks THEN "ok" ELSE "error")
    /\ UNCHANGED <<Objects, count>>

DropCron(r) ==
    LET c == req[r].cron IN
    /\ req[r].pc = "dropCron"
    /\ crons' = Without(crons, c)
    /\ Answer(r, IF c \in DOMAIN crons THEN "ok" ELSE "error")
    /\ UNCHANGED <<tasks, runners, tokens, jobs, next, count>>

(* ListCronJobs asks for the label task-name, one task at a time. *)
ListCrons(r) ==
    LET todo  == req[r].todo
        found == {c \in DOMAIN crons : todo # <<>> /\ (Head(todo) = All \/ Head(todo) \in crons[c].labels)}
        shown == req[r].shown \cup found
    IN
    /\ req[r].pc = "listCrons"
    /\ IF LastList(todo)
       THEN Reply(r, [Idle EXCEPT !.shown = shown], "ok")
       ELSE req' = [req EXCEPT ![r].todo = Tail(todo), ![r].shown = shown] /\ UNCHANGED seen
    /\ UNCHANGED <<Objects, count>>

(* Any call may fail. A failed creation may have created the job all the same, a failed
   poll ends the wait, and without a log there is nothing to search. *)
Fail(r) ==
    /\ Used("events", MaxEvents)
    /\ \/ /\ req[r].pc \notin {"idle", "poll"}
          /\ Answer(r, IF req[r].pc = "readLog" THEN Status(r) ELSE "error")
          /\ UNCHANGED Objects
       \/ /\ req[r].pc = "createJob" /\ next' = next + 1
          /\ jobs' = Insert(jobs, next, JobObject(req[r].spec))
          /\ Answer(r, "error")
          /\ UNCHANGED <<tasks, runners, tokens, crons>>
       \/ /\ req[r].pc = "poll"
          /\ req' = [req EXCEPT ![r].pc = "readPods", ![r].wait = "fault"]
          /\ UNCHANGED <<Objects, seen>>

-----------------------------------------------------------------------------
(* The job controller: pods and the start time in either order, a second pod after a
   first that failed, one result, and collection, the pods before the job. A pod writes until
   it is over; the header of the log of a second one may come after what the first has left. *)
SetJob(j, job) == jobs' = [jobs EXCEPT ![j] = job] /\ UNCHANGED <<tasks, runners, tokens, crons, next, req, seen, count>>

Control(j) ==
    LET job == jobs[j]
        running == job.started /\ job.pods > job.failed /\ ~ Over(job)
    IN
    \/ ~ job.started /\ SetJob(j, [job EXCEPT !.started = TRUE])
    \/ /\ job.pods = job.failed /\ ~ Over(job)
       /\ \E log \in {job.log} \cup (IF job.log = "half" THEN {"past"} ELSE {}) :
             SetJob(j, [job EXCEPT !.pods = @ + 1, !.log = log])
    \/ /\ running /\ job.spec.command \in Marking /\ job.log # "past"
       /\ \E log \in (IF job.log = "half" THEN {"past"} ELSE {"half", "past"}) : SetJob(j, [job EXCEPT !.log = log])
    \/ running /\ SetJob(j, [job EXCEPT !.succeeded = TRUE])
    \/ running /\ SetJob(j, [job EXCEPT !.failed = @ + 1])
    \/ Over(job) /\ ~ job.expiring /\ SetJob(j, [job EXCEPT !.pods = 0, !.expiring = TRUE])
    \/ /\ job.expiring /\ jobs' = Without(jobs, j)
       /\ UNCHANGED <<tasks, runners, tokens, crons, next, req, seen, count>>

(* The CronJob controller creates a job from the copy. *)
Fire(c) ==
    /\ ~ crons[c].suspend
    /\ Used("events", MaxEvents)
    /\ next' = next + 1
    /\ jobs' = Insert(jobs, next, JobObject(crons[c].spec))
    /\ UNCHANGED <<tasks, runners, tokens, crons, req, seen>>

(* The catalogue changes under the handlers of Catalog, one object at a time. *)
ChangeCatalogue ==
    /\ Used("events", MaxEvents)
    /\ \/ /\ \E b \in TaskBodies : tasks' = Insert(tasks, b[1], b[2])
          /\ UNCHANGED <<runners, tokens>>
       \/ \E b \in RunnerBodies :
             \/ /\ runners' = Insert(runners, b[1], [image |-> b[2].image])
                /\ UNCHANGED <<tasks, tokens>>
             \/ /\ tokens' = Insert(tokens, b[1], b[2].token)
                /\ UNCHANGED <<tasks, runners>>
       \/ \E t \in DOMAIN tasks : tasks' = Without(tasks, t) /\ UNCHANGED <<runners, tokens>>
       \/ \E rn \in DOMAIN runners : runners' = Without(runners, rn) /\ UNCHANGED <<tasks, tokens>>
    /\ seen' = [r \in Requests |-> IF seen[r] = {} THEN {} ELSE
                   seen[r] \cup {[tasks |-> tasks', runners |-> runners', tokens |-> tokens']}]
    /\ UNCHANGED <<jobs, crons, next, req>>

Statement(r) ==
    \/ ReadTask(r) \/ ReadRunner(r) \/ ReadToken(r) \/ CreateJob(r) \/ Poll(r) \/ PollTimeout(r)
    \/ ReadPods(r) \/ ReadJob(r) \/ ReadLog(r) \/ ListJobs(r)
    \/ PutCron(r) \/ DropCron(r) \/ ReadCron(r) \/ ListCrons(r) \/ ReadSchema(r)

Next ==
    \/ \E r \in Requests : Begin(r) \/ Statement(r) \/ Fail(r)
    \/ \E j \in DOMAIN jobs : Control(j)
    \/ \E c \in DOMAIN crons : Fire(c)
    \/ ChangeCatalogue

(* A call to Kubernetes returns, and the wait of twenty seconds passes; nothing is asked
   of the job controller. *)
Spec == Init /\ [][Next]_vars /\ \A r \in Requests : WF_vars(Statement(r))

-----------------------------------------------------------------------------
PCs == {"idle", "readTask", "readRunner", "readToken", "createJob", "poll", "readPods", "readJob",
        "readLog", "listJobs", "putCron", "dropCron", "readCron", "listCrons", "readSchema"}

(* Types, with what the life of a job allows. *)
TypeOK ==
    /\ tasks \in [DOMAIN tasks -> TaskRow] /\ runners \in [DOMAIN runners -> RunnerRow]
    /\ tokens \in [DOMAIN tokens -> Tokens]
    /\ next \in JobIds /\ DOMAIN jobs \subseteq 1 .. next - 1
    /\ \A j \in DOMAIN jobs :
          /\ jobs[j].spec \in Copies /\ jobs[j].failed <= BackoffLimit + 1 /\ jobs[j].log \in Logs
          /\ ~ jobs[j].expiring => jobs[j].pods \in jobs[j].failed .. BackoffLimit + 1
          /\ jobs[j].succeeded => jobs[j].started /\ jobs[j].failed <= BackoffLimit
    /\ \A c \in DOMAIN crons : crons[c].spec \in Copies
    /\ \A r \in Requests :
          /\ req[r].pc \in PCs
          /\ req[r].pc \in {"createJob", "putCron"} => req[r].spec \in Copies
          /\ req[r].pc \in {"poll", "readPods", "readJob", "readLog"} => req[r].job \in 1 .. next - 1

Began(s, r) ==
    \E c1, c2, c3 \in seen[r] :
       /\ s.task \in DOMAIN c1.tasks
       /\ c1.tasks[s.task].command = s.command
       /\ LET rn == c1.tasks[s.task].runner IN
             /\ rn \in DOMAIN c2.runners /\ c2.runners[rn].image = s.image
             /\ s.token = IF rn \in DOMAIN c3.tokens THEN c3.tokens[rn] ELSE None

(* A launch and a CronJob copy the task, its runner and the runner's token in three reads
   while the catalogue changes: what is to run was in the catalogue at some time
   since the request began, piece by piece, though perhaps never together, and no
   piece of it is older (job_svc.go:244, cronjobs_svc.go:164). *)
CopiesTheCatalogue ==
    [][\A r \in Requests :
          /\ req[r].pc = "createJob" /\ req'[r].pc # "createJob" /\ next' # next => Began(jobs'[next].spec, r)
          /\ req[r].pc = "putCron" /\ req'[r].pc # "putCron" /\ crons' # crons =>
                Began(crons'[req[r].cron].spec, r)]_vars

(* A synchronous launch answers with a status only when its job has succeeded. When the wait
   ended by itself, no call having failed since, a job that is said to be created has a
   failed pod (and may have another), a job is unknown only because it was collected after it
   finished (job_svc.go:313), and the start time is there: what panics then is the search in
   a log that has just passed its first mark (job_svc.go:56), and nothing else. Any other
   read of a job panics for that reason, or because its start time, which is dereferenced,
   is not there (job_svc.go:168); a listing, because of a job that the controller has not
   begun with (job_svc.go:97, 106). *)
SyncAnswers ==
    [][\A r \in Requests :
          LET j        == req[r].job
              answer   == req'[r].answer
              panicked == answer = "panic" /\ req[r].answer # "panic"
          IN
          /\ panicked /\ req[r].pc = "listJobs" =>
                (\E k \in DOMAIN jobs : ~ jobs[k].started) \/ (\E e \in req[r].listed : ~ e.started)
          /\ panicked /\ req[r].pc # "listJobs" => j \in DOMAIN jobs /\ (~ jobs[j].started \/ jobs[j].log = "half")
          /\ req[r].op = "launch" /\ req[r].pc \in {"readPods", "readJob", "readLog"} /\ count'.events = count.events =>
             /\ answer = "status" => (j \in DOMAIN jobs => jobs[j].succeeded)
             /\ req[r].wait = "done" =>
                   /\ answer = "panic" => j \in DOMAIN jobs /\ jobs[j].log = "half"
                   /\ answer = "created" => (j \in DOMAIN jobs => jobs[j].failed > 0)
                   /\ answer = "error" => (j \in DOMAIN jobs => jobs[j].expiring)]_vars

(* A job may never start, never finish or be gone: no request stays in its handler for ever,
   a synchronous launch being answered by the end of its wait (job_svc.go:313). *)
RequestsAnswered == \A r \in Requests : []<>(req[r].pc = "idle")
=============================================================================
