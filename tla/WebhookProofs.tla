----------------------------- MODULE WebhookProofs -----------------------------
(***************************************************************************)
(* What Webhooks promises for every set of users, webhooks, tasks and       *)
(* requests: its types, that no webhook loses its task unnoticed, and that  *)
(* a delivery is decided by its signature and by what its owner may do.     *)
(***************************************************************************)
EXTENDS Webhooks, FiniteSetTheorems, TLAPS

Outcomes == {"none", "ok", "error", "panic", "unbound", "refused"}
Answers  == {"none", "ok", "error", "panic", "unauthorised", "forbidden"}

(* What a request has in its variables, and what each statement relies on. *)
Slot == [pc : PCs, handler : Handlers \cup {NoHandler}, user : Users \cup {NoOne},
         outcome : Outcomes, answer : Answers, hook : HookIds \cup {"none"}, key : Secrets \cup {"none"},
         task : Tasks \cup {"none"}, owner : Users \cup {NoOne}, groups : SUBSET Groups]

Delivery == {"findHook", "findOwner", "getUser", "getRoles", "first", "launch"}

SlotOK(q) ==
    /\ q \in Slot
    /\ q.pc \in Delivery => q.hook \in HookIds /\ q.answer = "none" /\ q.outcome = "none"
    /\ q.pc \in {"findOwner", "getUser", "getRoles", "first", "launch"} => q.task \in Tasks
    /\ q.pc \in {"getRoles", "first", "launch"} => q.user \in Users
    /\ q.pc = "create" => q.hook \in HookIds /\ q.key \in Secrets /\ q.task \in Tasks

Categories == {h.category : h \in Handlers \cup {NoHandler}}
Events     == {h.event : h \in Handlers \cup {NoHandler}}

Row == [by : Requests, user : Users \cup {NoOne}, category : Categories, event : Events,
        status : {"success", "error"}]

ReqOK    == DOMAIN req = Requests /\ req = [r \in Requests |-> req[r]] /\ \A r \in Requests : SlotOK(req[r])
HooksOK  == DOMAIN hooks \subseteq HookIds /\ \A h \in DOMAIN hooks : hooks[h] \in HookRow
RowsOK   == rows \in Seq(Row)
SetsOK   == /\ tasks \subseteq Tasks /\ late \subseteq HookIds
            /\ DOMAIN users \subseteq Users /\ users \in [DOMAIN users -> SUBSET Groups]
            /\ DOMAIN grants = Groups
            /\ runs \subseteq [by : Requests, task : Tasks, owner : Users]
            /\ effects \subseteq Requests /\ lost \subseteq Requests
Watched  == \A r \in Requests : Delivering(r) <=> moments[r] # {}

TypeInv == ReqOK /\ HooksOK /\ RowsOK /\ SetsOK /\ Watched

LEMMA TypeInvImpliesTypeOK == TypeInv => TypeOK
<1> SUFFICES ASSUME TypeInv PROVE TypeOK
  OBVIOUS
<1>0. \A i \in DOMAIN rows : rows[i] \in Row
  BY DEF TypeInv, RowsOK
<1>1. \A i \in DOMAIN rows : rows[i].by \in Requests /\ rows[i].status \in {"success", "error"}
  BY <1>0 DEF Row
<1>2. \A r \in Requests : req[r].pc \in PCs /\ req[r].user \in Users \cup {NoOne}
                         /\ (req[r].handler = NoHandler \/ req[r].handler \in Handlers)
  BY DEF TypeInv, ReqOK, SlotOK, Slot
<1> QED BY <1>1, <1>2 DEF TypeInv, TypeOK, HooksOK, SetsOK, Watched

LEMMA HandlersThere ==
    /\ RunHook \in Handlers /\ RunHook \in HookHandlers
    /\ Writes("webHooks", "create") \in Handlers /\ Writes("webHooks", "delete") \in Handlers
    /\ Writes("tasks", "delete") \in Handlers
  BY DEF RunHook, Writes, Handlers, HookHandlers, TaskHandlers, Handles

LEMMA IdleOK == SlotOK(Idle)
<1>q. PICK q : q = Idle
  OBVIOUS
<1>1. q \in Slot
  BY <1>q DEF Slot, Idle, PCs, Outcomes, Answers
<1>2. q.pc = "idle"
  BY <1>q DEF Idle
<1>3. SlotOK(q)
  BY <1>1, <1>2 DEF SlotOK, Delivery
<1> QED BY <1>q, <1>3

LEMMA DoneOK ==
    ASSUME ReqOK, NEW r \in Requests, NEW outcome \in Outcomes, NEW answer \in Answers, NEW q,
           q = Done(r, outcome, answer)
    PROVE  SlotOK(q) /\ q.pc = "done" /\ q.outcome = outcome /\ q.answer = answer
<1>1. req[r] \in Slot
  BY DEF ReqOK, SlotOK
<1>i. PICK i : i = Idle
  OBVIOUS
<1>2. i \in Slot
  BY <1>i, IdleOK DEF SlotOK
<1>3. q = [i EXCEPT !.pc = "done", !.handler = req[r].handler, !.outcome = outcome, !.answer = answer]
  BY <1>i DEF Done
<1>d. "done" \in PCs /\ req[r].handler \in Handlers \cup {NoHandler}
  BY <1>1 DEF Slot, PCs
<1>4. q \in Slot /\ q.pc = "done" /\ q.outcome = outcome /\ q.answer = answer
  BY <1>2, <1>3, <1>d DEF Slot
<1> QED BY <1>4 DEF SlotOK, Delivery

(* One slot changes. *)
LEMMA SlotChanges ==
    ASSUME ReqOK, NEW r \in Requests, NEW q, SlotOK(q), req' = [req EXCEPT ![r] = q]
    PROVE  ReqOK' /\ req'[r] = q /\ \A s \in Requests \ {r} : req'[s] = req[s]
  BY DEF ReqOK

LEMMA WatchedAgain == Watch => Watched'
  BY DEF Watch, Watched, Delivering

LEMMA CreateAuditTyped ==
    ASSUME RowsOK, lost \subseteq Requests, NEW r \in Requests, NEW row \in Row, CreateAudit(r, row)
    PROVE  RowsOK' /\ lost' \subseteq Requests
  BY DEF RowsOK, CreateAudit

LEMMA RowTyped ==
    ASSUME ReqOK, NEW r \in Requests, NEW h \in Handlers \cup {NoHandler}, NEW status \in {"success", "error"}
    PROVE  /\ InitialiseAuditLog(r, req[r].user, h) \in Row
           /\ [InitialiseAuditLog(r, req[r].user, h) EXCEPT !.status = status] \in Row
<1>1. req[r].user \in Users \cup {NoOne}
  BY DEF ReqOK, SlotOK, Slot
<1>2. h.category \in Categories /\ h.event \in Events
  BY DEF Categories, Events
<1> QED BY <1>1, <1>2 DEF Row, InitialiseAuditLog

LEMMA ReturnsTyped ==
    ASSUME ReqOK, NEW r \in Requests, NEW outcome \in Outcomes, Returns(r, outcome),
           req[r].pc \notin {"idle", "done"}
    PROVE  /\ ReqOK' /\ rows' = rows /\ lost' = lost
           /\ req'[r].pc \in {"record", "done"} /\ req'[r].outcome = outcome
           /\ req'[r].answer \in {req[r].answer, "panic"}
           /\ \A s \in Requests \ {r} : req'[s] = req[s]
<1>1. CASE outcome = "panic"
  <2>q. PICK q : q = Done(r, "panic", "panic")
    OBVIOUS
  <2>1. req' = [req EXCEPT ![r] = q]
    BY <1>1, <2>q DEF Returns
  <2>2. SlotOK(q) /\ q.pc = "done" /\ q.outcome = outcome /\ q.answer = "panic"
    <3>1. "panic" \in Answers /\ "panic" \in Outcomes
      BY DEF Answers, Outcomes
    <3> QED BY <1>1, <2>q, <3>1, DoneOK
  <2> QED BY <2>1, <2>2, SlotChanges DEF Returns
<1>2. CASE outcome # "panic"
  <2>q. PICK q : q = [req[r] EXCEPT !.outcome = outcome, !.pc = "record"]
    OBVIOUS
  <2>1. req' = [req EXCEPT ![r] = q]
    BY <1>2, <2>q DEF Returns
  <2>2. SlotOK(q) /\ q.pc = "record" /\ q.outcome = outcome /\ q.answer = req[r].answer
    <3>1. req[r] \in Slot
      BY DEF ReqOK, SlotOK
    <3>2. q \in Slot /\ q.pc = "record" /\ q.outcome = outcome /\ q.answer = req[r].answer
      BY <2>q, <3>1 DEF Slot, PCs
    <3> QED BY <3>2 DEF SlotOK, Delivery
  <2> QED BY <2>1, <2>2, SlotChanges DEF Returns
<1> QED BY <1>1, <1>2

-----------------------------------------------------------------------------
(* What each statement leaves in the variables of its request. *)
Others(r) == \A s \in Requests \ {r} : req'[s] = req[s]

Same(r) == /\ req'[r].hook = req[r].hook /\ req'[r].key = req[r].key /\ req'[r].answer = req[r].answer
           /\ req'[r].outcome = req[r].outcome

LEMMA StartSlot ==
    ASSUME ReqOK, NEW r \in Requests, NEW q, SlotOK(q), Start(r, q)
    PROVE  ReqOK' /\ Others(r) /\ req'[r] = q /\ req[r].pc = "idle"
  BY SlotChanges DEF Start, Others

LEMMA DeliverSlot ==
    ASSUME ReqOK, NEW r \in Requests, Deliver(r)
    PROVE  ReqOK' /\ Others(r) /\ req[r].pc = "idle" /\ req'[r].pc = "findHook"
<1>1. PICK id \in HookIds, key \in Secrets :
         Start(r, [Idle EXCEPT !.pc = "findHook", !.handler = RunHook, !.hook = id, !.key = key])
  BY DEF Deliver
<1>i. PICK i : i = Idle
  OBVIOUS
<1>q. PICK q : q = [i EXCEPT !.pc = "findHook", !.handler = RunHook, !.hook = id, !.key = key]
  OBVIOUS
<1>2. i \in Slot /\ i.answer = "none" /\ i.outcome = "none"
  BY <1>i, IdleOK DEF SlotOK, Idle
<1>3. q \in Slot /\ q.pc = "findHook" /\ q.hook \in HookIds /\ q.answer = "none" /\ q.outcome = "none"
  BY <1>2, <1>q, HandlersThere DEF Slot, PCs
<1>4. SlotOK(q)
  BY <1>3 DEF SlotOK, Delivery
<1> QED BY <1>1, <1>i, <1>q, <1>3, <1>4, StartSlot

LEMMA TurnedSlot ==
    ASSUME ReqOK, NEW r \in Requests, NEW answer \in {"unauthorised", "error", "forbidden"}, Turned(r, answer)
    PROVE  ReqOK' /\ Others(r) /\ req'[r].pc = "done" /\ req'[r].answer = answer /\ req'[r].outcome = "refused"
<1>q. PICK q : q = Done(r, "refused", answer)
  OBVIOUS
<1>1. answer \in Answers /\ "refused" \in Outcomes
  BY DEF Answers, Outcomes
<1>2. SlotOK(q) /\ q.pc = "done" /\ q.answer = answer /\ q.outcome = "refused"
  BY <1>q, <1>1, DoneOK
<1>3. req' = [req EXCEPT ![r] = q]
  BY <1>q DEF Turned
<1> QED BY <1>2, <1>3, SlotChanges DEF Others

Found(r) ==
    /\ req'[r].pc = "findOwner" /\ Same(r)
    /\ req[r].hook \in DOMAIN hooks /\ hooks[req[r].hook].secret = req[r].key
    /\ req'[r].task = hooks[req[r].hook].task /\ req'[r].owner = hooks[req[r].hook].owner

LEMMA FindHookSlot ==
    ASSUME ReqOK, HooksOK, NEW r \in Requests, FindHook(r)
    PROVE  /\ ReqOK' /\ Others(r) /\ req[r].pc = "findHook"
           /\ \/ Found(r)
              \/ /\ req'[r].pc = "done" /\ req'[r].answer = "unauthorised" /\ req'[r].outcome = "refused"
                 /\ ~ (req[r].hook \in DOMAIN hooks /\ req[r].key = hooks[req[r].hook].secret)
<1>1. CASE ~ (req[r].hook \in DOMAIN hooks /\ req[r].key = hooks[req[r].hook].secret)
  BY <1>1, TurnedSlot DEF FindHook
<1>2. CASE req[r].hook \in DOMAIN hooks /\ req[r].key = hooks[req[r].hook].secret
  <2>q. PICK q : q = [req[r] EXCEPT !.pc = "findOwner", !.task = hooks[req[r].hook].task,
                                    !.owner = hooks[req[r].hook].owner]
    OBVIOUS
  <2>1. req' = [req EXCEPT ![r] = q]
    BY <1>2, <2>q DEF FindHook, ReqOK
  <2>2. hooks[req[r].hook].task \in Tasks /\ hooks[req[r].hook].owner \in Users \cup {NoOne}
    BY <1>2 DEF HooksOK, HookRow
  <2>3. req[r] \in Slot /\ req[r].pc = "findHook" /\ SlotOK(req[r])
    BY DEF ReqOK, SlotOK, FindHook
  <2>4. /\ q \in Slot /\ q.pc = "findOwner" /\ q.hook = req[r].hook /\ q.key = req[r].key
        /\ q.answer = req[r].answer /\ q.outcome = req[r].outcome
        /\ q.task = hooks[req[r].hook].task /\ q.owner = hooks[req[r].hook].owner
    BY <2>q, <2>2, <2>3 DEF Slot, PCs
  <2>5. SlotOK(q)
    BY <2>2, <2>3, <2>4 DEF SlotOK, Delivery
  <2> QED BY <1>2, <2>1, <2>3, <2>4, <2>5, SlotChanges DEF Others, Found, Same
<1> QED BY <1>1, <1>2

LEMMA FindOwnerSlot ==
    ASSUME ReqOK, NEW r \in Requests, FindOwner(r)
    PROVE  /\ ReqOK' /\ Others(r) /\ req[r].pc = "findOwner" /\ req'[r].pc = "getUser" /\ Same(r)
           /\ req'[r].task = req[r].task /\ req'[r].owner = req[r].owner
           /\ req'[r].user = IF req[r].owner \in DOMAIN users THEN req[r].owner ELSE NoOne
<1> DEFINE u == IF req[r].owner \in DOMAIN users THEN req[r].owner ELSE NoOne
<1>q. PICK q : q = [req[r] EXCEPT !.pc = "getUser", !.user = u]
  OBVIOUS
<1>1. req' = [req EXCEPT ![r] = q] /\ req[r].pc = "findOwner"
  BY <1>q DEF FindOwner, ReqOK
<1>2. req[r] \in Slot /\ SlotOK(req[r])
  BY DEF ReqOK, SlotOK
<1>3. /\ q \in Slot /\ q.pc = "getUser" /\ q.hook = req[r].hook /\ q.key = req[r].key
      /\ q.answer = req[r].answer /\ q.outcome = req[r].outcome
      /\ q.task = req[r].task /\ q.owner = req[r].owner /\ q.user = u
  BY <1>q, <1>2 DEF Slot, PCs
<1>4. SlotOK(q)
  BY <1>1, <1>2, <1>3 DEF SlotOK, Delivery
<1> QED BY <1>1, <1>3, <1>4, SlotChanges DEF Others, Same

LEMMA GetUserSlot ==
    ASSUME ReqOK, SetsOK, NEW r \in Requests, GetUser(r)
    PROVE  /\ ReqOK' /\ Others(r) /\ req[r].pc = "getUser"
           /\ \/ /\ req'[r].pc = "done" /\ req'[r].answer = "error" /\ req'[r].outcome = "refused"
                 /\ req[r].user \notin DOMAIN users
              \/ /\ req'[r].pc = "getRoles" /\ Same(r) /\ req'[r].task = req[r].task
                 /\ req'[r].owner = req[r].owner /\ req'[r].user = req[r].user
                 /\ req[r].user \in DOMAIN users /\ req'[r].groups = users[req[r].user]
<1>1. CASE req[r].user \notin DOMAIN users
  BY <1>1, TurnedSlot DEF GetUser
<1>2. CASE req[r].user \in DOMAIN users
  <2>q. PICK q : q = [req[r] EXCEPT !.pc = "getRoles", !.groups = users[req[r].user]]
    OBVIOUS
  <2>1. req' = [req EXCEPT ![r] = q] /\ req[r].pc = "getUser"
    BY <1>2, <2>q DEF GetUser, ReqOK
  <2>2. /\ req[r] \in Slot /\ SlotOK(req[r]) /\ req[r].user \in Users
        /\ users[req[r].user] \in SUBSET Groups
    BY <1>2 DEF ReqOK, SlotOK, SetsOK
  <2>3. /\ q \in Slot /\ q.pc = "getRoles" /\ q.hook = req[r].hook /\ q.key = req[r].key
        /\ q.answer = req[r].answer /\ q.outcome = req[r].outcome
        /\ q.task = req[r].task /\ q.owner = req[r].owner /\ q.user = req[r].user
        /\ q.groups = users[req[r].user]
    BY <2>q, <2>2 DEF Slot, PCs
  <2>4. SlotOK(q)
    BY <2>1, <2>2, <2>3 DEF SlotOK, Delivery
  <2> QED BY <1>2, <2>1, <2>3, <2>4, SlotChanges DEF Others, Same
<1> QED BY <1>1, <1>2

LEMMA GetUserRolesSlot ==
    ASSUME ReqOK, NEW r \in Requests, GetUserRoles(r)
    PROVE  /\ ReqOK' /\ Others(r) /\ req[r].pc = "getRoles"
           /\ \/ /\ req'[r].pc = "done" /\ req'[r].answer = "forbidden" /\ req'[r].outcome = "refused"
                 /\ req[r].groups \cap Granting(req[r].hook) = {}
              \/ /\ req'[r].pc = "first" /\ Same(r) /\ req'[r].task = req[r].task
                 /\ req'[r].owner = req[r].owner /\ req'[r].user = req[r].user
                 /\ req[r].groups \cap Granting(req[r].hook) # {}
<1>1. CASE req[r].groups \cap Granting(req[r].hook) = {}
  BY <1>1, TurnedSlot DEF GetUserRoles
<1>2. CASE req[r].groups \cap Granting(req[r].hook) # {}
  <2>q. PICK q : q = [req[r] EXCEPT !.pc = "first", !.groups = {}]
    OBVIOUS
  <2>1. req' = [req EXCEPT ![r] = q] /\ req[r].pc = "getRoles"
    BY <1>2, <2>q DEF GetUserRoles, ReqOK
  <2>2. req[r] \in Slot /\ SlotOK(req[r])
    BY DEF ReqOK, SlotOK
  <2>3. /\ q \in Slot /\ q.pc = "first" /\ q.hook = req[r].hook /\ q.key = req[r].key
        /\ q.answer = req[r].answer /\ q.outcome = req[r].outcome
        /\ q.task = req[r].task /\ q.owner = req[r].owner /\ q.user = req[r].user
    BY <2>q, <2>2 DEF Slot, PCs
  <2>4. SlotOK(q)
    BY <2>1, <2>2, <2>3 DEF SlotOK, Delivery
  <2> QED BY <1>2, <2>1, <2>3, <2>4, SlotChanges DEF Others, Same
<1> QED BY <1>1, <1>2

LEMMA RecordFirstSlot ==
    ASSUME ReqOK, RowsOK, lost \subseteq Requests, NEW r \in Requests, RecordFirst(r)
    PROVE  /\ ReqOK' /\ RowsOK' /\ lost' \subseteq Requests
           /\ Others(r) /\ req[r].pc = "first" /\ req'[r].pc = "launch" /\ Same(r)
           /\ req'[r].task = req[r].task /\ req'[r].owner = req[r].owner /\ req'[r].user = req[r].user
<1>q. PICK q : q = [req[r] EXCEPT !.pc = "launch"]
  OBVIOUS
<1>1. req' = [req EXCEPT ![r] = q] /\ req[r].pc = "first"
  BY <1>q DEF RecordFirst, ReqOK
<1>2. req[r] \in Slot /\ SlotOK(req[r])
  BY DEF ReqOK, SlotOK
<1>3. /\ q \in Slot /\ q.pc = "launch" /\ q.hook = req[r].hook /\ q.key = req[r].key
      /\ q.answer = req[r].answer /\ q.outcome = req[r].outcome
      /\ q.task = req[r].task /\ q.owner = req[r].owner /\ q.user = req[r].user
  BY <1>q, <1>2 DEF Slot, PCs
<1>4. SlotOK(q)
  BY <1>1, <1>2, <1>3 DEF SlotOK, Delivery
<1>5. RowsOK' /\ lost' \subseteq Requests
  BY RowTyped, HandlersThere, CreateAuditTyped DEF RecordFirst
<1> QED BY <1>1, <1>3, <1>4, <1>5, SlotChanges DEF Others, Same

LEMMA LaunchSlot ==
    ASSUME ReqOK, NEW r \in Requests, Launch(r)
    PROVE  /\ ReqOK' /\ Others(r) /\ rows' = rows /\ lost' = lost
           /\ req[r].pc = "launch" /\ req'[r].pc \in {"record", "done"}
           /\ req'[r].answer \in {"none", "panic"} /\ req'[r].outcome # "refused"
           /\ \/ runs' = runs
              \/ runs' = runs \cup {[by |-> r, task |-> req[r].task, owner |-> req[r].user]}
           /\ effects' \in {effects, effects \cup {r}}
<1>1. PICK outcome \in {"ok", "error", "panic"} : Returns(r, outcome)
  BY DEF Launch
<1>2. outcome \in Outcomes /\ outcome # "refused"
  BY DEF Outcomes
<1>3. req[r].pc = "launch" /\ req[r].answer = "none"
  BY DEF Launch, ReqOK, SlotOK, Delivery
<1>4. /\ ReqOK' /\ rows' = rows /\ lost' = lost
      /\ req'[r].pc \in {"record", "done"} /\ req'[r].outcome = outcome
      /\ req'[r].answer \in {req[r].answer, "panic"} /\ Others(r)
  BY <1>1, <1>2, <1>3, ReturnsTyped DEF Others
<1> QED BY <1>2, <1>3, <1>4 DEF Launch

-----------------------------------------------------------------------------
(* The statements of the other handlers are outside deliveries, and leave a request about
   to delete a task only after it looked for webhooks. *)
Outside(r) == /\ ReqOK' /\ Others(r)
              /\ req[r].pc \notin Delivery \cup {"dropTask"} /\ req'[r].pc \notin Delivery \cup {"dropTask"}

LEMMA BeginHookSlot ==
    ASSUME ReqOK, NEW r \in Requests, BeginHook(r)
    PROVE  Outside(r)
<1>i. PICK i : i = Idle
  OBVIOUS
<1>2. i \in Slot
  BY <1>i, IdleOK DEF SlotOK
<1>u. Callers \subseteq Users \cup {NoOne}
  BY ServedAssumption
<1>3. ASSUME NEW u \in Callers, NEW id \in HookIds, NEW body \in HookBodies,
             Start(r, [Idle EXCEPT !.pc = "create", !.handler = Writes("webHooks", "create"), !.user = u,
                                   !.hook = id, !.key = body[1], !.task = body[2]])
      PROVE  Outside(r)
  <2>q. PICK q : q = [i EXCEPT !.pc = "create", !.handler = Writes("webHooks", "create"), !.user = u,
                               !.hook = id, !.key = body[1], !.task = body[2]]
    OBVIOUS
  <2>1. body[1] \in Secrets /\ body[2] \in Tasks
    BY HooksAssumption
  <2>2. q \in Slot /\ q.pc = "create" /\ q.hook \in HookIds /\ q.key \in Secrets /\ q.task \in Tasks
    BY <1>2, <1>u, <2>q, <2>1, HandlersThere DEF Slot, PCs
  <2>3. SlotOK(q)
    BY <2>2 DEF SlotOK, Delivery
  <2> QED BY <1>3, <1>i, <2>q, <2>2, <2>3, StartSlot DEF Outside, Delivery
<1>4. ASSUME NEW u \in Callers, NEW id \in HookIds,
             Start(r, [Idle EXCEPT !.pc = "findOld", !.handler = Writes("webHooks", "delete"), !.user = u,
                                   !.hook = id])
      PROVE  Outside(r)
  <2>q. PICK q : q = [i EXCEPT !.pc = "findOld", !.handler = Writes("webHooks", "delete"), !.user = u,
                               !.hook = id]
    OBVIOUS
  <2>2. q \in Slot /\ q.pc = "findOld"
    BY <1>2, <1>u, <2>q, HandlersThere DEF Slot, PCs
  <2>3. SlotOK(q)
    BY <2>2 DEF SlotOK, Delivery
  <2> QED BY <1>4, <1>i, <2>q, <2>2, <2>3, StartSlot DEF Outside, Delivery
<1>5. ASSUME NEW u \in Callers, NEW t \in Tasks,
             Start(r, [Idle EXCEPT !.pc = "listHooks", !.handler = Writes("tasks", "delete"), !.user = u,
                                   !.task = t])
      PROVE  Outside(r)
  <2>q. PICK q : q = [i EXCEPT !.pc = "listHooks", !.handler = Writes("tasks", "delete"), !.user = u,
                               !.task = t]
    OBVIOUS
  <2>2. q \in Slot /\ q.pc = "listHooks"
    BY <1>2, <1>u, <2>q, HandlersThere DEF Slot, PCs
  <2>3. SlotOK(q)
    BY <2>2 DEF SlotOK, Delivery
  <2> QED BY <1>5, <1>i, <2>q, <2>2, <2>3, StartSlot DEF Outside, Delivery
<1> QED BY <1>3, <1>4, <1>5 DEF BeginHook

LEMMA ReturnsOutside ==
    ASSUME ReqOK, NEW r \in Requests, NEW outcome \in {"ok", "error", "panic"}, Returns(r, outcome),
           req[r].pc \notin {"idle", "done"}
    PROVE  ReqOK' /\ Others(r) /\ rows' = rows /\ lost' = lost /\ req'[r].pc \in {"record", "done"}
<1>1. outcome \in Outcomes
  BY DEF Outcomes
<1> QED BY <1>1, ReturnsTyped DEF Others

LEMMA MovesOutside ==
    ASSUME ReqOK, NEW r \in Requests, NEW p \in {"dropHook", "dropTask"}, req' = [req EXCEPT ![r].pc = p]
    PROVE  ReqOK' /\ Others(r) /\ req'[r].pc = p /\ req'[r].task = req[r].task
<1>q. PICK q : q = [req[r] EXCEPT !.pc = p]
  OBVIOUS
<1>1. req' = [req EXCEPT ![r] = q]
  BY <1>q DEF ReqOK
<1>2. q \in Slot /\ q.pc = p /\ q.task = req[r].task
  BY <1>q DEF ReqOK, SlotOK, Slot, PCs
<1>3. SlotOK(q)
  BY <1>2 DEF SlotOK, Delivery
<1> QED BY <1>1, <1>2, <1>3, SlotChanges DEF Others

LEMMA CreateWebhookSlot ==
    ASSUME ReqOK, HooksOK, SetsOK, NEW r \in Requests, CreateWebhook(r)
    PROVE  Outside(r) /\ HooksOK' /\ rows' = rows /\ SetsOK'
<1>1. PICK outcome \in {"ok", "error", "panic"} : Returns(r, outcome)
  BY DEF CreateWebhook
<1>2. Outside(r) /\ rows' = rows /\ lost' = lost
  BY <1>1, ReturnsOutside DEF Outside, Delivery, CreateWebhook
<1>3. /\ req[r].hook \in HookIds /\ req[r].key \in Secrets /\ req[r].task \in Tasks
      /\ req[r].user \in Users \cup {NoOne}
  BY DEF ReqOK, SlotOK, Slot, CreateWebhook
<1>4. HooksOK'
  <2>1. CASE hooks' = hooks
    BY <2>1 DEF HooksOK
  <2>2. CASE hooks' = Insert(hooks, req[r].hook,
                             [owner |-> req[r].user, secret |-> req[r].key, task |-> req[r].task])
    <3>w. PICK w : w = [owner |-> req[r].user, secret |-> req[r].key, task |-> req[r].task]
      OBVIOUS
    <3>1. w \in HookRow
      BY <1>3, <3>w DEF HookRow
    <3>2. hooks' = Insert(hooks, req[r].hook, w)
      BY <2>2, <3>w
    <3>3. DOMAIN hooks' = DOMAIN hooks \cup {req[r].hook}
          /\ \A h \in DOMAIN hooks' : hooks'[h] = IF h = req[r].hook THEN w ELSE hooks[h]
      BY <3>2 DEF Insert
    <3> QED BY <1>3, <3>1, <3>3 DEF HooksOK
  <2> QED BY <2>1, <2>2 DEF CreateWebhook
<1>5. SetsOK'
  BY <1>2, <1>3 DEF SetsOK, CreateWebhook
<1> QED BY <1>2, <1>4, <1>5

LEMMA GetWebhookSlot ==
    ASSUME ReqOK, HooksOK, SetsOK, NEW r \in Requests, GetWebhook(r)
    PROVE  Outside(r) /\ rows' = rows /\ SetsOK'
<1>1. CASE Returns(r, "error")
  BY <1>1, ReturnsOutside DEF GetWebhook, Outside, Delivery, SetsOK
<1>2. CASE req' = [req EXCEPT ![r].pc = "dropHook"] /\ UNCHANGED <<rows, lost>>
  BY <1>2, MovesOutside DEF GetWebhook, Outside, Delivery, SetsOK
<1> QED BY <1>1, <1>2 DEF GetWebhook

LEMMA DropHookSlot ==
    ASSUME ReqOK, HooksOK, SetsOK, NEW r \in Requests, DropHook(r)
    PROVE  /\ Outside(r) /\ HooksOK' /\ rows' = rows /\ SetsOK'
           /\ DOMAIN hooks' \subseteq DOMAIN hooks /\ \A h \in DOMAIN hooks' : hooks'[h] = hooks[h]
<1>1. PICK outcome \in {"ok", "error", "panic"} : Returns(r, outcome)
  BY DEF DropHook
<1>2. Outside(r) /\ rows' = rows /\ lost' = lost
  BY <1>1, ReturnsOutside DEF Outside, Delivery, DropHook
<1>3. DOMAIN hooks' \subseteq DOMAIN hooks /\ \A h \in DOMAIN hooks' : hooks'[h] = hooks[h]
  BY DEF DropHook, Without
<1>4. SetsOK'
  BY <1>2 DEF SetsOK, DropHook
<1> QED BY <1>2, <1>3, <1>4 DEF HooksOK

LEMMA ListTaskWebhooksSlot ==
    ASSUME ReqOK, HooksOK, SetsOK, NEW r \in Requests, ListTaskWebhooks(r)
    PROVE  /\ ReqOK' /\ Others(r) /\ rows' = rows /\ SetsOK' /\ req[r].pc = "listHooks"
           /\ req'[r].pc \in {"record", "done", "dropTask"}
           /\ req'[r].pc = "dropTask" => req'[r].task = req[r].task /\ HooksOf(req[r].task) \subseteq late'
           /\ late \subseteq late'
<1>0. HooksOf(req[r].task) \subseteq HookIds
  BY DEF HooksOf, HooksOK
<1>1. CASE Returns(r, "error")
  <2>1. ReqOK' /\ Others(r) /\ rows' = rows /\ lost' = lost /\ req'[r].pc \in {"record", "done"}
    BY <1>1, ReturnsOutside DEF ListTaskWebhooks
  <2> QED BY <1>0, <2>1 DEF ListTaskWebhooks, SetsOK
<1>2. CASE req' = [req EXCEPT ![r].pc = "dropTask"] /\ UNCHANGED <<rows, lost>>
  <2>1. ReqOK' /\ Others(r) /\ req'[r].pc = "dropTask" /\ req'[r].task = req[r].task
    BY <1>2, MovesOutside
  <2>2. HooksOf(req[r].task) \subseteq late' /\ late \subseteq late' /\ late' \subseteq late \cup HookIds
    <3>1. CASE HooksOf(req[r].task) # {} /\ Returns(r, "error")
      <4>1. req'[r].pc # "dropTask"
        BY <3>1, ReturnsOutside DEF ListTaskWebhooks
      <4> QED BY <2>1, <4>1
    <3> QED BY <1>0, <3>1 DEF ListTaskWebhooks
  <2>3. SetsOK'
    BY <1>2, <2>2 DEF ListTaskWebhooks, SetsOK
  <2> QED BY <1>2, <2>1, <2>2, <2>3 DEF ListTaskWebhooks
<1> QED BY <1>1, <1>2 DEF ListTaskWebhooks

LEMMA DropTaskSlot ==
    ASSUME ReqOK, SetsOK, NEW r \in Requests, DropTask(r)
    PROVE  /\ ReqOK' /\ Others(r) /\ rows' = rows /\ SetsOK' /\ req[r].pc = "dropTask"
           /\ req'[r].pc \in {"record", "done"}
           /\ tasks' = tasks \/ tasks' = tasks \ {req[r].task}
<1>1. PICK outcome \in {"ok", "error", "panic"} : Returns(r, outcome)
  BY DEF DropTask
<1>2. ReqOK' /\ Others(r) /\ rows' = rows /\ lost' = lost /\ req'[r].pc \in {"record", "done"}
  BY <1>1, ReturnsOutside DEF DropTask
<1>3. SetsOK'
  BY <1>2 DEF SetsOK, DropTask
<1> QED BY <1>2, <1>3 DEF DropTask

LEMMA BeginHandlerSlot ==
    ASSUME ReqOK, NEW r \in Requests, BeginHandler(r)
    PROVE  Outside(r)
<1>i. PICK i : i = Idle
  OBVIOUS
<1>1. PICK h \in Served \ HookHandlers, u \in Callers :
         Start(r, [Idle EXCEPT !.pc = "serve", !.handler = h,
                               !.user = IF h \in LoginHandlers THEN NoOne ELSE u])
  BY DEF BeginHandler
<1>v. PICK v : v = IF h \in LoginHandlers THEN NoOne ELSE u
  OBVIOUS
<1>2. h \in Handlers /\ v \in Users \cup {NoOne}
  BY <1>v, ServedAssumption
<1>q. PICK q : q = [i EXCEPT !.pc = "serve", !.handler = h, !.user = v]
  OBVIOUS
<1>3. q \in Slot /\ q.pc = "serve"
  BY <1>i, <1>q, <1>2, IdleOK DEF SlotOK, Slot, PCs
<1>4. SlotOK(q)
  BY <1>3 DEF SlotOK, Delivery
<1>5. Start(r, q)
  BY <1>1, <1>i, <1>q, <1>v
<1> QED BY <1>3, <1>4, <1>5, StartSlot DEF Outside, Delivery

LEMMA ServeSlot ==
    ASSUME ReqOK, NEW r \in Requests, Serve(r)
    PROVE  Outside(r) /\ rows' = rows /\ lost' = lost
<1>1. PICK outcome \in {"ok", "error", "panic"} : Returns(r, outcome)
  BY DEF Serve
<1> QED BY <1>1, ReturnsOutside DEF Outside, Delivery, Serve

LEMMA ServeLoginSlot ==
    ASSUME ReqOK, NEW r \in Requests, ServeLogin(r)
    PROVE  Outside(r)
<1>1. req[r].pc = "serve" /\ req[r] \in Slot
  BY DEF ServeLogin, ReqOK, SlotOK
<1>2. ASSUME NEW u \in Callers \ {NoOne}, NEW outcome \in {"ok", "error"},
             req' = [req EXCEPT ![r].user = u, ![r].outcome = outcome, ![r].pc = "record"]
      PROVE  Outside(r)
  <2>q. PICK q : q = [req[r] EXCEPT !.user = u, !.outcome = outcome, !.pc = "record"]
    OBVIOUS
  <2>1. req' = [req EXCEPT ![r] = q]
    BY <1>2, <2>q DEF ReqOK
  <2>2. u \in Users
    BY ServedAssumption
  <2>3. q \in Slot /\ q.pc = "record"
    BY <1>1, <2>q, <2>2 DEF Slot, PCs, Outcomes
  <2>4. SlotOK(q)
    BY <2>3 DEF SlotOK, Delivery
  <2> QED BY <1>1, <2>1, <2>3, <2>4, SlotChanges DEF Outside, Others, Delivery
<1>3. CASE req' = [req EXCEPT ![r].outcome = "unbound", ![r].pc = "record"]
  <2>q. PICK q : q = [req[r] EXCEPT !.outcome = "unbound", !.pc = "record"]
    OBVIOUS
  <2>1. req' = [req EXCEPT ![r] = q]
    BY <1>3, <2>q DEF ReqOK
  <2>2. q \in Slot /\ q.pc = "record"
    BY <1>1, <2>q DEF Slot, PCs, Outcomes
  <2>3. SlotOK(q)
    BY <2>2 DEF SlotOK, Delivery
  <2> QED BY <1>1, <2>1, <2>2, <2>3, SlotChanges DEF Outside, Others, Delivery
<1> QED BY <1>2, <1>3 DEF ServeLogin

LEMMA RecordSlot ==
    ASSUME ReqOK, RowsOK, lost \subseteq Requests, NEW r \in Requests, Record(r)
    PROVE  Outside(r) /\ RowsOK' /\ lost' \subseteq Requests
<1>1. req[r].pc = "record" /\ req[r].outcome \in Outcomes /\ req[r].handler \in Handlers \cup {NoHandler}
  BY DEF Record, ReqOK, SlotOK, Slot
<1>2. PICK answer \in {"ok", "error"} : req' = [req EXCEPT ![r] = Done(r, req[r].outcome, answer)]
  BY DEF Record
<1>q. PICK q : q = Done(r, req[r].outcome, answer)
  OBVIOUS
<1>3. answer \in Answers
  BY DEF Answers
<1>4. SlotOK(q) /\ q.pc = "done"
  BY <1>1, <1>3, <1>q, DoneOK
<1>5. Outside(r)
  BY <1>1, <1>2, <1>q, <1>4, SlotChanges DEF Outside, Others, Delivery
<1>6. RowsOK' /\ lost' \subseteq Requests
  <2>1. CASE UNCHANGED <<rows, lost>>
    BY <2>1 DEF RowsOK
  <2>2. ASSUME NEW status \in {"success", "error"},
               CreateAudit(r, [InitialiseAuditLog(r, req[r].user, req[r].handler) EXCEPT !.status = status])
        PROVE  RowsOK' /\ lost' \subseteq Requests
    BY <1>1, <2>2, RowTyped, CreateAuditTyped
  <2> QED BY <2>1, <2>2 DEF Record
<1> QED BY <1>5, <1>6

LEMMA CrashSlots ==
    ASSUME ReqOK, Crash
    PROVE  /\ ReqOK'
           /\ \A s \in Requests : \/ req'[s] = req[s] /\ req[s].pc \in {"idle", "done"}
                                  \/ /\ req'[s].pc = "done" /\ req'[s].outcome = req[s].outcome
                                     /\ req'[s].answer = "none"
<1>1. ASSUME NEW s \in Requests
      PROVE  /\ SlotOK(req'[s])
             /\ \/ req'[s] = req[s] /\ req[s].pc \in {"idle", "done"}
                \/ req'[s].pc = "done" /\ req'[s].outcome = req[s].outcome /\ req'[s].answer = "none"
  <2>1. CASE s \notin Alive
    BY <2>1 DEF Crash, Alive, ReqOK
  <2>2. CASE s \in Alive
    <3>q. PICK q : q = Done(s, req[s].outcome, "none")
      OBVIOUS
    <3>1. req[s].outcome \in Outcomes /\ "none" \in Answers
      BY DEF ReqOK, SlotOK, Slot, Answers
    <3>2. SlotOK(q) /\ q.pc = "done" /\ q.outcome = req[s].outcome /\ q.answer = "none"
      BY <3>q, <3>1, DoneOK
    <3>3. req'[s] = q
      BY <2>2, <3>q DEF Crash
    <3> QED BY <3>2, <3>3
  <2> QED BY <2>1, <2>2
<1>2. DOMAIN req' = Requests /\ req' = [s \in Requests |-> req'[s]]
  BY DEF Crash
<1> QED BY <1>1, <1>2 DEF ReqOK

-----------------------------------------------------------------------------
(* A step of anything but a delivery: a request that it changes is in no delivery, or ends. *)
Elsewhere ==
    /\ runs' = runs
    /\ \A s \in Requests :
          \/ req'[s] = req[s]
          \/ req[s].pc \notin Delivery /\ req'[s].pc \notin Delivery
          \/ req'[s].pc = "done" /\ req'[s].outcome = req[s].outcome /\ req'[s].answer = "none"

(* A step that takes no task away, adds no webhook, and lets no request begin to delete a task. *)
Settled ==
    /\ DOMAIN hooks' \subseteq DOMAIN hooks /\ \A h \in DOMAIN hooks' : hooks'[h] = hooks[h]
    /\ tasks \subseteq tasks' /\ late' = late
    /\ \A s \in Requests : req'[s].pc = "dropTask" => req'[s] = req[s]

DeliveryStep(r) == \/ Deliver(r) \/ FindHook(r) \/ FindOwner(r) \/ GetUser(r) \/ GetUserRoles(r)
                   \/ RecordFirst(r) \/ Launch(r)

LEMMA OutsideShape ==
    ASSUME NEW r \in Requests, Outside(r)
    PROVE  /\ runs' = runs => Elsewhere
           /\ hooks' = hooks /\ tasks' = tasks /\ late' = late => Settled
  BY DEF Outside, Others, Elsewhere, Settled

LEMMA DeliveryTyped ==
    ASSUME TypeInv, NEW r \in Requests, DeliveryStep(r)
    PROVE  TypeInv' /\ Watch /\ Settled
<1>0. ReqOK /\ HooksOK /\ RowsOK /\ SetsOK /\ lost \subseteq Requests
  BY DEF TypeInv, SetsOK
<1>1. CASE Deliver(r)
  <2>1. ReqOK' /\ Others(r) /\ req'[r].pc = "findHook"
    BY <1>0, <1>1, DeliverSlot
  <2>2. HooksOK' /\ RowsOK' /\ SetsOK' /\ Watch /\ Watched'
    BY <1>0, <1>1, WatchedAgain DEF Deliver, HooksOK, RowsOK, SetsOK
  <2> QED BY <2>1, <2>2, <1>1 DEF TypeInv, Settled, Others, Deliver
<1>2. CASE FindHook(r)
  <2>1. ReqOK' /\ Others(r) /\ req'[r].pc \in {"findOwner", "done"}
    BY <1>0, <1>2, FindHookSlot DEF Found
  <2>2. HooksOK' /\ RowsOK' /\ SetsOK' /\ Watch /\ Watched'
    BY <1>0, <1>2, WatchedAgain DEF FindHook, HooksOK, RowsOK, SetsOK
  <2> QED BY <2>1, <2>2, <1>2 DEF TypeInv, Settled, Others, FindHook
<1>3. CASE FindOwner(r)
  <2>1. ReqOK' /\ Others(r) /\ req'[r].pc = "getUser"
    BY <1>0, <1>3, FindOwnerSlot
  <2>2. HooksOK' /\ RowsOK' /\ SetsOK' /\ Watch /\ Watched'
    BY <1>0, <1>3, WatchedAgain DEF FindOwner, HooksOK, RowsOK, SetsOK
  <2> QED BY <2>1, <2>2, <1>3 DEF TypeInv, Settled, Others, FindOwner
<1>4. CASE GetUser(r)
  <2>1. ReqOK' /\ Others(r) /\ req'[r].pc \in {"getRoles", "done"}
    BY <1>0, <1>4, GetUserSlot
  <2>2. HooksOK' /\ RowsOK' /\ SetsOK' /\ Watch /\ Watched'
    BY <1>0, <1>4, WatchedAgain DEF GetUser, HooksOK, RowsOK, SetsOK
  <2> QED BY <2>1, <2>2, <1>4 DEF TypeInv, Settled, Others, GetUser
<1>5. CASE GetUserRoles(r)
  <2>1. ReqOK' /\ Others(r) /\ req'[r].pc \in {"first", "done"}
    BY <1>0, <1>5, GetUserRolesSlot
  <2>2. HooksOK' /\ RowsOK' /\ SetsOK' /\ Watch /\ Watched'
    BY <1>0, <1>5, WatchedAgain DEF GetUserRoles, HooksOK, RowsOK, SetsOK
  <2> QED BY <2>1, <2>2, <1>5 DEF TypeInv, Settled, Others, GetUserRoles
<1>6. CASE RecordFirst(r)
  <2>1. ReqOK' /\ Others(r) /\ req'[r].pc = "launch" /\ RowsOK' /\ lost' \subseteq Requests
    BY <1>0, <1>6, RecordFirstSlot
  <2>2. HooksOK' /\ SetsOK' /\ Watch /\ Watched'
    BY <1>0, <1>6, <2>1, WatchedAgain DEF RecordFirst, HooksOK, SetsOK
  <2> QED BY <2>1, <2>2, <1>6 DEF TypeInv, Settled, Others, RecordFirst
<1>7. CASE Launch(r)
  <2>1. /\ ReqOK' /\ Others(r) /\ rows' = rows /\ lost' = lost
        /\ req[r].pc = "launch" /\ req'[r].pc \in {"record", "done"}
        /\ \/ runs' = runs
           \/ runs' = runs \cup {[by |-> r, task |-> req[r].task, owner |-> req[r].user]}
        /\ effects' \in {effects, effects \cup {r}}
    BY <1>0, <1>7, LaunchSlot
  <2>2. req[r].task \in Tasks /\ req[r].user \in Users
    BY <1>0, <2>1 DEF ReqOK, SlotOK
  <2>3. HooksOK' /\ RowsOK' /\ SetsOK' /\ Watch /\ Watched'
    BY <1>0, <1>7, <2>1, <2>2, WatchedAgain DEF Launch, HooksOK, RowsOK, SetsOK
  <2> QED BY <2>1, <2>3, <1>7 DEF TypeInv, Settled, Others, Launch
<1> QED BY <1>1, <1>2, <1>3, <1>4, <1>5, <1>6, <1>7 DEF DeliveryStep

LEMMA AuditTyped ==
    ASSUME TypeInv, AuditSteps, UNCHANGED <<hooks, tasks, users, grants, runs, late>>, Watch
    PROVE  TypeInv' /\ Elsewhere /\ Settled
<1>0. ReqOK /\ HooksOK /\ RowsOK /\ SetsOK /\ lost \subseteq Requests
  BY DEF TypeInv, SetsOK
<1>w. Watched' /\ HooksOK'
  BY <1>0, WatchedAgain DEF HooksOK
<1>1. ASSUME NEW r \in Requests, BeginHandler(r)
      PROVE  TypeInv' /\ Elsewhere /\ Settled
  <2>1. Outside(r)
    BY <1>0, <1>1, BeginHandlerSlot
  <2>2. RowsOK' /\ SetsOK'
    BY <1>0, <1>1 DEF BeginHandler, RowsOK, SetsOK
  <2> QED BY <1>w, <2>1, <2>2, OutsideShape DEF TypeInv, Outside
<1>2. ASSUME NEW r \in Requests, Serve(r)
      PROVE  TypeInv' /\ Elsewhere /\ Settled
  <2>1. Outside(r) /\ rows' = rows /\ lost' = lost
    BY <1>0, <1>2, ServeSlot
  <2>2. RowsOK' /\ SetsOK'
    BY <1>0, <1>2, <2>1 DEF Serve, RowsOK, SetsOK
  <2> QED BY <1>w, <2>1, <2>2, OutsideShape DEF TypeInv, Outside
<1>3. ASSUME NEW r \in Requests, ServeLogin(r)
      PROVE  TypeInv' /\ Elsewhere /\ Settled
  <2>1. Outside(r)
    BY <1>0, <1>3, ServeLoginSlot
  <2>2. RowsOK' /\ SetsOK'
    BY <1>0, <1>3 DEF ServeLogin, RowsOK, SetsOK
  <2> QED BY <1>w, <2>1, <2>2, OutsideShape DEF TypeInv, Outside
<1>4. ASSUME NEW r \in Requests, Record(r)
      PROVE  TypeInv' /\ Elsewhere /\ Settled
  <2>1. Outside(r) /\ RowsOK' /\ lost' \subseteq Requests
    BY <1>0, <1>4, RecordSlot
  <2>2. SetsOK'
    BY <1>0, <1>4, <2>1 DEF Record, SetsOK
  <2> QED BY <1>w, <2>1, <2>2, OutsideShape DEF TypeInv, Outside
<1>5. CASE Crash
  <2>1. /\ ReqOK'
        /\ \A s \in Requests : \/ req'[s] = req[s] /\ req[s].pc \in {"idle", "done"}
                               \/ /\ req'[s].pc = "done" /\ req'[s].outcome = req[s].outcome
                                  /\ req'[s].answer = "none"
    BY <1>0, <1>5, CrashSlots
  <2>2. RowsOK' /\ SetsOK'
    BY <1>0, <1>5 DEF Crash, Alive, RowsOK, SetsOK
  <2> QED BY <1>w, <2>1, <2>2 DEF TypeInv, Elsewhere, Settled
<1> QED BY <1>1, <1>2, <1>3, <1>4, <1>5 DEF AuditSteps

LEMMA HandlersTyped ==
    ASSUME TypeInv, NEW r \in Requests,
           BeginHook(r) \/ CreateWebhook(r) \/ GetWebhook(r) \/ DropHook(r) \/ ListTaskWebhooks(r) \/ DropTask(r)
    PROVE  /\ TypeInv' /\ Elsewhere /\ Watch
           /\ Settled \/ CreateWebhook(r) \/ ListTaskWebhooks(r) \/ DropTask(r)
<1>0. ReqOK /\ HooksOK /\ RowsOK /\ SetsOK
  BY DEF TypeInv
<1>1. CASE BeginHook(r)
  <2>1. Outside(r)
    BY <1>0, <1>1, BeginHookSlot
  <2>2. HooksOK' /\ RowsOK' /\ SetsOK' /\ Watch /\ Watched'
    BY <1>0, <1>1, WatchedAgain DEF BeginHook, HooksOK, RowsOK, SetsOK
  <2> QED BY <1>1, <2>1, <2>2, OutsideShape DEF TypeInv, Outside, BeginHook
<1>2. CASE CreateWebhook(r)
  <2>1. Outside(r) /\ HooksOK' /\ rows' = rows /\ SetsOK'
    BY <1>0, <1>2, CreateWebhookSlot
  <2>2. RowsOK' /\ Watch /\ Watched' /\ runs' = runs
    BY <1>0, <1>2, <2>1, WatchedAgain DEF CreateWebhook, RowsOK
  <2> QED BY <1>2, <2>1, <2>2, OutsideShape DEF TypeInv, Outside
<1>3. CASE GetWebhook(r)
  <2>1. Outside(r) /\ rows' = rows /\ SetsOK'
    BY <1>0, <1>3, GetWebhookSlot
  <2>2. HooksOK' /\ RowsOK' /\ Watch /\ Watched'
    BY <1>0, <1>3, <2>1, WatchedAgain DEF GetWebhook, HooksOK, RowsOK
  <2> QED BY <1>3, <2>1, <2>2, OutsideShape DEF TypeInv, Outside, GetWebhook
<1>4. CASE DropHook(r)
  <2>1. /\ Outside(r) /\ HooksOK' /\ rows' = rows /\ SetsOK'
        /\ DOMAIN hooks' \subseteq DOMAIN hooks /\ \A h \in DOMAIN hooks' : hooks'[h] = hooks[h]
    BY <1>0, <1>4, DropHookSlot
  <2>2. RowsOK' /\ Watch /\ Watched' /\ runs' = runs /\ tasks' = tasks /\ late' = late
    BY <1>0, <1>4, <2>1, WatchedAgain DEF DropHook, RowsOK
  <2> QED BY <1>4, <2>1, <2>2, OutsideShape DEF TypeInv, Outside, Others, Settled
<1>5. CASE ListTaskWebhooks(r)
  <2>1. /\ ReqOK' /\ Others(r) /\ rows' = rows /\ SetsOK' /\ req[r].pc = "listHooks"
        /\ req'[r].pc \in {"record", "done", "dropTask"}
    BY <1>0, <1>5, ListTaskWebhooksSlot
  <2>2. HooksOK' /\ RowsOK' /\ Watch /\ Watched' /\ runs' = runs
    BY <1>0, <1>5, <2>1, WatchedAgain DEF ListTaskWebhooks, HooksOK, RowsOK
  <2> QED BY <1>5, <2>1, <2>2 DEF TypeInv, Others, Elsewhere, Delivery
<1>6. CASE DropTask(r)
  <2>1. /\ ReqOK' /\ Others(r) /\ rows' = rows /\ SetsOK' /\ req[r].pc = "dropTask"
        /\ req'[r].pc \in {"record", "done"}
    BY <1>0, <1>6, DropTaskSlot
  <2>2. HooksOK' /\ RowsOK' /\ Watch /\ Watched' /\ runs' = runs
    BY <1>0, <1>6, <2>1, WatchedAgain DEF DropTask, HooksOK, RowsOK
  <2> QED BY <1>6, <2>1, <2>2 DEF TypeInv, Others, Elsewhere, Delivery
<1> QED BY <1>1, <1>2, <1>3, <1>4, <1>5, <1>6

LEMMA ChangeTyped ==
    ASSUME TypeInv, Change
    PROVE  TypeInv' /\ Elsewhere /\ Settled /\ Watch
<1>0. ReqOK /\ HooksOK /\ RowsOK /\ SetsOK
  BY DEF TypeInv
<1>1. DOMAIN users' \subseteq Users /\ users' \in [DOMAIN users' -> SUBSET Groups] /\ DOMAIN grants' = Groups
  <2>1. ASSUME NEW u \in DOMAIN users, users' = Without(users, u)
        PROVE  DOMAIN users' \subseteq Users /\ users' \in [DOMAIN users' -> SUBSET Groups]
    BY <1>0, <2>1 DEF SetsOK, Without
  <2>2. ASSUME NEW u \in DOMAIN users, NEW gs \in SUBSET Groups, users' = [users EXCEPT ![u] = gs]
        PROVE  DOMAIN users' \subseteq Users /\ users' \in [DOMAIN users' -> SUBSET Groups]
    BY <1>0, <2>2 DEF SetsOK
  <2>3. ASSUME users' = users
        PROVE  DOMAIN users' \subseteq Users /\ users' \in [DOMAIN users' -> SUBSET Groups]
    BY <1>0, <2>3 DEF SetsOK
  <2>4. DOMAIN grants' = Groups
    BY <1>0 DEF Change, SetsOK
  <2> QED BY <2>1, <2>2, <2>3, <2>4 DEF Change
<1>2. tasks \subseteq tasks' /\ tasks' \subseteq Tasks
  BY <1>0 DEF Change, SetsOK
<1>3. ReqOK' /\ HooksOK' /\ RowsOK'
  BY <1>0 DEF Change, ReqOK, HooksOK, RowsOK
<1>4. SetsOK'
  BY <1>0, <1>1, <1>2 DEF Change, SetsOK
<1>5. Watch /\ Watched'
  BY WatchedAgain DEF Change
<1>6. Elsewhere /\ Settled
  BY <1>2 DEF Change, Elsewhere, Settled
<1> QED BY <1>3, <1>4, <1>5, <1>6 DEF TypeInv

LEMMA NextShape ==
    ASSUME TypeInv, Next
    PROVE  /\ TypeInv' /\ Watch
           /\ Elsewhere \/ \E r \in Requests : DeliveryStep(r)
           /\ Settled \/ \E r \in Requests : CreateWebhook(r) \/ ListTaskWebhooks(r) \/ DropTask(r)
<1>1. CASE AuditSteps /\ UNCHANGED <<hooks, tasks, users, grants, runs, late>> /\ Watch
  BY <1>1, AuditTyped
<1>2. ASSUME NEW r \in Requests, DeliveryStep(r)
      PROVE  TypeInv' /\ Watch /\ Settled
  BY <1>2, DeliveryTyped
<1>3. ASSUME NEW r \in Requests,
             BeginHook(r) \/ CreateWebhook(r) \/ GetWebhook(r) \/ DropHook(r) \/ ListTaskWebhooks(r) \/ DropTask(r)
      PROVE  /\ TypeInv' /\ Elsewhere /\ Watch
             /\ Settled \/ CreateWebhook(r) \/ ListTaskWebhooks(r) \/ DropTask(r)
  BY <1>3, HandlersTyped
<1>4. CASE Change
  BY <1>4, ChangeTyped
<1> QED BY <1>1, <1>2, <1>3, <1>4 DEF Next, DeliveryStep

LEMMA InitTyped == Init => TypeInv
<1> SUFFICES ASSUME Init PROVE TypeInv
  OBVIOUS
<1>1. ReqOK
  BY IdleOK DEF Init, InitAudit, ReqOK
<1>2. HooksOK /\ SetsOK
  BY HooksAssumption DEF Init, InitAudit, HooksOK, SetsOK
<1>3. RowsOK
  BY DEF Init, InitAudit, RowsOK
<1>4. Watched
  BY DEF Init, InitAudit, Watched, Delivering, Idle
<1> QED BY <1>1, <1>2, <1>3, <1>4 DEF TypeInv

LEMMA TypeInvInductive == TypeInv /\ [Next]_vars => TypeInv'
<1> SUFFICES ASSUME TypeInv, [Next]_vars PROVE TypeInv'
  OBVIOUS
<1>1. CASE Next
  BY <1>1, NextShape
<1>2. CASE UNCHANGED vars
  BY <1>2 DEF vars, TypeInv, ReqOK, HooksOK, RowsOK, SetsOK, Watched, Delivering
<1> QED BY <1>1, <1>2

(* Whatever the users, webhooks and tasks are, the tables, the log and the variables of
   every request of webhooks.go, audit.go and the other handlers keep their types. *)
THEOREM TypeCorrect == Spec => []TypeOK
<1>1. Spec => []TypeInv
  BY InitTyped, TypeInvInductive, PTL DEF Spec
<1> QED BY <1>1, TypeInvImpliesTypeOK, PTL

-----------------------------------------------------------------------------
(* A request about to delete a task has seen that no webhook uses it: what has come since
   came late. *)
OrphanInv ==
    /\ OrphanHooksCameLate
    /\ \A r \in Requests : req[r].pc = "dropTask" => HooksOf(req[r].task) \subseteq late

LEMMA SettledKeepsOrphans == ASSUME OrphanInv, Settled PROVE OrphanInv'
<1>1. \A t : HooksOf(t)' \subseteq HooksOf(t)
  BY DEF Settled, HooksOf
<1>2. OrphanHooksCameLate'
  BY DEF Settled, OrphanInv, OrphanHooksCameLate
<1>3. ASSUME NEW r \in Requests, req'[r].pc = "dropTask" PROVE HooksOf(req[r].task)' \subseteq late'
  <2>1. req'[r] = req[r] /\ late' = late
    BY <1>3 DEF Settled
  <2>2. HooksOf(req[r].task) \subseteq late
    BY <1>3, <2>1 DEF OrphanInv
  <2> QED BY <2>1, <2>2 DEF Settled, HooksOf
<1> QED BY <1>2, <1>3 DEF OrphanInv

LEMMA OrphanInvInductive == TypeInv /\ OrphanInv /\ [Next]_vars => OrphanInv'
<1> SUFFICES ASSUME TypeInv, OrphanInv, [Next]_vars PROVE OrphanInv'
  OBVIOUS
<1>0. ReqOK /\ HooksOK /\ SetsOK
  BY DEF TypeInv
<1>1. CASE UNCHANGED vars
  BY <1>1 DEF vars, OrphanInv, OrphanHooksCameLate, HooksOf
<1>2. CASE Settled
  BY <1>2, SettledKeepsOrphans
<1>3. ASSUME NEW r \in Requests, CreateWebhook(r) PROVE OrphanInv'
  <2>1. Outside(r)
    BY <1>0, <1>3, CreateWebhookSlot
  <2>2. CASE UNCHANGED <<hooks, late>>
    BY <2>1, <2>2, <1>3, SettledKeepsOrphans, OutsideShape DEF CreateWebhook
  <2>3. CASE /\ req[r].hook \notin DOMAIN hooks
             /\ hooks' = Insert(hooks, req[r].hook,
                                [owner |-> req[r].user, secret |-> req[r].key, task |-> req[r].task])
             /\ late' = IF Going(req[r].task) THEN late \cup {req[r].hook} ELSE late \ {req[r].hook}
    <3>1. /\ DOMAIN hooks' = DOMAIN hooks \cup {req[r].hook}
          /\ hooks'[req[r].hook].task = req[r].task
          /\ \A h \in DOMAIN hooks : hooks'[h] = hooks[h]
          /\ tasks' = tasks
      BY <2>3, <1>3 DEF Insert, CreateWebhook
    <3>2. ASSUME NEW h \in DOMAIN hooks', hooks'[h].task \notin tasks' PROVE h \in late'
      <4>1. CASE h = req[r].hook
        BY <2>3, <3>1, <3>2, <4>1 DEF Going
      <4>2. CASE h # req[r].hook
        BY <2>3, <3>1, <3>2, <4>2 DEF OrphanInv, OrphanHooksCameLate
      <4> QED BY <4>1, <4>2
    <3>3. ASSUME NEW s \in Requests, req'[s].pc = "dropTask", NEW h \in DOMAIN hooks', hooks'[h].task = req'[s].task
          PROVE  h \in late'
      <4>1. req'[s] = req[s]
        BY <2>1, <3>3 DEF Outside, Others
      <4>2. CASE h = req[r].hook
        BY <2>3, <3>1, <3>3, <4>1, <4>2 DEF Going
      <4>3. CASE h # req[r].hook
        BY <2>3, <3>1, <3>3, <4>1, <4>3 DEF OrphanInv, HooksOf
      <4> QED BY <4>2, <4>3
    <3> QED BY <3>2, <3>3 DEF OrphanInv, OrphanHooksCameLate, HooksOf
  <2> QED BY <2>2, <2>3, <1>3 DEF CreateWebhook
<1>4. ASSUME NEW r \in Requests, ListTaskWebhooks(r) PROVE OrphanInv'
  <2>1. /\ Others(r) /\ late \subseteq late' /\ hooks' = hooks /\ tasks' = tasks
        /\ req'[r].pc = "dropTask" => req'[r].task = req[r].task /\ HooksOf(req[r].task) \subseteq late'
    BY <1>0, <1>4, ListTaskWebhooksSlot DEF ListTaskWebhooks
  <2>2. \A t : HooksOf(t)' = HooksOf(t)
    BY <2>1 DEF HooksOf
  <2>3. ASSUME NEW s \in Requests, req'[s].pc = "dropTask" PROVE HooksOf(req'[s].task) \subseteq late'
    BY <2>1, <2>3 DEF Others, OrphanInv
  <2>4. OrphanHooksCameLate'
    BY <2>1 DEF OrphanInv, OrphanHooksCameLate
  <2> QED BY <2>1, <2>3, <2>4 DEF OrphanInv, HooksOf
<1>5. ASSUME NEW r \in Requests, DropTask(r) PROVE OrphanInv'
  <2>1. /\ Others(r) /\ late' = late /\ hooks' = hooks
        /\ req[r].pc = "dropTask" /\ req'[r].pc # "dropTask"
        /\ tasks' = tasks \/ tasks' = tasks \ {req[r].task}
    BY <1>0, <1>5, DropTaskSlot DEF DropTask
  <2>2. HooksOf(req[r].task) \subseteq late
    BY <2>1 DEF OrphanInv
  <2>3. OrphanHooksCameLate'
    BY <2>1, <2>2 DEF OrphanInv, OrphanHooksCameLate, HooksOf
  <2>4. \A s \in Requests : req'[s].pc = "dropTask" => HooksOf(req'[s].task) \subseteq late'
    BY <2>1 DEF Others, OrphanInv
  <2> QED BY <2>1, <2>3, <2>4 DEF OrphanInv, HooksOf
<1> QED BY <1>1, <1>2, <1>3, <1>4, <1>5, NextShape

(* However requests interleave, a webhook whose task is gone was created while the task was
   gone or going, or was overlooked by the query whose error task_svc.go:197 drops. *)
THEOREM OrphansCameLate == Spec => []OrphanHooksCameLate
<1>1. Init => OrphanInv
  BY HooksAssumption DEF Init, InitAudit, OrphanInv, OrphanHooksCameLate, Idle
<1>2. OrphanInv => OrphanHooksCameLate
  BY DEF OrphanInv
<1> QED BY <1>1, <1>2, InitTyped, TypeInvInductive, OrphanInvInductive, PTL DEF Spec

-----------------------------------------------------------------------------
(* What a delivery has found out so far was so at a moment since it arrived: the groups of
   the owner at one, what they are granted at another. *)
InGroups(y, u, gs) == u \in DOMAIN y.users /\ y.users[u] = gs

Allowed(r) ==
    \E y, z \in moments[r] : req[r].user \in DOMAIN y.users /\ y.users[req[r].user] \cap z.granting # {}

MomentInv(r) ==
    /\ Delivering(r) => Moment(req[r].hook) \in moments[r]
    /\ req[r].pc \in {"findOwner", "getUser", "getRoles", "first", "launch"} =>
          \E x \in moments[r] : Signed(r, x) /\ x.hook.task = req[r].task /\ x.hook.owner = req[r].owner
    /\ req[r].pc = "getUser" =>
          \/ req[r].user = req[r].owner
          \/ req[r].user = NoOne /\ \E y \in moments[r] : req[r].owner \notin DOMAIN y.users
    /\ req[r].pc = "getRoles" => /\ req[r].user = req[r].owner
                                /\ \E y \in moments[r] : InGroups(y, req[r].user, req[r].groups)
    /\ req[r].pc \in {"first", "launch"} => req[r].user = req[r].owner /\ Allowed(r)

MomentsInv == \A r \in Requests : MomentInv(r)

LEMMA MomentsGrow ==
    ASSUME ReqOK, ReqOK', Watch, NEW r \in Requests, req'[r].pc \in Delivery, req'[r].hook = req[r].hook
    PROVE  moments[r] \subseteq moments'[r] /\ Moment(req[r].hook)' \in moments'[r]
                                            /\ (Moment(req[r].hook) \in moments[r] => moments[r] # {})
  BY DEF Watch, Delivering, Delivery

LEMMA MomentFields ==
    ASSUME NEW id
    PROVE  /\ Moment(id).users = users /\ Moment(id).granting = Granting(id)
           /\ id \in DOMAIN hooks => Moment(id).hook = hooks[id]
           /\ id \notin DOMAIN hooks => Moment(id).hook = NoHook
  BY DEF Moment

LEMMA HooksAreHooks == ASSUME HooksOK, NEW id \in DOMAIN hooks PROVE hooks[id] # NoHook
<1>1. hooks[id].secret \in Secrets
  BY DEF HooksOK, HookRow
<1>2. NoHook.secret \notin Secrets
  BY HooksAssumption
<1> QED BY <1>1, <1>2

(* A request that a step leaves alone keeps what it knows. *)
LEMMA MomentKept ==
    ASSUME ReqOK, ReqOK', Watch, NEW r \in Requests, MomentInv(r), req'[r] = req[r]
    PROVE  MomentInv(r)'
<1>1. CASE req[r].pc \in Delivery
  <2>1. moments[r] \subseteq moments'[r] /\ Moment(req[r].hook)' \in moments'[r]
    BY <1>1, MomentsGrow
  <2> QED BY <2>1 DEF MomentInv, Signed, Delivering, Allowed
<1>2. CASE req[r].pc \notin Delivery
  BY <1>2 DEF MomentInv, Delivering, Delivery
<1> QED BY <1>1, <1>2

LEMMA NotDelivering == ASSUME NEW r, req'[r].pc \notin Delivery PROVE MomentInv(r)'
  BY DEF MomentInv, Delivering, Delivery

(* One step of a delivery: what it learns is what was so at that moment. *)
LEMMA MomentStep ==
    ASSUME TypeInv, ReqOK', Watch, NEW r \in Requests, MomentInv(r), DeliveryStep(r)
    PROVE  MomentInv(r)'
<1>0. ReqOK /\ HooksOK /\ RowsOK /\ SetsOK /\ lost \subseteq Requests
  BY DEF TypeInv, SetsOK
<1>1. CASE Deliver(r)
  <2>1. req'[r].pc = "findHook"
    BY <1>0, <1>1, DeliverSlot
  <2>2. Moment(req[r].hook)' \in moments'[r]
    BY <2>1 DEF Watch, Delivering
  <2> QED BY <2>1, <2>2 DEF MomentInv
<1>2. CASE FindHook(r)
  <2>1. CASE req'[r].pc = "done"
    BY <2>1, NotDelivering DEF Delivery
  <2>2. CASE Found(r)
    <3>1. req[r].pc = "findHook" /\ req'[r].pc = "findOwner" /\ Same(r)
      BY <1>0, <1>2, <2>2, FindHookSlot DEF Found
    <3>2. moments[r] \subseteq moments'[r] /\ Moment(req[r].hook)' \in moments'[r]
      BY <1>0, <3>1, MomentsGrow DEF Same, Delivery
    <3>x. PICK x : x = Moment(req[r].hook)
      OBVIOUS
    <3>3. x \in moments'[r]
      BY <3>1, <3>2, <3>x DEF MomentInv, Delivering
    <3>4. x.hook = hooks[req[r].hook] /\ x.hook # NoHook
      BY <1>0, <2>2, <3>x, MomentFields, HooksAreHooks DEF Found
    <3>5. x.hook.secret = req'[r].key /\ x.hook.task = req'[r].task /\ x.hook.owner = req'[r].owner
      BY <2>2, <3>1, <3>4 DEF Found, Same
    <3> QED BY <3>1, <3>2, <3>3, <3>4, <3>5 DEF MomentInv, Signed
  <2> QED BY <1>0, <1>2, <2>1, <2>2, FindHookSlot
<1>3. CASE FindOwner(r)
  <2>1. /\ req[r].pc = "findOwner" /\ req'[r].pc = "getUser" /\ Same(r)
        /\ req'[r].task = req[r].task /\ req'[r].owner = req[r].owner
        /\ req'[r].user = IF req[r].owner \in DOMAIN users THEN req[r].owner ELSE NoOne
    BY <1>0, <1>3, FindOwnerSlot
  <2>2. moments[r] \subseteq moments'[r] /\ Moment(req[r].hook)' \in moments'[r]
    BY <1>0, <2>1, MomentsGrow DEF Same, Delivery
  <2>3. PICK x \in moments[r] : Signed(r, x) /\ x.hook.task = req[r].task /\ x.hook.owner = req[r].owner
    BY <2>1 DEF MomentInv
  <2>4. x \in moments'[r] /\ Signed(r, x)' /\ x.hook.task = req'[r].task /\ x.hook.owner = req'[r].owner
    BY <2>1, <2>2, <2>3 DEF Signed, Same
  <2>5. \/ req'[r].user = req'[r].owner
        \/ req'[r].user = NoOne /\ \E y \in moments'[r] : req'[r].owner \notin DOMAIN y.users
    <3>y. PICK y : y = Moment(req[r].hook)
      OBVIOUS
    <3>1. y \in moments'[r] /\ y.users = users
      BY <2>1, <2>2, <3>y, MomentFields DEF MomentInv, Delivering
    <3> QED BY <2>1, <3>1
  <2> QED BY <2>1, <2>2, <2>4, <2>5 DEF MomentInv
<1>4. CASE GetUser(r)
  <2>1. CASE req'[r].pc = "done"
    BY <2>1, NotDelivering DEF Delivery
  <2>2. CASE /\ req'[r].pc = "getRoles" /\ Same(r) /\ req'[r].task = req[r].task
             /\ req'[r].owner = req[r].owner /\ req'[r].user = req[r].user
             /\ req[r].user \in DOMAIN users /\ req'[r].groups = users[req[r].user]
    <3>1. req[r].pc = "getUser" /\ req[r].user # NoOne
      BY <1>0, <1>4, <2>2, GetUserSlot, ServedAssumption DEF SetsOK
    <3>2. moments[r] \subseteq moments'[r] /\ Moment(req[r].hook)' \in moments'[r]
      BY <1>0, <2>2, MomentsGrow DEF Same, Delivery
    <3>3. PICK x \in moments[r] : Signed(r, x) /\ x.hook.task = req[r].task /\ x.hook.owner = req[r].owner
      BY <3>1 DEF MomentInv
    <3>4. x \in moments'[r] /\ Signed(r, x)' /\ x.hook.task = req'[r].task /\ x.hook.owner = req'[r].owner
      BY <2>2, <3>2, <3>3 DEF Signed, Same
    <3>y. PICK y : y = Moment(req[r].hook)
      OBVIOUS
    <3>5. y \in moments'[r] /\ y.users = users
      BY <3>1, <3>2, <3>y, MomentFields DEF MomentInv, Delivering
    <3>6. InGroups(y, req'[r].user, req'[r].groups)
      BY <2>2, <3>5 DEF InGroups
    <3>7. req'[r].user = req'[r].owner
      BY <2>2, <3>1 DEF MomentInv
    <3> QED BY <2>2, <3>2, <3>4, <3>5, <3>6, <3>7 DEF MomentInv
  <2> QED BY <1>0, <1>4, <2>1, <2>2, GetUserSlot
<1>5. CASE GetUserRoles(r)
  <2>1. CASE req'[r].pc = "done"
    BY <2>1, NotDelivering DEF Delivery
  <2>2. CASE /\ req'[r].pc = "first" /\ Same(r) /\ req'[r].task = req[r].task
             /\ req'[r].owner = req[r].owner /\ req'[r].user = req[r].user
             /\ req[r].groups \cap Granting(req[r].hook) # {}
    <3>1. req[r].pc = "getRoles"
      BY <1>0, <1>5, GetUserRolesSlot
    <3>2. moments[r] \subseteq moments'[r] /\ Moment(req[r].hook)' \in moments'[r]
      BY <1>0, <2>2, MomentsGrow DEF Same, Delivery
    <3>3. PICK x \in moments[r] : Signed(r, x) /\ x.hook.task = req[r].task /\ x.hook.owner = req[r].owner
      BY <3>1 DEF MomentInv
    <3>4. x \in moments'[r] /\ Signed(r, x)' /\ x.hook.task = req'[r].task /\ x.hook.owner = req'[r].owner
      BY <2>2, <3>2, <3>3 DEF Signed, Same
    <3>5. PICK y \in moments[r] : InGroups(y, req[r].user, req[r].groups)
      BY <3>1 DEF MomentInv
    <3>z. PICK z : z = Moment(req[r].hook)
      OBVIOUS
    <3>6. z \in moments'[r] /\ z.granting = Granting(req[r].hook)
      BY <3>1, <3>2, <3>z, MomentFields DEF MomentInv, Delivering
    <3>7. y \in moments'[r] /\ req'[r].user \in DOMAIN y.users /\ y.users[req'[r].user] \cap z.granting # {}
      BY <2>2, <3>2, <3>5, <3>6 DEF InGroups
    <3>8. req'[r].user = req'[r].owner /\ Allowed(r)'
      BY <2>2, <3>1, <3>6, <3>7 DEF MomentInv, Allowed
    <3> QED BY <2>2, <3>2, <3>4, <3>8 DEF MomentInv
  <2> QED BY <1>0, <1>5, <2>1, <2>2, GetUserRolesSlot
<1>6. CASE RecordFirst(r)
  <2>1. /\ req[r].pc = "first" /\ req'[r].pc = "launch" /\ Same(r)
        /\ req'[r].task = req[r].task /\ req'[r].owner = req[r].owner /\ req'[r].user = req[r].user
    BY <1>0, <1>6, RecordFirstSlot
  <2>2. moments[r] \subseteq moments'[r] /\ Moment(req[r].hook)' \in moments'[r]
    BY <1>0, <2>1, MomentsGrow DEF Same, Delivery
  <2>3. PICK x \in moments[r] : Signed(r, x) /\ x.hook.task = req[r].task /\ x.hook.owner = req[r].owner
    BY <2>1 DEF MomentInv
  <2>4. x \in moments'[r] /\ Signed(r, x)' /\ x.hook.task = req'[r].task /\ x.hook.owner = req'[r].owner
    BY <2>1, <2>2, <2>3 DEF Signed, Same
  <2>5. req'[r].user = req'[r].owner /\ Allowed(r)'
    BY <2>1, <2>2 DEF MomentInv, Allowed
  <2> QED BY <2>1, <2>2, <2>4, <2>5 DEF MomentInv
<1>7. CASE Launch(r)
  <2>1. req'[r].pc \in {"record", "done"}
    BY <1>0, <1>7, LaunchSlot
  <2> QED BY <2>1, NotDelivering DEF Delivery
<1> QED BY <1>1, <1>2, <1>3, <1>4, <1>5, <1>6, <1>7 DEF DeliveryStep

LEMMA DeliveryLeavesOthers ==
    ASSUME TypeInv, NEW r \in Requests, DeliveryStep(r) PROVE Others(r)
<1>0. ReqOK /\ HooksOK /\ RowsOK /\ SetsOK /\ lost \subseteq Requests
  BY DEF TypeInv, SetsOK
<1>1. CASE Deliver(r) \/ FindHook(r) \/ FindOwner(r)
  BY <1>0, <1>1, DeliverSlot, FindHookSlot, FindOwnerSlot
<1>2. CASE GetUser(r) \/ GetUserRoles(r)
  BY <1>0, <1>2, GetUserSlot, GetUserRolesSlot
<1>3. CASE RecordFirst(r) \/ Launch(r)
  BY <1>0, <1>3, RecordFirstSlot, LaunchSlot
<1> QED BY <1>1, <1>2, <1>3 DEF DeliveryStep

LEMMA MomentsInvInductive == TypeInv /\ MomentsInv /\ [Next]_vars => MomentsInv'
<1> SUFFICES ASSUME TypeInv, MomentsInv, [Next]_vars, NEW s \in Requests PROVE MomentInv(s)'
  BY DEF MomentsInv
<1>0. ReqOK /\ MomentInv(s)
  BY DEF TypeInv, MomentsInv
<1>1. CASE UNCHANGED vars
  BY <1>0, <1>1 DEF vars, MomentInv, Delivering, Moment, Granting, Signed, Allowed
<1>2. CASE Next
  <2>1. TypeInv' /\ ReqOK' /\ Watch
    BY <1>2, NextShape DEF TypeInv
  <2>2. CASE Elsewhere
    BY <1>0, <2>1, <2>2, MomentKept, NotDelivering DEF Elsewhere, Delivery
  <2>3. ASSUME NEW r \in Requests, DeliveryStep(r) PROVE MomentInv(s)'
    <3>1. CASE s = r
      BY <1>0, <2>1, <2>3, <3>1, MomentStep
    <3>2. CASE s # r
      <4>1. req'[s] = req[s]
        BY <2>3, <3>2, DeliveryLeavesOthers DEF Others
      <4> QED BY <1>0, <2>1, <4>1, MomentKept
    <3> QED BY <3>1, <3>2
  <2> QED BY <1>2, <2>2, <2>3, NextShape
<1> QED BY <1>1, <1>2

LEMMA LaunchDecided ==
    ASSUME TypeInv, NEW r \in Requests, MomentInv(r), Launch(r),
           NEW run, run = [by |-> r, task |-> req[r].task, owner |-> req[r].user]
    PROVE  StartedFor(r, run)
<1>1. req[r].pc = "launch"
  BY DEF Launch
<1>2. PICK x \in moments[r] : Signed(r, x) /\ x.hook.task = req[r].task /\ x.hook.owner = req[r].owner
  BY <1>1 DEF MomentInv
<1>3. req[r].user = req[r].owner
  BY <1>1 DEF MomentInv
<1>4. PICK y \in moments[r], z \in moments[r] :
         req[r].user \in DOMAIN y.users /\ y.users[req[r].user] \cap z.granting # {}
  BY <1>1 DEF MomentInv, Allowed
<1>5. Signed(r, x) /\ x.hook.task = run.task /\ x.hook.owner = run.owner
  BY <1>2, <1>3
<1>6. run.owner \in DOMAIN y.users /\ y.users[run.owner] \cap z.granting # {}
  BY <1>4
<1> QED BY <1>5, <1>6 DEF StartedFor

LEMMA RefusalDecided ==
    ASSUME TypeInv, NEW r \in Requests, MomentInv(r), DeliveryStep(r), req'[r].outcome = "refused",
           Delivering(r)
    PROVE  TurnedAway(r, req'[r].answer)
<1>0. ReqOK /\ HooksOK /\ RowsOK /\ SetsOK /\ lost \subseteq Requests
  BY DEF TypeInv, SetsOK
<1>1. req[r].outcome = "none"
  BY <1>0 DEF ReqOK, SlotOK, Delivering, Delivery
<1>m. PICK m : m = Moment(req[r].hook)
  OBVIOUS
<1>2. m \in moments[r]
  BY <1>m DEF MomentInv
<1>3. CASE FindHook(r)
  <2>1. /\ req'[r].answer = "unauthorised"
        /\ ~ (req[r].hook \in DOMAIN hooks /\ req[r].key = hooks[req[r].hook].secret)
    BY <1>0, <1>1, <1>3, FindHookSlot DEF Found, Same
  <2>2. ~ Signed(r, m)
    BY <1>m, <2>1, MomentFields DEF Signed
  <2> QED BY <1>2, <2>1, <2>2 DEF TurnedAway
<1>4. CASE GetUser(r)
  <2>1. req[r].pc = "getUser" /\ req'[r].answer = "error" /\ req[r].user \notin DOMAIN users
    BY <1>0, <1>1, <1>4, GetUserSlot DEF Same
  <2>2. PICK x \in moments[r] : Signed(r, x) /\ x.hook.task = req[r].task /\ x.hook.owner = req[r].owner
    BY <2>1 DEF MomentInv
  <2>3. PICK y \in moments[r] : req[r].owner \notin DOMAIN y.users
    <3>1. m.users = users
      BY <1>m, MomentFields
    <3> QED BY <1>2, <2>1, <3>1 DEF MomentInv
  <2> QED BY <2>1, <2>2, <2>3 DEF TurnedAway
<1>5. CASE GetUserRoles(r)
  <2>1. /\ req[r].pc = "getRoles" /\ req'[r].answer = "forbidden"
        /\ req[r].groups \cap Granting(req[r].hook) = {}
    BY <1>0, <1>1, <1>5, GetUserRolesSlot DEF Same
  <2>2. PICK x \in moments[r] : Signed(r, x) /\ x.hook.task = req[r].task /\ x.hook.owner = req[r].owner
    BY <2>1 DEF MomentInv
  <2>3. PICK y \in moments[r] : InGroups(y, req[r].user, req[r].groups)
    BY <2>1 DEF MomentInv
  <2>4. req[r].user = req[r].owner
    BY <2>1 DEF MomentInv
  <2>5. x.hook.owner \in DOMAIN y.users /\ y.users[x.hook.owner] \cap m.granting = {}
    <3>1. m.granting = Granting(req[r].hook)
      BY <1>m, MomentFields
    <3> QED BY <2>1, <2>2, <2>3, <2>4, <3>1 DEF InGroups
  <2> QED BY <1>2, <2>1, <2>2, <2>5 DEF TurnedAway
<1>6. CASE Deliver(r)
  BY <1>0, <1>6, DeliverSlot DEF Delivering
<1>7. CASE FindOwner(r) \/ RecordFirst(r)
  BY <1>0, <1>1, <1>7, FindOwnerSlot, RecordFirstSlot DEF Same
<1>8. CASE Launch(r)
  BY <1>0, <1>8, LaunchSlot
<1> QED BY <1>3, <1>4, <1>5, <1>6, <1>7, <1>8 DEF DeliveryStep

LEMMA StepDecided ==
    ASSUME TypeInv, MomentsInv, Next, NEW r \in Requests PROVE Decided(r)
<1>0. ReqOK /\ MomentInv(r)
  BY DEF TypeInv, MomentsInv
<1>1. Delivering(r) => req[r].outcome = "none"
  BY <1>0 DEF ReqOK, SlotOK, Delivering, Delivery
<1>2. CASE Elsewhere
  BY <1>1, <1>2 DEF Elsewhere, Decided, Delivering, Delivery
<1>3. ASSUME NEW q \in Requests, DeliveryStep(q) PROVE Decided(r)
  <2>1. CASE q # r
    <3>1. req'[r] = req[r]
      BY <1>3, <2>1, DeliveryLeavesOthers DEF Others
    <3>2. ASSUME NEW run \in runs' \ runs PROVE run.by = q
      <4>1. Launch(q)
        BY <1>3, <3>2 DEF DeliveryStep, Deliver, FindHook, FindOwner, GetUser, GetUserRoles, RecordFirst
      <4>2. run = [by |-> q, task |-> req[q].task, owner |-> req[q].user]
        BY <1>0, <3>2, <4>1, LaunchSlot
      <4> QED BY <4>2
    <3> QED BY <1>1, <2>1, <3>1, <3>2 DEF Decided
  <2>2. CASE q = r
    <3>1. ASSUME NEW run \in runs' \ runs PROVE StartedFor(r, run)
      <4>1. Launch(r)
        BY <1>3, <2>2, <3>1 DEF DeliveryStep, Deliver, FindHook, FindOwner, GetUser, GetUserRoles, RecordFirst
      <4>2. run = [by |-> r, task |-> req[r].task, owner |-> req[r].user]
        BY <1>0, <3>1, <4>1, LaunchSlot
      <4> QED BY <1>0, <4>1, <4>2, LaunchDecided
    <3>2. Delivering(r) /\ req'[r].outcome = "refused" => TurnedAway(r, req'[r].answer)
      BY <1>0, <1>3, <2>2, RefusalDecided
    <3> QED BY <3>1, <3>2 DEF Decided
  <2> QED BY <2>1, <2>2
<1> QED BY <1>2, <1>3, NextShape

(* For every message, secret, webhook and owner, and however requests, deletions, changes of
   groups and changes of roles interleave: a delivery that auth.go:44 lets through was signed
   with the secret of a webhook, whose owner was in a group at one moment that had a role on
   it at another (users_svc.go:184 and :194), and one that is turned away lacked a signature,
   an owner, or such a role. *)
THEOREM SignedDeliveries == Spec => DeliveriesAreDecidedBySignature
<1>1. Init => MomentsInv
  BY DEF Init, InitAudit, MomentsInv, MomentInv, Delivering, Idle
<1>2. TypeInv /\ MomentsInv /\ [Next]_vars => [\A r \in Requests : Decided(r)]_vars
  BY StepDecided
<1> QED BY <1>1, <1>2, InitTyped, TypeInvInductive, MomentsInvInductive, PTL
        DEF Spec, DeliveriesAreDecidedBySignature

-----------------------------------------------------------------------------
(* The log. What a request has to remember until its row is stored, and how many rows it
   has left by then. *)
Early == {"idle", "serve", "findHook", "findOwner", "getUser", "getRoles", "first", "create", "findOld",
          "dropHook", "listHooks", "dropTask"}

Serving == {"create", "findOld", "dropHook", "listHooks", "dropTask"}

(* Who calls is a user, or nobody, through a route that lets nobody in. *)
Named(user, handler) == user # NoOne \/ handler \in OpenHandlers

Remembers(q) ==
    /\ q.pc \in Early \cup {"launch"} => q.outcome = "none"
    /\ q.pc \in Delivery => q.handler = RunHook
    /\ q.pc = "serve" => /\ q.handler \in Handlers \ HookHandlers
                         /\ IF q.handler \in LoginHandlers THEN q.user = NoOne ELSE Named(q.user, q.handler)
    /\ q.pc \in Serving => Named(q.user, q.handler) /\ q.handler \in Handlers /\ q.handler.op # "run"
    /\ q.pc = "record" => /\ q.handler \in Handlers /\ q.outcome \in {"ok", "error", "unbound"}
                          /\ IF q.outcome = "unbound" THEN q.user = NoOne ELSE Named(q.user, q.handler)

RowsSoFar(r) ==
    /\ r \in effects => req[r].pc \in {"record", "done"}
    /\ r \in lost => req[r].pc \in {"launch", "record", "done"}
    /\ req[r].pc \in Early => RowsOf(r) = {}
    /\ r \notin lost =>
          /\ req[r].pc = "launch" => Cardinality(RowsOf(r)) = 1
          /\ req[r].pc = "record" => Cardinality(RowsOf(r)) = IF req[r].handler.op = "run" THEN 1 ELSE 0
          /\ req[r].pc = "done" => Cardinality(RowsOf(r)) = RowsDue(r)
    /\ r \in effects =>
          \/ RowsOf(r) # {} \/ req[r].pc = "record" \/ r \in lost
          \/ req[r].outcome = "panic" \/ (Quiet(req[r].handler) /\ req[r].outcome = "ok")

(* A row that is there already while its request is not done is the first one of a run. *)
Tells(row, q) ==
    /\ q.pc \in {"launch", "record", "done"}
    /\ q.pc \in {"launch", "record"} => row.event = "run" /\ row.user # NoOne /\ q.handler = RunHook
    /\ row.status = "success" <=> (row.event = "run" \/ q.outcome = "ok")
    /\ IF q.outcome = "unbound" THEN row.user = NoOne ELSE Named(row.user, q.handler)

LogInv ==
    /\ \A r \in Requests : Remembers(req[r]) /\ RowsSoFar(r)
    /\ \A i \in DOMAIN rows : Tells(rows[i], req[rows[i].by])

LEMMA HandlersAre ==
    ASSUME NEW h \in Handlers
    PROVE  /\ h.op = "run" <=> h.event = "run"
           /\ h.op = "run" => h \in HookHandlers
           /\ h \in LoginHandlers => h.op = "login"
           /\ h.op # "none"
<1>1. ASSUME NEW category, NEW events, h \in Handles(category, events)
      PROVE  h.op \in events /\ h.event = h.op
  BY <1>1 DEF Handles
<1>2. h \in LoginHandlers => h.op = "login"
  BY DEF LoginHandlers, Handles
<1>3. CASE h \in HookHandlers
  BY <1>1, <1>2, <1>3 DEF HookHandlers
<1>4. CASE h \in UserHandlers
  BY <1>2, <1>4 DEF UserHandlers
<1>5. CASE h \in BindingHandlers
  BY <1>2, <1>5 DEF BindingHandlers
<1>6. CASE h \in UNION {TokenHandlers, RunnerHandlers, SecretHandlers, TaskHandlers, SchemaHandlers}
  BY <1>1, <1>2, <1>6 DEF TokenHandlers, RunnerHandlers, SecretHandlers, TaskHandlers, SchemaHandlers
<1>7. CASE h \in UNION {GroupHandlers, MemberHandlers, RoleHandlers, CronHandlers, JobHandlers, LoginHandlers}
  BY <1>1, <1>2, <1>7 DEF GroupHandlers, MemberHandlers, RoleHandlers, CronHandlers, JobHandlers, LoginHandlers
<1> QED BY <1>3, <1>4, <1>5, <1>6, <1>7 DEF Handlers

LEMMA HooksRecorded ==
    /\ RunHook.op = "run" /\ RunHook.event = "run" /\ RunHook.category = "webHooks" /\ RunHook \in Handlers
    /\ \A category, op : Writes(category, op).op = op
  BY HandlersThere DEF RunHook, Writes

LEMMA CreatingIsOpen == Writes("webHooks", "create") \in OpenHandlers
  BY DEF Writes, OpenHandlers, HookHandlers, Handles

LEMMA RowsAre ==
    ASSUME RowsOK
    PROVE  /\ Len(rows) \in Nat /\ DOMAIN rows = 1 .. Len(rows)
           /\ \A i \in DOMAIN rows : rows[i] \in Row /\ rows[i].by \in Requests
           /\ \A r : IsFiniteSet(RowsOf(r)) /\ RowsOf(r) \subseteq 1 .. Len(rows)
<1>1. Len(rows) \in Nat /\ DOMAIN rows = 1 .. Len(rows) /\ \A i \in DOMAIN rows : rows[i] \in Row
  BY DEF RowsOK
<1>2. ASSUME NEW r PROVE IsFiniteSet(RowsOf(r)) /\ RowsOf(r) \subseteq 1 .. Len(rows)
  <2>1. RowsOf(r) \subseteq 1 .. Len(rows)
    BY <1>1 DEF RowsOf
  <2>2. IsFiniteSet(1 .. Len(rows))
    BY <1>1, FS_Interval
  <2> QED BY <2>1, <2>2, FS_Subset
<1>3. \A i \in DOMAIN rows : rows[i].by \in Requests
  BY <1>1 DEF Row
<1> QED BY <1>1, <1>2, <1>3

(* A row is stored at the end of the log. *)
LEMMA RowAppended ==
    ASSUME RowsOK, NEW row \in Row, rows' = Append(rows, row)
    PROVE  /\ DOMAIN rows' = DOMAIN rows \cup {Len(rows) + 1} /\ rows'[Len(rows) + 1] = row
           /\ \A i \in DOMAIN rows : rows'[i] = rows[i]
           /\ RowsOf(row.by)' = RowsOf(row.by) \cup {Len(rows) + 1}
           /\ Cardinality(RowsOf(row.by)') = Cardinality(RowsOf(row.by)) + 1
           /\ \A s : s # row.by => RowsOf(s)' = RowsOf(s)
<1>1. Len(rows) \in Nat /\ DOMAIN rows = 1 .. Len(rows) /\ rows \in Seq(Row)
  BY RowsAre DEF RowsOK
<1>2. /\ DOMAIN rows' = DOMAIN rows \cup {Len(rows) + 1} /\ rows'[Len(rows) + 1] = row
      /\ \A i \in DOMAIN rows : rows'[i] = rows[i]
  BY <1>1
<1>3. RowsOf(row.by)' = RowsOf(row.by) \cup {Len(rows) + 1} /\ \A s : s # row.by => RowsOf(s)' = RowsOf(s)
  BY <1>1, <1>2 DEF RowsOf
<1> DEFINE B == RowsOf(row.by)
<1>4. IsFiniteSet(B) /\ Len(rows) + 1 \notin B /\ RowsOf(row.by)' = B \cup {Len(rows) + 1}
  BY <1>1, <1>3, RowsAre
<1> HIDE DEF B
<1>5. Cardinality(B \cup {Len(rows) + 1}) = Cardinality(B) + 1
  BY <1>4, FS_AddElement
<1>6. Cardinality(RowsOf(row.by)') = Cardinality(RowsOf(row.by)) + 1
  BY <1>4, <1>5 DEF B
<1> QED BY <1>2, <1>3, <1>6

LEMMA DueIs ==
    ASSUME NEW r
    PROVE  RowsDue(r) = DueOf(req[r].handler, req[r].outcome) /\ RowsDue(r)' = DueOf(req'[r].handler, req'[r].outcome)
  BY DEF RowsDue, DueOf, Quiet

LEMMA DueCases ==
    ASSUME NEW h, NEW outcome
    PROVE  /\ outcome = "refused" => DueOf(h, outcome) = 0
           /\ h # NoHandler /\ outcome = "panic" => DueOf(h, outcome) = IF h.op = "run" THEN 1 ELSE 0
           /\ h # NoHandler /\ outcome \notin {"refused", "panic"} =>
                 DueOf(h, outcome) = IF h.op = "run" THEN 2 ELSE IF Quiet(h) /\ outcome = "ok" THEN 0 ELSE 1
<1>1. h.op = "run" => ~ Quiet(h)
  BY DEF Quiet
<1> QED BY <1>1 DEF DueOf

(* A request that a step leaves alone, and whose rows it leaves alone. *)
LEMMA KeptSoFar ==
    ASSUME NEW s \in Requests, LogInv, req'[s] = req[s], RowsOf(s)' = RowsOf(s),
           s \in effects' <=> s \in effects, s \in lost' <=> s \in lost
    PROVE  Remembers(req'[s]) /\ RowsSoFar(s)'
<1>1. Remembers(req[s]) /\ RowsSoFar(s)
  BY DEF LogInv
<1>2. RowsDue(s)' = RowsDue(s)
  BY DueIs
<1> QED BY <1>1, <1>2 DEF RowsSoFar

(* One request moves, and no row is stored. *)
LEMMA NothingStored ==
    ASSUME TypeInv, LogInv, NEW r \in Requests, Others(r), rows' = rows, lost' = lost,
           effects' \in {effects, effects \cup {r}}, Remembers(req'[r]), RowsSoFar(r)',
           \A i \in RowsOf(r) : Tells(rows[i], req'[r])
    PROVE  LogInv'
<1>1. ASSUME NEW s \in Requests PROVE Remembers(req'[s]) /\ RowsSoFar(s)'
  <2>1. CASE s # r
    <3>1. req'[s] = req[s] /\ RowsOf(s)' = RowsOf(s)
      BY <2>1 DEF Others, RowsOf
    <3> QED BY <2>1, <3>1, KeptSoFar
  <2> QED BY <2>1
<1>2. ASSUME NEW i \in DOMAIN rows PROVE Tells(rows[i], req'[rows[i].by])
  <2>1. rows[i].by \in Requests
    BY RowsAre DEF TypeInv
  <2>2. CASE rows[i].by = r
    BY <2>2 DEF RowsOf
  <2>3. CASE rows[i].by # r
    BY <2>1, <2>3 DEF LogInv, Others
  <2> QED BY <2>2, <2>3
<1> QED BY <1>1, <1>2 DEF LogInv, Remembers, Tells

LEMMA EarlyMove ==
    ASSUME TypeInv, LogInv, NEW r \in Requests, Others(r), rows' = rows, lost' = lost,
           effects' \in {effects, effects \cup {r}}, req[r].pc \in Early, Remembers(req'[r]),
           \/ req'[r].pc \in Early /\ effects' = effects
           \/ req'[r].pc = "record" /\ req'[r].handler.op # "run"
           \/ /\ req'[r].pc = "done" /\ req'[r].handler \in Handlers
              /\ \/ req'[r].outcome = "panic" /\ req'[r].handler.op # "run"
                 \/ req'[r].outcome = "refused" /\ effects' = effects
    PROVE  LogInv'
<1>1. RowsSoFar(r)
  BY DEF LogInv
<1>2. RowsOf(r) = {} /\ RowsOf(r)' = {} /\ r \notin effects /\ r \notin lost /\ r \notin lost'
  BY <1>1 DEF RowsSoFar, Early, RowsOf
<1>3. Cardinality({}) = 0
  BY FS_EmptySet
<1>4. RowsSoFar(r)'
  <2>1. CASE req'[r].pc \in Early /\ effects' = effects
    BY <1>2, <1>3, <2>1 DEF RowsSoFar, Early
  <2>2. CASE req'[r].pc = "record" /\ req'[r].handler.op # "run"
    BY <1>2, <1>3, <2>2 DEF RowsSoFar, Early
  <2>3. CASE /\ req'[r].pc = "done" /\ req'[r].handler \in Handlers
             /\ \/ req'[r].outcome = "panic" /\ req'[r].handler.op # "run"
                \/ req'[r].outcome = "refused" /\ effects' = effects
    <3>1. RowsDue(r)' = 0
      <4>1. CASE req'[r].outcome = "panic" /\ req'[r].handler.op # "run"
        <5>1. req'[r].outcome # "refused" /\ req'[r].handler # NoHandler
          BY <2>3, <4>1, HandlersAre DEF NoHandler
        <5> QED BY <4>1, <5>1, DueIs, DueCases
      <4>2. CASE req'[r].outcome = "refused"
        BY <4>2, DueIs, DueCases
      <4> QED BY <2>3, <4>1, <4>2
    <3> QED BY <1>2, <1>3, <2>3, <3>1 DEF RowsSoFar, Early
  <2> QED BY <2>1, <2>2, <2>3
<1> QED BY <1>2, <1>4, NothingStored

LEMMA ReturnsFields ==
    ASSUME ReqOK, NEW r \in Requests, NEW outcome \in {"ok", "error", "panic"}, Returns(r, outcome)
    PROVE  /\ Others(r) /\ rows' = rows /\ lost' = lost
           /\ req'[r].outcome = outcome /\ req'[r].handler = req[r].handler
           /\ \/ req'[r].pc = "record" /\ req'[r].user = req[r].user /\ outcome # "panic"
              \/ req'[r].pc = "done" /\ outcome = "panic"
<1>0. req[r] \in Slot /\ DOMAIN req = Requests
  BY DEF ReqOK, SlotOK
<1>1. CASE outcome = "panic"
  <2>i. PICK i : i = Idle
    OBVIOUS
  <2>1. i \in Slot
    BY <2>i, IdleOK DEF SlotOK
  <2>q. PICK q : q = [i EXCEPT !.pc = "done", !.handler = req[r].handler, !.outcome = "panic", !.answer = "panic"]
    OBVIOUS
  <2>2. req' = [req EXCEPT ![r] = q]
    BY <1>1, <2>i, <2>q DEF Returns, Done
  <2>3. q.pc = "done" /\ q.outcome = "panic" /\ q.handler = req[r].handler
    BY <2>1, <2>q DEF Slot
  <2> QED BY <1>0, <1>1, <2>2, <2>3 DEF Returns, Others
<1>2. CASE outcome # "panic"
  <2>q. PICK q : q = [req[r] EXCEPT !.outcome = outcome, !.pc = "record"]
    OBVIOUS
  <2>1. req' = [req EXCEPT ![r] = q]
    BY <1>2, <2>q DEF Returns
  <2>2. q.pc = "record" /\ q.outcome = outcome /\ q.handler = req[r].handler /\ q.user = req[r].user
    BY <1>0, <2>q DEF Slot
  <2> QED BY <1>0, <1>2, <2>1, <2>2 DEF Returns, Others
<1> QED BY <1>1, <1>2

(* A service that is not a run's returns. *)
LEMMA ReturnsTold ==
    ASSUME TypeInv, LogInv, NEW r \in Requests, NEW outcome \in {"ok", "error", "panic"}, Returns(r, outcome),
           effects' \in {effects, effects \cup {r}}, req[r].pc \in Early,
           Named(req[r].user, req[r].handler), req[r].handler \in Handlers, req[r].handler.op # "run"
    PROVE  LogInv'
<1>1. /\ Others(r) /\ rows' = rows /\ lost' = lost
      /\ req'[r].outcome = outcome /\ req'[r].handler = req[r].handler
      /\ \/ req'[r].pc = "record" /\ req'[r].user = req[r].user /\ outcome # "panic"
         \/ req'[r].pc = "done" /\ outcome = "panic"
  BY ReturnsFields DEF TypeInv
<1>2. Remembers(req'[r])
  BY <1>1 DEF Remembers, Early, Delivery, Serving
<1> QED BY <1>1, <1>2, EarlyMove

LEMMA StartTold ==
    ASSUME TypeInv, LogInv, NEW r \in Requests, NEW q, Start(r, q), q.pc \in Early, Remembers(q),
           rows' = rows, lost' = lost, effects' = effects
    PROVE  LogInv'
<1>1. Others(r) /\ req'[r] = q /\ req[r].pc = "idle"
  BY DEF Start, Others, TypeInv, ReqOK
<1> QED BY <1>1, EarlyMove DEF Early

(* A request moves on before anything is known of its outcome. *)
LEMMA MovesTold ==
    ASSUME TypeInv, LogInv, NEW r \in Requests, NEW q, req' = [req EXCEPT ![r] = q], req[r].pc \in Early,
           q.pc \in Early, q.outcome = req[r].outcome, q.handler = req[r].handler,
           q.pc \in Delivery => req[r].pc \in Delivery,
           q.pc \in Serving => req[r].pc \in Serving /\ q.user = req[r].user, q.pc # "serve",
           rows' = rows, lost' = lost, effects' = effects
    PROVE  LogInv'
<1>1. Others(r) /\ req'[r] = q
  BY DEF Others, TypeInv, ReqOK
<1>2. Remembers(q)
  BY DEF LogInv, Remembers, Early
<1> QED BY <1>1, <1>2, EarlyMove

LEMMA TurnedTold ==
    ASSUME TypeInv, LogInv, NEW r \in Requests, NEW answer, Turned(r, answer), req[r].pc \in Delivery \cap Early,
           rows' = rows, lost' = lost, effects' = effects
    PROVE  LogInv'
<1>0. req[r].handler = RunHook /\ DOMAIN req = Requests
  BY DEF LogInv, Remembers, TypeInv, ReqOK
<1>i. PICK i : i = Idle
  OBVIOUS
<1>1. i \in Slot
  BY <1>i, IdleOK DEF SlotOK
<1>q. PICK q : q = [i EXCEPT !.pc = "done", !.handler = req[r].handler, !.outcome = "refused", !.answer = answer]
  OBVIOUS
<1>2. req' = [req EXCEPT ![r] = q]
  BY <1>i, <1>q DEF Turned, Done
<1>3. q.pc = "done" /\ q.outcome = "refused" /\ q.handler = RunHook
  BY <1>0, <1>1, <1>q DEF Slot
<1>4. Others(r) /\ req'[r] = q /\ Remembers(q)
  BY <1>0, <1>2, <1>3 DEF Others, Remembers, Early, Delivery, Serving
<1> QED BY <1>3, <1>4, EarlyMove, HandlersThere

-----------------------------------------------------------------------------
(* What each statement leaves in the log. *)
LEMMA BeginsTold ==
    ASSUME TypeInv, LogInv, NEW r \in Requests, Deliver(r) \/ BeginHook(r) \/ BeginHandler(r)
    PROVE  LogInv'
<1>i. PICK i : i = Idle
  OBVIOUS
<1>0. i \in Slot /\ i.outcome = "none" /\ i.user = NoOne
  BY <1>i, IdleOK DEF SlotOK, Idle
<1>1. CASE Deliver(r)
  <2>1. PICK id \in HookIds, key \in Secrets :
           Start(r, [Idle EXCEPT !.pc = "findHook", !.handler = RunHook, !.hook = id, !.key = key])
    BY <1>1 DEF Deliver
  <2>q. PICK q : q = [i EXCEPT !.pc = "findHook", !.handler = RunHook, !.hook = id, !.key = key]
    OBVIOUS
  <2>2. q.pc = "findHook" /\ q.handler = RunHook /\ q.outcome = "none"
    BY <1>0, <2>q DEF Slot
  <2>3. Remembers(q) /\ q.pc \in Early
    BY <2>2 DEF Remembers, Early, Delivery, Serving
  <2> QED BY <1>1, <1>i, <2>1, <2>q, <2>3, StartTold DEF Deliver
<1>2. CASE BeginHook(r)
  <2>0. rows' = rows /\ lost' = lost /\ effects' = effects
    BY <1>2 DEF BeginHook
  <2>h. /\ Writes("webHooks", "create") \in Handlers /\ Writes("webHooks", "delete") \in Handlers
        /\ Writes("tasks", "delete") \in Handlers
        /\ \A category, op : Writes(category, op).op = op
    BY HandlersThere, HooksRecorded
  <2>1. ASSUME NEW u \in Callers, NEW id \in HookIds, NEW body \in HookBodies,
               Start(r, [Idle EXCEPT !.pc = "create", !.handler = Writes("webHooks", "create"), !.user = u,
                                     !.hook = id, !.key = body[1], !.task = body[2]])
        PROVE  LogInv'
    <3>h. PICK h : h = Writes("webHooks", "create")
      OBVIOUS
    <3>q. PICK q : q = [i EXCEPT !.pc = "create", !.handler = h, !.user = u,
                                 !.hook = id, !.key = body[1], !.task = body[2]]
      OBVIOUS
    <3>1. q.pc = "create" /\ q.handler = h /\ q.outcome = "none" /\ q.user = u /\ h \in Handlers /\ h.op # "run"
      BY <1>0, <2>h, <3>h, <3>q DEF Slot
    <3>n. Named(u, h)
      BY <3>h, CreatingIsOpen DEF Named
    <3>2. Remembers(q) /\ q.pc \in Early
      BY <1>0, <3>1, <3>n DEF Remembers, Early, Delivery, Serving
    <3> QED BY <1>i, <2>0, <2>1, <3>h, <3>q, <3>2, StartTold
  <2>2. ASSUME NEW u \in Callers, NEW id \in HookIds, MayCall(u, Writes("webHooks", "delete")),
               Start(r, [Idle EXCEPT !.pc = "findOld", !.handler = Writes("webHooks", "delete"), !.user = u,
                                     !.hook = id])
        PROVE  LogInv'
    <3>h. PICK h : h = Writes("webHooks", "delete")
      OBVIOUS
    <3>n. Named(u, h)
      BY <2>2, <3>h DEF Named, MayCall
    <3>q. PICK q : q = [i EXCEPT !.pc = "findOld", !.handler = h, !.user = u, !.hook = id]
      OBVIOUS
    <3>1. q.pc = "findOld" /\ q.handler = h /\ q.outcome = "none" /\ q.user = u /\ h \in Handlers /\ h.op # "run"
      BY <1>0, <2>h, <3>h, <3>q DEF Slot
    <3>2. Remembers(q) /\ q.pc \in Early
      BY <1>0, <3>1, <3>n DEF Remembers, Early, Delivery, Serving
    <3> QED BY <1>i, <2>0, <2>2, <3>h, <3>q, <3>2, StartTold
  <2>3. ASSUME NEW u \in Callers, NEW t \in Tasks, MayCall(u, Writes("tasks", "delete")),
               Start(r, [Idle EXCEPT !.pc = "listHooks", !.handler = Writes("tasks", "delete"), !.user = u,
                                     !.task = t])
        PROVE  LogInv'
    <3>h. PICK h : h = Writes("tasks", "delete")
      OBVIOUS
    <3>n. Named(u, h)
      BY <2>3, <3>h DEF Named, MayCall
    <3>q. PICK q : q = [i EXCEPT !.pc = "listHooks", !.handler = h, !.user = u, !.task = t]
      OBVIOUS
    <3>1. q.pc = "listHooks" /\ q.handler = h /\ q.outcome = "none" /\ q.user = u /\ h \in Handlers /\ h.op # "run"
      BY <1>0, <2>h, <3>h, <3>q DEF Slot
    <3>2. Remembers(q) /\ q.pc \in Early
      BY <1>0, <3>1, <3>n DEF Remembers, Early, Delivery, Serving
    <3> QED BY <1>i, <2>0, <2>3, <3>h, <3>q, <3>2, StartTold
  <2> QED BY <1>2, <2>1, <2>2, <2>3 DEF BeginHook
<1>3. CASE BeginHandler(r)
  <2>1. PICK h \in Served \ HookHandlers, u \in Callers :
           /\ MayCall(u, h)
           /\ Start(r, [Idle EXCEPT !.pc = "serve", !.handler = h,
                                    !.user = IF h \in LoginHandlers THEN NoOne ELSE u])
    BY <1>3 DEF BeginHandler
  <2>v. PICK v : v = IF h \in LoginHandlers THEN NoOne ELSE u
    OBVIOUS
  <2>2. /\ h \in Handlers \ HookHandlers
        /\ IF h \in LoginHandlers THEN v = NoOne ELSE Named(v, h)
    BY <2>1, <2>v, ServedAssumption DEF MayCall, Named
  <2>q. PICK q : q = [i EXCEPT !.pc = "serve", !.handler = h, !.user = v]
    OBVIOUS
  <2>3. q.pc = "serve" /\ q.handler = h /\ q.outcome = "none" /\ q.user = v
    BY <1>0, <2>q DEF Slot
  <2>4. Remembers(q) /\ q.pc \in Early
    BY <2>2, <2>3 DEF Remembers, Early, Delivery, Serving
  <2>5. Start(r, q)
    BY <1>i, <2>1, <2>q, <2>v
  <2> QED BY <1>3, <2>4, <2>5, StartTold DEF BeginHandler
<1> QED BY <1>1, <1>2, <1>3

LEMMA ChecksTold ==
    ASSUME TypeInv, LogInv, NEW r \in Requests, FindHook(r) \/ FindOwner(r) \/ GetUser(r) \/ GetUserRoles(r)
    PROVE  LogInv'
<1>0. req[r] \in Slot /\ ReqOK
  BY DEF TypeInv, ReqOK, SlotOK
<1>1. req[r].pc \in Delivery \cap Early /\ rows' = rows /\ lost' = lost /\ effects' = effects
  BY DEF FindHook, FindOwner, GetUser, GetUserRoles, Delivery, Early
<1>2. CASE \E answer \in {"unauthorised", "error", "forbidden"} : Turned(r, answer)
  BY <1>1, <1>2, TurnedTold
<1>3. CASE FindHook(r) /\ ~ \E answer \in {"unauthorised", "error", "forbidden"} : Turned(r, answer)
  <2> DEFINE hook == hooks[req[r].hook]
  <2>q. PICK q : q = [req[r] EXCEPT !.pc = "findOwner", !.task = hook.task, !.owner = hook.owner]
    OBVIOUS
  <2>1. req' = [req EXCEPT ![r] = q]
    BY <1>0, <1>3, <2>q DEF FindHook, ReqOK
  <2>2. q.pc = "findOwner" /\ q.outcome = req[r].outcome /\ q.handler = req[r].handler
    BY <1>0, <2>q DEF Slot
  <2> QED BY <1>1, <2>1, <2>2, MovesTold DEF Early, Delivery, Serving
<1>4. CASE FindOwner(r)
  <2> DEFINE user == IF req[r].owner \in DOMAIN users THEN req[r].owner ELSE NoOne
  <2>q. PICK q : q = [req[r] EXCEPT !.pc = "getUser", !.user = user]
    OBVIOUS
  <2>1. req' = [req EXCEPT ![r] = q]
    BY <1>0, <1>4, <2>q DEF FindOwner, ReqOK
  <2>2. q.pc = "getUser" /\ q.outcome = req[r].outcome /\ q.handler = req[r].handler
    BY <1>0, <2>q DEF Slot
  <2> QED BY <1>1, <2>1, <2>2, MovesTold DEF Early, Delivery, Serving
<1>5. CASE GetUser(r) /\ ~ \E answer \in {"unauthorised", "error", "forbidden"} : Turned(r, answer)
  <2>q. PICK q : q = [req[r] EXCEPT !.pc = "getRoles", !.groups = users[req[r].user]]
    OBVIOUS
  <2>1. req' = [req EXCEPT ![r] = q]
    BY <1>0, <1>5, <2>q DEF GetUser, ReqOK
  <2>2. q.pc = "getRoles" /\ q.outcome = req[r].outcome /\ q.handler = req[r].handler
    BY <1>0, <2>q DEF Slot
  <2> QED BY <1>1, <2>1, <2>2, MovesTold DEF Early, Delivery, Serving
<1>6. CASE GetUserRoles(r) /\ ~ \E answer \in {"unauthorised", "error", "forbidden"} : Turned(r, answer)
  <2>q. PICK q : q = [req[r] EXCEPT !.pc = "first", !.groups = {}]
    OBVIOUS
  <2>1. req' = [req EXCEPT ![r] = q]
    BY <1>0, <1>6, <2>q DEF GetUserRoles, ReqOK
  <2>2. q.pc = "first" /\ q.outcome = req[r].outcome /\ q.handler = req[r].handler
    BY <1>0, <2>q DEF Slot
  <2> QED BY <1>1, <2>1, <2>2, MovesTold DEF Early, Delivery, Serving
<1> QED BY <1>2, <1>3, <1>4, <1>5, <1>6

LEMMA ServicesTold ==
    ASSUME TypeInv, LogInv, NEW r \in Requests,
           Serve(r) \/ CreateWebhook(r) \/ GetWebhook(r) \/ DropHook(r) \/ ListTaskWebhooks(r) \/ DropTask(r)
    PROVE  LogInv'
<1>0. req[r] \in Slot /\ ReqOK /\ Remembers(req[r])
  BY DEF TypeInv, ReqOK, SlotOK, LogInv
<1>1. CASE Serve(r)
  <2>1. PICK outcome \in {"ok", "error", "panic"} : Returns(r, outcome) /\ effects' \in {effects, effects \cup {r}}
    BY <1>1 DEF Serve
  <2>2. /\ req[r].pc = "serve" /\ req[r].handler \in Handlers \ HookHandlers
        /\ Named(req[r].user, req[r].handler)
    BY <1>0, <1>1 DEF Serve, Remembers
  <2>3. req[r].handler.op # "run"
    BY <2>2, HandlersAre
  <2> QED BY <2>1, <2>2, <2>3, ReturnsTold DEF Early
<1>2. ASSUME NEW outcome \in {"ok", "error", "panic"}, Returns(r, outcome), effects' \in {effects, effects \cup {r}},
             req[r].pc \in Serving
      PROVE  LogInv'
  <2>1. /\ Named(req[r].user, req[r].handler) /\ req[r].handler \in Handlers /\ req[r].handler.op # "run"
        /\ req[r].pc \in Early
    BY <1>0, <1>2 DEF Remembers, Early, Serving
  <2> QED BY <1>2, <2>1, ReturnsTold
<1>3. CASE CreateWebhook(r)
  BY <1>2, <1>3 DEF CreateWebhook, Serving
<1>4. CASE DropHook(r)
  BY <1>2, <1>4 DEF DropHook, Serving
<1>5. CASE DropTask(r)
  BY <1>2, <1>5 DEF DropTask, Serving
<1>6. ASSUME NEW pc \in {"dropHook", "dropTask"}, req' = [req EXCEPT ![r].pc = pc], req[r].pc \in Serving,
             UNCHANGED <<rows, lost, effects>>
      PROVE  LogInv'
  <2>q. PICK q : q = [req[r] EXCEPT !.pc = pc]
    OBVIOUS
  <2>1. req' = [req EXCEPT ![r] = q]
    BY <1>0, <1>6, <2>q DEF ReqOK
  <2>2. q.pc = pc /\ q.outcome = req[r].outcome /\ q.handler = req[r].handler /\ q.user = req[r].user
    BY <1>0, <2>q DEF Slot
  <2> QED BY <1>6, <2>1, <2>2, MovesTold DEF Early, Delivery, Serving
<1>7. CASE GetWebhook(r)
  BY <1>2, <1>6, <1>7 DEF GetWebhook, Serving
<1>8. CASE ListTaskWebhooks(r)
  BY <1>2, <1>6, <1>8 DEF ListTaskWebhooks, Serving
<1> QED BY <1>1, <1>3, <1>4, <1>5, <1>7, <1>8

LEMMA LoginsTold ==
    ASSUME TypeInv, LogInv, NEW r \in Requests, ServeLogin(r)
    PROVE  LogInv'
<1>0. req[r] \in Slot /\ ReqOK /\ Remembers(req[r]) /\ req[r].pc = "serve" /\ req[r].handler \in LoginHandlers
  BY DEF TypeInv, ReqOK, SlotOK, LogInv, ServeLogin
<1>1. rows' = rows /\ lost' = lost /\ effects' \in {effects, effects \cup {r}}
  BY DEF ServeLogin
<1>2. req[r].user = NoOne /\ req[r].handler \in Handlers /\ req[r].handler.op # "run"
  BY <1>0, HandlersAre DEF Remembers
<1>3. ASSUME NEW q, req' = [req EXCEPT ![r] = q], q.pc = "record", q.handler = req[r].handler,
             q.outcome \in {"ok", "error", "unbound"},
             IF q.outcome = "unbound" THEN q.user = NoOne ELSE q.user # NoOne
      PROVE  LogInv'
  <2>1. Others(r) /\ req'[r] = q
    BY <1>0, <1>3 DEF Others, ReqOK
  <2>2. Remembers(q)
    BY <1>2, <1>3 DEF Remembers, Named, Early, Delivery, Serving
  <2> QED BY <1>0, <1>1, <1>2, <1>3, <2>1, <2>2, EarlyMove DEF Early
<1>4. ASSUME NEW u \in Callers \ {NoOne}, NEW outcome \in {"ok", "error"},
             req' = [req EXCEPT ![r].user = u, ![r].outcome = outcome, ![r].pc = "record"]
      PROVE  LogInv'
  <2>q. PICK q : q = [req[r] EXCEPT !.user = u, !.outcome = outcome, !.pc = "record"]
    OBVIOUS
  <2>1. req' = [req EXCEPT ![r] = q]
    BY <1>0, <1>4, <2>q DEF ReqOK
  <2>2. q.pc = "record" /\ q.outcome = outcome /\ q.handler = req[r].handler /\ q.user = u
    BY <1>0, <2>q DEF Slot
  <2>3. u # NoOne
    OBVIOUS
  <2> QED BY <1>3, <2>1, <2>2, <2>3
<1>5. CASE req' = [req EXCEPT ![r].outcome = "unbound", ![r].pc = "record"]
  <2>q. PICK q : q = [req[r] EXCEPT !.outcome = "unbound", !.pc = "record"]
    OBVIOUS
  <2>1. req' = [req EXCEPT ![r] = q]
    BY <1>0, <1>5, <2>q DEF ReqOK
  <2>2. q.pc = "record" /\ q.outcome = "unbound" /\ q.handler = req[r].handler /\ q.user = NoOne
    BY <1>0, <1>2, <2>q DEF Slot
  <2> QED BY <1>3, <2>1, <2>2
<1> QED BY <1>4, <1>5 DEF ServeLogin

(* A request stores a row, or loses it, and moves. *)
LEMMA RowStored ==
    ASSUME TypeInv, LogInv, NEW r \in Requests, Others(r), NEW row \in Row, row.by = r, CreateAudit(r, row),
           effects' = effects, Remembers(req'[r]), Tells(row, req'[r]),
           \A i \in RowsOf(r) : Tells(rows[i], req'[r]),
           \/ req[r].pc = "first" /\ req'[r].pc = "launch"
           \/ req[r].pc = "record" /\ req'[r].pc = "done",
           r \in lost \/ (/\ req'[r].pc = "launch" => Cardinality(RowsOf(r)) = 0
                          /\ req'[r].pc = "done" => Cardinality(RowsOf(r)) + 1 = RowsDue(r)')
    PROVE  LogInv'
<1>0. RowsOK /\ RowsSoFar(r) /\ rows \in Seq(Row)
  BY DEF TypeInv, LogInv, RowsOK
<1>1. r \in effects' => req'[r].pc = "done"
  BY <1>0 DEF RowsSoFar
<1>2. CASE rows' = Append(rows, row) /\ lost' = lost
  <2>1. /\ DOMAIN rows' = DOMAIN rows \cup {Len(rows) + 1} /\ rows'[Len(rows) + 1] = row
        /\ \A i \in DOMAIN rows : rows'[i] = rows[i]
        /\ RowsOf(r)' = RowsOf(r) \cup {Len(rows) + 1}
        /\ Cardinality(RowsOf(r)') = Cardinality(RowsOf(r)) + 1
        /\ \A s : s # r => RowsOf(s)' = RowsOf(s)
    BY <1>0, <1>2, RowAppended
  <2>2. ASSUME NEW s \in Requests PROVE Remembers(req'[s]) /\ RowsSoFar(s)'
    <3>1. CASE s # r
      BY <1>2, <2>1, <3>1, KeptSoFar DEF Others
    <3>2. RowsOf(r)' # {} /\ Cardinality(RowsOf(r))' = Cardinality(RowsOf(r)')
      BY <2>1
    <3>3. \/ r \in lost'
          \/ /\ req'[r].pc = "launch" => Cardinality(RowsOf(r))' = 1
             /\ req'[r].pc = "done" => Cardinality(RowsOf(r))' = RowsDue(r)'
      <4>1. CASE r \in lost
        BY <1>2, <4>1
      <4>2. CASE r \notin lost /\ req'[r].pc = "launch"
        <5>1. Cardinality(RowsOf(r)) = 0
          BY <4>2
        <5>2. Cardinality(RowsOf(r)') = 1
          BY <2>1, <5>1
        <5>3. Cardinality(RowsOf(r))' = 1
          BY <3>2, <5>2
        <5> QED BY <4>2, <5>3
      <4>3. CASE r \notin lost /\ req'[r].pc = "done"
        <5>1. Cardinality(RowsOf(r)) + 1 = RowsDue(r)'
          BY <4>3
        <5> QED BY <2>1, <3>2, <4>3, <5>1
      <4> QED BY <4>1, <4>2, <4>3
    <3>4. RowsSoFar(r)'
      BY <1>1, <1>2, <3>2, <3>3 DEF RowsSoFar, Early
    <3> QED BY <3>1, <3>4
  <2>3. ASSUME NEW i \in DOMAIN rows PROVE Tells(rows[i], req'[rows[i].by])
    <3>1. rows[i].by \in Requests
      BY <1>0, RowsAre
    <3>2. CASE rows[i].by = r
      BY <3>2 DEF RowsOf
    <3>3. CASE rows[i].by # r
      BY <3>1, <3>3 DEF LogInv, Others
    <3> QED BY <3>2, <3>3
  <2>4. ASSUME NEW i \in DOMAIN rows' PROVE Tells(rows'[i], req'[rows'[i].by])
    <3>1. CASE i \in DOMAIN rows
      BY <2>1, <2>3, <3>1
    <3>2. CASE i = Len(rows) + 1
      BY <2>1, <3>2
    <3> QED BY <2>1, <3>1, <3>2
  <2> QED BY <2>2, <2>4 DEF LogInv, Remembers, Tells
<1>3. CASE rows' = rows /\ lost' = lost \cup {r}
  <2>1. ASSUME NEW s \in Requests PROVE Remembers(req'[s]) /\ RowsSoFar(s)'
    <3>0. RowsOf(s)' = RowsOf(s)
      BY <1>3 DEF RowsOf
    <3>1. CASE s # r
      BY <1>3, <3>0, <3>1, KeptSoFar DEF Others
    <3>2. RowsSoFar(r)'
      BY <1>1, <1>3 DEF RowsSoFar, Early
    <3> QED BY <3>1, <3>2
  <2>2. ASSUME NEW i \in DOMAIN rows PROVE Tells(rows[i], req'[rows[i].by])
    <3>1. rows[i].by \in Requests
      BY <1>0, RowsAre
    <3>2. CASE rows[i].by = r
      BY <3>2 DEF RowsOf
    <3>3. CASE rows[i].by # r
      BY <3>1, <3>3 DEF LogInv, Others
    <3> QED BY <3>2, <3>3
  <2> QED BY <1>3, <2>1, <2>2 DEF LogInv, Remembers, Tells
<1> QED BY <1>2, <1>3 DEF CreateAudit

LEMMA FirstTold ==
    ASSUME TypeInv, LogInv, NEW r \in Requests, RecordFirst(r)
    PROVE  LogInv'
<1>0. /\ ReqOK /\ req[r] \in Slot /\ req[r].pc = "first" /\ req[r].user \in Users
      /\ Remembers(req[r]) /\ RowsSoFar(r)
  BY DEF TypeInv, ReqOK, SlotOK, LogInv, RecordFirst
<1>q. PICK q : q = [req[r] EXCEPT !.pc = "launch"]
  OBVIOUS
<1>1. Others(r) /\ req'[r] = q
  BY <1>0, <1>q DEF RecordFirst, ReqOK, Others
<1>2. q.pc = "launch" /\ q.outcome = "none" /\ q.handler = RunHook
  BY <1>0, <1>q DEF Slot, Remembers, Early, Delivery
<1>3. Remembers(q)
  BY <1>2 DEF Remembers, Early, Delivery, Serving
<1>w. PICK row : row = [InitialiseAuditLog(r, req[r].user, RunHook) EXCEPT !.status = "success"]
  OBVIOUS
<1>4. row \in Row /\ CreateAudit(r, row)
  BY <1>0, <1>w, RowTyped, HandlersThere DEF RecordFirst
<1>5. row.by = r /\ row.user = req[r].user /\ row.event = "run" /\ row.status = "success"
  BY <1>w, HooksRecorded DEF InitialiseAuditLog
<1>6. Tells(row, q)
  BY <1>0, <1>2, <1>5, ServedAssumption DEF Tells, Named
<1>7. RowsOf(r) = {} /\ Cardinality(RowsOf(r)) = 0
  BY <1>0, FS_EmptySet DEF RowsSoFar, Early
<1> QED BY <1>0, <1>1, <1>2, <1>3, <1>4, <1>5, <1>6, <1>7, RowStored DEF RecordFirst

LEMMA LaunchTold ==
    ASSUME TypeInv, LogInv, NEW r \in Requests, Launch(r)
    PROVE  LogInv'
<1>0. /\ ReqOK /\ req[r].pc = "launch" /\ req[r].user \in Users /\ req[r].outcome = "none"
      /\ Remembers(req[r]) /\ RowsSoFar(r)
  BY DEF TypeInv, ReqOK, SlotOK, LogInv, Launch, Delivery
<1>1. PICK outcome \in {"ok", "error", "panic"} : Returns(r, outcome) /\ effects' \in {effects, effects \cup {r}}
  BY DEF Launch
<1>2. /\ Others(r) /\ rows' = rows /\ lost' = lost
      /\ req'[r].outcome = outcome /\ req'[r].handler = req[r].handler
      /\ \/ req'[r].pc = "record" /\ req'[r].user = req[r].user /\ outcome # "panic"
         \/ req'[r].pc = "done" /\ outcome = "panic"
  BY <1>0, <1>1, ReturnsFields
<1>3. /\ req'[r].handler = RunHook /\ req'[r].handler.op = "run" /\ req'[r].handler \in Handlers
      /\ req'[r].handler # NoHandler /\ req[r].user # NoOne
  BY <1>0, <1>2, HooksRecorded, ServedAssumption DEF Remembers, Delivery, NoHandler
<1>4. Remembers(req'[r])
  BY <1>2, <1>3 DEF Remembers, Named, Early, Delivery, Serving
<1>5. ASSUME NEW i \in RowsOf(r) PROVE Tells(rows[i], req'[r])
  <2>1. Tells(rows[i], req[r])
    BY DEF RowsOf, LogInv
  <2> QED BY <1>0, <1>2, <1>3, <2>1 DEF Tells, Named
<1>6. RowsSoFar(r)'
  <2>1. RowsOf(r)' = RowsOf(r)
    BY <1>2 DEF RowsOf
  <2>2. outcome = "panic" => RowsDue(r)' = 1
    BY <1>2, <1>3, DueIs, DueCases
  <2> QED BY <1>0, <1>2, <1>3, <2>1, <2>2 DEF RowsSoFar, Early
<1> QED BY <1>1, <1>2, <1>4, <1>5, <1>6, NothingStored

LEMMA DoneFields ==
    ASSUME ReqOK, NEW r \in Requests, NEW outcome, NEW answer, NEW q, q = Done(r, outcome, answer)
    PROVE  q.pc = "done" /\ q.outcome = outcome /\ q.handler = req[r].handler
<1>i. PICK i : i = Idle
  OBVIOUS
<1>1. i \in Slot
  BY <1>i, IdleOK DEF SlotOK
<1>2. q = [i EXCEPT !.pc = "done", !.handler = req[r].handler, !.outcome = outcome, !.answer = answer]
  BY <1>i DEF Done
<1> QED BY <1>1, <1>2 DEF Slot

LEMMA RecordTold ==
    ASSUME TypeInv, LogInv, NEW r \in Requests, Record(r)
    PROVE  LogInv'
<1>0. ReqOK /\ req[r].pc = "record" /\ Remembers(req[r]) /\ RowsSoFar(r)
  BY DEF TypeInv, LogInv, Record
<1>1. PICK h : h = req[r].handler
  OBVIOUS
<1>2. /\ h \in Handlers /\ h # NoHandler /\ (h.op = "run" <=> h.event = "run")
      /\ req[r].outcome \in {"ok", "error", "unbound"}
      /\ IF req[r].outcome = "unbound" THEN req[r].user = NoOne ELSE Named(req[r].user, h)
  BY <1>0, <1>1, HandlersAre DEF Remembers, NoHandler
<1>a. PICK answer : answer = IF req[r].outcome = "ok" THEN "ok" ELSE "error"
  OBVIOUS
<1>q. PICK q : q = Done(r, req[r].outcome, answer)
  OBVIOUS
<1>3. q.pc = "done" /\ q.outcome = req[r].outcome /\ q.handler = h
  BY <1>0, <1>1, <1>q, DoneFields
<1>4. Others(r) /\ req'[r] = q /\ effects' = effects
  BY <1>0, <1>a, <1>q DEF Record, ReqOK, Others
<1>5. Remembers(q)
  BY <1>3 DEF Remembers, Early, Delivery, Serving
<1>6. ASSUME NEW i \in RowsOf(r) PROVE Tells(rows[i], q) /\ h = RunHook
  <2>1. Tells(rows[i], req[r])
    BY DEF RowsOf, LogInv
  <2> QED BY <1>0, <1>1, <1>3, <2>1 DEF Tells
<1>7. CASE req[r].outcome = "ok" /\ Quiet(h)
  <2>1. rows' = rows /\ lost' = lost
    BY <1>1, <1>7 DEF Record
  <2>2. h.op # "run" /\ RowsOf(r)' = RowsOf(r)
    BY <1>7, <2>1 DEF Quiet, RowsOf
  <2>3. RowsDue(r)' = 0
    BY <1>2, <1>3, <1>4, <1>7, <2>2, DueIs, DueCases
  <2>4. Quiet(req'[r].handler) /\ req'[r].outcome = "ok"
    BY <1>3, <1>4, <1>7
  <2>5. RowsSoFar(r)'
    BY <1>0, <1>1, <1>3, <1>4, <2>1, <2>2, <2>3, <2>4 DEF RowsSoFar, Early, Quiet
  <2> QED BY <1>4, <1>5, <1>6, <2>1, <2>5, NothingStored
<1>8. CASE ~ (req[r].outcome = "ok" /\ Quiet(h))
  <2>s. PICK status : status = IF req[r].outcome = "ok" \/ h.op = "run" THEN "success" ELSE "error"
    OBVIOUS
  <2>w. PICK row : row = [InitialiseAuditLog(r, req[r].user, h) EXCEPT !.status = status]
    OBVIOUS
  <2>1. row \in Row
    BY <1>0, <1>2, <2>s, <2>w, RowTyped
  <2>2. CreateAudit(r, row)
    BY <1>1, <1>8, <2>s, <2>w DEF Record
  <2>3. row.by = r /\ row.user = req[r].user /\ row.event = h.event /\ row.status = status
    BY <2>w DEF InitialiseAuditLog
  <2>4. Tells(row, q)
    BY <1>2, <1>3, <2>s, <2>3 DEF Tells
  <2>5. RowsDue(r)' = IF h.op = "run" THEN 2 ELSE 1
    BY <1>2, <1>3, <1>4, <1>8, DueIs, DueCases
  <2>6. r \notin lost => Cardinality(RowsOf(r)) + 1 = RowsDue(r)'
    BY <1>0, <1>1, <2>5 DEF RowsSoFar
  <2> QED BY <1>0, <1>3, <1>4, <1>5, <1>6, <2>1, <2>2, <2>3, <2>4, <2>6, RowStored
<1> QED BY <1>7, <1>8

LEMMA CrashTold ==
    ASSUME TypeInv, LogInv, Crash
    PROVE  LogInv'
<1>0. ReqOK /\ rows' = rows /\ effects' = effects /\ lost' = lost \cup Alive
  BY DEF TypeInv, Crash
<1>1. ASSUME NEW r \in Requests, r \in Alive
      PROVE  req'[r].pc = "done" /\ req'[r].outcome = req[r].outcome /\ req'[r].handler = req[r].handler /\ r \in lost'
  <2>q. PICK q : q = Done(r, req[r].outcome, "none")
    OBVIOUS
  <2>1. req'[r] = q
    BY <1>1, <2>q DEF Crash
  <2> QED BY <1>0, <1>1, <2>q, <2>1, DoneFields
<1>2. ASSUME NEW r \in Requests, r \notin Alive
      PROVE  req'[r] = req[r] /\ (r \in lost' <=> r \in lost)
  BY <1>0, <1>2 DEF Crash
<1>3. ASSUME NEW r \in Requests PROVE Remembers(req'[r]) /\ RowsSoFar(r)'
  <2>0. RowsOf(r)' = RowsOf(r)
    BY <1>0 DEF RowsOf
  <2>1. CASE r \in Alive
    BY <1>1, <2>1 DEF Remembers, RowsSoFar, Early, Delivery, Serving
  <2>2. CASE r \notin Alive
    BY <1>0, <1>2, <2>0, <2>2, KeptSoFar
  <2> QED BY <2>1, <2>2
<1>4. ASSUME NEW i \in DOMAIN rows PROVE Tells(rows[i], req'[rows[i].by])
  <2>1. rows[i].by \in Requests /\ Tells(rows[i], req[rows[i].by])
    BY RowsAre DEF TypeInv, LogInv
  <2> QED BY <1>1, <1>2, <2>1 DEF Tells, Named
<1> QED BY <1>0, <1>3, <1>4 DEF LogInv, Remembers, Tells

LEMMA InitLogInv == Init => LogInv
<1> SUFFICES ASSUME Init PROVE LogInv
  OBVIOUS
<1>1. rows = <<>> /\ effects = {} /\ lost = {} /\ \A r \in Requests : req[r] = Idle
  BY DEF Init, InitAudit
<1>i. PICK i : i = Idle
  OBVIOUS
<1>2. i.pc = "idle" /\ i.outcome = "none"
  BY <1>i DEF Idle
<1>3. \A r : RowsOf(r) = {}
  BY <1>1 DEF RowsOf
<1>4. ASSUME NEW r \in Requests PROVE Remembers(req[r]) /\ RowsSoFar(r)
  BY <1>1, <1>i, <1>2, <1>3 DEF Remembers, RowsSoFar, Early, Delivery, Serving
<1> QED BY <1>1, <1>4 DEF LogInv

LEMMA LogInvInductive == TypeInv /\ LogInv /\ [Next]_vars => LogInv'
<1> SUFFICES ASSUME TypeInv, LogInv, [Next]_vars PROVE LogInv'
  OBVIOUS
<1>1. CASE UNCHANGED <<rows, req, effects, lost>>
  BY <1>1 DEF LogInv, Remembers, RowsSoFar, RowsOf, RowsDue, DueOf, Quiet, Tells, Named
<1>2. CASE UNCHANGED vars
  BY <1>1, <1>2 DEF vars
<1>3. CASE Change
  BY <1>1, <1>3 DEF Change
<1>4. CASE AuditSteps
  BY <1>4, BeginsTold, ServicesTold, LoginsTold, RecordTold, CrashTold DEF AuditSteps
<1>5. ASSUME NEW r \in Requests,
             \/ Deliver(r) \/ FindHook(r) \/ FindOwner(r) \/ GetUser(r) \/ GetUserRoles(r)
             \/ RecordFirst(r) \/ Launch(r)
             \/ BeginHook(r) \/ CreateWebhook(r) \/ GetWebhook(r) \/ DropHook(r)
             \/ ListTaskWebhooks(r) \/ DropTask(r)
      PROVE  LogInv'
  BY <1>5, BeginsTold, ChecksTold, FirstTold, LaunchTold, ServicesTold
<1> QED BY <1>2, <1>3, <1>4, <1>5 DEF Next

LEMMA LogInvTells == TypeInv /\ LogInv => RowsTellWhatHappened
<1> SUFFICES ASSUME TypeInv, LogInv PROVE RowsTellWhatHappened
  OBVIOUS
<1>1. effects \subseteq Requests /\ \A r \in Requests : RowsSoFar(r)
  BY DEF TypeInv, SetsOK, LogInv
<1>2. \A i \in DOMAIN rows : Tells(rows[i], req[rows[i].by])
  BY DEF LogInv
<1> QED BY <1>1, <1>2 DEF RowsTellWhatHappened, RowsSoFar, Tells, Named

(* The log is true, however many requests and webhooks there are and whatever fails: each
   effect has a row of its request unless the row is still to come, was lost, or the handler
   is known to leave none; an answered request that lost no row has left exactly the rows its
   handler owes; a row says "success" just when its request was told so, or is a run's; and
   it names who called, except for a login that could not be read and for a token without an
   owner where nobody is let in (controllers/audit.go, the calls of CreateAudit, and
   auth_svc.go:171). *)
THEOREM RowsAreTrue == Spec => []RowsTellWhatHappened
<1>1. Init => TypeInv /\ LogInv
  BY InitTyped, InitLogInv
<1>2. TypeInv /\ LogInv /\ [Next]_vars => (TypeInv /\ LogInv)'
  BY TypeInvInductive, LogInvInductive
<1> QED BY <1>1, <1>2, LogInvTells, PTL DEF Spec
=============================================================================
