----------------------------- MODULE AccessProofs -----------------------------
(***************************************************************************)
(* Proofs about AccessControl. The invariant IInv follows a request from    *)
(* the middleware into its handler: what it was authorised for, what its    *)
(* body has passed, which rows it has found under which names. Every row is *)
(* looked for in one statement and written in a later one, and only an id   *)
(* that a body chose can stand for another row by then.                     *)
(***************************************************************************)
EXTENDS AccessControl, TLAPS

RoleOps  == {"createRole", "updateRole", "deleteRole"}
BindOps  == {"createBinding", "updateBinding", "deleteBinding"}
Binding  == {"createBinding", "updateBinding"}
Deciding == {"idle", "getUser", "getRoles", "list"}
Verdicts == {"none", "pass", "deny", "error"}

Answers  == {"none", "ok", "error", "forbidden", "badRequest", "bound", "panic"}

AuthRow == [user : Uids \cup {Blank}, provider : Providers \cup {Blank}, resource : Resources \cup {Blank},
            id : Paths \cup STRING \cup {All, Blank}, access : Accesses \cup {Blank}]

ReqRow == [pc : PCs, op : AllOps \cup {"none"}, auth : AuthRow, groups : SUBSET Gids,
           roleBody : RoleBodies \cup {NoRole}, bindBody : BindBodies \cup {NoBind},
           todo : Seq(STRING), role : RoleIds \cup {Blank}, bind : BindIds \cup {Blank},
           group : Gids \cup {Blank}, list : SUBSET (STRING \cup {All}), verdict : Verdicts, answer : Answers]

(* Every id of a list on roles is the name of a role, or still to be looked for. *)
Scoped(ids, todo) == \A k \in DOMAIN ids : ids[k] \in RoleNames \/ \E m \in DOMAIN todo : todo[m] = ids[k]

(* Which operation a statement belongs to, and what it was authorised for. *)
Authorised(q) ==
    /\ q.pc = "checkRole" => q.op \in {"createRole", "updateRole"}
    /\ q.pc = "insertRole" => q.op = "createRole"
    /\ q.pc = "putRole" => q.op = "updateRole"
    /\ q.pc \in {"listBinds", "dropRole"} => q.op = "deleteRole"
    /\ q.pc = "findRole" => q.op \in {"getRole", "deleteRole"} \cup Binding
    /\ q.pc = "findGroup" => q.op \in Binding
    /\ q.pc = "insertBind" => q.op = "createBinding"
    /\ q.pc = "putBind" => q.op = "updateBinding"
    /\ q.pc = "findBind" => q.op \in {"getBinding", "deleteBinding"}
    /\ q.pc = "dropBind" => q.op = "deleteBinding"
    /\ q.op \in RoleOps => q.auth.resource = "roles" /\ q.auth.access = "write"
    /\ q.op \in BindOps => q.auth.resource = "role_bindings" /\ q.auth.access = "write"
    /\ q.pc \notin Deciding => q.verdict = "pass"
    /\ q.op = "updateRole" /\ q.pc \in {"checkRole", "putRole"} => q.auth.id \in RoleIds
    /\ q.op = "updateBinding" /\ q.pc \in {"findRole", "findGroup", "putBind"} => q.auth.id \in BindIds

(* What the body has passed. *)
Checked(q) ==
    /\ q.pc \in {"checkRole", "insertRole", "putRole"} =>
          /\ q.roleBody \in RoleBodies
          /\ q.roleBody.resource = "roles" =>
                Scoped(q.roleBody.ids, IF q.pc = "checkRole" THEN q.todo ELSE <<>>)
    /\ q.pc = "checkRole" => q.todo # <<>>
    /\ q.op \in Binding /\ q.pc \in {"findRole", "findGroup", "insertBind", "putBind"} =>
          q.bindBody \in BindBodies /\ q.bindBody.provider \in Providers

(* Which rows it has found, under which names. *)
Found(q) ==
    /\ q.pc \in {"findGroup", "insertBind", "putBind", "dropRole"} => q.role \in used /\ q.role \in RoleIds
    /\ q.pc \in {"insertBind", "putBind"} => q.group \in Gids
    /\ q.pc = "dropBind" => q.bind \in used /\ q.bind \in BindIds
    /\ q.pc \in {"findGroup", "insertBind", "putBind"} /\ q.role \in DOMAIN roles \ given =>
          roles[q.role].name = q.bindBody.roleName
    /\ q.pc = "dropRole" /\ q.role \in DOMAIN roles \ given => roles[q.role].name = q.auth.id
    /\ q.pc = "dropBind" /\ q.bind \in DOMAIN binds \ given => binds[q.bind].name = q.auth.id

Holds(q) == q \in ReqRow /\ Authorised(q) /\ Checked(q) /\ Found(q)

UsersOK == users \in [DOMAIN users -> SUBSET Gids] /\ DOMAIN users \subseteq Uids /\ groups \subseteq Gids

(* A role on roles is a role on all of them or lists their names. *)
RolesOK ==
    /\ DOMAIN roles \subseteq RoleIds /\ DOMAIN roles \subseteq used
    /\ \A i \in DOMAIN roles :
          /\ roles[i] \in RoleRow
          /\ roles[i].resource = "roles" => roles[i].ids = <<All>> \/ Scoped(roles[i].ids, <<>>)
BindsOK ==
    /\ DOMAIN binds \subseteq BindIds /\ DOMAIN binds \subseteq used
    /\ \A b \in DOMAIN binds : binds[b] \in BindRow /\ binds[b].role \in used
    /\ \A b \in DOMAIN binds :
          binds[b].role \in DOMAIN roles \ given => roles[binds[b].role].name = binds[b].roleName

ReqsOK == DOMAIN req = Requests /\ \A r \in Requests : Holds(req[r])

(* The groups a decision uses are groups its caller was in since it asked. *)
MomentsOK ==
    /\ DOMAIN moments = Requests
    /\ \A r \in Requests : Undecided(req[r]) =>
          /\ \A u \in {req[r].auth.user} \cap DOMAIN users : users[u] \in moments[r]
          /\ req[r].pc = "getRoles" => req[r].groups \in moments[r]

(* The inductive invariant. *)
IInv == UsersOK /\ RolesOK /\ BindsOK /\ ReqsOK /\ MomentsOK

Tables == <<users, groups, roles, binds, used, given>>

-----------------------------------------------------------------------------

LEMMA IdleTyped == Idle \in ReqRow /\ Idle.pc = "idle" /\ Idle.op = "none" /\ Idle.verdict = "none"
<1>1. NoAuth \in AuthRow
  BY DEF NoAuth, AuthRow, Blank
<1>2. <<>> \in Seq(STRING) /\ "idle" \in PCs /\ "none" \in Verdicts /\ "none" \in Answers
  BY DEF PCs, Verdicts, Answers
<1> QED BY <1>1, <1>2 DEF Idle, ReqRow

LEMMA IdleHolds ==
    ASSUME NEW q \in ReqRow, q.pc = "idle", q.op = "none"
    PROVE  Holds(q) /\ Holds(q)' /\ ~ Undecided(q)
<1>1. Holds(q)
  BY DEF Holds, Authorised, Checked, Found, Deciding, RoleOps, BindOps, Binding
<1>2. Holds(q)'
  BY DEF Holds, Authorised, Checked, Found, Deciding, RoleOps, BindOps, Binding
<1> QED BY <1>1, <1>2 DEF Undecided

(* How a request ends. *)
LEMMA EndsIdle ==
    ASSUME NEW v \in Verdicts, NEW a \in Answers
    PROVE  /\ LET q == [Idle EXCEPT !.verdict = v, !.answer = a]
              IN  Holds(q) /\ Holds(q)' /\ ~ Undecided(q) /\ q.verdict = v /\ q.pc = "idle"
           /\ LET q == [Idle EXCEPT !.answer = a]
              IN  Holds(q) /\ Holds(q)' /\ ~ Undecided(q) /\ q.verdict = "none" /\ q.pc = "idle"
<1> DEFINE q == [Idle EXCEPT !.verdict = v, !.answer = a]
           s == [Idle EXCEPT !.answer = a]
<1>1. q \in ReqRow /\ q.pc = "idle" /\ q.op = "none" /\ q.verdict = v
  BY IdleTyped DEF ReqRow
<1>2. s \in ReqRow /\ s.pc = "idle" /\ s.op = "none" /\ s.verdict = "none"
  BY IdleTyped DEF ReqRow
<1> HIDE DEF q, s
<1>3. /\ Holds(q) /\ Holds(q)' /\ ~ Undecided(q) /\ q.verdict = v /\ q.pc = "idle"
      /\ Holds(s) /\ Holds(s)' /\ ~ Undecided(s) /\ s.verdict = "none" /\ s.pc = "idle"
  BY <1>1, <1>2, IdleHolds
<1> QED BY <1>3 DEF q, s

(* Bookkeeping: a request that is not before its decision needs no moments. *)
LEMMA MomentsKept ==
    ASSUME IInv, KeepMoments,
           \A r \in Requests : Undecided(req'[r]) =>
              /\ Undecided(req[r])
              /\ req'[r].auth = req[r].auth
              /\ req'[r].pc = "getRoles" =>
                    \/ req[r].pc = "getRoles" /\ req'[r].groups = req[r].groups
                    \/ req[r].auth.user \in DOMAIN users' /\ req'[r].groups = users'[req[r].auth.user]
    PROVE  MomentsOK'
<1>1. DOMAIN moments' = Requests
  BY DEF KeepMoments
<1>2. ASSUME NEW r \in Requests, Undecided(req'[r])
      PROVE  /\ \A u \in {req'[r].auth.user} \cap DOMAIN users' : users'[u] \in moments'[r]
             /\ req'[r].pc = "getRoles" => req'[r].groups \in moments'[r]
  <2>1. moments'[r] = moments[r] \cup {users'[u] : u \in {req'[r].auth.user} \cap DOMAIN users'}
    BY <1>2 DEF KeepMoments
  <2>2. req[r].pc = "getRoles" => req[r].groups \in moments[r]
    BY <1>2 DEF IInv, MomentsOK
  <2>3. \A u \in {req'[r].auth.user} \cap DOMAIN users' : users'[u] \in moments'[r]
    BY <2>1
  <2>4. req'[r].pc = "getRoles" => req'[r].groups \in moments'[r]
    BY <1>2, <2>1, <2>2, <2>3
  <2> QED BY <2>3, <2>4
<1> QED BY <1>1, <1>2 DEF MomentsOK, Undecided

(* A step that writes no table keeps what holds of rows and of requests. *)
LEMMA QuietStep ==
    ASSUME IInv, NEW r \in Requests, NEW q, req' = [req EXCEPT ![r] = q], Holds(q), UNCHANGED Tables
    PROVE  UsersOK' /\ RolesOK' /\ BindsOK' /\ ReqsOK'
<1>1. /\ users' = users /\ groups' = groups /\ roles' = roles /\ binds' = binds
      /\ used' = used /\ given' = given
  BY DEF Tables
<1>2. UsersOK' /\ RolesOK' /\ BindsOK'
  BY <1>1 DEF IInv, UsersOK, RolesOK, BindsOK
<1>3. DOMAIN req' = Requests
  BY DEF IInv, ReqsOK
<1>4. ASSUME NEW s \in Requests PROVE Holds(req[s])'
  <2>1. Holds(req'[s])
    BY DEF IInv, ReqsOK
  <2>2. req'[s] \in ReqRow /\ Authorised(req[s])' /\ Checked(req[s])'
    BY <2>1 DEF Holds, Authorised, Checked
  <2>3. Found(req[s])'
    BY <1>1, <2>1 DEF Holds, Found
  <2> QED BY <2>2, <2>3 DEF Holds
<1> QED BY <1>2, <1>3, <1>4 DEF ReqsOK

(* A request moves on after its verdict, or as one that gets none. *)
Later(r) ==
    /\ ~ Undecided(req[r]) /\ KeepMoments /\ users' = users
    /\ \E q : /\ req' = [req EXCEPT ![r] = q] /\ ~ Undecided(q)
              /\ q.verdict \in {req[r].verdict, "none"}

LEMMA LaterMoments ==
    ASSUME IInv, NEW r \in Requests, Later(r)
    PROVE  MomentsOK'
<1>1. PICK q : req' = [req EXCEPT ![r] = q] /\ ~ Undecided(q)
  BY DEF Later
<1>2. req'[r] = q /\ \A s \in Requests \ {r} : req'[s] = req[s]
  BY <1>1 DEF IInv, ReqsOK
<1>3. \A s \in Requests : Undecided(req'[s]) => Undecided(req[s]) /\ req'[s] = req[s]
  BY <1>1, <1>2
<1> QED BY <1>3, MomentsKept DEF Later

LEMMA MovesOn ==
    ASSUME IInv, NEW r \in Requests, NEW q, req' = [req EXCEPT ![r] = q], Holds(q), UNCHANGED Tables,
           KeepMoments, ~ Undecided(req[r]), ~ Undecided(q), q.verdict \in {req[r].verdict, "none"}
    PROVE  IInv' /\ Later(r)
<1>1. UsersOK' /\ RolesOK' /\ BindsOK' /\ ReqsOK'
  BY QuietStep
<1>2. Later(r)
  BY DEF Later, Tables
<1> QED BY <1>1, <1>2, LaterMoments DEF IInv

LEMMA EndsOn ==
    ASSUME IInv, NEW r \in Requests, NEW a \in Answers, Answer(r, a), UNCHANGED Tables,
           KeepMoments, ~ Undecided(req[r])
    PROVE  IInv' /\ Later(r)
<1> DEFINE q == [Idle EXCEPT !.answer = a]
<1>1. Holds(q) /\ ~ Undecided(q) /\ q.verdict = "none"
  BY EndsIdle DEF Verdicts
<1>2. req' = [req EXCEPT ![r] = q]
  BY DEF Answer
<1> HIDE DEF q
<1> QED BY <1>1, <1>2, MovesOn

(* What a request carries over when it moves on. *)
Carries(q, p, pc) ==
    /\ q \in ReqRow /\ q.pc = pc /\ q.op = p.op /\ q.auth = p.auth /\ q.verdict = p.verdict
    /\ q.roleBody = p.roleBody /\ q.bindBody = p.bindBody
    /\ p \in ReqRow /\ Authorised(p) /\ Checked(p) /\ Found(p)

LEMMA ListOK ==
    ASSUME IInv, NEW r \in Requests, List(r)
    PROVE  IInv' /\ Later(r)
<1>1. (Answer(r, "ok") \/ Answer(r, "error")) /\ UNCHANGED Tables /\ KeepMoments /\ req[r].pc = "list"
  BY DEF List, Tables
<1> QED BY <1>1, EndsOn DEF Answers, Undecided

LEMMA ReadBackOK ==
    ASSUME IInv, NEW r \in Requests, ReadBack(r)
    PROVE  IInv' /\ Later(r)
<1>1. (Answer(r, "ok") \/ Answer(r, "error")) /\ UNCHANGED Tables /\ KeepMoments /\ req[r].pc = "readBack"
  BY DEF ReadBack, Tables
<1> QED BY <1>1, EndsOn DEF Answers, Undecided

LEMMA TailTyped ==
    ASSUME NEW todo \in Seq(STRING), todo # <<>>
    PROVE  Tail(todo) \in Seq(STRING)
  OBVIOUS

LEMMA RoleExists ==
    ASSUME NEW id, Exists("roles", id)
    PROVE  \E i \in DOMAIN roles : roles[i].name = id
  BY ObjectsAssumption DEF Exists

LEMMA ScopedTail ==
    ASSUME NEW ids, NEW todo \in Seq(STRING), todo # <<>>, Head(todo) \in RoleNames, Scoped(ids, todo)
    PROVE  Scoped(ids, Tail(todo)) /\ Tail(todo) \in Seq(STRING)
<1>1. Tail(todo) \in Seq(STRING) /\ DOMAIN todo = 1..Len(todo) /\ DOMAIN Tail(todo) = 1..(Len(todo) - 1)
  OBVIOUS
<1>2. ASSUME NEW m \in DOMAIN todo, m # 1
      PROVE  m - 1 \in DOMAIN Tail(todo) /\ Tail(todo)[m - 1] = todo[m]
  BY <1>1, <1>2
<1>3. ASSUME NEW k \in DOMAIN ids, ids[k] \notin RoleNames
      PROVE  \E m \in DOMAIN Tail(todo) : Tail(todo)[m] = ids[k]
  <2>1. PICK m \in DOMAIN todo : todo[m] = ids[k]
    BY <1>3 DEF Scoped
  <2>2. m # 1
    BY <1>3, <2>1
  <2> QED BY <1>2, <2>1, <2>2
<1> QED BY <1>1, <1>3 DEF Scoped

LEMMA CheckRoleOK ==
    ASSUME IInv, NEW r \in Requests, CheckRole(r)
    PROVE  IInv' /\ Later(r)
<1> DEFINE rest == Tail(req[r].todo)
           pc == IF rest # <<>> THEN "checkRole"
                 ELSE IF req[r].op = "createRole" THEN "insertRole" ELSE "putRole"
           body == req[r].roleBody
<1>1. req[r].pc = "checkRole" /\ UNCHANGED Tables /\ KeepMoments /\ ~ Undecided(req[r])
  BY DEF CheckRole, Tables, Undecided
<1>2. CASE Answer(r, "error")
  BY <1>1, <1>2, EndsOn DEF Answers
<1>3. CASE Exists(body.resource, Head(req[r].todo)) /\ req' = [req EXCEPT ![r].todo = rest, ![r].pc = pc]
  <2>1. req[r] \in ReqRow /\ Authorised(req[r]) /\ Checked(req[r]) /\ Found(req[r])
    BY DEF IInv, ReqsOK, Holds
  <2>2. req[r].todo \in Seq(STRING) /\ req[r].todo # <<>> /\ body \in RoleBodies
    BY <1>1, <2>1 DEF ReqRow, Checked
  <2>3. rest \in Seq(STRING)
    BY <2>2, TailTyped
  <2>4. body.resource = "roles" => Scoped(body.ids, rest)
    <3>1. ASSUME body.resource = "roles" PROVE Head(req[r].todo) \in RoleNames
      <4>1. PICK i \in DOMAIN roles : roles[i].name = Head(req[r].todo)
        BY <1>3, <3>1, RoleExists
      <4> QED BY <4>1 DEF IInv, RolesOK, RoleRow
    <3>2. body.resource = "roles" => Scoped(body.ids, req[r].todo)
      BY <1>1, <2>1 DEF Checked
    <3> QED BY <2>2, <3>1, <3>2, ScopedTail
  <2>5. pc \in PCs /\ pc \in {"checkRole", "insertRole", "putRole"} /\ (pc = "checkRole" <=> rest # <<>>)
        /\ (pc = "insertRole" => req[r].op = "createRole") /\ (pc = "putRole" => req[r].op # "createRole")
    BY DEF PCs
  <2>6. pc # "checkRole" => rest = <<>>
    BY <2>5
  <2> HIDE DEF rest, pc
  <2> DEFINE q == [req[r] EXCEPT !.todo = rest, !.pc = pc]
  <2>7. req' = [req EXCEPT ![r] = q]
    BY <1>3 DEF IInv, ReqsOK
  <2>8. Carries(q, req[r], pc) /\ q.todo = rest
    BY <2>1, <2>3, <2>5 DEF ReqRow, Carries
  <2> HIDE DEF q, body
  <2>9. Authorised(q)
    BY <1>1, <2>1, <2>5, <2>8 DEF Authorised, Carries, Deciding, RoleOps, BindOps, Binding
  <2>10. Checked(q)
    BY <2>1, <2>2, <2>4, <2>5, <2>6, <2>8 DEF Checked, Carries, body
  <2>11. Found(q)
    BY <2>5, <2>8 DEF Found, Carries
  <2>12. Holds(q) /\ ~ Undecided(q) /\ q.verdict = req[r].verdict
    BY <2>5, <2>8, <2>9, <2>10, <2>11 DEF Holds, Carries, Undecided
  <2> QED BY <1>1, <2>7, <2>12, MovesOn
<1> QED BY <1>2, <1>3 DEF CheckRole

LEMMA ListBindsOK ==
    ASSUME IInv, NEW r \in Requests, ListBinds(r)
    PROVE  IInv' /\ Later(r)
<1>1. req[r].pc = "listBinds" /\ UNCHANGED Tables /\ KeepMoments /\ ~ Undecided(req[r])
  BY DEF ListBinds, Tables, Undecided
<1>2. CASE Answer(r, "bound")
  BY <1>1, <1>2, EndsOn DEF Answers
<1>3. CASE Goto(r, "findRole")
  <2> DEFINE q == [req[r] EXCEPT !.pc = "findRole"]
  <2>1. req[r] \in ReqRow /\ Authorised(req[r]) /\ Checked(req[r]) /\ Found(req[r])
    BY DEF IInv, ReqsOK, Holds
  <2>2. req' = [req EXCEPT ![r] = q]
    BY <1>3 DEF Goto, IInv, ReqsOK
  <2>3. Carries(q, req[r], "findRole")
    BY <2>1 DEF ReqRow, Carries, PCs
  <2> HIDE DEF q
  <2>4. Authorised(q) /\ Checked(q)
    BY <1>1, <2>3 DEF Authorised, Checked, Carries, Deciding, RoleOps, BindOps, Binding
  <2>5. Found(q)
    BY <2>3 DEF Found, Carries
  <2>6. Holds(q) /\ ~ Undecided(q) /\ q.verdict = req[r].verdict
    BY <2>3, <2>4, <2>5 DEF Holds, Carries, Undecided
  <2> QED BY <1>1, <2>2, <2>6, MovesOn
<1> QED BY <1>2, <1>3 DEF ListBinds

LEMMA FindRoleOK ==
    ASSUME IInv, NEW r \in Requests, FindRole(r)
    PROVE  IInv' /\ Later(r)
<1>1. req[r].pc = "findRole" /\ UNCHANGED Tables /\ KeepMoments /\ ~ Undecided(req[r])
  BY DEF FindRole, Tables, Undecided
<1>2. CASE Answer(r, "error") \/ Answer(r, "ok")
  BY <1>1, <1>2, EndsOn DEF Answers
<1>3. ASSUME NEW i \in DOMAIN roles, NEW pc \in {"dropRole", "findGroup"},
             pc = "dropRole" => req[r].op = "deleteRole" /\ roles[i].name = req[r].auth.id,
             pc = "findGroup" => req[r].op \in Binding /\ roles[i].name = req[r].bindBody.roleName,
             req' = [req EXCEPT ![r].pc = pc, ![r].role = i]
      PROVE  IInv' /\ Later(r)
  <2> DEFINE q == [req[r] EXCEPT !.pc = pc, !.role = i]
  <2>1. /\ req[r] \in ReqRow /\ Authorised(req[r]) /\ Checked(req[r]) /\ Found(req[r])
        /\ i \in RoleIds /\ i \in used
    BY DEF IInv, ReqsOK, Holds, RolesOK
  <2>2. req' = [req EXCEPT ![r] = q]
    BY <1>3 DEF IInv, ReqsOK
  <2>3. Carries(q, req[r], pc) /\ q.role = i
    BY <2>1 DEF ReqRow, Carries, PCs
  <2> HIDE DEF q
  <2>4. Authorised(q)
    BY <1>1, <1>3, <2>3 DEF Authorised, Carries, Deciding, RoleOps, BindOps, Binding
  <2>5. Checked(q)
    BY <1>1, <1>3, <2>3 DEF Checked, Carries
  <2>6. Found(q)
    BY <1>3, <2>1, <2>3 DEF Found, Carries
  <2>7. Holds(q) /\ ~ Undecided(q) /\ q.verdict = req[r].verdict
    BY <2>3, <2>4, <2>5, <2>6 DEF Holds, Carries, Undecided
  <2> QED BY <1>1, <2>2, <2>7, MovesOn
<1> QED BY <1>2, <1>3 DEF FindRole, Binding

LEMMA FindGroupOK ==
    ASSUME IInv, NEW r \in Requests, FindGroup(r)
    PROVE  IInv' /\ Later(r)
<1>1. req[r].pc = "findGroup" /\ UNCHANGED Tables /\ KeepMoments /\ ~ Undecided(req[r])
  BY DEF FindGroup, Tables, Undecided
<1>2. CASE Answer(r, "error")
  BY <1>1, <1>2, EndsOn DEF Answers
<1>3. ASSUME NEW g \in groups,
             req' = [req EXCEPT ![r].group = g,
                       ![r].pc = IF req[r].op = "createBinding" THEN "insertBind" ELSE "putBind"]
      PROVE  IInv' /\ Later(r)
  <2> DEFINE pc == IF req[r].op = "createBinding" THEN "insertBind" ELSE "putBind"
             q == [req[r] EXCEPT !.group = g, !.pc = pc]
  <2>1. /\ req[r] \in ReqRow /\ Authorised(req[r]) /\ Checked(req[r]) /\ Found(req[r]) /\ g \in Gids
    BY DEF IInv, ReqsOK, Holds, UsersOK
  <2>2. req' = [req EXCEPT ![r] = q]
    BY <1>3 DEF IInv, ReqsOK
  <2>3. pc \in PCs /\ pc \in {"insertBind", "putBind"} /\ (pc = "insertBind" <=> req[r].op = "createBinding")
    BY DEF PCs
  <2> HIDE DEF pc
  <2>4. Carries(q, req[r], pc) /\ q.group = g /\ q.role = req[r].role
    BY <2>1, <2>3 DEF ReqRow, Carries
  <2> HIDE DEF q
  <2>5. Authorised(q)
    BY <1>1, <2>3, <2>4 DEF Authorised, Carries, Deciding, RoleOps, BindOps, Binding
  <2>6. Checked(q)
    BY <1>1, <2>3, <2>4 DEF Checked, Carries, Authorised
  <2>7. Found(q)
    BY <1>1, <2>1, <2>3, <2>4 DEF Found, Carries
  <2>8. Holds(q) /\ ~ Undecided(q) /\ q.verdict = req[r].verdict
    BY <2>3, <2>4, <2>5, <2>6, <2>7 DEF Holds, Carries, Undecided
  <2> QED BY <1>1, <2>2, <2>8, MovesOn
<1> QED BY <1>2, <1>3 DEF FindGroup

LEMMA FindBindOK ==
    ASSUME IInv, NEW r \in Requests, FindBind(r)
    PROVE  IInv' /\ Later(r)
<1>1. req[r].pc = "findBind" /\ UNCHANGED Tables /\ KeepMoments /\ ~ Undecided(req[r])
  BY DEF FindBind, Tables, Undecided
<1>2. CASE Answer(r, "error") \/ Answer(r, "ok")
  BY <1>1, <1>2, EndsOn DEF Answers
<1>3. ASSUME NEW b \in DOMAIN binds, binds[b].name = req[r].auth.id, req[r].op = "deleteBinding",
             req' = [req EXCEPT ![r].pc = "dropBind", ![r].bind = b]
      PROVE  IInv' /\ Later(r)
  <2> DEFINE q == [req[r] EXCEPT !.pc = "dropBind", !.bind = b]
  <2>1. /\ req[r] \in ReqRow /\ Authorised(req[r]) /\ Checked(req[r]) /\ Found(req[r])
        /\ b \in BindIds /\ b \in used
    BY DEF IInv, ReqsOK, Holds, BindsOK
  <2>2. req' = [req EXCEPT ![r] = q]
    BY <1>3 DEF IInv, ReqsOK
  <2>3. Carries(q, req[r], "dropBind") /\ q.bind = b
    BY <2>1 DEF ReqRow, Carries, PCs
  <2> HIDE DEF q
  <2>4. Authorised(q)
    BY <1>1, <1>3, <2>3 DEF Authorised, Carries, Deciding, RoleOps, BindOps, Binding
  <2>5. Checked(q) /\ Found(q)
    BY <1>3, <2>1, <2>3 DEF Checked, Found, Carries
  <2>6. Holds(q) /\ ~ Undecided(q) /\ q.verdict = req[r].verdict
    BY <2>3, <2>4, <2>5 DEF Holds, Carries, Undecided
  <2> QED BY <1>1, <2>2, <2>6, MovesOn
<1> QED BY <1>2, <1>3 DEF FindBind

-----------------------------------------------------------------------------
(* The statements that write a table. *)
LEMMA EndsWriting ==
    ASSUME IInv, NEW r \in Requests, NEW a \in Answers, Answer(r, a), KeepMoments, users' = users,
           ~ Undecided(req[r]), \A s \in Requests \ {r} : req'[s] = req[s] /\ Holds(req[s]) => Found(req[s])'
    PROVE  ReqsOK' /\ MomentsOK' /\ Later(r)
<1> DEFINE q == [Idle EXCEPT !.answer = a]
<1>1. req' = [req EXCEPT ![r] = q] /\ Holds(q)' /\ ~ Undecided(q) /\ q.verdict = "none"
  BY EndsIdle DEF Answer, Verdicts
<1> HIDE DEF q
<1>2. DOMAIN req' = Requests /\ req'[r] = q /\ \A s \in Requests \ {r} : req'[s] = req[s]
  BY <1>1 DEF IInv, ReqsOK
<1>3. Later(r)
  BY <1>1 DEF Later
<1>4. MomentsOK'
  BY <1>3, LaterMoments
<1>5. Holds(req[r])'
  BY <1>1, <1>2 DEF Holds, Authorised, Checked, Found
<1>6. ASSUME NEW s \in Requests \ {r} PROVE Holds(req[s])'
  <2>1. Holds(req[s]) /\ req'[s] = req[s] /\ Found(req[s])'
    BY <1>2 DEF IInv, ReqsOK
  <2> QED BY <2>1 DEF Holds, Authorised, Checked
<1> QED BY <1>2, <1>3, <1>4, <1>5, <1>6 DEF ReqsOK

(* A row whose id is used is not inserted but by a body. *)
LEMMA DrawnIds ==
    ASSUME NEW ids, NEW chosen \in ids \cup {Blank}, NEW i \in Draw(ids, chosen), Record(i, chosen)
    PROVE  /\ i \in ids
           /\ used \subseteq used' /\ i \in used' /\ given \subseteq given'
           /\ i \in used => i \in given'
  BY DEF Draw, Record

LEMMA InsertRoleOK ==
    ASSUME IInv, NEW r \in Requests, InsertRole(r)
    PROVE  IInv' /\ Later(r)
<1> DEFINE body == req[r].roleBody
           row == [name |-> body.name, resource |-> body.resource,
                   ids |-> body.ids, access |-> body.access, builtin |-> FALSE]
<1>1. req[r].pc = "insertRole" /\ UNCHANGED <<users, groups, binds>> /\ KeepMoments /\ ~ Undecided(req[r])
  BY DEF InsertRole, Undecided
<1>2. CASE Answer(r, "error") /\ UNCHANGED <<roles, used, given>>
  BY <1>1, <1>2, EndsOn DEF Answers, Tables
<1>3. ASSUME NEW i \in Draw(RoleIds, body.id), Free(roles, i, body.name), roles' = Insert(roles, i, row),
             Record(i, body.id), Answer(r, "ok")
      PROVE  IInv' /\ Later(r)
  <2>1. body \in RoleBodies /\ (body.resource = "roles" => Scoped(body.ids, <<>>))
    BY <1>1 DEF IInv, ReqsOK, Holds, Checked
  <2>2. row \in RoleRow /\ row.resource = body.resource /\ row.ids = body.ids /\ body.id \in RoleIds \cup {Blank}
    BY <2>1, BodiesAssumption DEF RoleBody, RoleRow
  <2>3. i \in RoleIds /\ i \notin DOMAIN roles
        /\ used \subseteq used' /\ i \in used' /\ given \subseteq given' /\ (i \in used => i \in given')
    BY <1>3, <2>2, DrawnIds DEF Free
  <2> HIDE DEF row
  <2>4. /\ DOMAIN roles' = DOMAIN roles \cup {i} /\ roles'[i] = row
        /\ \A j \in DOMAIN roles : roles'[j] = roles[j]
    BY <1>3, <2>3 DEF Insert
  <2> HIDE DEF body
  <2>5. UsersOK'
    BY <1>1 DEF IInv, UsersOK
  <2>6. RolesOK'
    BY <2>1, <2>2, <2>3, <2>4 DEF IInv, RolesOK, Scoped
  <2>7. BindsOK'
    BY <1>1, <2>3, <2>4 DEF IInv, BindsOK
  <2>8. ASSUME NEW s \in Requests \ {r}, req'[s] = req[s], Holds(req[s]) PROVE Found(req[s])'
    BY <1>1, <2>3, <2>4, <2>8 DEF Holds, Found
  <2>9. ReqsOK' /\ MomentsOK' /\ Later(r)
    BY <1>1, <1>3, <2>8, EndsWriting DEF Answers
  <2> QED BY <2>5, <2>6, <2>7, <2>9 DEF IInv
<1> QED BY <1>2, <1>3 DEF InsertRole

LEMMA InsertBindOK ==
    ASSUME IInv, NEW r \in Requests, InsertBind(r)
    PROVE  IInv' /\ Later(r)
<1> DEFINE body == req[r].bindBody
           row == [name |-> body.name, role |-> req[r].role, roleName |-> body.roleName,
                   group |-> req[r].group, provider |-> body.provider, builtin |-> FALSE]
<1>1. req[r].pc = "insertBind" /\ UNCHANGED <<users, groups, roles>> /\ KeepMoments /\ ~ Undecided(req[r])
  BY DEF InsertBind, Undecided
<1>2. CASE Answer(r, "error") /\ UNCHANGED <<binds, used, given>>
  BY <1>1, <1>2, EndsOn DEF Answers, Tables
<1>3. ASSUME NEW b \in Draw(BindIds, body.id), Free(binds, b, body.name), binds' = Insert(binds, b, row),
             Record(b, body.id), Answer(r, "ok")
      PROVE  IInv' /\ Later(r)
  <2>1. /\ body \in BindBodies /\ body.provider \in Providers
        /\ req[r].role \in used /\ req[r].role \in RoleIds /\ req[r].group \in Gids
        /\ req[r].role \in DOMAIN roles \ given => roles[req[r].role].name = body.roleName
    BY <1>1 DEF IInv, ReqsOK, Holds, Checked, Found, Authorised, Binding
  <2>2. /\ row \in BindRow /\ row.role = req[r].role /\ row.roleName = body.roleName
        /\ body.id \in BindIds \cup {Blank}
    BY <2>1, BodiesAssumption DEF BindBody, BindRow
  <2>3. b \in BindIds /\ b \notin DOMAIN binds
        /\ used \subseteq used' /\ b \in used' /\ given \subseteq given' /\ (b \in used => b \in given')
    BY <1>3, <2>2, DrawnIds DEF Free
  <2> HIDE DEF row
  <2>4. /\ DOMAIN binds' = DOMAIN binds \cup {b} /\ binds'[b] = row
        /\ \A j \in DOMAIN binds : binds'[j] = binds[j]
    BY <1>3, <2>3 DEF Insert
  <2> HIDE DEF body
  <2>5. UsersOK'
    BY <1>1 DEF IInv, UsersOK
  <2>6. RolesOK'
    BY <1>1, <2>3 DEF IInv, RolesOK
  <2>7. BindsOK'
    BY <1>1, <2>1, <2>2, <2>3, <2>4 DEF IInv, BindsOK
  <2>8. ASSUME NEW s \in Requests \ {r}, req'[s] = req[s], Holds(req[s]) PROVE Found(req[s])'
    BY <1>1, <2>3, <2>4, <2>8 DEF Holds, Found
  <2>9. ReqsOK' /\ MomentsOK' /\ Later(r)
    BY <1>1, <1>3, <2>8, EndsWriting DEF Answers
  <2> QED BY <2>5, <2>6, <2>7, <2>9 DEF IInv
<1> QED BY <1>2, <1>3 DEF InsertBind

LEMMA DropRoleOK ==
    ASSUME IInv, NEW r \in Requests, DropRole(r)
    PROVE  IInv' /\ Later(r)
<1>1. /\ req[r].pc = "dropRole" /\ Answer(r, "ok") /\ UNCHANGED <<users, groups, binds, used, given>>
      /\ KeepMoments /\ ~ Undecided(req[r])
  BY DEF DropRole, Undecided
<1>2. DOMAIN roles' \subseteq DOMAIN roles /\ \A i \in DOMAIN roles' : roles'[i] = roles[i]
  BY DEF DropRole, Without
<1>3. UsersOK' /\ RolesOK' /\ BindsOK'
  BY <1>1, <1>2 DEF IInv, UsersOK, RolesOK, BindsOK
<1>4. ASSUME NEW s \in Requests \ {r}, req'[s] = req[s], Holds(req[s]) PROVE Found(req[s])'
  BY <1>1, <1>2, <1>4 DEF Holds, Found
<1>5. ReqsOK' /\ MomentsOK' /\ Later(r)
  BY <1>1, <1>4, EndsWriting DEF Answers
<1> QED BY <1>3, <1>5 DEF IInv

LEMMA DropBindOK ==
    ASSUME IInv, NEW r \in Requests, DropBind(r)
    PROVE  IInv' /\ Later(r)
<1>1. /\ req[r].pc = "dropBind" /\ Answer(r, "ok") /\ UNCHANGED <<users, groups, roles, used, given>>
      /\ KeepMoments /\ ~ Undecided(req[r])
  BY DEF DropBind, Undecided
<1>2. DOMAIN binds' \subseteq DOMAIN binds /\ \A b \in DOMAIN binds' : binds'[b] = binds[b]
  BY DEF DropBind, Without
<1>3. UsersOK' /\ RolesOK' /\ BindsOK'
  BY <1>1, <1>2 DEF IInv, UsersOK, RolesOK, BindsOK
<1>4. ASSUME NEW s \in Requests \ {r}, req'[s] = req[s], Holds(req[s]) PROVE Found(req[s])'
  BY <1>1, <1>2, <1>4 DEF Holds, Found
<1>5. ReqsOK' /\ MomentsOK' /\ Later(r)
  BY <1>1, <1>4, EndsWriting DEF Answers
<1> QED BY <1>3, <1>5 DEF IInv

(* What an update writes: one row that is not builtin, under the path id, and no name. *)
LEMMA PutRoleWrites ==
    ASSUME IInv, NEW r \in Requests, PutRole(r)
    PROVE  /\ DOMAIN roles' = DOMAIN roles
           /\ \A i \in DOMAIN roles :
                 /\ roles'[i] \in RoleRow /\ roles'[i].name = roles[i].name
                 /\ roles'[i] # roles[i] =>
                       /\ i = req[r].auth.id /\ ~ roles[i].builtin
                       /\ roles'[i].resource = req[r].roleBody.resource
                       /\ roles'[i].ids = req[r].roleBody.ids
<1> DEFINE i == req[r].auth.id
           body == req[r].roleBody
<1>1. body \in RoleBody
  BY BodiesAssumption DEF PutRole, IInv, ReqsOK, Holds, Checked
<1>2. \A j \in DOMAIN roles : roles[j] \in RoleRow
  BY DEF IInv, RolesOK
<1>3. CASE ~ Writable(roles, i)
  BY <1>2, <1>3 DEF PutRole
<1>4. CASE Writable(roles, i)
  <2> DEFINE row == [[[roles[i] EXCEPT !.resource = body.resource] EXCEPT !.ids = body.ids]
                         EXCEPT !.access = body.access]
  <2>1. i \in DOMAIN roles /\ ~ roles[i].builtin /\ roles[i] \in RoleRow
    BY <1>2, <1>4 DEF Writable
  <2>2. roles' = [roles EXCEPT ![i] = row]
    BY <1>4, <2>1 DEF PutRole
  <2>3. row \in RoleRow /\ row.name = roles[i].name /\ row.resource = body.resource /\ row.ids = body.ids
    BY <1>1, <2>1 DEF RoleRow, RoleBody
  <2> HIDE DEF row
  <2>4. DOMAIN roles' = DOMAIN roles /\ \A j \in DOMAIN roles : roles'[j] = IF j = i THEN row ELSE roles[j]
    BY <2>1, <2>2
  <2> QED BY <1>2, <2>1, <2>3, <2>4
<1> QED BY <1>3, <1>4

LEMMA PutBindWrites ==
    ASSUME IInv, NEW r \in Requests, PutBind(r)
    PROVE  /\ DOMAIN binds' = DOMAIN binds
           /\ \A b \in DOMAIN binds :
                 /\ binds'[b] \in BindRow /\ binds'[b].name = binds[b].name
                 /\ binds'[b] # binds[b] =>
                       /\ b = req[r].auth.id /\ ~ binds[b].builtin
                       /\ binds'[b].role = req[r].role
                       /\ binds'[b].roleName = req[r].bindBody.roleName
<1> DEFINE b == req[r].auth.id
           body == req[r].bindBody
<1>1. /\ body \in BindBody /\ body.provider \in Providers
      /\ req[r].role \in RoleIds /\ req[r].group \in Gids
  BY BodiesAssumption DEF PutBind, IInv, ReqsOK, Holds, Checked, Found, Authorised, Binding
<1>2. \A j \in DOMAIN binds : binds[j] \in BindRow
  BY DEF IInv, BindsOK
<1>3. CASE ~ Writable(binds, b)
  BY <1>2, <1>3 DEF PutBind
<1>4. CASE Writable(binds, b)
  <2> DEFINE row == [[[[binds[b] EXCEPT !.role = req[r].role] EXCEPT !.roleName = body.roleName]
                         EXCEPT !.group = req[r].group] EXCEPT !.provider = body.provider]
  <2>1. b \in DOMAIN binds /\ ~ binds[b].builtin /\ binds[b] \in BindRow
    BY <1>2, <1>4 DEF Writable
  <2>2. binds' = [binds EXCEPT ![b] = row]
    BY <1>4, <2>1 DEF PutBind
  <2>3. row \in BindRow /\ row.name = binds[b].name /\ row.role = req[r].role /\ row.roleName = body.roleName
    BY <1>1, <2>1 DEF BindRow, BindBody
  <2> HIDE DEF row
  <2>4. DOMAIN binds' = DOMAIN binds /\ \A j \in DOMAIN binds : binds'[j] = IF j = b THEN row ELSE binds[j]
    BY <2>1, <2>2
  <2> QED BY <1>2, <2>1, <2>3, <2>4
<1> QED BY <1>3, <1>4

LEMMA GoesBack ==
    ASSUME IInv, NEW r \in Requests, req[r].pc \in {"putRole", "putBind"}, Goto(r, "readBack"),
           KeepMoments, users' = users,
           \A s \in Requests \ {r} : req'[s] = req[s] /\ Holds(req[s]) => Found(req[s])'
    PROVE  ReqsOK' /\ MomentsOK' /\ Later(r)
<1> DEFINE q == [req[r] EXCEPT !.pc = "readBack"]
<1>1. req[r] \in ReqRow /\ Authorised(req[r]) /\ Checked(req[r]) /\ Found(req[r])
  BY DEF IInv, ReqsOK, Holds
<1>2. req' = [req EXCEPT ![r] = q]
  BY DEF Goto, IInv, ReqsOK
<1>3. Carries(q, req[r], "readBack")
  BY <1>1 DEF ReqRow, Carries, PCs
<1> HIDE DEF q
<1>4. DOMAIN req' = Requests /\ req'[r] = q /\ \A s \in Requests \ {r} : req'[s] = req[s]
  BY <1>2 DEF IInv, ReqsOK
<1>5. ~ Undecided(req[r]) /\ ~ Undecided(q) /\ q.verdict = req[r].verdict
  BY <1>3 DEF Undecided, Carries
<1>6. Later(r)
  BY <1>2, <1>5 DEF Later
<1>7. MomentsOK'
  BY <1>6, LaterMoments
<1>8. Authorised(q)
  BY <1>1, <1>3 DEF Authorised, Carries, Deciding, RoleOps, BindOps
<1>9. Holds(req[r])'
  BY <1>3, <1>4, <1>8 DEF Holds, Authorised, Checked, Found, Carries
<1>10. ASSUME NEW s \in Requests \ {r} PROVE Holds(req[s])'
  <2>1. Holds(req[s]) /\ req'[s] = req[s] /\ Found(req[s])'
    BY <1>4 DEF IInv, ReqsOK
  <2> QED BY <2>1 DEF Holds, Authorised, Checked
<1> QED BY <1>4, <1>6, <1>7, <1>9, <1>10 DEF ReqsOK

LEMMA PutRoleOK ==
    ASSUME IInv, NEW r \in Requests, PutRole(r)
    PROVE  IInv' /\ Later(r)
<1>1. /\ req[r].pc = "putRole" /\ Goto(r, "readBack") /\ UNCHANGED <<users, groups, binds, used, given>>
      /\ KeepMoments
  BY DEF PutRole
<1>2. /\ DOMAIN roles' = DOMAIN roles
      /\ \A i \in DOMAIN roles :
            /\ roles'[i] \in RoleRow /\ roles'[i].name = roles[i].name
            /\ roles'[i] # roles[i] =>
                  roles'[i].resource = req[r].roleBody.resource /\ roles'[i].ids = req[r].roleBody.ids
  BY PutRoleWrites
<1>3. req[r].roleBody.resource = "roles" => Scoped(req[r].roleBody.ids, <<>>)
  BY <1>1 DEF IInv, ReqsOK, Holds, Checked
<1>4. UsersOK' /\ BindsOK'
  BY <1>1, <1>2 DEF IInv, UsersOK, BindsOK
<1>5. RolesOK'
  <2>1. ASSUME NEW i \in DOMAIN roles, roles'[i].resource = "roles"
        PROVE  roles'[i].ids = <<All>> \/ Scoped(roles'[i].ids, <<>>)
    BY <1>2, <1>3, <2>1 DEF IInv, RolesOK
  <2> QED BY <1>1, <1>2, <2>1 DEF IInv, RolesOK, Scoped
<1>6. ASSUME NEW s \in Requests \ {r}, req'[s] = req[s], Holds(req[s]) PROVE Found(req[s])'
  BY <1>1, <1>2, <1>6 DEF Holds, Found
<1>7. ReqsOK' /\ MomentsOK' /\ Later(r)
  BY <1>1, <1>6, GoesBack
<1> QED BY <1>4, <1>5, <1>7 DEF IInv

LEMMA PutBindOK ==
    ASSUME IInv, NEW r \in Requests, PutBind(r)
    PROVE  IInv' /\ Later(r)
<1>1. /\ req[r].pc = "putBind" /\ Goto(r, "readBack") /\ UNCHANGED <<users, groups, roles, used, given>>
      /\ KeepMoments
  BY DEF PutBind
<1>2. /\ DOMAIN binds' = DOMAIN binds
      /\ \A b \in DOMAIN binds :
            /\ binds'[b] \in BindRow /\ binds'[b].name = binds[b].name
            /\ binds'[b] # binds[b] =>
                  binds'[b].role = req[r].role /\ binds'[b].roleName = req[r].bindBody.roleName
  BY PutBindWrites
<1>3. /\ req[r].role \in used
      /\ req[r].role \in DOMAIN roles \ given => roles[req[r].role].name = req[r].bindBody.roleName
  BY <1>1 DEF IInv, ReqsOK, Holds, Found
<1>4. UsersOK' /\ RolesOK'
  BY <1>1 DEF IInv, UsersOK, RolesOK
<1>5. BindsOK'
  <2>1. ASSUME NEW b \in DOMAIN binds
        PROVE  /\ binds'[b].role \in used
               /\ binds'[b].role \in DOMAIN roles \ given => roles[binds'[b].role].name = binds'[b].roleName
    BY <1>2, <1>3 DEF IInv, BindsOK
  <2> QED BY <1>1, <1>2, <2>1 DEF IInv, BindsOK
<1>6. ASSUME NEW s \in Requests \ {r}, req'[s] = req[s], Holds(req[s]) PROVE Found(req[s])'
  BY <1>1, <1>2, <1>6 DEF Holds, Found
<1>7. ReqsOK' /\ MomentsOK' /\ Later(r)
  BY <1>1, <1>6, GoesBack
<1> QED BY <1>4, <1>5, <1>7 DEF IInv

-----------------------------------------------------------------------------
(* The middleware. *)
LEMMA AsksTyped ==
    ASSUME NEW ask \in Asks
    PROVE  /\ ask[1] \in AllOps \ ListOps
           /\ ask[3][1] \in Resources /\ ask[3][2] \in Paths \cup STRING \cup {All} /\ ask[3][3] \in Accesses
           /\ ask[1] \in RoleOps => ask[3][1] = "roles" /\ ask[3][3] = "write"
           /\ ask[1] \in BindOps => ask[3][1] = "role_bindings" /\ ask[3][3] = "write"
<1>1. CASE \E op \in Ops \cap {"updateRole", "deleteRole", "getRole"}, id \in Paths :
              ask = <<op, id, RoleRoutes(op, id)>>
  BY <1>1 DEF RoleRoutes, AllOps, ListOps, WriteOps, Resources, Accesses, RoleOps, BindOps
<1>2. CASE \E op \in Ops \cap {"updateBinding", "deleteBinding", "getBinding"}, id \in Paths :
              ask = <<op, id, BindingRoutes(op, id)>>
  BY <1>2 DEF BindingRoutes, AllOps, ListOps, WriteOps, Resources, Accesses, RoleOps, BindOps
<1>3. CASE ask = <<"createRole", All, RoleRoutes("createRole", All)>>
  BY <1>3 DEF RoleRoutes, AllOps, ListOps, WriteOps, Resources, Accesses, RoleOps, BindOps
<1>4. CASE ask = <<"createBinding", All, BindingRoutes("createBinding", All)>>
  BY <1>4 DEF BindingRoutes, AllOps, ListOps, WriteOps, Resources, Accesses, RoleOps, BindOps
<1>5. CASE \E u \in Uses : ask = <<"use", u[2], u>>
  BY <1>5, UsesAssumption DEF AllOps, ListOps, WriteOps, RoleOps, BindOps
<1> QED BY <1>1, <1>2, <1>3, <1>4, <1>5 DEF Asks

(* What a request is when it arrives. *)
Arrives(r, q) ==
    /\ req' = [req EXCEPT ![r] = q] /\ q \in ReqRow /\ q.pc = "getUser" /\ q.verdict = "none"
    /\ q.auth.user \in Uids
    /\ q.op \in RoleOps => q.auth.resource = "roles" /\ q.auth.access = "write"
    /\ q.op \in BindOps => q.auth.resource = "role_bindings" /\ q.auth.access = "write"

LEMMA BeginArrives ==
    ASSUME NEW r \in Requests, Begin(r)
    PROVE  /\ req[r].pc = "idle" /\ UNCHANGED Tables /\ KeepMoments
           /\ \E q : Arrives(r, q) /\ (q.op \notin ListOps => q.auth \in Questions)
<1>1. req[r].pc = "idle" /\ UNCHANGED Tables /\ KeepMoments
  BY DEF Begin, Tables
<1>2. PICK user \in Uids, provider \in Providers :
          \/ \E ask \in Asks :
                req' = [req EXCEPT ![r] = [Idle EXCEPT !.pc = "getUser", !.op = ask[1],
                    !.auth = Authorization(user, provider, ask[3][1], ask[3][2], ask[3][3])]]
          \/ \E op \in Ops \cap ListOps :
                req' = [req EXCEPT ![r] = [Idle EXCEPT !.pc = "getUser", !.op = op,
                    !.auth = Authorization(user, provider,
                               IF op = "listRoles" THEN "roles" ELSE "role_bindings", All, "read")]]
  BY DEF Begin
<1>3. CASE \E ask \in Asks :
                req' = [req EXCEPT ![r] = [Idle EXCEPT !.pc = "getUser", !.op = ask[1],
                    !.auth = Authorization(user, provider, ask[3][1], ask[3][2], ask[3][3])]]
  <2>1. PICK ask \in Asks :
                req' = [req EXCEPT ![r] = [Idle EXCEPT !.pc = "getUser", !.op = ask[1],
                    !.auth = Authorization(user, provider, ask[3][1], ask[3][2], ask[3][3])]]
    BY <1>3
  <2> DEFINE auth == Authorization(user, provider, ask[3][1], ask[3][2], ask[3][3])
             q == [Idle EXCEPT !.pc = "getUser", !.op = ask[1], !.auth = auth]
  <2>2. /\ auth \in AuthRow /\ auth.user = user /\ auth.resource = ask[3][1] /\ auth.access = ask[3][3]
        /\ auth \in Questions
    BY AsksTyped DEF Authorization, AuthRow, Questions
  <2>3. ask[1] \in AllOps
    BY AsksTyped
  <2> HIDE DEF auth
  <2>4. q \in ReqRow /\ q.pc = "getUser" /\ q.verdict = "none" /\ q.op = ask[1] /\ q.auth = auth
    BY <2>2, <2>3, IdleTyped DEF ReqRow, PCs
  <2>5. req' = [req EXCEPT ![r] = q]
    BY <2>1 DEF auth
  <2> HIDE DEF q
  <2>6. Arrives(r, q)
    BY <2>2, <2>4, <2>5, AsksTyped DEF Arrives
  <2> QED BY <1>1, <2>2, <2>4, <2>6
<1>4. CASE \E op \in Ops \cap ListOps :
                req' = [req EXCEPT ![r] = [Idle EXCEPT !.pc = "getUser", !.op = op,
                    !.auth = Authorization(user, provider,
                               IF op = "listRoles" THEN "roles" ELSE "role_bindings", All, "read")]]
  <2>1. PICK op \in Ops \cap ListOps :
                req' = [req EXCEPT ![r] = [Idle EXCEPT !.pc = "getUser", !.op = op,
                    !.auth = Authorization(user, provider,
                               IF op = "listRoles" THEN "roles" ELSE "role_bindings", All, "read")]]
    BY <1>4
  <2> DEFINE auth == Authorization(user, provider,
                               IF op = "listRoles" THEN "roles" ELSE "role_bindings", All, "read")
             q == [Idle EXCEPT !.pc = "getUser", !.op = op, !.auth = auth]
  <2>2. auth \in AuthRow /\ auth.user = user
    BY DEF Authorization, AuthRow, Resources, Accesses
  <2>3. op \in AllOps /\ op \notin RoleOps \cup BindOps
    BY DEF AllOps, ListOps, RoleOps, BindOps
  <2> HIDE DEF auth
  <2>4. q \in ReqRow /\ q.pc = "getUser" /\ q.verdict = "none" /\ q.op = op /\ q.auth = auth
    BY <2>2, <2>3, IdleTyped DEF ReqRow, PCs
  <2>5. req' = [req EXCEPT ![r] = q]
    BY <2>1 DEF auth
  <2> HIDE DEF q
  <2>6. Arrives(r, q)
    BY <2>2, <2>3, <2>4, <2>5 DEF Arrives
  <2> QED BY <1>1, <2>4, <2>6
<1> QED BY <1>2, <1>3, <1>4

LEMMA BeginOK ==
    ASSUME IInv, NEW r \in Requests, Begin(r)
    PROVE  IInv'
<1>1. /\ req[r].pc = "idle" /\ UNCHANGED Tables /\ KeepMoments
  BY BeginArrives
<1>2. PICK q : Arrives(r, q)
  BY BeginArrives
<1>3. req' = [req EXCEPT ![r] = q] /\ q.pc = "getUser"
  BY <1>2 DEF Arrives
<1>4. Holds(q)
  BY <1>2 DEF Arrives, Holds, Authorised, Checked, Found, Deciding, RoleOps, BindOps, Binding
<1>5. UsersOK' /\ RolesOK' /\ BindsOK' /\ ReqsOK'
  BY <1>1, <1>3, <1>4, QuietStep
<1>6. req'[r] = q /\ \A s \in Requests \ {r} : req'[s] = req[s]
  BY <1>3 DEF IInv, ReqsOK
<1>7. ~ Undecided(req[r]) /\ users' = users
  BY <1>1 DEF Undecided, Tables
<1>8. DOMAIN moments' = Requests
  BY <1>1 DEF KeepMoments
<1>9. ASSUME NEW s \in Requests, Undecided(req'[s])
      PROVE  /\ \A u \in {req'[s].auth.user} \cap DOMAIN users' : users'[u] \in moments'[s]
             /\ req'[s].pc = "getRoles" => req'[s].groups \in moments'[s]
  <2>1. /\ {users'[u] : u \in {req'[s].auth.user} \cap DOMAIN users'} \subseteq moments'[s]
        /\ Undecided(req[s]) => moments[s] \subseteq moments'[s]
    BY <1>1, <1>9 DEF KeepMoments
  <2>2. CASE s = r
    BY <1>3, <1>6, <2>1, <2>2
  <2>3. CASE s # r
    BY <1>6, <1>9, <2>1, <2>3 DEF IInv, MomentsOK
  <2> QED BY <2>2, <2>3
<1>10. MomentsOK'
  BY <1>8, <1>9 DEF MomentsOK, Undecided
<1> QED BY <1>5, <1>10 DEF IInv

LEMMA QuietMoments ==
    ASSUME IInv, KeepMoments, NEW r \in Requests, NEW q, req' = [req EXCEPT ![r] = q], Holds(q), UNCHANGED Tables,
           Undecided(q) => /\ Undecided(req[r]) /\ q.auth = req[r].auth
                           /\ req[r].auth.user \in DOMAIN users /\ q.groups = users[req[r].auth.user]
    PROVE  IInv'
<1>1. users' = users
  BY DEF Tables
<1>2. req'[r] = q /\ \A s \in Requests \ {r} : req'[s] = req[s]
  BY DEF IInv, ReqsOK
<1>3. MomentsOK'
  BY <1>1, <1>2, MomentsKept
<1>4. UsersOK' /\ RolesOK' /\ BindsOK' /\ ReqsOK'
  BY QuietStep
<1> QED BY <1>3, <1>4 DEF IInv

LEMMA GetUserOK ==
    ASSUME IInv, NEW r \in Requests, GetUser(r)
    PROVE  IInv'
<1> DEFINE u == req[r].auth.user
<1>1. req[r].pc = "getUser" /\ UNCHANGED Tables /\ KeepMoments /\ req[r] \in ReqRow /\ Authorised(req[r])
  BY DEF GetUser, Tables, IInv, ReqsOK, Holds
<1>2. CASE u \in DOMAIN users
  <2> DEFINE q == [req[r] EXCEPT !.pc = "getRoles", !.groups = users[u]]
  <2>1. users[u] \in SUBSET Gids
    BY <1>2 DEF IInv, UsersOK
  <2>2. req' = [req EXCEPT ![r] = q]
    BY <1>2 DEF GetUser, IInv, ReqsOK
  <2>3. q \in ReqRow /\ q.pc = "getRoles" /\ q.auth = req[r].auth /\ q.op = req[r].op /\ q.groups = users[u]
    BY <1>1, <2>1 DEF ReqRow, PCs
  <2> HIDE DEF q
  <2>4. Authorised(q)
    BY <1>1, <2>3 DEF Authorised, Deciding
  <2>5. Holds(q)
    BY <2>3, <2>4 DEF Holds, Checked, Found
  <2>6. Undecided(q) => Undecided(req[r])
    BY <1>1, <2>3 DEF Undecided
  <2> QED BY <1>1, <1>2, <2>2, <2>3, <2>5, <2>6, QuietMoments
<1>3. CASE u \notin DOMAIN users
  <2> DEFINE v == IF req[r].op \in ListOps THEN "none" ELSE "error"
             q == [Idle EXCEPT !.verdict = v, !.answer = "error"]
  <2>1. v \in Verdicts /\ "error" \in Answers
    BY DEF Verdicts, Answers
  <2>2. req' = [req EXCEPT ![r] = q]
    BY <1>3 DEF GetUser, Turned
  <2> HIDE DEF v
  <2>3. Holds(q) /\ ~ Undecided(q)
    BY <2>1, EndsIdle
  <2> HIDE DEF q
  <2> QED BY <1>1, <2>2, <2>3, QuietMoments
<1> QED BY <1>2, <1>3

(* How a decision leaves a request. *)
Passes(r) ==
    \E q : /\ req' = [req EXCEPT ![r] = q] /\ Holds(q) /\ ~ Undecided(q) /\ q.verdict = "pass"
           /\ q.pc \in {"checkRole", "putRole"} => q.op = req[r].op

LEMMA TurnedPasses ==
    ASSUME NEW r \in Requests, NEW a \in Answers, Turned(r, "pass", a)
    PROVE  Passes(r)
<1> DEFINE q == [Idle EXCEPT !.verdict = "pass", !.answer = a]
<1>1. "pass" \in Verdicts
  BY DEF Verdicts
<1>2. Holds(q) /\ ~ Undecided(q) /\ q.verdict = "pass" /\ q.pc = "idle"
  BY <1>1, EndsIdle
<1>3. req' = [req EXCEPT ![r] = q]
  BY DEF Turned
<1> HIDE DEF q
<1> QED BY <1>2, <1>3 DEF Passes

LEMMA ProceedPasses ==
    ASSUME IInv, NEW r \in Requests, req[r].pc = "getRoles",
           NEW pc \in PCs \ {"idle", "getUser", "getRoles", "list", "dropRole", "findGroup", "insertBind", "putBind", "dropBind"},
           NEW roleBody \in RoleBodies \cup {NoRole}, NEW bindBody \in BindBodies \cup {NoBind},
           Proceed(r, pc, roleBody, bindBody),
           pc = "checkRole" => req[r].op \in {"createRole", "updateRole"} /\ roleBody.ids # <<>>,
           pc = "insertRole" => req[r].op = "createRole",
           pc = "putRole" => req[r].op = "updateRole",
           pc \in {"checkRole", "insertRole", "putRole"} => roleBody \in RoleBodies,
           pc \in {"insertRole", "putRole"} => roleBody.ids = <<>>,
           pc = "listBinds" => req[r].op = "deleteRole",
           pc = "findRole" => \/ req[r].op = "getRole"
                              \/ req[r].op \in Binding /\ bindBody \in BindBodies /\ bindBody.provider \in Providers,
           pc = "findBind" => req[r].op \in {"getBinding", "deleteBinding"},
           req[r].op = "updateRole" => req[r].auth.id \in RoleIds,
           req[r].op = "updateBinding" => req[r].auth.id \in BindIds
    PROVE  Passes(r)
<1> DEFINE q == [req[r] EXCEPT !.pc = pc, !.verdict = "pass", !.groups = {},
                       !.roleBody = roleBody, !.bindBody = bindBody, !.todo = roleBody.ids]
<1>1. req[r] \in ReqRow /\ Authorised(req[r])
  BY DEF IInv, ReqsOK, Holds
<1>2. req' = [req EXCEPT ![r] = q]
  BY DEF Proceed, IInv, ReqsOK
<1>3. roleBody.ids \in Seq(STRING)
  <2>1. NoRole.ids = <<>> /\ <<>> \in Seq(STRING)
    BY DEF NoRole
  <2>2. \A b \in RoleBodies : b.ids \in Seq(STRING)
    BY BodiesAssumption DEF RoleBody
  <2> QED BY <2>1, <2>2
<1>4. /\ q \in ReqRow /\ q.pc = pc /\ q.verdict = "pass" /\ q.roleBody = roleBody /\ q.bindBody = bindBody
      /\ q.todo = roleBody.ids /\ q.op = req[r].op /\ q.auth = req[r].auth
  <2> DEFINE ids == roleBody.ids
             p == [req[r] EXCEPT !.pc = pc, !.verdict = "pass", !.groups = {}]
  <2>1. p \in ReqRow /\ p.pc = pc /\ p.verdict = "pass" /\ p.op = req[r].op /\ p.auth = req[r].auth
    BY <1>1 DEF ReqRow, Verdicts
  <2>2. q = [p EXCEPT !.roleBody = roleBody, !.bindBody = bindBody, !.todo = ids] /\ ids \in Seq(STRING)
    BY <1>3
  <2> HIDE DEF p, ids, q
  <2>3. /\ q \in ReqRow /\ q.pc = p.pc /\ q.verdict = p.verdict /\ q.roleBody = roleBody /\ q.bindBody = bindBody
        /\ q.todo = ids /\ q.op = p.op /\ q.auth = p.auth
    BY <2>1, <2>2 DEF ReqRow
  <2> QED BY <2>1, <2>3 DEF ids
<1> HIDE DEF q
<1>5. Authorised(q)
  BY <1>1, <1>4 DEF Authorised, Deciding, RoleOps, BindOps, Binding
<1>6. Checked(q)
  BY <1>4 DEF Checked, Scoped, Binding
<1>7. Found(q)
  BY <1>4 DEF Found
<1>8. ~ Undecided(q)
  BY <1>4 DEF Undecided
<1> QED BY <1>2, <1>4, <1>5, <1>6, <1>7, <1>8 DEF Holds, Passes

LEMMA HandlePasses ==
    ASSUME IInv, NEW r \in Requests, req[r].pc = "getRoles", Handle(r)
    PROVE  Passes(r)
<1> USE DEF PCs, Binding
<1>1. CASE Turned(r, "pass", "badRequest") \/ Turned(r, "pass", "ok")
  BY <1>1, TurnedPasses DEF Answers
<1>2. CASE req[r].op = "createRole" /\ CreateRole(r)
  <2>1. PICK b \in RoleBodies :
             IF b.resource \in Resources /\ b.access \in Accesses
             THEN Proceed(r, IF b.ids = <<>> THEN "insertRole" ELSE "checkRole", b, NoBind)
             ELSE Refuse(r)
    BY <1>2 DEF CreateRole
  <2>2. CASE Refuse(r)
    BY <1>1, <2>2 DEF Refuse
  <2>3. CASE b.ids = <<>> /\ Proceed(r, "insertRole", b, NoBind)
    BY <1>2, <2>3, ProceedPasses
  <2>4. CASE b.ids # <<>> /\ Proceed(r, "checkRole", b, NoBind)
    BY <1>2, <2>4, ProceedPasses
  <2> QED BY <2>1, <2>2, <2>3, <2>4
<1>3. CASE req[r].op = "updateRole" /\ UpdateRole(r)
  <2>1. PICK b \in RoleBodies :
             IF req[r].auth.id \in RoleIds
             THEN Proceed(r, IF b.ids = <<>> THEN "putRole" ELSE "checkRole", b, NoBind)
             ELSE Refuse(r)
    BY <1>3 DEF UpdateRole
  <2>2. CASE Refuse(r)
    BY <1>1, <2>2 DEF Refuse
  <2>3. CASE req[r].auth.id \in RoleIds /\ b.ids = <<>> /\ Proceed(r, "putRole", b, NoBind)
    BY <1>3, <2>3, ProceedPasses
  <2>4. CASE req[r].auth.id \in RoleIds /\ b.ids # <<>> /\ Proceed(r, "checkRole", b, NoBind)
    BY <1>3, <2>4, ProceedPasses
  <2> QED BY <2>1, <2>2, <2>3, <2>4
<1>4. CASE req[r].op = "deleteRole" /\ DeleteRole(r)
  BY <1>4, ProceedPasses DEF DeleteRole
<1>5. CASE req[r].op = "getRole" /\ GetRole(r)
  BY <1>5, ProceedPasses DEF GetRole
<1>6. CASE req[r].op = "createBinding" /\ CreateRoleBinding(r)
  BY <1>1, <1>6, ProceedPasses DEF CreateRoleBinding, Refuse
<1>7. CASE req[r].op = "updateBinding" /\ UpdateRoleBinding(r)
  BY <1>1, <1>7, ProceedPasses DEF UpdateRoleBinding, Refuse
<1>8. CASE req[r].op = "deleteBinding" /\ DeleteRoleBinding(r)
  BY <1>8, ProceedPasses DEF DeleteRoleBinding
<1>9. CASE req[r].op = "getBinding" /\ GetRoleBinding(r)
  BY <1>9, ProceedPasses DEF GetRoleBinding
<1> QED BY <1>1, <1>2, <1>3, <1>4, <1>5, <1>6, <1>7, <1>8, <1>9 DEF Handle

LEMMA DecideOK ==
    ASSUME IInv, NEW r \in Requests, Decide(r)
    PROVE  IInv'
<1>1. req[r].pc = "getRoles" /\ UNCHANGED Tables /\ KeepMoments
  BY DEF Decide, Tables
<1>2. CASE Handle(r)
  <2>1. PICK q : req' = [req EXCEPT ![r] = q] /\ Holds(q) /\ ~ Undecided(q)
    BY <1>1, <1>2, HandlePasses DEF Passes
  <2> QED BY <1>1, <2>1, QuietMoments
<1>3. CASE Turned(r, "deny", "forbidden")
  <2> DEFINE q == [Idle EXCEPT !.verdict = "deny", !.answer = "forbidden"]
  <2>1. "deny" \in Verdicts /\ "forbidden" \in Answers
    BY DEF Verdicts, Answers
  <2>2. Holds(q) /\ ~ Undecided(q)
    BY <2>1, EndsIdle
  <2>3. req' = [req EXCEPT ![r] = q]
    BY <1>3 DEF Turned
  <2> HIDE DEF q
  <2> QED BY <1>1, <2>2, <2>3, QuietMoments
<1> QED BY <1>2, <1>3 DEF Decide

(* The list of a listing is made of elements of Resource_IDs. *)
LEMMA ListsTyped ==
    ASSUME IInv, NEW gs, NEW provider, NEW resource, NEW out \in AuthLists(gs, provider, resource)
    PROVE  out.ids \in SUBSET (STRING \cup {All})
<1> DEFINE matching == {role \in BoundRoles(gs, provider) : role.resource \in {All, resource}}
<1>1. \A role \in matching : role.ids \in Seq(STRING)
  BY DEF BoundRoles, IInv, RolesOK, RoleRow
<1>2. UNION {ToSet(role.ids) : role \in matching} \subseteq STRING
  <2> HIDE DEF matching
  <2>1. ASSUME NEW role \in matching PROVE ToSet(role.ids) \subseteq STRING
    BY <1>1 DEF ToSet
  <2> QED BY <2>1
<1>3. \/ out = [ok |-> TRUE, ids |-> UNION {ToSet(role.ids) : role \in matching}]
      \/ out = [ok |-> TRUE, ids |-> {All}]
      \/ out = [ok |-> FALSE, ids |-> {}]
  <2> HIDE DEF matching
  <2> QED BY DEF AuthLists, matching
<1> HIDE DEF matching
<1> QED BY <1>2, <1>3

LEMMA SetAuthorizationListOK ==
    ASSUME IInv, NEW r \in Requests, SetAuthorizationList(r)
    PROVE  IInv' /\ Later(r)
<1>1. /\ req[r].pc = "getRoles" /\ req[r].op \in ListOps /\ UNCHANGED Tables /\ KeepMoments /\ ~ Undecided(req[r])
      /\ req[r] \in ReqRow /\ Authorised(req[r])
  BY DEF SetAuthorizationList, Tables, Undecided, IInv, ReqsOK, Holds
<1>2. CASE Answer(r, "panic")
  BY <1>1, <1>2, EndsOn DEF Answers
<1>3. ASSUME NEW ids \in SUBSET (STRING \cup {All}),
             req' = [req EXCEPT ![r].pc = "list", ![r].groups = {}, ![r].list = ids]
      PROVE  IInv' /\ Later(r)
  <2> DEFINE q == [req[r] EXCEPT !.pc = "list", !.groups = {}, !.list = ids]
  <2>1. req' = [req EXCEPT ![r] = q]
    BY <1>3 DEF IInv, ReqsOK
  <2>2. /\ q \in ReqRow /\ q.pc = "list" /\ q.op = req[r].op /\ q.auth = req[r].auth
        /\ q.verdict = req[r].verdict
    BY <1>1 DEF ReqRow, PCs
  <2> HIDE DEF q
  <2>3. Authorised(q)
    BY <1>1, <2>2 DEF Authorised, Deciding
  <2>4. Holds(q) /\ ~ Undecided(q)
    BY <2>2, <2>3 DEF Holds, Checked, Found, Undecided
  <2> QED BY <1>1, <2>1, <2>2, <2>4, MovesOn
<1> QED BY <1>2, <1>3, ListsTyped DEF SetAuthorizationList

(* Users, groups and nothing else. *)
LEMMA OthersOK ==
    ASSUME IInv, UNCHANGED <<roles, binds, used, given, req>>, KeepMoments, UsersOK'
    PROVE  IInv'
<1>1. RolesOK' /\ BindsOK'
  BY DEF IInv, RolesOK, BindsOK
<1>2. ASSUME NEW s \in Requests PROVE Holds(req[s])'
  <2>1. Holds(req[s])
    BY DEF IInv, ReqsOK
  <2>2. Authorised(req[s])' /\ Checked(req[s])'
    BY <2>1 DEF Holds, Authorised, Checked
  <2>3. Found(req[s])'
    BY <2>1 DEF Holds, Found
  <2> QED BY <2>1, <2>2, <2>3 DEF Holds
<1>3. ReqsOK'
  BY <1>2 DEF IInv, ReqsOK
<1>4. MomentsOK'
  BY MomentsKept
<1> QED BY <1>1, <1>3, <1>4 DEF IInv

LEMMA ChangeUserOK ==
    ASSUME IInv, ChangeUser
    PROVE  IInv'
<1>1. PICK u \in DOMAIN users \ {RootId} :
          \/ \E g \in Gids : users' = [users EXCEPT ![u] = IF g \in @ THEN @ \ {g} ELSE @ \cup {g}]
          \/ users' = Without(users, u)
  BY DEF ChangeUser
<1>2. UsersOK'
  <2>1. CASE \E g \in Gids : users' = [users EXCEPT ![u] = IF g \in @ THEN @ \ {g} ELSE @ \cup {g}]
    BY <2>1 DEF ChangeUser, IInv, UsersOK
  <2>2. CASE users' = Without(users, u)
    BY <2>2 DEF Without, ChangeUser, IInv, UsersOK
  <2> QED BY <1>1, <2>1, <2>2
<1> QED BY <1>2, OthersOK DEF ChangeUser

LEMMA DropGroupOK ==
    ASSUME IInv, DropGroup
    PROVE  IInv'
<1>1. UsersOK'
  BY DEF DropGroup, IInv, UsersOK
<1> QED BY <1>1, OthersOK DEF DropGroup

-----------------------------------------------------------------------------
(* The invariant. *)
LEMMA InitIInv ==
    ASSUME Init
    PROVE  IInv
<1>1. UsersOK
  BY SeedsAssumption DEF Init, UsersOK
<1>2. RolesOK
  <2>1. ASSUME NEW i \in DOMAIN roles
        PROVE  /\ roles[i] \in RoleRow
               /\ roles[i].resource = "roles" => roles[i].ids = <<All>> \/ Scoped(roles[i].ids, <<>>)
    <3>1. roles[i] \in RoleRow /\ (roles[i].resource = "roles" =>
              roles[i].ids = <<All>> \/ ToSet(roles[i].ids) \subseteq RoleNames)
      BY SeedsAssumption DEF Init
    <3>2. ToSet(roles[i].ids) \subseteq RoleNames => Scoped(roles[i].ids, <<>>)
      BY DEF ToSet, Scoped
    <3> QED BY <3>1, <3>2
  <2>2. DOMAIN roles \subseteq RoleIds /\ DOMAIN roles \subseteq used
    BY SeedsAssumption DEF Init
  <2> QED BY <2>1, <2>2 DEF RolesOK
<1>3. BindsOK
  BY SeedsAssumption DEF Init, BindsOK
<1>4. ReqsOK
  BY IdleTyped, IdleHolds DEF Init, ReqsOK
<1>5. MomentsOK
  <2>1. \A r \in Requests : ~ Undecided(req[r])
    BY IdleTyped DEF Init, Undecided
  <2> QED BY <2>1 DEF Init, MomentsOK
<1> QED BY <1>1, <1>2, <1>3, <1>4, <1>5 DEF IInv

(* A step is a step of the middleware before its verdict, one after it, or one of others. *)
Before(r) == Begin(r) \/ GetUser(r) \/ Decide(r)

LEMMA StatementCases ==
    ASSUME IInv, NEW r \in Requests, Statement(r)
    PROVE  IInv' /\ (Before(r) \/ Later(r))
<1>1. CASE Begin(r)
  BY <1>1, BeginOK DEF Before
<1>2. CASE GetUser(r)
  BY <1>2, GetUserOK DEF Before
<1>3. CASE Decide(r)
  BY <1>3, DecideOK DEF Before
<1>4. CASE SetAuthorizationList(r)
  BY <1>4, SetAuthorizationListOK
<1>5. CASE List(r)
  BY <1>5, ListOK
<1>6. CASE CheckRole(r)
  BY <1>6, CheckRoleOK
<1>7. CASE InsertRole(r)
  BY <1>7, InsertRoleOK
<1>8. CASE PutRole(r)
  BY <1>8, PutRoleOK
<1>9. CASE ReadBack(r)
  BY <1>9, ReadBackOK
<1>10. CASE ListBinds(r)
  BY <1>10, ListBindsOK
<1>11. CASE FindRole(r)
  BY <1>11, FindRoleOK
<1>12. CASE DropRole(r)
  BY <1>12, DropRoleOK
<1>13. CASE FindGroup(r)
  BY <1>13, FindGroupOK
<1>14. CASE InsertBind(r)
  BY <1>14, InsertBindOK
<1>15. CASE PutBind(r)
  BY <1>15, PutBindOK
<1>16. CASE FindBind(r)
  BY <1>16, FindBindOK
<1>17. CASE DropBind(r)
  BY <1>17, DropBindOK
<1> QED
  BY <1>1, <1>2, <1>3, <1>4, <1>5, <1>6, <1>7, <1>8, <1>9, <1>10, <1>11, <1>12, <1>13, <1>14, <1>15,
     <1>16, <1>17 DEF Statement

LEMMA StutterIInv ==
    ASSUME IInv, UNCHANGED vars
    PROVE  IInv'
<1>1. /\ users' = users /\ groups' = groups /\ roles' = roles /\ binds' = binds
      /\ used' = used /\ given' = given /\ req' = req /\ moments' = moments
  BY DEF vars
<1>2. UsersOK' /\ RolesOK' /\ BindsOK'
  BY <1>1 DEF IInv, UsersOK, RolesOK, BindsOK
<1>3. ASSUME NEW s \in Requests PROVE Holds(req[s])'
  <2>1. Holds(req[s])
    BY DEF IInv, ReqsOK
  <2>2. Authorised(req[s])' /\ Checked(req[s])' /\ Found(req[s])'
    BY <1>1, <2>1 DEF Holds, Authorised, Checked, Found
  <2> QED BY <1>1, <2>1, <2>2 DEF Holds
<1>4. ReqsOK'
  BY <1>1, <1>3 DEF IInv, ReqsOK
<1>5. MomentsOK'
  BY <1>1 DEF IInv, MomentsOK, Undecided
<1> QED BY <1>2, <1>4, <1>5 DEF IInv

LEMMA NextIInv ==
    ASSUME IInv, [Next]_vars
    PROVE  IInv'
<1>1. CASE \E r \in Requests : Statement(r)
  BY <1>1, StatementCases
<1>2. CASE ChangeUser
  BY <1>2, ChangeUserOK
<1>3. CASE DropGroup
  BY <1>3, DropGroupOK
<1>4. CASE UNCHANGED vars
  BY <1>4, StutterIInv
<1> QED BY <1>1, <1>2, <1>3, <1>4 DEF Next

(* In every reachable state every request holds what its position in the handler needs. *)
THEOREM Inductive == Spec => []IInv
<1>1. Init => IInv
  BY InitIInv
<1>2. IInv /\ [Next]_vars => IInv'
  BY NextIInv
<1> QED BY <1>1, <1>2, PTL DEF Spec

-----------------------------------------------------------------------------
(* Every row and every local variable of a handler has its type: a handler writes only
   after it has found the role, the group or the binding that it writes about. *)
THEOREM TypeCorrect == Spec => []TypeOK
<1>1. IInv => TypeOK
  <2> SUFFICES ASSUME IInv PROVE TypeOK
    OBVIOUS
  <2>1. /\ users \in [DOMAIN users -> SUBSET Gids] /\ DOMAIN users \subseteq Uids
        /\ groups \subseteq Gids
    BY DEF IInv, UsersOK
  <2>2. /\ DOMAIN roles \subseteq used \cap RoleIds /\ DOMAIN binds \subseteq used \cap BindIds
        /\ \A i \in DOMAIN roles : roles[i] \in RoleRow
        /\ \A b \in DOMAIN binds : binds[b] \in BindRow
    BY DEF IInv, RolesOK, BindsOK
  <2>3. ASSUME NEW r \in Requests
        PROVE  /\ req[r].pc \in PCs /\ req[r].op \in AllOps \cup {"none"}
               /\ req[r].pc \in {"findGroup", "insertBind", "putBind", "dropRole"} =>
                     req[r].role \in used \cap RoleIds
               /\ req[r].pc \in {"insertBind", "putBind"} => req[r].group \in Gids
               /\ req[r].pc = "dropBind" => req[r].bind \in used \cap BindIds
               /\ req[r].pc \in {"putRole", "putBind"} => req[r].auth.id \in RoleIds \cup BindIds
    <3>1. req[r] \in ReqRow /\ Authorised(req[r]) /\ Found(req[r])
      BY DEF IInv, ReqsOK, Holds
    <3> QED BY <3>1 DEF ReqRow, Authorised, Found
  <2> QED BY <2>1, <2>2, <2>3 DEF TypeOK
<1> QED BY <1>1, Inductive, PTL

(* A binding and the role it carries the id of agree on the name, unless a body chose
   the id: a name is not updatable, and an id comes back only with a body. *)
THEOREM BindingsNameTheirRoles == Spec => []BindingNamesItsRole
<1>1. IInv => BindingNamesItsRole
  BY DEF IInv, BindsOK, BindingNamesItsRole
<1> QED BY <1>1, Inductive, PTL

(* No statement but the insertion of a row adds an id, and that one uses a new id or one
   that a body chose. *)
LEMMA NewIds ==
    ASSUME IInv, NEW r \in Requests, Statement(r)
    PROVE  \A i \in DOMAIN roles' : i \in DOMAIN roles \/ i \notin used \/ i \in given'
<1>1. CASE InsertRole(r)
  <2> DEFINE body == req[r].roleBody
  <2>1. CASE UNCHANGED roles
    BY <2>1
  <2>2. ASSUME NEW i \in Draw(RoleIds, body.id), NEW row, roles' = Insert(roles, i, row), Record(i, body.id)
        PROVE  \A j \in DOMAIN roles' : j \in DOMAIN roles \/ j \notin used \/ j \in given'
    <3>1. body.id \in RoleIds \cup {Blank}
      BY <1>1, BodiesAssumption DEF InsertRole, IInv, ReqsOK, Holds, Checked, RoleBody
    <3>2. i \in used => i \in given'
      BY <2>2, <3>1, DrawnIds
    <3>3. DOMAIN roles' = DOMAIN roles \cup {i}
      BY <2>2 DEF Insert
    <3> QED BY <3>2, <3>3
  <2> QED BY <1>1, <2>1, <2>2 DEF InsertRole
<1>2. CASE PutRole(r)
  BY <1>2, PutRoleWrites
<1>3. CASE DropRole(r)
  BY <1>3 DEF DropRole, Without
<1>4. CASE UNCHANGED roles
  BY <1>4
<1> QED
  BY <1>1, <1>2, <1>3, <1>4 DEF Statement, Begin, GetUser, Decide, SetAuthorizationList, List, CheckRole,
     ReadBack, ListBinds, FindRole, FindGroup, InsertBind, PutBind, FindBind, DropBind

(* A binding that lost its role grants nothing again until it is written or a body brings
   the id back: a later role of the same name has another id. *)
THEOREM DanglingBindingsStay == Spec => DanglingStays
<1> DEFINE Stay == \A b \in DOMAIN binds \cap DOMAIN binds' :
                      Dangling(b) /\ binds'[b] = binds[b] => Dangling(b)' \/ binds[b].role \in given'
<1>1. IInv /\ [Next]_vars => [Stay]_vars
  <2> SUFFICES ASSUME IInv, Next,
                      NEW b \in DOMAIN binds \cap DOMAIN binds', Dangling(b), binds'[b] = binds[b]
               PROVE  Dangling(b)' \/ binds[b].role \in given'
    OBVIOUS
  <2>1. binds[b].role \in used /\ binds[b].role \notin DOMAIN roles
    BY DEF IInv, BindsOK, Dangling
  <2>2. binds[b].role \notin DOMAIN roles' \/ binds[b].role \in given'
    <3>1. CASE \E r \in Requests : Statement(r)
      BY <2>1, <3>1, NewIds
    <3>2. CASE UNCHANGED roles
      BY <2>1, <3>2
    <3> QED BY <3>1, <3>2 DEF Next, ChangeUser, DropGroup
  <2> QED BY <2>2 DEF Dangling
<1>2. Spec => [][Stay]_vars
  BY <1>1, Inductive, PTL DEF Spec
<1> QED BY <1>2 DEF DanglingStays

LEMMA PassedToWrite ==
    ASSUME IInv, NEW r \in Requests, req[r].pc \in {"putRole", "dropRole", "putBind", "dropBind"}
    PROVE  MayWrite(req[r].auth.id, IF req[r].pc \in {"putRole", "dropRole"} THEN "roles" ELSE "role_bindings")
<1>1. Authorised(req[r])
  BY DEF IInv, ReqsOK, Holds
<1>2. req[r].verdict = "pass" /\ req[r].auth.access = "write"
      /\ req[r].auth.resource = IF req[r].pc \in {"putRole", "dropRole"} THEN "roles" ELSE "role_bindings"
  BY <1>1 DEF Authorised, Deciding, RoleOps, BindOps
<1> QED BY <1>2 DEF MayWrite

LEMMA RoleWrites ==
    ASSUME IInv, NEW r \in Requests, Statement(r)
    PROVE  Rightly(roles, roles', "roles")
<1>1. CASE InsertRole(r)
  <2>1. CASE UNCHANGED roles
    BY <2>1 DEF Rightly
  <2>2. ASSUME NEW i, NEW row, NEW name, Free(roles, i, name), roles' = Insert(roles, i, row)
        PROVE  Rightly(roles, roles', "roles")
    BY <2>2 DEF Free, Insert, Rightly
  <2> QED BY <1>1, <2>1, <2>2 DEF InsertRole
<1>2. CASE PutRole(r)
  <2>1. req[r].pc = "putRole"
    BY <1>2 DEF PutRole
  <2>2. MayWrite(req[r].auth.id, "roles")
    BY <2>1, PassedToWrite
  <2>3. /\ DOMAIN roles' = DOMAIN roles
        /\ \A i \in DOMAIN roles : roles'[i] # roles[i] => i = req[r].auth.id /\ ~ roles[i].builtin
    BY <1>2, PutRoleWrites
  <2> QED BY <2>2, <2>3 DEF Rightly
<1>3. CASE DropRole(r)
  <2> DEFINE i == req[r].role
  <2>1. req[r].pc = "dropRole"
    BY <1>3 DEF DropRole
  <2>2. MayWrite(req[r].auth.id, "roles")
    BY <2>1, PassedToWrite
  <2>3. i \in DOMAIN roles \ given => roles[i].name = req[r].auth.id
    BY <2>1 DEF IInv, ReqsOK, Holds, Found
  <2>4. CASE Writable(roles, i)
    <3>1. i \in DOMAIN roles /\ ~ roles[i].builtin
      BY <2>4 DEF Writable
    <3>2. DOMAIN roles' = DOMAIN roles \ {i} /\ \A j \in DOMAIN roles' : roles'[j] = roles[j]
      BY <1>3, <2>4 DEF DropRole, Without
    <3> QED BY <2>2, <2>3, <3>1, <3>2 DEF Rightly
  <2>5. CASE ~ Writable(roles, i)
    BY <1>3, <2>5 DEF DropRole, Rightly
  <2> QED BY <2>4, <2>5
<1>4. CASE UNCHANGED roles
  BY <1>4 DEF Rightly
<1> QED
  BY <1>1, <1>2, <1>3, <1>4 DEF Statement, Begin, GetUser, Decide, SetAuthorizationList, List, CheckRole,
     ReadBack, ListBinds, FindRole, FindGroup, InsertBind, PutBind, FindBind, DropBind

LEMMA BindWrites ==
    ASSUME IInv, NEW r \in Requests, Statement(r)
    PROVE  Rightly(binds, binds', "role_bindings")
<1>1. CASE InsertBind(r)
  <2>1. CASE UNCHANGED binds
    BY <2>1 DEF Rightly
  <2>2. ASSUME NEW b, NEW row, NEW name, Free(binds, b, name), binds' = Insert(binds, b, row)
        PROVE  Rightly(binds, binds', "role_bindings")
    BY <2>2 DEF Free, Insert, Rightly
  <2> QED BY <1>1, <2>1, <2>2 DEF InsertBind
<1>2. CASE PutBind(r)
  <2>1. req[r].pc = "putBind"
    BY <1>2 DEF PutBind
  <2>2. MayWrite(req[r].auth.id, "role_bindings")
    BY <2>1, PassedToWrite
  <2>3. /\ DOMAIN binds' = DOMAIN binds
        /\ \A b \in DOMAIN binds : binds'[b] # binds[b] => b = req[r].auth.id /\ ~ binds[b].builtin
    BY <1>2, PutBindWrites
  <2> QED BY <2>2, <2>3 DEF Rightly
<1>3. CASE DropBind(r)
  <2> DEFINE b == req[r].bind
  <2>1. req[r].pc = "dropBind"
    BY <1>3 DEF DropBind
  <2>2. MayWrite(req[r].auth.id, "role_bindings")
    BY <2>1, PassedToWrite
  <2>3. b \in DOMAIN binds \ given => binds[b].name = req[r].auth.id
    BY <2>1 DEF IInv, ReqsOK, Holds, Found
  <2>4. CASE Writable(binds, b)
    <3>1. b \in DOMAIN binds /\ ~ binds[b].builtin
      BY <2>4 DEF Writable
    <3>2. DOMAIN binds' = DOMAIN binds \ {b} /\ \A j \in DOMAIN binds' : binds'[j] = binds[j]
      BY <1>3, <2>4 DEF DropBind, Without
    <3> QED BY <2>2, <2>3, <3>1, <3>2 DEF Rightly
  <2>5. CASE ~ Writable(binds, b)
    BY <1>3, <2>5 DEF DropBind, Rightly
  <2> QED BY <2>4, <2>5
<1>4. CASE UNCHANGED binds
  BY <1>4 DEF Rightly
<1> QED
  BY <1>1, <1>2, <1>3, <1>4 DEF Statement, Begin, GetUser, Decide, SetAuthorizationList, List, CheckRole,
     ReadBack, ListBinds, FindRole, FindGroup, InsertRole, PutRole, DropRole, FindBind

(* A row is changed under the uuid, and removed under the name, that the middleware let
   pass before the row was known; builtin rows stay as they are. *)
THEOREM WritesAreAuthorised == Spec => WritesWhatWasAuthorised
<1> DEFINE Right == Rightly(roles, roles', "roles") /\ Rightly(binds, binds', "role_bindings")
<1>1. IInv /\ [Next]_vars => [Right]_vars
  <2> SUFFICES ASSUME IInv, Next PROVE Right
    OBVIOUS
  <2>1. CASE \E r \in Requests : Statement(r)
    BY <2>1, RoleWrites, BindWrites
  <2>2. CASE UNCHANGED <<roles, binds>>
    BY <2>2 DEF Rightly
  <2> QED BY <2>1, <2>2 DEF Next, ChangeUser, DropGroup
<1>2. Spec => [][Right]_vars
  BY <1>1, Inductive, PTL DEF Spec
<1> QED BY <1>2 DEF WritesWhatWasAuthorised

(* A caller that passes for the update of a role holds a role on everything: an update is
   asked for with a uuid, and a scope on roles lists names. *)
THEOREM OnlyWildcardsUpdate == Spec => UpdatesNeedWildcard
<1> DEFINE Need == \A r \in Requests :
          req[r].pc = "getRoles" /\ req[r].op = "updateRole" /\ req'[r].pc \in {"checkRole", "putRole"} =>
              ByWildcard(r)
<1>1. IInv /\ [Next]_vars => [Need]_vars
  <2> SUFFICES ASSUME IInv, Next, NEW r \in Requests, req[r].pc = "getRoles", req[r].op = "updateRole",
                      req'[r].pc \in {"checkRole", "putRole"}
               PROVE  ByWildcard(r)
    OBVIOUS
  <2>1. Decide(r)
    <3>1. req' # req
      OBVIOUS
    <3>2. PICK s \in Requests : Statement(s)
      BY <3>1 DEF Next, ChangeUser, DropGroup
    <3>3. CASE Later(s)
      <4>1. ~ Undecided(req[s]) /\ \E q : req' = [req EXCEPT ![s] = q]
        BY <3>3 DEF Later
      <4>2. Undecided(req[r])
        BY DEF Undecided, ListOps
      <4> QED BY <4>1, <4>2 DEF IInv, ReqsOK
    <3>4. CASE Before(s)
      <4>1. \E q : req' = [req EXCEPT ![s] = q]
        BY <3>4, HandlePasses, BeginArrives DEF Before, GetUser, Decide, Turned, Passes, Arrives, IInv, ReqsOK
      <4>2. s = r
        BY <4>1 DEF IInv, ReqsOK
      <4> QED BY <3>4, <4>2 DEF Before, Begin, GetUser
    <3> QED BY <3>2, <3>3, <3>4, StatementCases
  <2>2. IsAutorised(r) /\ UpdateRole(r)
    <3>1. ~ Turned(r, "deny", "forbidden")
      BY IdleTyped DEF Turned, Idle, IInv, ReqsOK
    <3> QED BY <2>1, <3>1 DEF Decide, Handle
  <2>3. req[r].auth.id \in RoleIds
    BY <2>2 DEF UpdateRole, Refuse, Turned, Idle, IInv, ReqsOK
  <2>4. PICK role \in BoundRoles(req[r].groups, req[r].auth.provider) : Covers(role, req[r].auth)
    BY <2>2 DEF IsAutorised
  <2>5. req[r].auth.resource = "roles"
    BY DEF IInv, ReqsOK, Holds, Authorised, RoleOps
  <2>6. role.resource = "roles" => role.ids = <<All>> \/ Scoped(role.ids, <<>>)
    BY DEF BoundRoles, IInv, RolesOK
  <2>7. CASE role.resource = "roles" /\ Scoped(role.ids, <<>>) /\ \E i \in DOMAIN role.ids : role.ids[i] = req[r].auth.id
    BY <2>3, <2>7, NamesAssumption DEF Scoped
  <2>8. CASE role.ids = <<All>>
    BY <2>8 DEF ByWildcard
  <2>9. CASE role.resource = All \/ (role.ids # <<>> /\ Head(role.ids) = All)
    BY <2>9 DEF ByWildcard
  <2> QED BY <2>4, <2>5, <2>6, <2>7, <2>8, <2>9 DEF Covers
<1>2. Spec => [][Need]_vars
  BY <1>1, Inductive, PTL DEF Spec
<1> QED BY <1>2 DEF UpdatesNeedWildcard

-----------------------------------------------------------------------------
(* The promise of authorisation. *)
LEMMA AskedNow ==
    ASSUME NEW r \in Requests
    PROVE  /\ Undecided(req[r]) => Asked[r] = [state |-> "open", question |-> req[r].auth, seen |-> moments[r]]
           /\ ~ Undecided(req[r]) => Asked[r] = [state |-> req[r].verdict]
           /\ Undecided(req'[r]) => Asked'[r] = [state |-> "open", question |-> req'[r].auth, seen |-> moments'[r]]
           /\ ~ Undecided(req'[r]) => Asked'[r] = [state |-> req'[r].verdict]
           /\ DOMAIN Asked = Requests /\ DOMAIN Asked' = Requests
  BY DEF Asked, Undecided

LEMMA NotOpen ==
    ASSUME IInv, NEW r \in Requests, ~ Undecided(req[r])
    PROVE  Asked[r].state = req[r].verdict /\ Asked[r].state # "open"
<1>1. req[r].verdict # "open"
  BY DEF IInv, ReqsOK, Holds, ReqRow, Verdicts
<1>2. Asked[r] = [state |-> req[r].verdict]
  BY AskedNow
<1> QED BY <1>1, <1>2

LEMMA SeenGrows ==
    ASSUME NEW state, NEW question, NEW seen, NEW more, NEW now,
           now = [state |-> state, question |-> question, seen |-> seen]
    PROVE  /\ now.state = state /\ now.question = question
           /\ [now EXCEPT !.seen = @ \cup more] =
                  [state |-> state, question |-> question, seen |-> seen \cup more]
<1>1. now.seen = seen
  OBVIOUS
<1>2. [now EXCEPT !.seen = @ \cup more] = [now EXCEPT !.seen = seen \cup more]
  BY <1>1
<1>3. [[state |-> state, question |-> question, seen |-> seen] EXCEPT !.seen = seen \cup more] =
          [state |-> state, question |-> question, seen |-> seen \cup more]
  OBVIOUS
<1> QED BY <1>2, <1>3

(* A step that opens no question and decides none. *)
LEMMA Changes ==
    ASSUME IInv, KeepMoments,
           \A s \in Requests :
              IF Undecided(req[s])
              THEN Undecided(req'[s]) /\ req'[s].auth = req[s].auth
              ELSE ~ Undecided(req'[s]) /\ req'[s].verdict \in {req[s].verdict, "none"}
    PROVE  Promise!Change
<1>1. ASSUME NEW s \in Requests, Undecided(req[s])
      PROVE  /\ Asked[s].state = "open"
             /\ Asked'[s] = [Asked[s] EXCEPT !.seen = @ \cup Promise!In(users', Asked[s].question.user)]
  <2>1. Undecided(req'[s]) /\ req'[s].auth = req[s].auth
    BY <1>1
  <2>2. moments'[s] = moments[s] \cup Promise!In(users', req[s].auth.user)
    BY <1>1, <2>1 DEF KeepMoments, Promise!In
  <2> DEFINE now == Asked[s]
             next == Asked'[s]
             question == req[s].auth
             more == Promise!In(users', question.user)
  <2>3. now = [state |-> "open", question |-> question, seen |-> moments[s]]
    BY <1>1, AskedNow
  <2>4. next = [state |-> "open", question |-> req'[s].auth, seen |-> moments'[s]]
    BY <2>1, AskedNow
  <2>5. req'[s].auth = question /\ moments'[s] = moments[s] \cup more
    BY <2>1, <2>2
  <2> HIDE DEF now, next, more, question
  <2>6. next = [state |-> "open", question |-> question, seen |-> moments[s] \cup more]
    BY <2>4, <2>5
  <2>7. now.state = "open" /\ now.question = question /\ next = [now EXCEPT !.seen = @ \cup more]
    BY <2>3, <2>6, SeenGrows
  <2>8. next = [now EXCEPT !.seen = @ \cup Promise!In(users', now.question.user)]
    BY <2>7 DEF more
  <2> QED BY <2>7, <2>8 DEF now, next
<1>2. ASSUME NEW s \in Requests, ~ Undecided(req[s])
      PROVE  Asked[s].state # "open" /\ Asked'[s] \in {Asked[s], Promise!Verdict("none")}
  <2>1. ~ Undecided(req'[s]) /\ req'[s].verdict \in {req[s].verdict, "none"}
    BY <1>2
  <2>2. Asked[s] = [state |-> req[s].verdict] /\ Asked'[s] = [state |-> req'[s].verdict]
    BY <1>2, <2>1, AskedNow
  <2>3. Asked[s].state # "open"
    BY <1>2, NotOpen
  <2> QED BY <2>1, <2>2, <2>3 DEF Promise!Verdict
<1>3. DOMAIN Asked' = Requests
  BY DEF Asked
<1> QED BY <1>1, <1>2, <1>3 DEF Promise!Change

LEMMA LaterChanges ==
    ASSUME IInv, NEW r \in Requests, Later(r)
    PROVE  Promise!Change
<1>1. PICK q : req' = [req EXCEPT ![r] = q] /\ ~ Undecided(q) /\ q.verdict \in {req[r].verdict, "none"}
  BY DEF Later
<1>2. req'[r] = q /\ \A s \in Requests \ {r} : req'[s] = req[s]
  BY <1>1 DEF IInv, ReqsOK
<1>3. ~ Undecided(req[r]) /\ KeepMoments
  BY DEF Later
<1> QED BY <1>1, <1>2, <1>3, Changes

(* Questions that stay open while nothing changes have seen what they have seen. *)
LEMMA OthersStay ==
    ASSUME IInv, KeepMoments, users' = users, NEW s \in Requests, req'[s] = req[s]
    PROVE  Asked'[s] = Asked[s]
<1>1. CASE Undecided(req[s])
  <2>1. moments'[s] = moments[s] \cup {users[u] : u \in {req[s].auth.user} \cap DOMAIN users}
    BY <1>1 DEF KeepMoments
  <2>2. \A u \in {req[s].auth.user} \cap DOMAIN users : users[u] \in moments[s]
    BY <1>1 DEF IInv, MomentsOK
  <2>3. moments'[s] = moments[s]
    BY <2>1, <2>2
  <2> QED BY <1>1, <2>3, AskedNow
<1>2. CASE ~ Undecided(req[s])
  BY <1>2, AskedNow
<1> QED BY <1>1, <1>2

LEMMA GrantsStay ==
    ASSUME UNCHANGED Tables
    PROVE  UNCHANGED <<users, Grants>>
  BY DEF Tables, Grants, Entitlement

LEMMA BeginAsks ==
    ASSUME IInv, NEW r \in Requests, Begin(r)
    PROVE  Promise!Ask(r) \/ Promise!Change
<1>1. /\ req[r].pc = "idle" /\ UNCHANGED Tables /\ KeepMoments
  BY BeginArrives
<1>2. PICK q : Arrives(r, q) /\ (q.op \notin ListOps => q.auth \in Questions)
  BY BeginArrives
<1>3. req'[r] = q /\ \A s \in Requests \ {r} : req'[s] = req[s]
  BY <1>2 DEF Arrives, IInv, ReqsOK
<1>4. ~ Undecided(req[r]) /\ users' = users
  BY <1>1 DEF Undecided, Tables
<1>5. CASE q.op \in ListOps
  <2>1. ~ Undecided(q) /\ q.verdict = "none"
    BY <1>2, <1>5 DEF Undecided, Arrives
  <2> QED BY <1>1, <1>3, <1>4, <2>1, Changes
<1>6. CASE q.op \notin ListOps
  <2>1. Undecided(q) /\ q.auth \in Questions
    BY <1>2, <1>6 DEF Undecided, Arrives
  <2>2. moments'[r] = Promise!In(users, q.auth.user)
    BY <1>1, <1>3, <1>4, <2>1 DEF KeepMoments, Promise!In
  <2>3. Asked'[r] = Promise!Open(q.auth, Promise!In(users, q.auth.user))
    BY <1>3, <2>1, <2>2, AskedNow DEF Promise!Open
  <2>4. \A s \in Requests \ {r} : Asked'[s] = Asked[s]
    BY <1>1, <1>3, <1>4, OthersStay
  <2>5. DOMAIN Asked = Requests /\ DOMAIN Asked' = Requests /\ Asked' = [s \in Requests |-> Asked'[s]]
    BY DEF Asked
  <2>6. Asked' = [Asked EXCEPT ![r] = Promise!Open(q.auth, Promise!In(users, q.auth.user))]
    <3> HIDE DEF Asked
    <3> QED BY <2>3, <2>4, <2>5
  <2>7. Asked[r].state # "open"
    BY <1>4, NotOpen
  <2>8. UNCHANGED <<users, Grants>>
    BY <1>1, GrantsStay
  <2> QED BY <2>1, <2>6, <2>7, <2>8 DEF Promise!Ask
<1> QED BY <1>5, <1>6

LEMMA Verdicted ==
    ASSUME IInv, NEW r \in Requests, Undecided(req[r]), UNCHANGED Tables, KeepMoments,
           NEW q, req' = [req EXCEPT ![r] = q], ~ Undecided(q)
    PROVE  /\ Asked[r].state = "open" /\ Asked[r].seen = moments[r] /\ Asked[r].question = req[r].auth
           /\ Asked' = [Asked EXCEPT ![r] = Promise!Verdict(q.verdict)]
           /\ UNCHANGED <<users, Grants>>
<1>1. req'[r] = q /\ \A s \in Requests \ {r} : req'[s] = req[s]
  BY DEF IInv, ReqsOK
<1>2. users' = users
  BY DEF Tables
<1>3. Asked'[r] = Promise!Verdict(q.verdict)
  BY <1>1, AskedNow DEF Promise!Verdict
<1>4. \A s \in Requests \ {r} : Asked'[s] = Asked[s]
  BY <1>1, <1>2, OthersStay
<1>5. DOMAIN Asked = Requests /\ DOMAIN Asked' = Requests /\ Asked' = [s \in Requests |-> Asked'[s]]
  BY DEF Asked
<1>6. Asked' = [Asked EXCEPT ![r] = Promise!Verdict(q.verdict)]
  <2> HIDE DEF Asked
  <2> QED BY <1>3, <1>4, <1>5
<1>7. Asked[r] = [state |-> "open", question |-> req[r].auth, seen |-> moments[r]]
  BY AskedNow
<1>8. Asked[r].state = "open" /\ Asked[r].seen = moments[r] /\ Asked[r].question = req[r].auth
  BY <1>7
<1> QED BY <1>6, <1>8, GrantsStay

LEMMA GetUserChanges ==
    ASSUME IInv, NEW r \in Requests, GetUser(r)
    PROVE  Promise!Decide(r) \/ Promise!Change
<1> DEFINE u == req[r].auth.user
<1>1. req[r].pc = "getUser" /\ UNCHANGED Tables /\ KeepMoments
  BY DEF GetUser, Tables
<1>2. CASE u \in DOMAIN users
  <2>1. /\ req'[r].auth = req[r].auth /\ req'[r].op = req[r].op /\ req'[r].pc = "getRoles"
        /\ req'[r].verdict = req[r].verdict
        /\ \A s \in Requests \ {r} : req'[s] = req[s]
    BY <1>2 DEF GetUser, IInv, ReqsOK, Holds, ReqRow
  <2>2. Undecided(req'[r]) <=> Undecided(req[r])
    BY <1>1, <2>1 DEF Undecided
  <2> QED BY <1>1, <2>1, <2>2, Changes
<1>3. CASE u \notin DOMAIN users
  <2> DEFINE v == IF req[r].op \in ListOps THEN "none" ELSE "error"
             q == [Idle EXCEPT !.verdict = v, !.answer = "error"]
  <2>1. v \in Verdicts /\ "error" \in Answers
    BY DEF Verdicts, Answers
  <2>2. req' = [req EXCEPT ![r] = q]
    BY <1>3 DEF GetUser, Turned
  <2> HIDE DEF v
  <2>3. ~ Undecided(q) /\ q.verdict = v
    BY <2>1, EndsIdle
  <2> HIDE DEF q
  <2>4. CASE req[r].op \in ListOps
    <3>1. ~ Undecided(req[r]) /\ q.verdict = "none"
      BY <2>3, <2>4 DEF Undecided, v
    <3>2. req'[r] = q /\ \A s \in Requests \ {r} : req'[s] = req[s]
      BY <2>2 DEF IInv, ReqsOK
    <3> QED BY <1>1, <2>3, <3>1, <3>2, Changes
  <2>5. CASE req[r].op \notin ListOps
    <3>1. Undecided(req[r]) /\ q.verdict = "error"
      BY <1>1, <2>3, <2>5 DEF Undecided, v
    <3>2. /\ Asked[r].state = "open" /\ Asked[r].question = req[r].auth
          /\ Asked' = [Asked EXCEPT ![r] = Promise!Verdict(q.verdict)]
          /\ UNCHANGED <<users, Grants>>
      BY <1>1, <2>2, <2>3, <3>1, Verdicted
    <3>3. Asked' = [Asked EXCEPT ![r] = Promise!Verdict("error")]
      BY <3>1, <3>2
    <3> QED BY <1>3, <3>2, <3>3 DEF Promise!Decide
  <2> QED BY <2>4, <2>5
<1> QED BY <1>2, <1>3

(* The test of the middleware is the question of the promise: a role is bound to one of
   the groups for the provider exactly when one of the groups has the entitlement. *)
LEMMA GrantedIsAutorised ==
    ASSUME IInv, NEW r \in Requests
    PROVE  IsAutorised(r) <=> Promise!Granted(req[r].groups, req[r].auth)
<1>1. req[r].groups \subseteq Gids
  BY DEF IInv, ReqsOK, Holds, ReqRow
<1>2. ASSUME IsAutorised(r) PROVE Promise!Granted(req[r].groups, req[r].auth)
  <2>1. PICK b \in DOMAIN binds : /\ binds[b].role \in DOMAIN roles /\ binds[b].group \in req[r].groups
                                  /\ binds[b].provider = req[r].auth.provider
                                  /\ Covers(roles[binds[b].role], req[r].auth)
    BY <1>2 DEF IsAutorised, BoundRoles
  <2>2. Entitlement(b) \in Grants[binds[b].group]
    BY <1>1, <2>1 DEF Grants
  <2>3. Entitles(Entitlement(b), req[r].auth)
    BY <2>1 DEF Entitles, Entitlement
  <2> QED BY <2>1, <2>2, <2>3 DEF Promise!Granted
<1>3. ASSUME Promise!Granted(req[r].groups, req[r].auth) PROVE IsAutorised(r)
  <2>1. PICK g \in req[r].groups : \E e \in Grants[g] : Entitles(e, req[r].auth)
    BY <1>3 DEF Promise!Granted
  <2>2. PICK b \in DOMAIN binds : /\ binds[b].group = g /\ binds[b].role \in DOMAIN roles
                                  /\ Entitles(Entitlement(b), req[r].auth)
    BY <1>1, <2>1 DEF Grants
  <2>3. binds[b].provider = req[r].auth.provider /\ Covers(roles[binds[b].role], req[r].auth)
    BY <2>2 DEF Entitles, Entitlement
  <2>4. roles[binds[b].role] \in BoundRoles(req[r].groups, req[r].auth.provider)
    BY <2>2, <2>3 DEF BoundRoles
  <2> QED BY <2>3, <2>4 DEF IsAutorised
<1> QED BY <1>2, <1>3

LEMMA DecideDecides ==
    ASSUME IInv, NEW r \in Requests, Decide(r)
    PROVE  Promise!Decide(r)
<1>1. req[r].pc = "getRoles" /\ Undecided(req[r]) /\ UNCHANGED Tables /\ KeepMoments
  BY DEF Decide, Tables, Undecided
<1>2. req[r].groups \in moments[r]
  BY <1>1 DEF IInv, MomentsOK
<1>3. CASE IsAutorised(r) /\ Handle(r)
  <2>1. PICK q : req' = [req EXCEPT ![r] = q] /\ ~ Undecided(q) /\ q.verdict = "pass"
    BY <1>1, <1>3, HandlePasses DEF Passes
  <2>2. /\ Asked[r].state = "open" /\ Asked[r].seen = moments[r] /\ Asked[r].question = req[r].auth
        /\ Asked' = [Asked EXCEPT ![r] = Promise!Verdict("pass")]
        /\ UNCHANGED <<users, Grants>>
    <3>1. /\ Asked[r].state = "open" /\ Asked[r].seen = moments[r] /\ Asked[r].question = req[r].auth
          /\ Asked' = [Asked EXCEPT ![r] = Promise!Verdict(q.verdict)]
          /\ UNCHANGED <<users, Grants>>
      BY <1>1, <2>1, Verdicted
    <3> QED BY <2>1, <3>1
  <2>3. Promise!Granted(req[r].groups, req[r].auth)
    BY <1>3, GrantedIsAutorised
  <2> QED BY <1>2, <2>2, <2>3 DEF Promise!Decide
<1>4. CASE ~ IsAutorised(r) /\ Turned(r, "deny", "forbidden")
  <2> DEFINE q == [Idle EXCEPT !.verdict = "deny", !.answer = "forbidden"]
  <2>1. "deny" \in Verdicts /\ "forbidden" \in Answers
    BY DEF Verdicts, Answers
  <2>2. ~ Undecided(q) /\ q.verdict = "deny"
    BY <2>1, EndsIdle
  <2>3. req' = [req EXCEPT ![r] = q]
    BY <1>4 DEF Turned
  <2> HIDE DEF q
  <2>4. /\ Asked[r].state = "open" /\ Asked[r].seen = moments[r] /\ Asked[r].question = req[r].auth
        /\ Asked' = [Asked EXCEPT ![r] = Promise!Verdict("deny")]
        /\ UNCHANGED <<users, Grants>>
    <3>1. /\ Asked[r].state = "open" /\ Asked[r].seen = moments[r] /\ Asked[r].question = req[r].auth
          /\ Asked' = [Asked EXCEPT ![r] = Promise!Verdict(q.verdict)]
          /\ UNCHANGED <<users, Grants>>
      BY <1>1, <2>2, <2>3, Verdicted
    <3> QED BY <2>2, <3>1
  <2>5. ~ Promise!Granted(req[r].groups, req[r].auth)
    BY <1>4, GrantedIsAutorised
  <2> QED BY <1>2, <2>4, <2>5 DEF Promise!Decide
<1> QED BY <1>3, <1>4 DEF Decide

LEMMA InitPromises == Init => Promise!Init
<1> SUFFICES ASSUME Init PROVE Promise!Init
  OBVIOUS
<1>1. \A r \in Requests : req[r] = Idle /\ ~ Undecided(req[r])
  BY IdleTyped DEF Init, Undecided
<1> QED BY <1>1, IdleTyped DEF Asked, Promise!Init, Promise!Verdict

LEMMA NextPromises ==
    ASSUME IInv, [Next]_vars
    PROVE  [Promise!Next]_<<users, Grants, Asked>>
<1>1. ASSUME NEW r \in Requests, Statement(r) PROVE Promise!Next
  <2>1. CASE Later(r)
    BY <2>1, LaterChanges DEF Promise!Next
  <2>2. CASE Begin(r)
    BY <2>2, BeginAsks DEF Promise!Next
  <2>3. CASE GetUser(r)
    BY <2>3, GetUserChanges DEF Promise!Next
  <2>4. CASE Decide(r)
    BY <2>4, DecideDecides DEF Promise!Next
  <2> QED BY <1>1, <2>1, <2>2, <2>3, <2>4, StatementCases DEF Before
<1>2. CASE ChangeUser \/ DropGroup
  <2>1. KeepMoments /\ req' = req
    BY <1>2 DEF ChangeUser, DropGroup
  <2> QED BY <2>1, Changes DEF Promise!Next
<1>3. CASE UNCHANGED vars
  BY <1>3 DEF vars, Grants, Entitlement, Asked, Undecided
<1> QED BY <1>1, <1>2, <1>3 DEF Next

(* A verdict of the middleware comes of groups its caller was in at some moment since the
   request arrived and of what they may do when it is given, however users, groups, roles
   and bindings change around its two queries. *)
THEOREM DecisionsArePromised == Spec => ImplementsAuthorised
<1>1. Init => Promise!Init
  BY InitPromises
<1>2. IInv /\ [Next]_vars => [Promise!Next]_<<users, Grants, Asked>>
  BY NextPromises
<1> QED BY <1>1, <1>2, Inductive, PTL DEF Spec, ImplementsAuthorised, Promise!Spec
=============================================================================
