--------------------------- MODULE CredentialProofs ---------------------------
(***************************************************************************)
(* Proofs about Credentials. The properties rest on what a request knows of *)
(* the tables between its statements: which token it has looked up, whose   *)
(* it was, which user it has found without tokens. IInv says so for every   *)
(* request, and each action is shown to keep it for the request that moves  *)
(* and, where it writes a table, for the others.                            *)
(***************************************************************************)
EXTENDS Credentials, TLAPS

Copies  == [owner : Uids \cup {Nobody}, enabled : BOOLEAN, expires : Times]
Answers == {"none", "ok", "error", "unauthorised", "forbidden"}
Ops     == NoAsk \cup AsksOwner \cup AsksRoles \cup {"none", "login"}

ReqRow == [pc : PCs, op : Ops, user : Uids \cup {Nobody}, key : Keys \cup {"none"},
           id : Uids \cup TokenIds \cup {"none"}, name : Names \cup {"none"},
           provider : Providers \cup {"none"}, body : Body, copy : Copies, answer : Answers]

Asking  == {"findKey", "findOwner", "askOwner", "getRoles"}
OnToken == {"readToken", "putToken", "dropToken", "readBack"}
OnUser  == {"countTokens", "dropUser"}

(* What the operation of a request says of its parameters. *)
Prepared(q) ==
    /\ q \in ReqRow
    /\ q.pc \in {"findKey", "findOwner"} => q.op \in NoAsk \cup AsksOwner \cup AsksRoles /\ q.key \in used
    /\ q.pc = "askOwner" \/ q.pc \in OnToken => q.op \in AsksOwner
    /\ q.pc = "getRoles" => q.op \in AsksOwner \cup AsksRoles
    /\ q.pc \in OnUser => q.op = "deleteUser"
    /\ q.pc \in Asking \cup OnToken /\ q.op \in AsksOwner => q.id \in TokenIds /\ q.id \in used \cup GivenIds
    /\ q.pc \in OnToken \ {"readToken"} => q.id \in used
    /\ q.pc \in Asking \cup OnUser /\ q.op = "deleteUser" => q.id \in Uids
    /\ q.pc \in {"createUser", "findUser"} => q.name \in Names /\ q.provider \in Providers
    /\ q.user = Nobody /\ q.pc \notin {"idle", "createUser", "findUser"} => q.key \in used

Excused(t) == tokens[t].key \in late \/ t \in given

(* A user about to be deleted owns no token that is not excused. *)
FoundNone(q) ==
    q.pc = "dropUser" => \A t \in DOMAIN tokens : tokens[t].owner = q.id => Excused(t)

(* Between the two statements of ValidateAPIToken: the token is still the user's, and
   when the user is gone somebody was late. *)
LookedUp(q) ==
    q.pc = "findOwner" =>
        /\ \A t \in DOMAIN tokens : tokens[t].key = q.key => tokens[t].owner = q.user \/ t \in given
        /\ q.user \in DOMAIN users \/ late # {} \/ \A t \in DOMAIN tokens : tokens[t].key = q.key => t \in given

(* The zero user acts only when somebody was late, or the token has gone. *)
ActsForNobody(q) ==
    q.user = Nobody /\ q.pc \notin {"idle", "findKey", "findOwner", "createUser", "findUser"} =>
        late # {} \/ \A t \in DOMAIN tokens : tokens[t].key = q.key => t \in given

(* The row an update has read is the row that is there, up to ids chosen by bodies. *)
HasCopy(q) ==
    q.pc = "putToken" /\ q.id \in DOMAIN tokens =>
        q.copy.owner = tokens[q.id].owner \/ q.id \in given

(* Past the authorisation a request is on a token of its user. *)
OnOwn(q) ==
    q.pc \in OnToken \ {"readBack"} /\ q.id \in DOMAIN tokens =>
        q.user \in Wardens \/ q.user = tokens[q.id].owner \/ q.id \in given

Holds(q) == Prepared(q) /\ FoundNone(q) /\ LookedUp(q) /\ ActsForNobody(q) /\ HasCopy(q) /\ OnOwn(q)

UsersOK ==
    /\ DOMAIN users \subseteq Uids /\ DOMAIN users \subseteq used
    /\ \A u \in DOMAIN users : users[u] \in UserRow
    /\ \A u, v \in DOMAIN users : users[u] = users[v] => u = v
TokensOK ==
    /\ DOMAIN tokens \subseteq TokenIds /\ DOMAIN tokens \subseteq used
    /\ \A t \in DOMAIN tokens : tokens[t] \in TokenRow /\ tokens[t].key \in used
    /\ \A t, s \in DOMAIN tokens : tokens[t].key = tokens[s].key => t = s
MarksOK == jwts \subseteq Claims /\ now \in Times /\ given \subseteq GivenIds /\ late \subseteq used \cap Keys

(* A token is left without its owner only when it is excused. *)
OwnersStay == \A t \in DOMAIN tokens : tokens[t].owner \notin DOMAIN users => Excused(t)

ReqsOK == DOMAIN req = Requests /\ \A r \in Requests : Holds(req[r])

(* The inductive invariant. *)
IInv == UsersOK /\ TokensOK /\ MarksOK /\ OwnersStay /\ ReqsOK

-----------------------------------------------------------------------------
LEMMA NeverInTimes == Never \in Times /\ 1 \in Times
  BY TimeAssumption DEF Never, Times

LEMMA IdleHolds ==
    ASSUME NEW a \in Answers
    PROVE  Holds([Idle EXCEPT !.answer = a]) /\ Holds([Idle EXCEPT !.answer = a])'
<1> DEFINE q == [Idle EXCEPT !.answer = a]
<1>1. <<Nil, Never>> \in {Nil} \X {Never} \cup {"time"} \X Times
  OBVIOUS
<1>2. q \in ReqRow
  BY <1>1, NeverInTimes DEF Idle, ReqRow, NoCopy, Copies, Body, PCs, Ops
<1>3. q.pc = "idle"
  BY DEF Idle
<1> HIDE DEF q
<1>4. Holds(q)
  BY <1>2, <1>3 DEF Holds, Prepared, FoundNone, LookedUp, ActsForNobody, HasCopy, OnOwn, Asking, OnToken, OnUser
<1>5. Holds(q)'
  BY <1>2, <1>3 DEF Holds, Prepared, FoundNone, LookedUp, ActsForNobody, HasCopy, OnOwn, Asking, OnToken, OnUser
<1> QED BY <1>4, <1>5 DEF q

LEMMA IdleTyped == Idle \in ReqRow
<1>1. <<Nil, Never>> \in {Nil} \X {Never} \cup {"time"} \X Times
  OBVIOUS
<1> QED
  BY <1>1, NeverInTimes DEF Idle, ReqRow, NoCopy, Copies, Body, PCs, Ops, Answers

(* Where the middleware sends a request whose user it knows. *)
Routed(op, pc) ==
    /\ pc \in {"insertToken", "listTokens", "askOwner", "getRoles"}
    /\ pc = "askOwner" => op \in AsksOwner
    /\ pc = "getRoles" => op \in AsksRoles

LEMMA RouteOf ==
    ASSUME NEW op \in NoAsk \cup AsksOwner \cup AsksRoles
    PROVE  Routed(op, Route(op))
  BY DEF Route, Routed, NoAsk, AsksOwner, AsksRoles

(* A step that writes no table keeps the invariant of the requests that do not move. *)
LEMMA QuietStep ==
    ASSUME IInv, NEW r \in Requests, NEW q, req' = [req EXCEPT ![r] = q], Holds(q), UNCHANGED Tables
    PROVE  ReqsOK' /\ UsersOK' /\ TokensOK' /\ OwnersStay'
<1>1. /\ users' = users /\ tokens' = tokens /\ used' = used /\ given' = given /\ late' = late
  BY DEF Tables
<1>2. UsersOK' /\ TokensOK' /\ OwnersStay'
  BY <1>1 DEF IInv, UsersOK, TokensOK, OwnersStay, Excused
<1>3. DOMAIN req' = Requests
  BY DEF IInv, ReqsOK
<1>4. ASSUME NEW s \in Requests PROVE Holds(req[s])'
  <2>1. Holds(req'[s])
    BY DEF IInv, ReqsOK
  <2> QED
    BY <1>1, <2>1 DEF Holds, Prepared, FoundNone, LookedUp, ActsForNobody, HasCopy, OnOwn, Excused
<1> QED BY <1>2, <1>3, <1>4 DEF ReqsOK

LEMMA AnswerStep ==
    ASSUME IInv, NEW r \in Requests, NEW a \in Answers, Answer(r, a), UNCHANGED Tables
    PROVE  ReqsOK' /\ UsersOK' /\ TokensOK' /\ OwnersStay'
<1> DEFINE q == [Idle EXCEPT !.answer = a]
<1>1. req' = [req EXCEPT ![r] = q] /\ Holds(q)
  BY IdleHolds DEF Answer
<1> HIDE DEF q
<1> QED BY <1>1, QuietStep

LEMMA MarksStay ==
    ASSUME IInv, UNCHANGED Tables, jwts' \subseteq Claims, now' = now
    PROVE  MarksOK'
  BY DEF IInv, MarksOK, Tables

LEMMA BeginOK ==
    ASSUME IInv, NEW r \in Requests, Begin(r)
    PROVE  IInv'
<1>1. UNCHANGED Tables /\ jwts' = jwts /\ now' = now /\ MarksOK'
  BY MarksStay DEF Begin, IInv, MarksOK
<1> DEFINE Ids(op) == IF op \in AsksOwner THEN (used \cap TokenIds) \cup GivenIds
                      ELSE IF op = "deleteUser" THEN used \cap Uids ELSE {"none"}
<1>2. PICK op \in NoAsk \cup AsksOwner \cup AsksRoles : \E id \in Ids(op) :
        \/ \E key \in used \cap Keys :
              req' = [req EXCEPT ![r] = [Idle EXCEPT !.pc = "findKey", !.op = op, !.id = id, !.key = key]]
        \/ \E jwt \in jwts :
              req' = [req EXCEPT ![r] = [Idle EXCEPT !.pc = Route(op), !.op = op, !.id = id, !.user = jwt.user]]
        \/ Answer(r, "unauthorised")
  BY DEF Begin
<1>2a. PICK id \in Ids(op) :
        \/ \E key \in used \cap Keys :
              req' = [req EXCEPT ![r] = [Idle EXCEPT !.pc = "findKey", !.op = op, !.id = id, !.key = key]]
        \/ \E jwt \in jwts :
              req' = [req EXCEPT ![r] = [Idle EXCEPT !.pc = Route(op), !.op = op, !.id = id, !.user = jwt.user]]
        \/ Answer(r, "unauthorised")
  BY <1>2
<1>3. /\ id \in Uids \cup TokenIds \cup {"none"}
      /\ op \in AsksOwner => id \in TokenIds /\ id \in used \cup GivenIds
      /\ op = "deleteUser" => id \in Uids
  BY SeedsAssumption DEF AsksOwner
<1>4. CASE \E key \in used \cap Keys :
              req' = [req EXCEPT ![r] = [Idle EXCEPT !.pc = "findKey", !.op = op, !.id = id, !.key = key]]
  <2>1. PICK key \in used \cap Keys :
              req' = [req EXCEPT ![r] = [Idle EXCEPT !.pc = "findKey", !.op = op, !.id = id, !.key = key]]
    BY <1>4
  <2> DEFINE q == [Idle EXCEPT !.pc = "findKey", !.op = op, !.id = id, !.key = key]
  <2>2. q \in ReqRow
    BY <1>3, IdleTyped DEF Idle, ReqRow, PCs, Ops
  <2>3. q.pc = "findKey" /\ q.op = op /\ q.id = id /\ q.key = key
    BY DEF Idle
  <2>4. req' = [req EXCEPT ![r] = q]
    BY <2>1
  <2> HIDE DEF q
  <2>5. Holds(q)
    BY <1>3, <2>2, <2>3
       DEF Holds, Prepared, FoundNone, LookedUp, ActsForNobody, HasCopy, OnOwn, Asking, OnToken, OnUser
  <2> QED BY <1>1, <2>4, <2>5, QuietStep DEF IInv
<1>5. CASE \E jwt \in jwts :
              req' = [req EXCEPT ![r] = [Idle EXCEPT !.pc = Route(op), !.op = op, !.id = id, !.user = jwt.user]]
  <2>1. PICK jwt \in jwts :
              req' = [req EXCEPT ![r] = [Idle EXCEPT !.pc = Route(op), !.op = op, !.id = id, !.user = jwt.user]]
    BY <1>5
  <2> DEFINE q == [Idle EXCEPT !.pc = Route(op), !.op = op, !.id = id, !.user = jwt.user]
  <2>2. jwt.user \in Uids /\ jwt.user # Nobody
    BY NobodyAssumption DEF IInv, MarksOK, Claims
  <2>3. Routed(op, Route(op))
    BY <1>2, RouteOf
  <2>4. q \in ReqRow
    BY <1>3, <2>2, <2>3, IdleTyped DEF Routed, Idle, ReqRow, PCs, Ops
  <2>5. q.pc = Route(op) /\ q.op = op /\ q.id = id /\ q.user = jwt.user
    BY DEF Idle
  <2>6. req' = [req EXCEPT ![r] = q]
    BY <2>1
  <2> HIDE DEF q
  <2>7. Holds(q)
    BY <1>3, <2>2, <2>3, <2>4, <2>5
       DEF Routed, Holds, Prepared, FoundNone, LookedUp, ActsForNobody, HasCopy, OnOwn, Asking, OnToken, OnUser
  <2> QED BY <1>1, <2>6, <2>7, QuietStep DEF IInv
<1>6. CASE Answer(r, "unauthorised")
  BY <1>1, <1>6, AnswerStep DEF IInv, Answers
<1> QED BY <1>2a, <1>4, <1>5, <1>6

LEMMA FindKeyOK ==
    ASSUME IInv, NEW r \in Requests, FindKey(r)
    PROVE  IInv'
<1>1. UNCHANGED Tables /\ jwts' = jwts /\ now' = now /\ MarksOK' /\ req[r].pc = "findKey"
  BY MarksStay DEF FindKey, IInv, MarksOK
<1>2. CASE Answer(r, "unauthorised")
  BY <1>1, <1>2, AnswerStep DEF IInv, Answers
<1>3. ASSUME NEW t \in DOMAIN tokens, tokens[t].key = req[r].key,
             req' = [req EXCEPT ![r].pc = "findOwner", ![r].user = tokens[t].owner]
      PROVE  IInv'
  <2> DEFINE q == [req[r] EXCEPT !.pc = "findOwner", !.user = tokens[t].owner]
  <2>1. req' = [req EXCEPT ![r] = q]
    BY <1>3 DEF IInv, ReqsOK
  <2>2. req[r] \in ReqRow /\ Prepared(req[r])
    BY DEF IInv, ReqsOK, Holds, Prepared
  <2>3. tokens[t].owner \in Uids \cup {Nobody} /\ (tokens[t].owner \notin DOMAIN users => Excused(t))
        /\ \A s \in DOMAIN tokens : tokens[s].key = tokens[t].key => s = t
    BY DEF IInv, TokensOK, TokenRow, OwnersStay
  <2>4. q \in ReqRow
    BY <2>2, <2>3 DEF ReqRow, PCs
  <2>5. q.pc = "findOwner" /\ q.user = tokens[t].owner /\ q.op = req[r].op /\ q.key = req[r].key /\ q.id = req[r].id
    BY <2>2 DEF ReqRow
  <2> HIDE DEF q
  <2>6. Prepared(q)
    BY <1>1, <2>2, <2>4, <2>5 DEF Prepared, Asking, OnToken, OnUser
  <2>7. LookedUp(q)
    BY <1>3, <2>3, <2>5 DEF LookedUp, Excused
  <2>8. Holds(q)
    BY <2>5, <2>6, <2>7 DEF Holds, FoundNone, ActsForNobody, HasCopy, OnOwn, OnToken
  <2> QED BY <1>1, <2>1, <2>8, QuietStep DEF IInv
<1> QED BY <1>2, <1>3 DEF FindKey

LEMMA FindOwnerOK ==
    ASSUME IInv, NEW r \in Requests, FindOwner(r)
    PROVE  IInv'
<1> DEFINE u == IF req[r].user \in DOMAIN users THEN req[r].user ELSE Nobody
           q == [req[r] EXCEPT !.pc = Route(req[r].op), !.user = u]
<1>1. UNCHANGED Tables /\ jwts' = jwts /\ now' = now /\ MarksOK' /\ req[r].pc = "findOwner"
  BY MarksStay DEF FindOwner, IInv, MarksOK
<1>2. req' = [req EXCEPT ![r] = q]
  BY DEF IInv, ReqsOK, FindOwner
<1>3. req[r] \in ReqRow /\ Prepared(req[r]) /\ LookedUp(req[r])
  BY DEF IInv, ReqsOK, Holds, Prepared
<1>4. Routed(req[r].op, Route(req[r].op))
  BY <1>1, <1>3, RouteOf DEF Prepared
<1>5. u \in Uids \cup {Nobody}
  BY <1>3 DEF ReqRow
<1>8. u = Nobody => late # {} \/ \A t \in DOMAIN tokens : tokens[t].key = req[r].key => t \in given
  BY <1>1, <1>3, NobodyAssumption DEF LookedUp, IInv, UsersOK
<1> HIDE DEF u
<1>6. q \in ReqRow
  BY <1>3, <1>4, <1>5 DEF Routed, ReqRow, PCs
<1>7. /\ q.pc = Route(req[r].op) /\ q.user = u /\ q.op = req[r].op /\ q.key = req[r].key /\ q.id = req[r].id
  BY <1>3 DEF ReqRow
<1> HIDE DEF q
<1>9. Prepared(q)
  BY <1>1, <1>3, <1>4, <1>6, <1>7 DEF Routed, Prepared, Asking, OnToken, OnUser
<1>10. Holds(q)
  BY <1>4, <1>7, <1>8, <1>9 DEF Routed, Holds, FoundNone, LookedUp, ActsForNobody, HasCopy, OnOwn, OnToken
<1> QED BY <1>1, <1>2, <1>10, QuietStep DEF IInv
(* A request that only moves on, to a statement that its operation leads to. *)
LEMMA GotoStep ==
    ASSUME IInv, NEW r \in Requests, NEW pc \in PCs \ {"findKey", "findOwner", "putToken"},
           Goto(r, pc), UNCHANGED <<Tables, jwts, now>>,
           LET q == [req[r] EXCEPT !.pc = pc]
           IN  Prepared(q) /\ FoundNone(q) /\ ActsForNobody(q) /\ OnOwn(q)
    PROVE  IInv'
<1> DEFINE q == [req[r] EXCEPT !.pc = pc]
<1>1. req' = [req EXCEPT ![r] = q]
  BY DEF Goto, IInv, ReqsOK
<1>2. q.pc = pc
  BY DEF IInv, ReqsOK, Holds, Prepared, ReqRow
<1>3. Prepared(q) /\ FoundNone(q) /\ ActsForNobody(q) /\ OnOwn(q)
  OBVIOUS
<1> HIDE DEF q
<1>4. Holds(q)
  BY <1>2, <1>3 DEF Holds, LookedUp, HasCopy
<1>5. ReqsOK' /\ UsersOK' /\ TokensOK' /\ OwnersStay'
  BY <1>1, <1>4, QuietStep
<1>6. MarksOK'
  BY MarksStay DEF IInv, MarksOK
<1> QED BY <1>5, <1>6 DEF IInv

(* What a request carries over when it moves on. *)
LEMMA MovedOn ==
    ASSUME IInv, NEW r \in Requests, NEW pc \in PCs
    PROVE  LET q == [req[r] EXCEPT !.pc = pc]
           IN  /\ q \in ReqRow /\ q.pc = pc /\ q.op = req[r].op /\ q.id = req[r].id
               /\ q.user = req[r].user /\ q.key = req[r].key
               /\ req[r] \in ReqRow /\ Prepared(req[r]) /\ ActsForNobody(req[r]) /\ OnOwn(req[r])
<1>1. req[r] \in ReqRow /\ Prepared(req[r]) /\ ActsForNobody(req[r]) /\ OnOwn(req[r])
  BY DEF IInv, ReqsOK, Holds, Prepared
<1> QED BY <1>1 DEF ReqRow

LEMMA AskOwnerOK ==
    ASSUME IInv, NEW r \in Requests, AskOwner(r)
    PROVE  IInv'
<1> DEFINE owner == IF req[r].id \in DOMAIN tokens THEN tokens[req[r].id].owner ELSE Nobody
           pc == IF owner = req[r].user THEN "readToken" ELSE "getRoles"
           q == [req[r] EXCEPT !.pc = pc]
<1>1. req[r].pc = "askOwner" /\ Goto(r, pc) /\ UNCHANGED <<Tables, jwts, now>>
  BY DEF AskOwner
<1>2. pc \in PCs \ {"findKey", "findOwner", "putToken"} /\ pc \in {"readToken", "getRoles"}
  BY DEF PCs
<1>3. pc = "readToken" /\ req[r].id \in DOMAIN tokens => req[r].user = tokens[req[r].id].owner
  OBVIOUS
<1> HIDE DEF pc, owner
<1>4. /\ q \in ReqRow /\ q.pc = pc /\ q.op = req[r].op /\ q.id = req[r].id
      /\ q.user = req[r].user /\ q.key = req[r].key
      /\ req[r] \in ReqRow /\ Prepared(req[r]) /\ ActsForNobody(req[r])
  BY <1>2, MovedOn
<1> HIDE DEF q
<1>5. Prepared(q) /\ FoundNone(q) /\ ActsForNobody(q) /\ OnOwn(q)
  BY <1>1, <1>2, <1>3, <1>4 DEF Prepared, FoundNone, ActsForNobody, OnOwn, Asking, OnToken, OnUser
<1> QED BY <1>1, <1>2, <1>5, GotoStep DEF q

LEMMA GetRolesOK ==
    ASSUME IInv, NEW r \in Requests, GetRoles(r)
    PROVE  IInv'
<1>1. req[r].pc = "getRoles" /\ UNCHANGED <<Tables, jwts, now>> /\ MarksOK'
  BY MarksStay DEF GetRoles, IInv, MarksOK
<1>2. CASE \E a \in Answers : Answer(r, a)
  BY <1>1, <1>2, AnswerStep DEF IInv
<1>3. CASE /\ req[r].user \in Wardens /\ req[r].op \notin {"use", "listAllTokens"}
           /\ Goto(r, After(req[r].op))
  <2> DEFINE pc == After(req[r].op)
             q == [req[r] EXCEPT !.pc = pc]
  <2>1. req[r].op \in AsksOwner \/ req[r].op = "deleteUser"
    BY <1>1, <1>3 DEF IInv, ReqsOK, Holds, Prepared, AsksRoles
  <2>2. /\ req[r].op \in AsksOwner => pc = "readToken"
        /\ req[r].op = "deleteUser" => pc = "countTokens"
    BY DEF After, AsksOwner
  <2> HIDE DEF pc
  <2>3. pc \in PCs \ {"findKey", "findOwner", "putToken"}
    BY <2>1, <2>2 DEF PCs
  <2>4. /\ q \in ReqRow /\ q.pc = pc /\ q.op = req[r].op /\ q.id = req[r].id
        /\ q.user = req[r].user /\ q.key = req[r].key
        /\ req[r] \in ReqRow /\ Prepared(req[r]) /\ ActsForNobody(req[r])
    BY <2>3, MovedOn
  <2> HIDE DEF q
  <2>5. Prepared(q) /\ FoundNone(q) /\ ActsForNobody(q) /\ OnOwn(q)
    BY <1>1, <1>3, <2>1, <2>2, <2>4 DEF Prepared, FoundNone, ActsForNobody, OnOwn, Asking, OnToken, OnUser
  <2> QED BY <1>1, <1>3, <2>3, <2>5, GotoStep DEF q, pc
<1> QED BY <1>2, <1>3 DEF GetRoles, Answers

LEMMA CountTokensOK ==
    ASSUME IInv, NEW r \in Requests, CountTokens(r)
    PROVE  IInv'
<1>1. req[r].pc = "countTokens" /\ UNCHANGED <<Tables, jwts, now>> /\ MarksOK'
  BY MarksStay DEF CountTokens, IInv, MarksOK
<1>2. CASE Answer(r, "error")
  BY <1>1, <1>2, AnswerStep DEF IInv, Answers
<1>3. CASE (\A t \in DOMAIN tokens : tokens[t].owner # req[r].id) /\ Goto(r, "dropUser")
  <2> DEFINE q == [req[r] EXCEPT !.pc = "dropUser"]
  <2>1. "dropUser" \in PCs \ {"findKey", "findOwner", "putToken"}
    BY DEF PCs
  <2>2. /\ q \in ReqRow /\ q.pc = "dropUser" /\ q.op = req[r].op /\ q.id = req[r].id
        /\ q.user = req[r].user /\ q.key = req[r].key
        /\ req[r] \in ReqRow /\ Prepared(req[r]) /\ ActsForNobody(req[r])
    BY <2>1, MovedOn
  <2> HIDE DEF q
  <2>3. Prepared(q) /\ FoundNone(q) /\ ActsForNobody(q) /\ OnOwn(q)
    BY <1>1, <1>3, <2>2 DEF Prepared, FoundNone, ActsForNobody, OnOwn, Asking, OnToken, OnUser
  <2> QED BY <1>1, <1>3, <2>1, <2>3, GotoStep DEF q
<1> QED BY <1>2, <1>3 DEF CountTokens

LEMMA MergedCopy ==
    ASSUME NEW row \in TokenRow, NEW body \in Body
    PROVE  /\ MergeBody(row, body) \in Copies
           /\ MergeBody(row, body).owner = row.owner
           /\ body.enabled # "true" /\ body.expires[1] # "time" =>
                 /\ MergeBody(row, body).enabled => row.enabled
                 /\ MergeBody(row, body).expires = row.expires
<1>1. /\ body.enabled \in {Nil, "true", "false"}
      /\ body.expires \in {Nil} \X {Never} \cup {"time"} \X Times
  BY DEF Body
<1>2. body.expires[2] \in Times /\ body.expires[1] \in {Nil, "time"}
  BY <1>1, NeverInTimes
<1>3. row.owner \in Uids \cup {Nobody} /\ row.enabled \in BOOLEAN /\ row.expires \in Times
  BY DEF TokenRow
<1> QED BY <1>1, <1>2, <1>3 DEF MergeBody, Copies

LEMMA ReadTokenOK ==
    ASSUME IInv, NEW r \in Requests, ReadToken(r)
    PROVE  IInv'
<1>1. req[r].pc = "readToken" /\ UNCHANGED <<Tables, jwts, now>> /\ MarksOK'
  BY MarksStay DEF ReadToken, IInv, MarksOK
<1>2. CASE Answer(r, "error") \/ Answer(r, "ok")
  BY <1>1, <1>2, AnswerStep DEF IInv, Answers
<1>3. CASE req[r].id \in DOMAIN tokens /\ Goto(r, "dropToken")
  <2> DEFINE q == [req[r] EXCEPT !.pc = "dropToken"]
  <2>1. "dropToken" \in PCs \ {"findKey", "findOwner", "putToken"}
    BY DEF PCs
  <2>2. /\ q \in ReqRow /\ q.pc = "dropToken" /\ q.op = req[r].op /\ q.id = req[r].id
        /\ q.user = req[r].user /\ q.key = req[r].key
        /\ req[r] \in ReqRow /\ Prepared(req[r]) /\ ActsForNobody(req[r]) /\ OnOwn(req[r])
    BY <2>1, MovedOn
  <2> HIDE DEF q
  <2>3. req[r].id \in used
    BY <1>3 DEF IInv, TokensOK
  <2>4. Prepared(q)
    BY <1>1, <2>2, <2>3 DEF Prepared, Asking, OnToken, OnUser
  <2>5. FoundNone(q) /\ ActsForNobody(q) /\ OnOwn(q)
    BY <1>1, <2>2 DEF FoundNone, ActsForNobody, OnOwn, OnToken
  <2> QED BY <1>1, <1>3, <2>1, <2>4, <2>5, GotoStep DEF q
<1>4. ASSUME req[r].id \in DOMAIN tokens, NEW body \in Bodies,
             req' = [req EXCEPT ![r].pc = "putToken", ![r].body = body,
                                ![r].copy = MergeBody(tokens[req[r].id], body)]
      PROVE  IInv'
  <2>1. /\ tokens[req[r].id] \in TokenRow /\ body \in Body /\ req[r].id \in used
        /\ req[r] \in ReqRow /\ Prepared(req[r]) /\ ActsForNobody(req[r]) /\ OnOwn(req[r])
    BY <1>4, SeedsAssumption DEF IInv, TokensOK, ReqsOK, Holds, Prepared
  <2>2. PICK copy \in Copies : copy = MergeBody(tokens[req[r].id], body) /\ copy.owner = tokens[req[r].id].owner
    BY <2>1, MergedCopy
  <2> DEFINE q == [req[r] EXCEPT !.pc = "putToken", !.body = body, !.copy = copy]
  <2>3. req' = [req EXCEPT ![r] = q]
    BY <1>4, <2>2 DEF IInv, ReqsOK
  <2>4. /\ q \in ReqRow /\ q.pc = "putToken" /\ q.op = req[r].op /\ q.id = req[r].id
        /\ q.user = req[r].user /\ q.key = req[r].key /\ q.copy = copy
    BY <2>1 DEF ReqRow, PCs
  <2> HIDE DEF q
  <2>5. Prepared(q)
    BY <1>1, <2>1, <2>4 DEF Prepared, Asking, OnToken, OnUser
  <2>6. FoundNone(q) /\ LookedUp(q) /\ ActsForNobody(q) /\ HasCopy(q) /\ OnOwn(q)
    BY <1>1, <2>1, <2>2, <2>4 DEF FoundNone, LookedUp, ActsForNobody, HasCopy, OnOwn, OnToken
  <2>7. Holds(q)
    BY <2>5, <2>6 DEF Holds
  <2> QED BY <1>1, <2>3, <2>7, QuietStep DEF IInv
<1> QED BY <1>2, <1>3, <1>4 DEF ReadToken
-----------------------------------------------------------------------------
(* The statements that write a table. *)
LEMMA AnswerMoves ==
    ASSUME IInv, NEW r \in Requests, NEW a \in Answers, Answer(r, a),
           \A s \in Requests \ {r} : Holds(req[s])'
    PROVE  ReqsOK'
<1>1. DOMAIN req' = Requests /\ req'[r] = [Idle EXCEPT !.answer = a]
  BY DEF Answer, IInv, ReqsOK
<1>2. Holds(req[r])'
  <2> DEFINE q == [Idle EXCEPT !.answer = a]
  <2>1. Holds(q)' /\ req'[r] = q
    BY <1>1, IdleHolds
  <2> HIDE DEF q
  <2> QED BY <2>1 DEF Holds, Prepared, FoundNone, LookedUp, ActsForNobody, HasCopy, OnOwn
<1> QED BY <1>1, <1>2 DEF ReqsOK

LEMMA OthersStay ==
    ASSUME IInv, NEW r \in Requests, NEW q, req' = [req EXCEPT ![r] = q], NEW s \in Requests \ {r}
    PROVE  /\ req'[s] = req[s] /\ Prepared(req[s]) /\ FoundNone(req[s]) /\ LookedUp(req[s])
           /\ ActsForNobody(req[s]) /\ HasCopy(req[s]) /\ OnOwn(req[s])
  BY DEF IInv, ReqsOK, Holds

(* The token that InsertToken creates, with fresh or chosen id and fresh key. *)
Created(r, id, key) ==
    /\ id \in TokenIds \ DOMAIN tokens /\ key \in Keys \ used
    /\ DOMAIN tokens' = DOMAIN tokens \cup {id}
    /\ \A t \in DOMAIN tokens : tokens'[t] = tokens[t]
    /\ tokens'[id] \in TokenRow /\ tokens'[id].key = key /\ tokens'[id].owner = req[r].user
    /\ used' = used \cup {id, key}
    /\ given \subseteq given' /\ given' \subseteq GivenIds
    /\ id \in used \cup GivenIds => id \in given'
    /\ late \subseteq late' /\ late' \subseteq late \cup {key}
    /\ req[r].user \notin DOMAIN users => key \in late'
    /\ \A q \in Requests : req[q].pc = "dropUser" /\ req[q].id = req[r].user => key \in late'
    /\ users' = users

LEMMA InsertTokenCreates ==
    ASSUME IInv, NEW r \in Requests, InsertToken(r), ~ UNCHANGED Tables
    PROVE  Answer(r, "ok") /\ \E id, key : Created(r, id, key)
<1> DEFINE Ids(chosen) == IF chosen = Nil THEN TokenIds \ (used \cup GivenIds) ELSE {chosen}
           Does(body, chosen, key, id) ==
               /\ tokens' = Insert(tokens, id, [owner |-> req[r].user, key |-> key,
                               enabled |-> body.enabled # "false", expires |-> body.expires[2]])
               /\ used' = used \cup {id, key}
               /\ given' = IF chosen = Nil THEN given ELSE given \cup {id}
               /\ late' = IF \/ req[r].user \notin DOMAIN users
                             \/ \E q \in Requests : req[q].pc = "dropUser" /\ req[q].id = req[r].user
                          THEN late \cup {key} ELSE late
               /\ Answer(r, "ok")
<1>1. PICK body \in Bodies, chosen \in GivenIds \cup {Nil}, key \in Keys \ used : \E id \in Ids(chosen) :
          id \notin DOMAIN tokens /\ Does(body, chosen, key, id)
  BY DEF InsertToken, Tables
<1>2. PICK id \in Ids(chosen) : id \notin DOMAIN tokens /\ Does(body, chosen, key, id)
  BY <1>1
<1>3. id \in TokenIds /\ (chosen # Nil => id = chosen /\ id \in GivenIds) /\ (chosen = Nil => id \notin used \cup GivenIds)
  BY SeedsAssumption
<1>4. body.expires[2] \in Times
  BY SeedsAssumption, NeverInTimes DEF Body
<1> DEFINE row == [owner |-> req[r].user, key |-> key, enabled |-> body.enabled # "false", expires |-> body.expires[2]]
<1>5. row \in TokenRow /\ row.key = key /\ row.owner = req[r].user
  BY <1>4 DEF TokenRow, IInv, ReqsOK, Holds, Prepared, ReqRow
<1>6. /\ DOMAIN tokens' = DOMAIN tokens \cup {id} /\ tokens'[id] = row
      /\ \A t \in DOMAIN tokens : tokens'[t] = tokens[t]
  <2>1. tokens' = Insert(tokens, id, row)
    BY <1>2
  <2> HIDE DEF row
  <2> QED BY <1>2, <2>1 DEF Insert
<1>7. given \subseteq given' /\ given' \subseteq GivenIds /\ (id \in used \cup GivenIds => id \in given')
  BY <1>2, <1>3 DEF IInv, MarksOK
<1> HIDE DEF row
<1>8. Created(r, id, key)
  BY <1>2, <1>3, <1>5, <1>6, <1>7 DEF Created, InsertToken
<1> QED BY <1>2, <1>8

LEMMA InsertTokenOK ==
    ASSUME IInv, NEW r \in Requests, InsertToken(r)
    PROVE  IInv'
<1>1. jwts' = jwts /\ now' = now /\ (UNCHANGED Tables => MarksOK')
  BY MarksStay DEF InsertToken, IInv, MarksOK
<1>2. CASE UNCHANGED Tables
  <2>1. Answer(r, "error") \/ Answer(r, "ok")
    BY DEF InsertToken
  <2> QED BY <1>1, <1>2, <2>1, AnswerStep DEF IInv, Answers
<1>3. CASE ~ UNCHANGED Tables
  <2>1. Answer(r, "ok")
    BY <1>3, InsertTokenCreates
  <2>2. PICK id, key : Created(r, id, key)
    BY <1>3, InsertTokenCreates
  <2>3. UsersOK'
    BY <2>2 DEF Created, IInv, UsersOK
  <2>4. TokensOK'
    <3>1. \A t \in DOMAIN tokens : tokens[t].key # key
      BY <2>2 DEF Created, IInv, TokensOK
    <3> QED BY <2>2, <3>1 DEF Created, IInv, TokensOK
  <2>5. MarksOK'
    BY <1>1, <2>2 DEF Created, IInv, MarksOK
  <2>6. OwnersStay'
    BY <2>2 DEF Created, IInv, OwnersStay, Excused
  <2>7. ASSUME NEW s \in Requests \ {r} PROVE Holds(req[s])'
    <3>1. /\ req'[s] = req[s] /\ Prepared(req[s]) /\ FoundNone(req[s]) /\ LookedUp(req[s])
          /\ ActsForNobody(req[s]) /\ HasCopy(req[s]) /\ OnOwn(req[s])
      BY <2>1, OthersStay DEF Answer
    <3>2. Prepared(req[s])'
      BY <2>2, <3>1 DEF Prepared, Created
    <3>3. FoundNone(req[s])'
      BY <2>2, <3>1 DEF FoundNone, Excused, Created
    <3>4. LookedUp(req[s])'
      BY <2>2, <3>1 DEF LookedUp, Created, Prepared
    <3>5. ActsForNobody(req[s])'
      BY <2>2, <3>1 DEF ActsForNobody, Created, Prepared
    <3>6. HasCopy(req[s])'
      BY <2>2, <3>1 DEF HasCopy, Created, Prepared, OnToken
    <3>7. OnOwn(req[s])'
      BY <2>2, <3>1 DEF OnOwn, Created, Prepared, OnToken
    <3> QED BY <3>2, <3>3, <3>4, <3>5, <3>6, <3>7 DEF Holds
  <2>8. ReqsOK'
    BY <2>1, <2>7, AnswerMoves DEF Answers
  <2> QED BY <2>3, <2>4, <2>5, <2>6, <2>8 DEF IInv
<1> QED BY <1>2, <1>3

LEMMA DropTokenOK ==
    ASSUME IInv, NEW r \in Requests, DropToken(r)
    PROVE  IInv'
<1>1. /\ Answer(r, "ok") /\ DOMAIN tokens' \subseteq DOMAIN tokens
      /\ \A t \in DOMAIN tokens' : tokens'[t] = tokens[t]
      /\ UNCHANGED <<users, jwts, now, used, given, late>>
  BY DEF DropToken, Without
<1>2. UsersOK' /\ MarksOK'
  BY <1>1 DEF IInv, UsersOK, MarksOK
<1>3. TokensOK' /\ OwnersStay'
  BY <1>1 DEF IInv, TokensOK, OwnersStay, Excused
<1>4. ASSUME NEW s \in Requests \ {r} PROVE Holds(req[s])'
  <2>1. /\ req'[s] = req[s] /\ Prepared(req[s]) /\ FoundNone(req[s]) /\ LookedUp(req[s])
        /\ ActsForNobody(req[s]) /\ HasCopy(req[s]) /\ OnOwn(req[s])
    BY <1>1, OthersStay DEF Answer
  <2>2. Prepared(req[s])'
    BY <1>1, <2>1 DEF Prepared
  <2>3. FoundNone(req[s])' /\ LookedUp(req[s])' /\ ActsForNobody(req[s])'
    BY <1>1, <2>1 DEF FoundNone, LookedUp, ActsForNobody, Excused
  <2>4. HasCopy(req[s])' /\ OnOwn(req[s])'
    BY <1>1, <2>1 DEF HasCopy, OnOwn
  <2> QED BY <2>2, <2>3, <2>4 DEF Holds
<1>5. ReqsOK'
  BY <1>1, <1>4, AnswerMoves DEF Answers
<1> QED BY <1>2, <1>3, <1>5 DEF IInv

LEMMA DropUserOK ==
    ASSUME IInv, NEW r \in Requests, DropUser(r)
    PROVE  IInv'
<1>1. /\ Answer(r, "ok") /\ DOMAIN users' = DOMAIN users \ {req[r].id}
      /\ \A u \in DOMAIN users' : users'[u] = users[u]
      /\ UNCHANGED <<tokens, jwts, now, used, given, late>> /\ req[r].pc = "dropUser"
  BY DEF DropUser, Without
<1>2. UsersOK' /\ MarksOK' /\ TokensOK'
  BY <1>1 DEF IInv, UsersOK, MarksOK, TokensOK
<1>3. \A t \in DOMAIN tokens : tokens[t].owner = req[r].id => Excused(t)
  BY <1>1 DEF IInv, ReqsOK, Holds, FoundNone
<1>4. OwnersStay'
  BY <1>1, <1>3 DEF IInv, OwnersStay, Excused
<1>5. ASSUME NEW s \in Requests \ {r} PROVE Holds(req[s])'
  <2>1. /\ req'[s] = req[s] /\ Prepared(req[s]) /\ FoundNone(req[s]) /\ LookedUp(req[s])
        /\ ActsForNobody(req[s]) /\ HasCopy(req[s]) /\ OnOwn(req[s])
    BY <1>1, OthersStay DEF Answer
  <2>2. Prepared(req[s])'
    BY <1>1, <2>1 DEF Prepared
  <2>3. FoundNone(req[s])' /\ ActsForNobody(req[s])'
    BY <1>1, <2>1 DEF FoundNone, ActsForNobody, Excused
  <2>4. LookedUp(req[s])'
    BY <1>1, <1>3, <2>1 DEF LookedUp, Excused
  <2>5. HasCopy(req[s])' /\ OnOwn(req[s])'
    BY <1>1, <2>1 DEF HasCopy, OnOwn
  <2> QED BY <2>2, <2>3, <2>4, <2>5 DEF Holds
<1>6. ReqsOK'
  BY <1>1, <1>5, AnswerMoves DEF Answers
<1> QED BY <1>2, <1>4, <1>6 DEF IInv
(* What PutToken may write: the fields of one row but its key, and its owner only when
   a body has chosen its id. *)
LEMMA PutTokenWrites ==
    ASSUME IInv, NEW r \in Requests, PutToken(r)
    PROVE  /\ DOMAIN tokens' = DOMAIN tokens
           /\ \A t \in DOMAIN tokens :
                 /\ tokens'[t] \in TokenRow /\ tokens'[t].key = tokens[t].key
                 /\ tokens'[t].owner = tokens[t].owner \/ t \in given
                 /\ tokens'[t] # tokens[t] =>
                       /\ t = req[r].id
                       /\ tokens'[t].enabled = req[r].copy.enabled
                       /\ tokens'[t].expires = req[r].copy.expires
<1> DEFINE id == req[r].id
           copy == req[r].copy
<1>1. req[r].pc = "putToken" /\ copy \in Copies /\ HasCopy(req[r])
  BY DEF PutToken, IInv, ReqsOK, Holds, Prepared, ReqRow
<1>2. CASE id \notin DOMAIN tokens
  BY <1>2 DEF PutToken, IInv, TokensOK
<1>3. CASE id \in DOMAIN tokens
  <2> DEFINE owner == IF copy.owner = Nobody THEN tokens[id].owner ELSE copy.owner
             row == [[[tokens[id] EXCEPT !.owner = owner] EXCEPT !.enabled = copy.enabled]
                         EXCEPT !.expires = copy.expires]
  <2>1. tokens[id] \in TokenRow
    BY <1>3 DEF IInv, TokensOK
  <2>2. tokens' = [tokens EXCEPT ![id].owner = IF copy.owner = Nobody THEN @ ELSE copy.owner,
                                 ![id].enabled = copy.enabled, ![id].expires = copy.expires]
    BY <1>3 DEF PutToken
  <2>3. owner \in Uids \cup {Nobody} /\ (owner = tokens[id].owner \/ id \in given)
    BY <1>1, <1>3, <2>1 DEF TokenRow, Copies, HasCopy
  <2>4. tokens' = [tokens EXCEPT ![id] = row]
    BY <1>3, <2>2
  <2> HIDE DEF owner
  <2>5. row \in TokenRow /\ row.key = tokens[id].key /\ (row.owner = tokens[id].owner \/ id \in given)
        /\ row.enabled = copy.enabled /\ row.expires = copy.expires
    BY <1>1, <2>1, <2>3 DEF TokenRow, Copies
  <2> HIDE DEF row
  <2>6. DOMAIN tokens' = DOMAIN tokens /\ \A t \in DOMAIN tokens : tokens'[t] = IF t = id THEN row ELSE tokens[t]
    BY <2>4
  <2>7. \A t \in DOMAIN tokens : tokens[t] \in TokenRow
    BY DEF IInv, TokensOK
  <2> QED BY <2>5, <2>6, <2>7
<1> QED BY <1>2, <1>3

LEMMA PutTokenOK ==
    ASSUME IInv, NEW r \in Requests, PutToken(r)
    PROVE  IInv'
<1> DEFINE q == [req[r] EXCEPT !.pc = "readBack"]
<1>1. /\ DOMAIN tokens' = DOMAIN tokens
      /\ \A t \in DOMAIN tokens :
            /\ tokens'[t] \in TokenRow /\ tokens'[t].key = tokens[t].key
            /\ tokens'[t].owner = tokens[t].owner \/ t \in given
  BY PutTokenWrites
<1>2. UNCHANGED <<users, jwts, now, used, given, late>> /\ req[r].pc = "putToken"
  BY DEF PutToken
<1>3. UsersOK' /\ MarksOK'
  BY <1>2 DEF IInv, UsersOK, MarksOK
<1>4. TokensOK'
  BY <1>1, <1>2 DEF IInv, TokensOK
<1>5. OwnersStay'
  BY <1>1, <1>2 DEF IInv, OwnersStay, Excused
<1>6. req' = [req EXCEPT ![r] = q]
  BY DEF PutToken, Goto, IInv, ReqsOK
<1>7. "readBack" \in PCs
  BY DEF PCs
<1>8. /\ q \in ReqRow /\ q.pc = "readBack" /\ q.op = req[r].op /\ q.id = req[r].id
      /\ q.user = req[r].user /\ q.key = req[r].key
      /\ req[r] \in ReqRow /\ Prepared(req[r]) /\ ActsForNobody(req[r])
  BY <1>7, MovedOn
<1> HIDE DEF q
<1>9. DOMAIN req' = Requests /\ req'[r] = q
  BY <1>6 DEF IInv, ReqsOK
<1>10. Prepared(req[r])'
  BY <1>2, <1>8, <1>9 DEF Prepared, Asking, OnToken, OnUser
<1>11. ActsForNobody(req[r])'
  BY <1>1, <1>2, <1>8, <1>9 DEF ActsForNobody
<1>12. Holds(req[r])'
  BY <1>8, <1>9, <1>10, <1>11 DEF Holds, FoundNone, LookedUp, HasCopy, OnOwn, OnToken
<1>13. ASSUME NEW s \in Requests \ {r} PROVE Holds(req[s])'
  <2>1. /\ req'[s] = req[s] /\ Prepared(req[s]) /\ FoundNone(req[s]) /\ LookedUp(req[s])
        /\ ActsForNobody(req[s]) /\ HasCopy(req[s]) /\ OnOwn(req[s])
    BY <1>6, OthersStay
  <2>2. Prepared(req[s])'
    BY <1>2, <2>1 DEF Prepared
  <2>3. FoundNone(req[s])' /\ ActsForNobody(req[s])'
    BY <1>1, <1>2, <2>1 DEF FoundNone, ActsForNobody, Excused
  <2>4. LookedUp(req[s])'
    BY <1>1, <1>2, <2>1 DEF LookedUp
  <2>5. HasCopy(req[s])' /\ OnOwn(req[s])'
    BY <1>1, <1>2, <2>1 DEF HasCopy, OnOwn
  <2> QED BY <2>2, <2>3, <2>4, <2>5 DEF Holds
<1>14. ReqsOK'
  BY <1>9, <1>12, <1>13 DEF ReqsOK
<1> QED BY <1>3, <1>4, <1>5, <1>14 DEF IInv

LEMMA LoginOK ==
    ASSUME IInv, NEW r \in Requests, Login(r)
    PROVE  IInv'
<1>1. UNCHANGED <<Tables, jwts, now>> /\ MarksOK'
  BY MarksStay DEF Login, IInv, MarksOK
<1>2. CASE Answer(r, "unauthorised")
  BY <1>1, <1>2, AnswerStep DEF IInv, Answers
<1>3. ASSUME NEW name \in Names, NEW provider \in Providers, NEW pc \in {"findUser", "createUser"},
             req' = [req EXCEPT ![r] = [Idle EXCEPT !.pc = pc, !.op = "login",
                                                    !.name = name, !.provider = provider]]
      PROVE  IInv'
  <2> DEFINE q == [Idle EXCEPT !.pc = pc, !.op = "login", !.name = name, !.provider = provider]
  <2>1. q \in ReqRow
    BY IdleTyped DEF Idle, ReqRow, PCs, Ops
  <2>2. q.pc = pc /\ q.name = name /\ q.provider = provider
    BY DEF Idle
  <2>3. req' = [req EXCEPT ![r] = q]
    BY <1>3
  <2> HIDE DEF q
  <2>4. Holds(q)
    BY <2>1, <2>2
       DEF Holds, Prepared, FoundNone, LookedUp, ActsForNobody, HasCopy, OnOwn, Asking, OnToken, OnUser
  <2> QED BY <1>1, <2>3, <2>4, QuietStep DEF IInv
<1> QED BY <1>2, <1>3 DEF Login

LEMMA CreateUserOK ==
    ASSUME IInv, NEW r \in Requests, CreateUser(r)
    PROVE  IInv'
<1> DEFINE row == [name |-> req[r].name, provider |-> req[r].provider]
           q == [req[r] EXCEPT !.pc = "findUser"]
<1>1. /\ UNCHANGED <<tokens, jwts, now, given, late>> /\ req[r].pc = "createUser" /\ Goto(r, "findUser")
      /\ req[r] \in ReqRow /\ Prepared(req[r]) /\ "findUser" \in PCs
  BY DEF CreateUser, IInv, ReqsOK, Holds, Prepared, PCs
<1>2. row \in UserRow
  BY <1>1 DEF Prepared, UserRow
<1>3. /\ DOMAIN users \subseteq DOMAIN users' /\ used \subseteq used' /\ MarksOK'
      /\ \A u \in DOMAIN users : users'[u] = users[u]
  BY <1>1 DEF CreateUser, Insert, IInv, MarksOK, UsersOK
<1>4. UsersOK'
  <2>1. CASE UNCHANGED <<users, used>>
    BY <2>1 DEF IInv, UsersOK
  <2>2. ASSUME \A u \in DOMAIN users : users[u] # row,
               NEW u \in Uids \ used, users' = Insert(users, u, row), used' = used \cup {u}
        PROVE  UsersOK'
    <3> HIDE DEF row
    <3>1. DOMAIN users' = DOMAIN users \cup {u} /\ u \notin DOMAIN users /\ users'[u] = row
      BY <2>2 DEF Insert, IInv, UsersOK
    <3> QED BY <1>2, <1>3, <2>2, <3>1 DEF IInv, UsersOK
  <2> QED BY <2>1, <2>2 DEF CreateUser
<1>5. TokensOK' /\ OwnersStay'
  BY <1>1, <1>3 DEF IInv, TokensOK, OwnersStay, Excused
<1>6. req' = [req EXCEPT ![r] = q]
  BY <1>1 DEF Goto, IInv, ReqsOK
<1>7. q \in ReqRow /\ q.pc = "findUser" /\ q.name = req[r].name /\ q.provider = req[r].provider
  BY <1>1 DEF ReqRow
<1> HIDE DEF q
<1>8. DOMAIN req' = Requests /\ req'[r] = q
  BY <1>6 DEF IInv, ReqsOK
<1>9. Holds(req[r])'
  BY <1>1, <1>7, <1>8
     DEF Holds, Prepared, FoundNone, LookedUp, ActsForNobody, HasCopy, OnOwn, Asking, OnToken, OnUser
<1>10. ASSUME NEW s \in Requests \ {r} PROVE Holds(req[s])'
  <2>1. /\ req'[s] = req[s] /\ Prepared(req[s]) /\ FoundNone(req[s]) /\ LookedUp(req[s])
        /\ ActsForNobody(req[s]) /\ HasCopy(req[s]) /\ OnOwn(req[s])
    BY <1>6, OthersStay
  <2>2. Prepared(req[s])'
    BY <1>3, <2>1 DEF Prepared
  <2>3. FoundNone(req[s])' /\ ActsForNobody(req[s])'
    BY <1>1, <2>1 DEF FoundNone, ActsForNobody, Excused
  <2>4. LookedUp(req[s])'
    BY <1>1, <1>3, <2>1 DEF LookedUp
  <2>5. HasCopy(req[s])' /\ OnOwn(req[s])'
    BY <1>1, <2>1 DEF HasCopy, OnOwn
  <2> QED BY <2>2, <2>3, <2>4, <2>5 DEF Holds
<1>11. ReqsOK'
  BY <1>8, <1>9, <1>10 DEF ReqsOK
<1> QED BY <1>3, <1>4, <1>5, <1>11 DEF IInv

LEMMA FindUserOK ==
    ASSUME IInv, NEW r \in Requests, FindUser(r)
    PROVE  IInv'
<1>1. UNCHANGED Tables /\ now' = now /\ \E a \in Answers : Answer(r, a)
  BY DEF FindUser, Answers
<1>2. now + JwtTTL \in Nat
  BY TimeAssumption DEF IInv, MarksOK, Times, Never
<1>3. req[r].name \in Names /\ req[r].provider \in Providers
  BY DEF FindUser, IInv, ReqsOK, Holds, Prepared
<1>4. jwts' \subseteq Claims
  BY <1>2, <1>3 DEF FindUser, CreateJWTToken, Claims, IInv, UsersOK, MarksOK
<1> QED BY <1>1, <1>4, AnswerStep, MarksStay DEF IInv

LEMMA RefreshOK ==
    ASSUME IInv, NEW r \in Requests, Refresh(r)
    PROVE  IInv'
<1>1. UNCHANGED Tables /\ now' = now /\ \E a \in Answers : Answer(r, a)
  BY DEF Refresh, Answers
<1>2. now + JwtTTL \in Nat
  BY TimeAssumption DEF IInv, MarksOK, Times, Never
<1>3. jwts' \subseteq Claims
  BY <1>2 DEF Refresh, Claims, IInv, MarksOK
<1> QED BY <1>1, <1>3, AnswerStep, MarksStay DEF IInv

LEMMA ReadsOK ==
    ASSUME IInv, NEW r \in Requests, ListTokens(r) \/ ReadBack(r)
    PROVE  IInv'
<1>1. UNCHANGED Tables /\ jwts' = jwts /\ now' = now /\ \E a \in Answers : Answer(r, a)
  BY DEF ListTokens, ReadBack, Answers
<1> QED BY <1>1, AnswerStep, MarksStay DEF IInv, MarksOK

LEMMA TickOK ==
    ASSUME IInv, UNCHANGED <<Tables, jwts, req>>, now' = now \/ (now < MaxTime /\ now' = now + 1)
    PROVE  IInv'
<1>1. MarksOK'
  BY TimeAssumption DEF IInv, MarksOK, Tables, Times, Never
<1>2. UsersOK' /\ TokensOK' /\ OwnersStay'
  BY DEF IInv, UsersOK, TokensOK, OwnersStay, Excused, Tables
<1>3. ReqsOK'
  BY DEF IInv, ReqsOK, Holds, Prepared, FoundNone, LookedUp, ActsForNobody, HasCopy, OnOwn, Excused, Tables
<1> QED BY <1>1, <1>2, <1>3 DEF IInv

-----------------------------------------------------------------------------
LEMMA InitIInv == Init => IInv
<1> SUFFICES ASSUME Init PROVE IInv
  OBVIOUS
<1>1. UsersOK
  BY SeedsAssumption DEF Init, UsersOK
<1>2. TokensOK /\ MarksOK /\ OwnersStay
  BY SeedsAssumption, NeverInTimes DEF Init, TokensOK, MarksOK, OwnersStay, TokenRow
<1>3. Idle = [Idle EXCEPT !.answer = "none"]
  BY DEF Idle
<1>4. Holds(Idle)
  BY <1>3, IdleHolds DEF Answers
<1> QED BY <1>1, <1>2, <1>4 DEF Init, IInv, ReqsOK

LEMMA NextIInv == IInv /\ [Next]_vars => IInv'
<1> SUFFICES ASSUME IInv, [Next]_vars PROVE IInv'
  OBVIOUS
<1>1. ASSUME NEW r \in Requests, Statement(r) PROVE IInv'
  <2>1. CASE Begin(r) \/ FindKey(r) \/ FindOwner(r) \/ AskOwner(r) \/ GetRoles(r)
    BY <2>1, BeginOK, FindKeyOK, FindOwnerOK, AskOwnerOK, GetRolesOK
  <2>2. CASE InsertToken(r) \/ ListTokens(r) \/ ReadToken(r) \/ PutToken(r) \/ ReadBack(r) \/ DropToken(r)
    BY <2>2, InsertTokenOK, ReadsOK, ReadTokenOK, PutTokenOK, DropTokenOK
  <2>3. CASE CountTokens(r) \/ DropUser(r) \/ Login(r) \/ CreateUser(r) \/ FindUser(r) \/ Refresh(r)
    BY <2>3, CountTokensOK, DropUserOK, LoginOK, CreateUserOK, FindUserOK, RefreshOK
  <2> QED BY <1>1, <2>1, <2>2, <2>3 DEF Statement
<1>2. CASE Tick \/ UNCHANGED vars
  BY <1>2, TickOK DEF Tick, vars, Tables
<1> QED BY <1>1, <1>2 DEF Next

(* Types, with the uniqueness the tables keep (Credentials.TypeOK), whatever the users,
   tokens and requests. *)
THEOREM TypeCorrect == Spec => []TypeOK
<1>1. IInv => TypeOK
  <2> SUFFICES ASSUME IInv PROVE TypeOK
    OBVIOUS
  <2>1. \A r \in Requests :
          /\ req[r].pc \in PCs /\ req[r].user \in Uids \cup {Nobody}
          /\ req[r].pc \in {"putToken", "dropToken", "readBack", "readToken"} => req[r].id \in TokenIds
          /\ req[r].pc \in {"countTokens", "dropUser"} => req[r].id \in Uids \ {Nobody}
    BY NobodyAssumption DEF IInv, ReqsOK, Holds, Prepared, ReqRow, OnToken, OnUser
  <2>2. /\ DOMAIN users \subseteq used \cap Uids /\ (\A u \in DOMAIN users : users[u] \in UserRow)
        /\ \A u, v \in DOMAIN users : users[u] = users[v] => u = v
    BY DEF IInv, UsersOK
  <2>3. /\ DOMAIN tokens \subseteq used \cap TokenIds /\ (\A t \in DOMAIN tokens : tokens[t] \in TokenRow)
        /\ \A t, s \in DOMAIN tokens : tokens[t].key = tokens[s].key => t = s
    BY DEF IInv, TokensOK
  <2> QED BY <2>1, <2>2, <2>3 DEF IInv, MarksOK, TypeOK
<1> QED BY <1>1, InitIInv, NextIInv, PTL DEF Spec

(* DeleteUser looks for tokens and deletes the user in two statements: a token without an
   owner was made after the look, or an update handed it over, and only then does a
   request act for the zero user. *)
THEOREM OrphanTokensCameLate == Spec => []OrphansCameLate
<1>1. IInv => OrphansCameLate
  <2> SUFFICES ASSUME IInv PROVE OrphansCameLate
    OBVIOUS
  <2>1. ASSUME NEW r \in Requests, req[r].user = Nobody,
               req[r].pc \notin {"idle", "findKey", "createUser", "findUser"}
        PROVE  late # {} \/ \A t \in DOMAIN tokens : tokens[t].key = req[r].key => t \in given
    <3>1. LookedUp(req[r]) /\ ActsForNobody(req[r]) /\ Nobody \notin DOMAIN users
      BY NobodyAssumption DEF IInv, ReqsOK, Holds, UsersOK
    <3> QED BY <2>1, <3>1 DEF LookedUp, ActsForNobody
  <2>2. \A t \in DOMAIN tokens : tokens[t].owner \notin DOMAIN users => tokens[t].key \in late \/ t \in given
    BY DEF IInv, OwnersStay, Excused
  <2> QED BY <2>1, <2>2 DEF OrphansCameLate
<1> QED BY <1>1, InitIInv, NextIInv, PTL DEF Spec

-----------------------------------------------------------------------------
(* How a step treats a token: as it was, as PutToken writes it, or deleted by DropToken. *)
LEMMA TokenSteps ==
    ASSUME IInv, [Next]_vars
    PROVE  /\ \A t \in DOMAIN tokens \cap DOMAIN tokens' :
                 \/ tokens'[t] = tokens[t]
                 \/ \E r \in Requests : PutToken(r) /\ req[r].id = t
           /\ \A t \in DOMAIN tokens \ DOMAIN tokens' :
                 \E r \in Requests : DropToken(r) /\ req[r].id = t
           /\ \A t \in DOMAIN tokens' \ DOMAIN tokens : tokens'[t].key \notin used
<1>1. CASE tokens' = tokens
  BY <1>1
<1>2. CASE \E r \in Requests : PutToken(r)
  <2>1. PICK r \in Requests : PutToken(r)
    BY <1>2
  <2>2. DOMAIN tokens' = DOMAIN tokens /\ \A t \in DOMAIN tokens : tokens'[t] # tokens[t] => t = req[r].id
    BY <2>1, PutTokenWrites
  <2> QED BY <2>1, <2>2
<1>3. CASE \E r \in Requests : InsertToken(r) /\ ~ UNCHANGED Tables
  <2>1. PICK r \in Requests : InsertToken(r) /\ ~ UNCHANGED Tables
    BY <1>3
  <2>2. PICK id, key : Created(r, id, key)
    BY <2>1, InsertTokenCreates
  <2> QED BY <2>2 DEF Created
<1>4. CASE \E r \in Requests : DropToken(r)
  BY <1>4 DEF DropToken, Without
<1>5. \/ tokens' = tokens
      \/ \E r \in Requests : PutToken(r) \/ DropToken(r) \/ (InsertToken(r) /\ ~ UNCHANGED Tables)
  <2>1. CASE Tick \/ UNCHANGED vars
    BY <2>1 DEF Tick, vars, Tables
  <2>2. ASSUME NEW r \in Requests, Begin(r) \/ FindKey(r) \/ FindOwner(r) \/ AskOwner(r) \/ GetRoles(r)
        PROVE  tokens' = tokens
    BY <2>2 DEF Begin, FindKey, FindOwner, AskOwner, GetRoles, Tables
  <2>3. ASSUME NEW r \in Requests, ListTokens(r) \/ ReadToken(r) \/ ReadBack(r) \/ CountTokens(r) \/ DropUser(r)
        PROVE  tokens' = tokens
    BY <2>3 DEF ListTokens, ReadToken, ReadBack, CountTokens, DropUser, Tables
  <2>4. ASSUME NEW r \in Requests, Login(r) \/ CreateUser(r) \/ FindUser(r) \/ Refresh(r)
        PROVE  tokens' = tokens
    BY <2>4 DEF Login, CreateUser, FindUser, Refresh, Tables
  <2>5. UNCHANGED Tables => tokens' = tokens
    BY DEF Tables
  <2> QED BY <2>1, <2>2, <2>3, <2>4, <2>5 DEF Next, Statement
<1> QED BY <1>1, <1>2, <1>3, <1>4, <1>5

(* A key belongs to one row, and that row to one owner unless a body chose its id, from
   its creation to its end: no write-back of a row read before revives a deleted one. *)
THEOREM TokenKeysAreForLife == Spec => KeysAreForLife
<1> DEFINE Step ==
       /\ \A t \in DOMAIN tokens \cap DOMAIN tokens' :
             /\ tokens'[t].key = tokens[t].key
             /\ tokens'[t].owner = tokens[t].owner \/ t \in given
       /\ \A t \in DOMAIN tokens' \ DOMAIN tokens : tokens'[t].key \notin used
<1>1. ASSUME IInv, [Next]_vars PROVE Step
  <2>1. ASSUME NEW t \in DOMAIN tokens \cap DOMAIN tokens'
        PROVE  tokens'[t].key = tokens[t].key /\ (tokens'[t].owner = tokens[t].owner \/ t \in given)
    <3>1. CASE tokens'[t] = tokens[t]
      BY <3>1
    <3>2. ASSUME NEW r \in Requests, PutToken(r)
          PROVE  tokens'[t].key = tokens[t].key /\ (tokens'[t].owner = tokens[t].owner \/ t \in given)
      BY <1>1, <3>2, PutTokenWrites
    <3> QED BY <1>1, <3>1, <3>2, TokenSteps
  <2> QED BY <1>1, <2>1, TokenSteps
<1> HIDE DEF Step
<1>2. IInv /\ [Next]_vars => [Step]_vars
  BY <1>1
<1>3. [][Step]_vars => KeysAreForLife
  BY PTL DEF Step, KeysAreForLife
<1> QED BY <1>2, <1>3, InitIInv, NextIInv, PTL DEF Spec

(* IsAutorised looks at the owner before the handler reads the row, and nobody looks again:
   still a caller without a role writes and deletes only its own tokens, unless a body
   gave the id to another row. *)
THEOREM TokenWritesAreOwn == Spec => WritesOwnTokens
<1> DEFINE Step ==
       \A t \in DOMAIN tokens :
          (t \in DOMAIN tokens' => tokens'[t] # tokens[t]) =>
              \E r \in Requests :
                 /\ req[r].pc \in {"putToken", "dropToken"} /\ req[r].id = t
                 /\ req[r].user \in Wardens \cup {tokens[t].owner} \/ t \in given
<1>1. ASSUME IInv, [Next]_vars PROVE Step
  <2>1. ASSUME NEW t \in DOMAIN tokens, t \in DOMAIN tokens' => tokens'[t] # tokens[t]
        PROVE  \E r \in Requests :
                 /\ req[r].pc \in {"putToken", "dropToken"} /\ req[r].id = t
                 /\ req[r].user \in Wardens \cup {tokens[t].owner} \/ t \in given
    <3>1. PICK r \in Requests : (PutToken(r) \/ DropToken(r)) /\ req[r].id = t
      BY <1>1, <2>1, TokenSteps
    <3>2. req[r].pc \in {"putToken", "dropToken"}
      BY <3>1 DEF PutToken, DropToken
    <3>3. OnOwn(req[r])
      BY <1>1 DEF IInv, ReqsOK, Holds
    <3>4. req[r].user \in Wardens \cup {tokens[t].owner} \/ t \in given
      BY <3>1, <3>2, <3>3 DEF OnOwn, OnToken
    <3> QED BY <3>1, <3>2, <3>4
  <2> QED BY <2>1
<1> HIDE DEF Step
<1>2. IInv /\ [Next]_vars => [Step]_vars
  BY <1>1
<1>3. [][Step]_vars => WritesOwnTokens
  BY PTL DEF Step, WritesOwnTokens
<1> QED BY <1>2, <1>3, InitIInv, NextIInv, PTL DEF Spec

LEMMA ClockForward ==
    ASSUME IInv, [Next]_vars
    PROVE  now' = now \/ now' = now + 1
  BY DEF Next, Statement, Begin, FindKey, FindOwner, AskOwner, GetRoles, InsertToken, ListTokens, ReadToken,
         PutToken, ReadBack, DropToken, CountTokens, DropUser, Login, CreateUser, FindUser, Refresh, Tick, vars

(* A token that is disabled or has expired lives again only by an update whose body says
   so, or which had read the row before. *)
THEOREM TokensReviveOnPurpose == Spec => RevivedOnPurpose
<1> DEFINE Step ==
       \A t \in DOMAIN tokens \cap DOMAIN tokens' :
          Revived(t) =>
              \E r \in Requests :
                 /\ req[r].pc = "putToken" /\ req[r].id = t /\ req'[r].pc = "readBack"
                 /\ \/ req[r].body.enabled = "true" \/ req[r].body.expires[1] = "time"
                    \/ req[r].copy # MergeBody(tokens[t], req[r].body)
<1>1. ASSUME IInv, [Next]_vars PROVE Step
  <2>1. ASSUME NEW t \in DOMAIN tokens \cap DOMAIN tokens', Revived(t)
        PROVE  \E r \in Requests :
                 /\ req[r].pc = "putToken" /\ req[r].id = t /\ req'[r].pc = "readBack"
                 /\ \/ req[r].body.enabled = "true" \/ req[r].body.expires[1] = "time"
                    \/ req[r].copy # MergeBody(tokens[t], req[r].body)
    <3>1. /\ now' >= now /\ now \in Nat /\ now' \in Nat
          /\ tokens[t] \in TokenRow /\ tokens[t].expires \in Nat
      BY <1>1, NextIInv, ClockForward, TimeAssumption DEF IInv, MarksOK, TokensOK, TokenRow, Times, Never
    <3>2. tokens'[t] # tokens[t]
      BY <2>1, <3>1 DEF Revived, Alive, Expired
    <3>3. PICK r \in Requests : PutToken(r) /\ req[r].id = t
      BY <1>1, <3>2, TokenSteps
    <3>4. req[r].pc = "putToken" /\ req'[r].pc = "readBack" /\ now' = now /\ req[r].body \in Body
      BY <1>1, <3>3 DEF PutToken, Goto, IInv, ReqsOK, Holds, Prepared, ReqRow
    <3>5. tokens'[t].enabled = req[r].copy.enabled /\ tokens'[t].expires = req[r].copy.expires
      BY <1>1, <3>2, <3>3, PutTokenWrites
    <3>6. ASSUME req[r].body.enabled # "true", req[r].body.expires[1] # "time",
                 req[r].copy = MergeBody(tokens[t], req[r].body)
          PROVE  FALSE
      <4>1. (tokens'[t].enabled => tokens[t].enabled) /\ tokens'[t].expires = tokens[t].expires
        BY <3>1, <3>4, <3>5, <3>6, MergedCopy
      <4> QED BY <2>1, <3>1, <3>4, <4>1 DEF Revived, Alive, Expired
    <3> QED BY <3>3, <3>4, <3>6
  <2> QED BY <2>1
<1> HIDE DEF Step
<1>2. IInv /\ [Next]_vars => [Step]_vars
  BY <1>1
<1>3. [][Step]_vars => RevivedOnPurpose
  BY PTL DEF Step, RevivedOnPurpose
<1> QED BY <1>2, <1>3, InitIInv, NextIInv, PTL DEF Spec
=============================================================================
