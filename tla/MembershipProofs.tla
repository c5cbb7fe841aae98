--------------------------- MODULE MembershipProofs ---------------------------
(***************************************************************************)
(* Proofs about Membership, for any tables, batches and number of requests. *)
(***************************************************************************)
EXTENDS Membership, TLAPS, SequenceTheorems, FunctionTheorems, FiniteSetTheorems,
        WellFoundedInduction, NaturalsInduction

(* A set of numbers that is not empty has a least one. *)
LEMMA LeastExists ==
    ASSUME NEW S, S \subseteq Nat, S # {}
    PROVE  Min(S) \in S /\ \A i \in S : Min(S) =< i
<1> DEFINE Less == OpToRel(<, Nat)
<1>1. Less = {p \in Nat \X Nat : p[1] < p[2]}
  BY Zenon DEF OpToRel
<1>2. IsWellFoundedOn(Less, Nat)
  BY NatLessThanWellFounded
<1> HIDE DEF Less
<1>3. PICK x \in S : \A y \in S : ~ (<<y, x>> \in Less)
  BY <1>2, WFMin, Zenon
<1>4. \A y \in S : x =< y
  <2>1. ASSUME NEW a \in Nat, NEW c \in Nat, ~ (<<a, c>> \in Less) PROVE c =< a
    BY <1>1, <2>1
  <2> QED BY <1>3, <2>1
<1> QED
  BY <1>4 DEF Min

(* A set that holds 0 and, with a number, the next one holds all. *)
LEMMA Induction ==
    ASSUME NEW S, 0 \in S, \A n \in Nat : n \in S => n + 1 \in S
    PROVE  \A n \in Nat : n \in S
<1>1. SUFFICES ASSUME Nat \ S # {} PROVE FALSE
  OBVIOUS
<1>2. PICK x \in Nat \ S : \A y \in Nat \ S : x =< y
  BY <1>1, LeastExists
<1>3. x - 1 \in Nat /\ x - 1 \notin Nat \ S /\ x = (x - 1) + 1
  BY <1>2
<1> QED
  BY <1>2, <1>3

(* The first row of a table exists: ids are natural numbers. *)
LEMMA FirstIdExists ==
    ASSUME NEW rows, DOMAIN rows \subseteq Nat, DOMAIN rows # {}
    PROVE  FirstId(rows) \in DOMAIN rows /\ \A i \in DOMAIN rows : FirstId(rows) =< i
  BY LeastExists DEF FirstId

(* What RemoveFromSlice can leave of a list: only users that were on it, and all
   of those it was not asked to remove. *)
LEMMA OutcomesKeepOthers ==
    ASSUME NEW S, NEW batch, NEW out \in RemoveOutcomes(S, batch), out.ok
    PROVE  out.users \subseteq S /\ S \ batch \subseteq out.users
<1> DEFINE hits == S \cap batch
<1>1. CASE Cardinality(hits) <= 1
  <2>1. out = [ok |-> TRUE, users |-> S \ batch]
    BY <1>1 DEF RemoveOutcomes
  <2> QED BY <2>1
<1>2. CASE ~ (Cardinality(hits) <= 1)
  <2>1. PICK gone \in SUBSET hits : out = [ok |-> TRUE, users |-> S \ gone]
    BY <1>2 DEF RemoveOutcomes
  <2> QED BY <2>1
<1> QED
  BY <1>1, <1>2

-----------------------------------------------------------------------------
(* What a handler has in its variables at each statement. *)
SlotOK(q) ==
    /\ q.pc \in {"findUser", "putUser", "putGroup"} => q.op \in {"add", "remove"}
    /\ q.pc = "getGroup" => q.op \in {"add", "remove", "deleteGroup"}
    /\ q.pc \in {"getGroup", "findUser", "putUser", "putGroup", "dropGroup"} => q.group \in Gids
    /\ q.pc \in {"putUser", "getUser", "findTokens", "dropUser"} => q.user \in Uids
    /\ q.pc \notin {"findUser", "putUser", "putGroup"} => q.ids = {}
    /\ q.pc \in {"findTokens", "dropUser"} => q.userRow.groups = {}
    /\ q.pc = "dropGroup" => q.groupRow.isNull
    /\ q.groupRow.isNull => q.groupRow.users = {}

(* TypeOK, with what the handlers hold and what an unwritten list means: inductive. *)
UsersOK  == DOMAIN users \subseteq Uids \cap used /\ users \in [DOMAIN users -> UserRow]
GroupsOK == /\ DOMAIN groups \subseteq Gids \cap used /\ groups \in [DOMAIN groups -> GroupRow]
            /\ \A g \in DOMAIN groups : groups[g].isNull => groups[g].users = {}
RestOK   == /\ used \subseteq Uids \cup Gids /\ tainted \subseteq Uids \cup Gids
            /\ work \in [{"requests", "writes", "restarts"} -> Nat]
ReqOK    == req \in [Requests -> Req] /\ \A r \in Requests : SlotOK(req[r])

TypeInv == UsersOK /\ GroupsOK /\ RestOK /\ ReqOK

LEMMA TypeInvImpliesTypeOK == TypeInv => TypeOK
  BY DEF TypeInv, TypeOK, UsersOK, GroupsOK, RestOK, ReqOK

LEMMA IdleTyped == Idle \in Req /\ SlotOK(Idle)
  BY ProvidersAssumption DEF Idle, Req, PCs, NoUser, NoGroup, UserRow, GroupRow, SlotOK

LEMMA InitTypeInv == Init => TypeInv
<1> SUFFICES ASSUME Init PROVE TypeInv
  OBVIOUS
<1> USE IdsAssumption, SeedsAssumption, ProvidersAssumption DEF Init, NoId
<1>1. UsersOK
  BY DEF UserRow, Accounts, UsersOK
<1>2. GroupsOK
  BY DEF GroupRow, GroupsOK
<1>3. RestOK
  BY DEF RestOK
<1>4. ReqOK
  BY IdleTyped DEF ReqOK
<1> QED
  BY <1>1, <1>2, <1>3, <1>4 DEF TypeInv

-----------------------------------------------------------------------------
(* How the parts of a step keep the parts of TypeInv. *)
LEMMA UsedTyped ==
    ASSUME work \in [{"requests", "writes", "restarts"} -> Nat],
           NEW kind \in {"requests", "writes", "restarts"}, NEW max, Used(kind, max)
    PROVE  work' \in [{"requests", "writes", "restarts"} -> Nat]
  BY DEF Used

LEMMA SaveUserTyped ==
    ASSUME UsersOK, NEW u, NEW provider \in Providers, NEW gs \in SUBSET Gids,
           SaveUser(u, provider, gs), used' = used
    PROVE  UsersOK'
  BY DEF UsersOK, SaveUser, Writable, UserRow

LEMMA SaveGroupTyped ==
    ASSUME GroupsOK, NEW g, NEW provider \in Providers, NEW isNil \in BOOLEAN,
           NEW us \in SUBSET Uids, SaveGroup(g, provider, isNil, us), used' = used
    PROVE  GroupsOK'
  BY DEF GroupsOK, SaveGroup, Writable, GroupRow

LEMMA WithoutUserTyped ==
    ASSUME UsersOK, NEW u, users' = Without(users, u), used' = used
    PROVE  UsersOK'
  BY DEF UsersOK, Without

LEMMA WithoutGroupTyped ==
    ASSUME GroupsOK, NEW g, groups' = Without(groups, g), used' = used
    PROVE  GroupsOK'
  BY DEF GroupsOK, Without

LEMMA SlotTyped ==
    ASSUME ReqOK, NEW r \in Requests, NEW q \in Req, SlotOK(q),
           req' = [req EXCEPT ![r] = q]
    PROVE  ReqOK'
<1>1. req' \in [Requests -> Req]
  BY DEF ReqOK
<1>2. \A s \in Requests : req'[s] = IF s = r THEN q ELSE req[s]
  BY DEF ReqOK
<1>3. \A s \in Requests : SlotOK(req'[s])
  BY <1>2 DEF ReqOK
<1> QED
  BY <1>1, <1>3 DEF ReqOK

LEMMA FinishTyped ==
    ASSUME ReqOK, NEW r \in Requests, Finish(r)
    PROVE  ReqOK'
  BY SlotTyped, IdleTyped DEF Finish

LEMMA AbortTyped ==
    ASSUME ReqOK, RestOK, NEW r \in Requests, Abort(r), used' = used, work' = work
    PROVE  ReqOK' /\ RestOK'
<1>1. ReqOK'
  BY FinishTyped DEF Abort
<1>2. req[r].ids # {} => req[r].group \in Gids
  BY DEF ReqOK, SlotOK
<1>3. RestOK'
  BY <1>2 DEF RestOK, Abort, TaintIf
<1> QED
  BY <1>1, <1>3

LEMMA TouchTyped ==
    ASSUME RestOK, NEW r \in Requests, used' = used, work' = work,
           \/ \E g \in Gids : TouchGroup(r, g)
           \/ \E u \in Uids : TouchUser(r, u)
    PROVE  RestOK'
  BY DEF RestOK, TouchGroup, TouchUser, TaintIf

LEMMA BeginTyped ==
    ASSUME TypeInv, NEW r \in Requests, NEW q \in Req, SlotOK(q), Begin(r, q)
    PROVE  TypeInv'
<1>1. UsersOK' /\ GroupsOK'
  BY DEF TypeInv, Begin, UsersOK, GroupsOK
<1>2. RestOK'
  BY UsedTyped DEF TypeInv, Begin, RestOK
<1>3. ReqOK'
  BY SlotTyped DEF TypeInv, Begin
<1> QED
  BY <1>1, <1>2, <1>3 DEF TypeInv

-----------------------------------------------------------------------------
LEMMA HandlerTyped ==
    ASSUME TypeInv, NEW r \in Requests, Handler(r)
    PROVE  TypeInv'
<1>0. /\ UsersOK /\ GroupsOK /\ RestOK /\ ReqOK
      /\ req[r] \in Req /\ SlotOK(req[r])
  BY DEF TypeInv, ReqOK
<1>1. CASE BeginMembers(r)
  <2>1. PICK op \in {"add", "remove"}, g \in used \cap Gids, batch \in Batches :
          Begin(r, [Idle EXCEPT !.pc = "getGroup", !.op = op, !.group = g, !.todo = batch])
    BY <1>1 DEF BeginMembers
  <2> DEFINE q == [Idle EXCEPT !.pc = "getGroup", !.op = op, !.group = g, !.todo = batch]
  <2>2. q \in Req /\ SlotOK(q)
    BY IdleTyped, BodiesAssumption DEF Req, PCs, Idle, SlotOK, NoGroup
  <2> QED BY <2>1, <2>2, BeginTyped
<1>2. CASE BeginDeleteGroup(r)
  <2>1. PICK g \in used \cap Gids :
          Begin(r, [Idle EXCEPT !.pc = "getGroup", !.op = "deleteGroup", !.group = g])
    BY <1>2 DEF BeginDeleteGroup
  <2> DEFINE q == [Idle EXCEPT !.pc = "getGroup", !.op = "deleteGroup", !.group = g]
  <2>2. q \in Req /\ SlotOK(q)
    BY IdleTyped DEF Req, PCs, Idle, SlotOK, NoGroup
  <2> QED BY <2>1, <2>2, BeginTyped
<1>3. CASE BeginDeleteUser(r)
  <2>1. PICK u \in used \cap Uids :
          Begin(r, [Idle EXCEPT !.pc = "getUser", !.op = "deleteUser", !.user = u])
    BY <1>3 DEF BeginDeleteUser
  <2> DEFINE q == [Idle EXCEPT !.pc = "getUser", !.op = "deleteUser", !.user = u]
  <2>2. q \in Req /\ SlotOK(q)
    BY IdleTyped DEF Req, PCs, Idle, SlotOK, NoGroup
  <2> QED BY <2>1, <2>2, BeginTyped
<1>4. CASE GetGroup(r)
  <2>1. UsersOK' /\ GroupsOK'
    BY <1>0, <1>4 DEF GetGroup, UsersOK, GroupsOK
  <2>2. req[r].group \in Gids
    BY <1>0, <1>4 DEF SlotOK, GetGroup
  <2>3. CASE Finish(r) /\ tainted' = tainted
    <3>1. RestOK'
      BY <1>0, <1>4, <2>3 DEF GetGroup, RestOK
    <3> QED BY <1>0, <2>1, <2>3, <3>1, FinishTyped DEF TypeInv
  <2>4. CASE ~ (Finish(r) /\ tainted' = tainted)
    <3> DEFINE g  == req[r].group
               pc == IF req[r].op = "deleteGroup" THEN "dropGroup"
                     ELSE IF req[r].todo = {} THEN "putGroup" ELSE "findUser"
               q  == [req[r] EXCEPT !.groupRow = groups[g], !.pc = pc]
    <3>1. /\ g \in DOMAIN groups /\ (req[r].op = "deleteGroup" => groups[g].isNull)
          /\ TouchGroup(r, g) /\ used' = used /\ work' = work
          /\ req' = [req EXCEPT ![r].groupRow = groups[g], ![r].pc = pc]
      BY <1>4, <2>4 DEF GetGroup
    <3>2. RestOK'
      BY <1>0, <2>2, <3>1, TouchTyped
    <3>3. groups[g] \in GroupRow /\ (groups[g].isNull => groups[g].users = {})
      BY <1>0, <3>1 DEF GroupsOK
    <3>4. q \in Req
      BY <1>0, <3>3 DEF Req, PCs
    <3>5. req[r].op \in {"add", "remove", "deleteGroup"}
      BY <1>0, <1>4 DEF GetGroup, SlotOK
    <3>6. SlotOK(q)
      BY <1>0, <1>4, <2>2, <3>1, <3>3, <3>5 DEF SlotOK, GetGroup, Req
    <3>7. req' = [req EXCEPT ![r] = q]
      BY <1>0, <3>1 DEF ReqOK
    <3>8. ReqOK'
      <4> HIDE DEF q
      <4> QED BY <1>0, <3>4, <3>6, <3>7, SlotTyped
    <3> QED BY <2>1, <3>2, <3>8 DEF TypeInv
  <2> QED BY <2>3, <2>4
<1>5. CASE FindUser(r)
  <2>1. UsersOK' /\ GroupsOK' /\ used' = used /\ work' = work /\ req[r].pc = "findUser"
    BY <1>0, <1>5 DEF FindUser, UsersOK, GroupsOK
  <2>2. PICK a \in req[r].todo :
          \/ Abort(r)
          \/ \E u \in DOMAIN users :
                /\ req' = [req EXCEPT ![r].pc = "putUser", ![r].todo = @ \ {a},
                                      ![r].user = u, ![r].userRow = users[u]]
                /\ TouchUser(r, u)
    BY <1>5 DEF FindUser
  <2>3. CASE Abort(r)
    BY <1>0, <2>1, <2>3, AbortTyped DEF TypeInv
  <2>4. CASE ~ Abort(r)
    <3>1. PICK u \in DOMAIN users :
            /\ req' = [req EXCEPT ![r].pc = "putUser", ![r].todo = @ \ {a},
                                  ![r].user = u, ![r].userRow = users[u]]
            /\ TouchUser(r, u)
      BY <2>2, <2>4
    <3> DEFINE q == [req[r] EXCEPT !.pc = "putUser", !.todo = @ \ {a},
                                   !.user = u, !.userRow = users[u]]
    <3>2. u \in Uids /\ users[u] \in UserRow
      BY <1>0 DEF UsersOK
    <3>3. q \in Req
      BY <1>0, <3>2 DEF Req, PCs
    <3>4. SlotOK(q)
      BY <1>0, <2>1, <3>2 DEF SlotOK, Req
    <3>5. req' = [req EXCEPT ![r] = q]
      BY <1>0, <3>1 DEF ReqOK
    <3>6. ReqOK'
      <4> HIDE DEF q
      <4> QED BY <1>0, <3>3, <3>4, <3>5, SlotTyped
    <3>7. RestOK'
      BY <1>0, <2>1, <3>1, <3>2, TouchTyped
    <3> QED BY <2>1, <3>6, <3>7 DEF TypeInv
  <2> QED BY <2>3, <2>4
<1>6. CASE PutUser(r)
  <2> DEFINE u == req[r].user
             row == req[r].userRow
             g == req[r].group
             next == IF req[r].op = "add" THEN row.groups \cup {g} ELSE row.groups \ {g}
             pc == IF req[r].todo = {} THEN "putGroup" ELSE "findUser"
             q == [req[r] EXCEPT !.pc = pc, !.ids = @ \cup {u}, !.user = NoId, !.userRow = NoUser]
  <2>1. GroupsOK' /\ used' = used /\ work' = work /\ req[r].pc = "putUser"
    BY <1>0, <1>6 DEF PutUser, GroupsOK
  <2>2. /\ u \in Uids /\ g \in Gids /\ req[r].op \in {"add", "remove"}
        /\ row \in UserRow /\ row.provider \in Providers /\ next \in SUBSET Gids
    BY <1>0, <2>1 DEF SlotOK, Req, UserRow
  <2>3. CASE Abort(r) /\ users' = users
    <3>1. UsersOK'
      BY <1>0, <2>1, <2>3 DEF UsersOK
    <3> QED BY <1>0, <2>1, <2>3, <3>1, AbortTyped DEF TypeInv
  <2>4. CASE ~ (Abort(r) /\ users' = users)
    <3>1. /\ req' = [req EXCEPT ![r].pc = pc, ![r].ids = @ \cup {u},
                                ![r].user = NoId, ![r].userRow = NoUser]
          /\ tainted' = tainted
          /\ users' = users \/ SaveUser(u, row.provider, next)
      BY <1>6, <2>4 DEF PutUser
    <3>2. UsersOK'
      <4>1. CASE users' = users
        BY <1>0, <2>1, <4>1 DEF UsersOK
      <4>2. CASE SaveUser(u, row.provider, next)
        <5> HIDE DEF next
        <5> QED BY <1>0, <2>1, <2>2, <4>2, SaveUserTyped
      <4> QED BY <3>1, <4>1, <4>2
    <3>3. NoUser \in UserRow
      BY ProvidersAssumption DEF NoUser, UserRow
    <3>4. q \in Req
      BY <1>0, <2>2, <3>3 DEF Req, PCs
    <3>5. SlotOK(q)
      BY <1>0, <2>1, <2>2 DEF SlotOK, Req
    <3>6. req' = [req EXCEPT ![r] = q]
      BY <1>0, <3>1 DEF ReqOK
    <3>7. ReqOK'
      <4> HIDE DEF q
      <4> QED BY <1>0, <3>4, <3>5, <3>6, SlotTyped
    <3>8. RestOK'
      BY <1>0, <2>1, <3>1 DEF RestOK
    <3> QED BY <2>1, <3>2, <3>7, <3>8 DEF TypeInv
  <2> QED BY <2>3, <2>4
<1>7. CASE PutGroup(r)
  <2> DEFINE g == req[r].group
             row == req[r].groupRow
             isNil == req[r].op = "remove" /\ row.isNull
             outcomes == IF req[r].op = "add" THEN {[ok |-> TRUE, users |-> row.users \cup req[r].ids]}
                         ELSE RemoveOutcomes(row.users, req[r].ids)
  <2>1. UsersOK' /\ used' = used /\ work' = work /\ req[r].pc = "putGroup"
    BY <1>0, <1>7 DEF PutGroup, UsersOK
  <2>2. /\ g \in Gids /\ row.provider \in Providers /\ row.users \in SUBSET Uids
        /\ req[r].ids \in SUBSET Uids /\ isNil \in BOOLEAN
    BY <1>0, <2>1 DEF SlotOK, Req, GroupRow
  <2>3. CASE Abort(r) /\ groups' = groups
    <3>1. GroupsOK'
      BY <1>0, <2>1, <2>3 DEF GroupsOK
    <3> QED BY <1>0, <2>1, <2>3, <3>1, AbortTyped DEF TypeInv
  <2>4. CASE ~ (Abort(r) /\ groups' = groups)
    <3>1. PICK out \in outcomes :
            /\ out.ok
            /\ SaveGroup(g, row.provider, isNil, out.users)
            /\ Finish(r)
            /\ TaintIf(req[r].op = "remove" /\ out.users \cap req[r].ids # {}, g)
      BY <1>7, <2>4 DEF PutGroup
    <3>2. out.users \in SUBSET Uids
      <4>1. CASE req[r].op = "add"
        BY <2>2, <4>1
      <4>2. CASE req[r].op # "add"
        BY <2>2, <3>1, <4>2, OutcomesKeepOthers
      <4> QED BY <4>1, <4>2
    <3>3. GroupsOK'
      <4> HIDE DEF isNil
      <4> QED BY <1>0, <2>1, <2>2, <3>1, <3>2, SaveGroupTyped
    <3>4. RestOK'
      BY <1>0, <2>1, <2>2, <3>1 DEF RestOK, TaintIf
    <3> QED BY <1>0, <2>1, <3>1, <3>3, <3>4, FinishTyped DEF TypeInv
  <2> QED BY <2>3, <2>4
<1>8. CASE DropGroup(r)
  <2>1. UsersOK' /\ RestOK'
    BY <1>0, <1>8 DEF DropGroup, UsersOK, RestOK
  <2>2. GroupsOK'
    <3>1. CASE groups' = groups
      BY <1>0, <1>8, <3>1 DEF DropGroup, GroupsOK
    <3>2. CASE groups' = Without(groups, req[r].group)
      BY <1>0, <1>8, <3>2, WithoutGroupTyped DEF DropGroup
    <3> QED BY <1>8, <3>1, <3>2 DEF DropGroup
  <2> QED BY <1>0, <1>8, <2>1, <2>2, FinishTyped DEF DropGroup, TypeInv
<1>9. CASE GetUser(r)
  <2>1. UsersOK' /\ GroupsOK'
    BY <1>0, <1>9 DEF GetUser, UsersOK, GroupsOK
  <2>2. CASE Finish(r) /\ tainted' = tainted
    <3>1. RestOK'
      BY <1>0, <1>9, <2>2 DEF GetUser, RestOK
    <3> QED BY <1>0, <2>1, <2>2, <3>1, FinishTyped DEF TypeInv
  <2>3. CASE ~ (Finish(r) /\ tainted' = tainted)
    <3> DEFINE u == req[r].user
               q == [req[r] EXCEPT !.pc = "findTokens", !.userRow = users[u]]
    <3>1. /\ u \in DOMAIN users /\ users[u].groups = {}
          /\ TouchUser(r, u) /\ used' = used /\ work' = work /\ req[r].pc = "getUser"
          /\ req' = [req EXCEPT ![r].pc = "findTokens", ![r].userRow = users[u]]
      BY <1>9, <2>3 DEF GetUser
    <3>2. u \in Uids /\ users[u] \in UserRow
      BY <1>0, <3>1 DEF UsersOK
    <3>3. q \in Req
      BY <1>0, <3>2 DEF Req, PCs
    <3>4. SlotOK(q)
      BY <1>0, <3>1, <3>2 DEF SlotOK, Req
    <3>5. req' = [req EXCEPT ![r] = q]
      BY <1>0, <3>1 DEF ReqOK
    <3>6. ReqOK'
      <4> HIDE DEF q
      <4> QED BY <1>0, <3>3, <3>4, <3>5, SlotTyped
    <3>7. RestOK'
      BY <1>0, <3>1, <3>2, TouchTyped
    <3> QED BY <2>1, <3>6, <3>7 DEF TypeInv
  <2> QED BY <2>2, <2>3
<1>10. CASE FindTokens(r)
  <2>1. UsersOK' /\ GroupsOK' /\ RestOK'
    BY <1>0, <1>10 DEF FindTokens, UsersOK, GroupsOK, RestOK
  <2>2. CASE Finish(r)
    BY <1>0, <2>1, <2>2, FinishTyped DEF TypeInv
  <2>3. CASE ~ Finish(r)
    <3> DEFINE q == [req[r] EXCEPT !.pc = "dropUser"]
    <3>1. req' = [req EXCEPT ![r].pc = "dropUser"] /\ req[r].pc = "findTokens"
      BY <1>10, <2>3 DEF FindTokens
    <3>2. q \in Req /\ SlotOK(q)
      BY <1>0, <3>1 DEF Req, PCs, SlotOK
    <3>3. req' = [req EXCEPT ![r] = q]
      BY <1>0, <3>1 DEF ReqOK
    <3>4. ReqOK'
      <4> HIDE DEF q
      <4> QED BY <1>0, <3>2, <3>3, SlotTyped
    <3> QED BY <2>1, <3>4 DEF TypeInv
  <2> QED BY <2>2, <2>3
<1>11. CASE DropUser(r)
  <2>1. GroupsOK' /\ RestOK'
    BY <1>0, <1>11 DEF DropUser, GroupsOK, RestOK
  <2>2. UsersOK'
    <3>1. CASE users' = users
      BY <1>0, <1>11, <3>1 DEF DropUser, UsersOK
    <3>2. CASE users' = Without(users, req[r].user)
      BY <1>0, <1>11, <3>2, WithoutUserTyped DEF DropUser
    <3> QED BY <1>11, <3>1, <3>2 DEF DropUser
  <2> QED BY <1>0, <1>11, <2>1, <2>2, FinishTyped DEF DropUser, TypeInv
<1> QED
  BY <1>1, <1>2, <1>3, <1>4, <1>5, <1>6, <1>7, <1>8, <1>9, <1>10, <1>11 DEF Handler

(* The handlers of one statement. *)
LEMMA WritesTyped ==
    ASSUME TypeInv, CreateUser \/ CreateGroup \/ UpdateUser \/ UpdateGroup
    PROVE  TypeInv'
<1>0. UsersOK /\ GroupsOK /\ RestOK /\ ReqOK
  BY DEF TypeInv
<1>1. CASE CreateUser
  <2>1. PICK u \in Uids \ DOMAIN users, name \in UserNames, provider \in Providers, list \in BodyGroups :
          /\ users' = Insert(users, u, [name |-> name, provider |-> provider,
                                        groups |-> list, builtin |-> FALSE])
          /\ used' = used \cup {u}
          /\ TaintIf(list # {}, u)
    BY <1>1 DEF CreateUser
  <2>2. UsersOK'
    BY <1>0, <2>1, BodiesAssumption DEF UsersOK, Insert, UserRow
  <2>3. GroupsOK' /\ ReqOK'
    BY <1>0, <1>1, <2>1 DEF CreateUser, GroupsOK, ReqOK
  <2>4. RestOK'
    BY <1>0, <1>1, <2>1, UsedTyped DEF CreateUser, RestOK, TaintIf
  <2> QED BY <2>2, <2>3, <2>4 DEF TypeInv
<1>2. CASE CreateGroup
  <2>1. PICK g \in Gids \ DOMAIN groups, provider \in Providers, body \in {{}} \cup {{l} : l \in BodyUsers} :
          /\ groups' = Insert(groups, g, [provider |-> provider, users |-> UNION body,
                                          isNull |-> body = {}, builtin |-> FALSE])
          /\ used' = used \cup {g}
          /\ TaintIf(UNION body # {}, g)
    BY <1>2 DEF CreateGroup
  <2>2. UNION body \in SUBSET Uids /\ (body = {} => UNION body = {})
    BY BodiesAssumption
  <2>3. GroupsOK'
    BY <1>0, <2>1, <2>2 DEF GroupsOK, Insert, GroupRow
  <2>4. UsersOK' /\ ReqOK'
    BY <1>0, <1>2, <2>1 DEF CreateGroup, UsersOK, ReqOK
  <2>5. RestOK'
    BY <1>0, <1>2, <2>1, UsedTyped DEF CreateGroup, RestOK, TaintIf
  <2> QED BY <2>3, <2>4, <2>5 DEF TypeInv
<1>3. CASE UpdateUser
  <2>1. PICK u \in DOMAIN users, provider \in Providers, body \in {{}} \cup {{l} : l \in BodyGroups} :
          /\ SaveUser(u, provider, IF body = {} THEN users[u].groups ELSE UNION body)
          /\ TaintIf(body # {}, u)
    BY <1>3 DEF UpdateUser
  <2>2. u \in Uids /\ users[u].groups \in SUBSET Gids
    BY <1>0 DEF UsersOK, UserRow
  <2>3. UNION body \in SUBSET Gids
    BY BodiesAssumption
  <2>4. UsersOK'
    BY <1>0, <1>3, <2>1, <2>2, <2>3, SaveUserTyped DEF UpdateUser
  <2>5. GroupsOK' /\ ReqOK'
    BY <1>0, <1>3 DEF UpdateUser, GroupsOK, ReqOK
  <2>6. RestOK'
    BY <1>0, <1>3, <2>1, <2>2, UsedTyped DEF UpdateUser, RestOK, TaintIf
  <2> QED BY <2>4, <2>5, <2>6 DEF TypeInv
<1>4. CASE UpdateGroup
  <2>1. PICK g \in DOMAIN groups, provider \in Providers, body \in {{}} \cup {{l} : l \in BodyUsers} :
          /\ SaveGroup(g, provider, body = {}, UNION body)
          /\ TaintIf(body # {}, g)
    BY <1>4 DEF UpdateGroup
  <2>2. g \in Gids
    BY <1>0 DEF GroupsOK
  <2>3. UNION body \in SUBSET Uids
    BY BodiesAssumption
  <2>4. GroupsOK'
    BY <1>0, <1>4, <2>1, <2>3, SaveGroupTyped DEF UpdateGroup
  <2>5. UsersOK' /\ ReqOK'
    BY <1>0, <1>4 DEF UpdateGroup, UsersOK, ReqOK
  <2>6. RestOK'
    BY <1>0, <1>4, <2>1, <2>2, UsedTyped DEF UpdateGroup, RestOK, TaintIf
  <2> QED BY <2>4, <2>5, <2>6 DEF TypeInv
<1> QED
  BY <1>1, <1>2, <1>3, <1>4

-----------------------------------------------------------------------------
(* The builtin rows are the ones InitDB wrote, as it wrote them; in particular the
   tables are never empty, which Restart relies on. *)
RootStays ==
    /\ RootId \in DOMAIN users /\ users[RootId].builtin /\ users[RootId].groups = {AdminId}
    /\ \A u \in DOMAIN users : users[u].builtin => u = RootId

AdminStays ==
    /\ AdminId \in DOMAIN groups /\ groups[AdminId].builtin /\ groups[AdminId].users = {RootId}
    /\ \A g \in DOMAIN groups : groups[g].builtin => g = AdminId

BuiltinsStay == RootStays /\ AdminStays

LEMMA SaveUserKeepsRoot ==
    ASSUME UsersOK, RootStays, NEW u, NEW provider, NEW gs, SaveUser(u, provider, gs)
    PROVE  RootStays'
<1>1. DOMAIN users' = DOMAIN users
  BY DEF UsersOK, SaveUser
<1>2. \A v \in DOMAIN users : users'[v].builtin = users[v].builtin
  BY DEF UsersOK, SaveUser, Writable, UserRow
<1>3. users'[RootId] = users[RootId]
  BY DEF UsersOK, SaveUser, Writable, RootStays
<1> QED
  BY <1>1, <1>2, <1>3 DEF RootStays

LEMMA SaveGroupKeepsAdmin ==
    ASSUME GroupsOK, AdminStays, NEW g, NEW provider, NEW isNil, NEW us,
           SaveGroup(g, provider, isNil, us)
    PROVE  AdminStays'
<1>1. DOMAIN groups' = DOMAIN groups
  BY DEF GroupsOK, SaveGroup
<1>2. \A h \in DOMAIN groups : groups'[h].builtin = groups[h].builtin
  BY DEF GroupsOK, SaveGroup, Writable, GroupRow
<1>3. groups'[AdminId] = groups[AdminId]
  BY DEF GroupsOK, SaveGroup, Writable, AdminStays
<1> QED
  BY <1>1, <1>2, <1>3 DEF AdminStays

(* What a step can do to the table of users: nothing, an update, the deletion of a
   row that is not builtin, or a new row. *)
UsersStep ==
    \/ users' = users
    \/ \E u, provider, gs : SaveUser(u, provider, gs)
    \/ \E u \in DOMAIN users : ~ users[u].builtin /\ users' = Without(users, u)
    \/ \E u \in Uids \ DOMAIN users, row \in UserRow : ~ row.builtin /\ users' = Insert(users, u, row)

GroupsStep ==
    \/ groups' = groups
    \/ \E g, provider, isNil, us : SaveGroup(g, provider, isNil, us)
    \/ \E g \in DOMAIN groups : ~ groups[g].builtin /\ groups' = Without(groups, g)
    \/ \E g \in Gids \ DOMAIN groups : \E row : ~ row.builtin /\ groups' = Insert(groups, g, row)

LEMMA UsersStepKeepsRoot ==
    ASSUME UsersOK, RootStays, UsersStep
    PROVE  RootStays'
<1>1. CASE users' = users
  BY <1>1 DEF RootStays
<1>2. CASE \E u, provider, gs : SaveUser(u, provider, gs)
  BY <1>2, SaveUserKeepsRoot
<1>3. CASE \E u \in DOMAIN users : ~ users[u].builtin /\ users' = Without(users, u)
  BY <1>3 DEF RootStays, Without
<1>4. CASE \E u \in Uids \ DOMAIN users, row \in UserRow : ~ row.builtin /\ users' = Insert(users, u, row)
  BY <1>4 DEF RootStays, Insert, UsersOK
<1> QED
  BY <1>1, <1>2, <1>3, <1>4 DEF UsersStep

LEMMA GroupsStepKeepsAdmin ==
    ASSUME GroupsOK, AdminStays, GroupsStep
    PROVE  AdminStays'
<1>1. CASE groups' = groups
  BY <1>1 DEF AdminStays
<1>2. CASE \E g, provider, isNil, us : SaveGroup(g, provider, isNil, us)
  BY <1>2, SaveGroupKeepsAdmin
<1>3. CASE \E g \in DOMAIN groups : ~ groups[g].builtin /\ groups' = Without(groups, g)
  BY <1>3 DEF AdminStays, Without
<1>4. CASE \E g \in Gids \ DOMAIN groups : \E row : ~ row.builtin /\ groups' = Insert(groups, g, row)
  BY <1>4 DEF AdminStays, Insert, GroupsOK
<1> QED
  BY <1>1, <1>2, <1>3, <1>4 DEF GroupsStep

LEMMA NextTables ==
    ASSUME TypeInv, Next
    PROVE  UsersStep /\ GroupsStep
<1> USE DEF UsersStep, GroupsStep
<1>1. ASSUME NEW r \in Requests, Handler(r) PROVE UsersStep /\ GroupsStep
  <2>1. CASE BeginMembers(r) \/ BeginDeleteGroup(r) \/ BeginDeleteUser(r)
    BY <2>1 DEF BeginMembers, BeginDeleteGroup, BeginDeleteUser, Begin
  <2>2. CASE GetGroup(r) \/ FindUser(r) \/ GetUser(r) \/ FindTokens(r)
    BY <2>2 DEF GetGroup, FindUser, GetUser, FindTokens
  <2>3. CASE PutUser(r)
    BY <2>3 DEF PutUser
  <2>4. CASE PutGroup(r)
    BY <2>4 DEF PutGroup
  <2>5. CASE DropGroup(r)
    BY <2>5 DEF DropGroup, Writable
  <2>6. CASE DropUser(r)
    BY <2>6 DEF DropUser, Writable
  <2> QED BY <1>1, <2>1, <2>2, <2>3, <2>4, <2>5, <2>6 DEF Handler
<1>2. CASE CreateUser
  <2>1. PICK u \in Uids \ DOMAIN users, name \in UserNames, provider \in Providers, list \in BodyGroups :
          users' = Insert(users, u, [name |-> name, provider |-> provider,
                                     groups |-> list, builtin |-> FALSE])
    BY <1>2 DEF CreateUser
  <2>2. [name |-> name, provider |-> provider, groups |-> list, builtin |-> FALSE] \in UserRow
    BY BodiesAssumption DEF UserRow
  <2>3. groups' = groups
    BY <1>2 DEF CreateUser
  <2> QED BY <2>1, <2>2, <2>3
<1>3. CASE CreateGroup
  BY <1>3 DEF CreateGroup
<1>4. CASE UpdateUser
  BY <1>4 DEF UpdateUser
<1>5. CASE UpdateGroup
  BY <1>5 DEF UpdateGroup
<1>6. CASE Restart
  BY <1>6 DEF Restart
<1> QED
  BY <1>1, <1>2, <1>3, <1>4, <1>5, <1>6 DEF Next

LEMMA RestartTyped ==
    ASSUME TypeInv, BuiltinsStay, Restart
    PROVE  TypeInv'
<1>0. UsersOK /\ GroupsOK /\ RestOK /\ ReqOK
  BY DEF TypeInv
<1>1. FirstId(users) \in DOMAIN users /\ FirstId(groups) \in DOMAIN groups
  BY <1>0, FirstIdExists, IdsAssumption DEF UsersOK, GroupsOK, BuiltinsStay, RootStays, AdminStays
<1> DEFINE first == FirstId(users)
<1>2. /\ first \in Uids /\ users[first].provider \in Providers
      /\ FirstId(groups) \in Gids
  BY <1>0, <1>1 DEF UsersOK, GroupsOK, UserRow
<1>3. UsersOK'
  BY <1>0, <1>2, SaveUserTyped DEF Restart
<1>4. GroupsOK'
  BY <1>0 DEF Restart, GroupsOK
<1>5. RestOK'
  BY <1>0, <1>2, UsedTyped DEF Restart, RestOK
<1>6. ReqOK'
  BY IdleTyped DEF Restart, ReqOK
<1> QED
  BY <1>3, <1>4, <1>5, <1>6 DEF TypeInv

LEMMA InitBuiltins == Init => BuiltinsStay
  BY IdsAssumption, SeedsAssumption DEF Init, BuiltinsStay, RootStays, AdminStays

LEMMA TypeInvInductive ==
    ASSUME TypeInv, BuiltinsStay, [Next]_vars
    PROVE  TypeInv' /\ BuiltinsStay'
<1>1. CASE Next
  <2>1. BuiltinsStay'
    BY <1>1, NextTables, UsersStepKeepsRoot, GroupsStepKeepsAdmin DEF TypeInv, BuiltinsStay
  <2>2. TypeInv'
    BY <1>1, HandlerTyped, WritesTyped, RestartTyped DEF Next
  <2> QED BY <2>1, <2>2
<1>2. CASE UNCHANGED vars
  BY <1>2 DEF vars, TypeInv, BuiltinsStay, UsersOK, GroupsOK, RestOK, ReqOK, RootStays, AdminStays
<1> QED
  BY <1>1, <1>2

(* The tables and the variables of the handlers have their types in every reachable
   state, for any ids, bodies and number of requests. *)
THEOREM TypeCorrect == Spec => []TypeOK
<1>1. Init => TypeInv /\ BuiltinsStay
  BY InitTypeInv, InitBuiltins
<1>2. TypeInv /\ BuiltinsStay /\ [Next]_vars => (TypeInv /\ BuiltinsStay)'
  BY TypeInvInductive
<1>3. TypeInv => TypeOK
  BY TypeInvImpliesTypeOK
<1> QED
  BY <1>1, <1>2, <1>3, PTL DEF Spec

(* root stays in Admin and Admin keeps exactly root: no handler, race, failure half
   way or restart writes a builtin row. *)
THEOREM RootIsAdmin == Spec => []RootKeepsAdmin
<1>1. Init => TypeInv /\ BuiltinsStay
  BY InitTypeInv, InitBuiltins
<1>2. TypeInv /\ BuiltinsStay /\ [Next]_vars => (TypeInv /\ BuiltinsStay)'
  BY TypeInvInductive
<1>3. BuiltinsStay => RootKeepsAdmin
  BY DEF BuiltinsStay, RootStays, AdminStays, RootKeepsAdmin
<1> QED
  BY <1>1, <1>2, <1>3, PTL DEF Spec

-----------------------------------------------------------------------------
(* The strengthening of MembershipAgrees. Handlers trust the copy they read, so the
   invariant says when they may (CopiesFresh), why (HeldOnce: nobody else holds the
   row), and what is true of a pair between its two writes (first part of PairOK). *)
SlotHoldsGroup(q, g) == q.group = g /\ q.pc \in {"findUser", "putUser", "putGroup", "dropGroup"}
SlotHoldsUser(q, u)  == q.user = u /\ q.pc \in {"putUser", "findTokens", "dropUser"}

HeldOnce ==
    \A r, q \in Requests : r # q =>
        /\ \A g \in Gids \ tainted : ~ (HoldsGroup(r, g) /\ HoldsGroup(q, g))
        /\ \A u \in Uids \ tainted : ~ (HoldsUser(r, u) /\ HoldsUser(q, u))

FreshGroup(q, g) ==
    g \in DOMAIN groups /\ q.groupRow.users = groups[g].users /\ q.groupRow.isNull = groups[g].isNull
FreshUser(q, u) ==
    u \in DOMAIN users /\ q.userRow.groups = users[u].groups

CopiesFresh ==
    \A r \in Requests :
        /\ \A g \in Gids \ tainted : HoldsGroup(r, g) => FreshGroup(req[r], g)
        /\ \A u \in Uids \ tainted : HoldsUser(r, u) => FreshUser(req[r], u)

PairOK(u, g) ==
    /\ \A r \in Requests : HoldsGroup(r, g) /\ u \in req[r].ids => (In(u, g) <=> req[r].op = "add")
    /\ HalfWritten(u, g) \/ (In(u, g) <=> Listed(u, g))

PairsOK == \A u \in Uids \ (tainted \cup {RootId}), g \in Gids \ (tainted \cup {AdminId}) : PairOK(u, g)

Agreement == HeldOnce /\ CopiesFresh /\ PairsOK

IInv == TypeInv /\ BuiltinsStay /\ Agreement

LEMMA AgreementSuffices ==
    ASSUME BuiltinsStay, PairsOK
    PROVE  MembershipAgrees
  BY DEF BuiltinsStay, RootStays, AdminStays, PairsOK, PairOK, MembershipAgrees, Builtin

LEMMA InitAgreement == Init => Agreement
<1> SUFFICES ASSUME Init PROVE Agreement
  OBVIOUS
<1>1. \A r \in Requests : req[r].pc = "idle"
  BY DEF Init, Idle
<1>2. HeldOnce /\ CopiesFresh
  BY <1>1 DEF HeldOnce, CopiesFresh, HoldsGroup, HoldsUser
<1>3. PairsOK
  BY <1>1 DEF Init, PairsOK, PairOK, HoldsGroup, In, Listed
<1> QED
  BY <1>2, <1>3 DEF Agreement

-----------------------------------------------------------------------------
SameUser(u)  == u \in DOMAIN users => u \in DOMAIN users' /\ users'[u].groups = users[u].groups
SameGroup(g) == g \in DOMAIN groups => /\ g \in DOMAIN groups' /\ groups'[g].users = groups[g].users
                                       /\ groups'[g].isNull = groups[g].isNull

OnlyHeldBy(r, g) == \A s \in Requests \ {r} : ~ HoldsGroup(s, g)
OnlyUsedBy(r, u) == \A s \in Requests \ {r} : ~ HoldsUser(s, u)

(* A step of one handler: what it takes hold of is fresh and held by no other, and
   what it writes is held by no other. *)
LEMMA SlotStep ==
    ASSUME ReqOK, HeldOnce, CopiesFresh, NEW r \in Requests, NEW q,
           req' = [req EXCEPT ![r] = q], tainted \subseteq tainted',
           \A g \in Gids \ tainted' : SlotHoldsGroup(q, g) => OnlyHeldBy(r, g) /\ FreshGroup(q, g)',
           \A u \in Uids \ tainted' : SlotHoldsUser(q, u) => OnlyUsedBy(r, u) /\ FreshUser(q, u)',
           \A g \in Gids \ tainted' : SameGroup(g) \/ OnlyHeldBy(r, g),
           \A u \in Uids \ tainted' : SameUser(u) \/ OnlyUsedBy(r, u)
    PROVE  HeldOnce' /\ CopiesFresh'
<1>1. \A s \in Requests : req'[s] = IF s = r THEN q ELSE req[s]
  BY DEF ReqOK
<1>2. \A s \in Requests : \A g : HoldsGroup(s, g)' <=> IF s = r THEN SlotHoldsGroup(q, g) ELSE HoldsGroup(s, g)
  BY <1>1 DEF HoldsGroup, SlotHoldsGroup
<1>3. \A s \in Requests : \A u : HoldsUser(s, u)' <=> IF s = r THEN SlotHoldsUser(q, u) ELSE HoldsUser(s, u)
  BY <1>1 DEF HoldsUser, SlotHoldsUser
<1>4. HeldOnce'
  BY <1>2, <1>3 DEF HeldOnce, OnlyHeldBy, OnlyUsedBy
<1>5. ASSUME NEW s \in Requests, NEW g \in Gids \ tainted', HoldsGroup(s, g)'
      PROVE  FreshGroup(req[s], g)'
  <2>1. CASE s = r
    BY <1>1, <1>2, <1>5, <2>1 DEF FreshGroup
  <2>2. CASE s # r
    <3>1. HoldsGroup(s, g) /\ FreshGroup(req[s], g) /\ SameGroup(g)
      BY <1>2, <1>5, <2>2 DEF CopiesFresh, OnlyHeldBy
    <3> QED BY <1>1, <2>2, <3>1 DEF FreshGroup, SameGroup
  <2> QED BY <2>1, <2>2
<1>6. ASSUME NEW s \in Requests, NEW u \in Uids \ tainted', HoldsUser(s, u)'
      PROVE  FreshUser(req[s], u)'
  <2>1. CASE s = r
    BY <1>1, <1>3, <1>6, <2>1 DEF FreshUser
  <2>2. CASE s # r
    <3>1. HoldsUser(s, u) /\ FreshUser(req[s], u) /\ SameUser(u)
      BY <1>3, <1>6, <2>2 DEF CopiesFresh, OnlyUsedBy
    <3> QED BY <1>1, <2>2, <3>1 DEF FreshUser, SameUser
  <2> QED BY <2>1, <2>2
<1>7. CopiesFresh'
  BY <1>5, <1>6 DEF CopiesFresh
<1> QED
  BY <1>4, <1>7

(* What r held and nobody else did, when the row is not tainted. *)
LEMMA HeldAlone ==
    ASSUME HeldOnce, NEW r \in Requests
    PROVE  /\ \A g \in Gids \ tainted : HoldsGroup(r, g) => OnlyHeldBy(r, g)
           /\ \A u \in Uids \ tainted : HoldsUser(r, u) => OnlyUsedBy(r, u)
  BY DEF HeldOnce, OnlyHeldBy, OnlyUsedBy

(* A pair that the step neither writes nor takes between its two sides. *)
LEMMA PairSame ==
    ASSUME ReqOK, NEW r \in Requests, NEW q, req' = [req EXCEPT ![r] = q],
           NEW u, NEW g, PairOK(u, g),
           In(u, g)' <=> In(u, g), Listed(u, g)' <=> Listed(u, g),
           SlotHoldsGroup(q, g) /\ u \in q.ids <=> HoldsGroup(r, g) /\ u \in req[r].ids,
           SlotHoldsGroup(q, g) /\ u \in q.ids => q.op = req[r].op
    PROVE  PairOK(u, g)'
<1>1. \A s \in Requests : req'[s] = IF s = r THEN q ELSE req[s]
  BY DEF ReqOK
<1>2. \A s \in Requests : HoldsGroup(s, g)' /\ u \in req'[s].ids <=> HoldsGroup(s, g) /\ u \in req[s].ids
  BY <1>1 DEF HoldsGroup, SlotHoldsGroup
<1>3. \A s \in Requests : HoldsGroup(s, g) /\ u \in req[s].ids => (req'[s].op = "add" <=> req[s].op = "add")
  BY <1>1
<1>4. HalfWritten(u, g)' <=> HalfWritten(u, g)
  BY <1>2 DEF HalfWritten
<1> QED
  BY <1>2, <1>3, <1>4 DEF PairOK

(* A step that leaves both tables alone changes no membership. *)
LEMMA TablesSame ==
    ASSUME users' = users, groups' = groups
    PROVE  /\ \A u, g : In(u, g)' <=> In(u, g)
           /\ \A u, g : Listed(u, g)' <=> Listed(u, g)
           /\ \A g : SameGroup(g)
           /\ \A u : SameUser(u)
           /\ \A q, g : FreshGroup(q, g)' <=> FreshGroup(q, g)
           /\ \A q, u : FreshUser(q, u)' <=> FreshUser(q, u)
  BY DEF In, Listed, SameGroup, SameUser, FreshGroup, FreshUser

LEMMA IdleHoldsNothing ==
    \A x : ~ SlotHoldsGroup(Idle, x) /\ ~ SlotHoldsUser(Idle, x)
  BY DEF SlotHoldsGroup, SlotHoldsUser, Idle

(* Returning early: nothing is half-written, or the group is tainted. *)
LEMMA AbortAgrees ==
    ASSUME TypeInv, Agreement, NEW r \in Requests, users' = users, groups' = groups,
           Abort(r) \/ (Finish(r) /\ tainted' = tainted /\ req[r].ids = {})
    PROVE  Agreement'
<1>1. req' = [req EXCEPT ![r] = Idle] /\ tainted \subseteq tainted'
  BY DEF Abort, Finish, TaintIf
<1>2. HeldOnce' /\ CopiesFresh'
  BY <1>1, SlotStep, TablesSame, IdleHoldsNothing DEF Agreement, TypeInv
<1>3. ASSUME NEW u \in Uids \ (tainted' \cup {RootId}), NEW g \in Gids \ (tainted' \cup {AdminId})
      PROVE  PairOK(u, g)'
  <2>1. ~ (HoldsGroup(r, g) /\ u \in req[r].ids)
    BY DEF Abort, TaintIf, HoldsGroup
  <2>2. PairOK(u, g)
    BY <1>1 DEF Agreement, PairsOK
  <2> QED BY <1>1, <2>1, <2>2, PairSame, TablesSame, IdleHoldsNothing DEF TypeInv
<1> QED
  BY <1>2, <1>3 DEF Agreement, PairsOK

-----------------------------------------------------------------------------
(* The steps of one handler, action by action. *)
LEMMA BeginAgrees ==
    ASSUME TypeInv, Agreement, NEW r \in Requests, NEW q, Begin(r, q), q.pc \in {"getGroup", "getUser"}
    PROVE  Agreement'
<1>1. req' = [req EXCEPT ![r] = q] /\ tainted' = tainted /\ users' = users /\ groups' = groups
      /\ req[r].pc = "idle"
  BY DEF Begin
<1>2. \A x : ~ SlotHoldsGroup(q, x) /\ ~ SlotHoldsUser(q, x) /\ ~ HoldsGroup(r, x)
  BY <1>1 DEF SlotHoldsGroup, SlotHoldsUser, HoldsGroup
<1>3. HeldOnce' /\ CopiesFresh'
  BY <1>1, <1>2, SlotStep, TablesSame DEF Agreement, TypeInv
<1>4. PairsOK'
  BY <1>1, <1>2, PairSame, TablesSame DEF Agreement, TypeInv, PairsOK
<1> QED
  BY <1>3, <1>4 DEF Agreement

LEMMA GetGroupAgrees ==
    ASSUME TypeInv, Agreement, NEW r \in Requests, GetGroup(r)
    PROVE  Agreement'
<1>1. users' = users /\ groups' = groups /\ req[r].pc = "getGroup" /\ req[r].ids = {} /\ req[r] \in Req
  BY DEF GetGroup, TypeInv, ReqOK, SlotOK
<1>2. CASE Finish(r) /\ tainted' = tainted
  BY <1>1, <1>2, AbortAgrees
<1>3. CASE ~ (Finish(r) /\ tainted' = tainted)
  <2> DEFINE g  == req[r].group
             pc == IF req[r].op = "deleteGroup" THEN "dropGroup"
                   ELSE IF req[r].todo = {} THEN "putGroup" ELSE "findUser"
  <2>q. PICK q : q = [req[r] EXCEPT !.groupRow = groups[g], !.pc = pc]
    OBVIOUS
  <2>1. g \in DOMAIN groups /\ TouchGroup(r, g)
        /\ req' = [req EXCEPT ![r].groupRow = groups[g], ![r].pc = pc]
    BY <1>3 DEF GetGroup
  <2>2. req' = [req EXCEPT ![r] = q]
    BY <1>1, <2>1, <2>q DEF TypeInv, ReqOK
  <2>3. q.groupRow = groups[g] /\ q.group = g /\ q.ids = {} /\ q.op = req[r].op /\ q.pc = pc
        /\ q.pc \notin {"putUser", "findTokens", "dropUser"}
    BY <1>1, <2>q DEF Req
  <2>4. tainted \subseteq tainted' /\ (g \notin tainted' => OnlyHeldBy(r, g))
    BY <2>1 DEF TouchGroup, TaintIf, OnlyHeldBy
  <2>5. \A x \in Gids \ tainted' : SlotHoldsGroup(q, x) => OnlyHeldBy(r, x) /\ FreshGroup(q, x)'
    BY <1>1, <2>1, <2>3, <2>4 DEF SlotHoldsGroup, FreshGroup
  <2>6. \A u : ~ SlotHoldsUser(q, u)
    BY <2>3 DEF SlotHoldsUser
  <2>7. HeldOnce' /\ CopiesFresh'
    BY <1>1, <2>2, <2>4, <2>5, <2>6, SlotStep, TablesSame DEF Agreement, TypeInv
  <2>8. \A x, u : ~ (SlotHoldsGroup(q, x) /\ u \in q.ids) /\ ~ HoldsGroup(r, x)
    BY <1>1, <2>3 DEF HoldsGroup
  <2>9. PairsOK'
    BY <1>1, <2>2, <2>4, <2>8, PairSame, TablesSame DEF Agreement, TypeInv, PairsOK
  <2> QED BY <2>7, <2>9 DEF Agreement
<1> QED
  BY <1>2, <1>3

LEMMA FindUserAgrees ==
    ASSUME TypeInv, Agreement, NEW r \in Requests, FindUser(r)
    PROVE  Agreement'
<1>1. users' = users /\ groups' = groups /\ req[r].pc = "findUser" /\ req[r] \in Req
  BY DEF FindUser, TypeInv, ReqOK
<1>2. CASE Abort(r)
  BY <1>1, <1>2, AbortAgrees
<1>3. CASE ~ Abort(r)
  <2>1. PICK a \in req[r].todo, u \in DOMAIN users :
            /\ req' = [req EXCEPT ![r].pc = "putUser", ![r].todo = @ \ {a},
                                  ![r].user = u, ![r].userRow = users[u]]
            /\ TouchUser(r, u)
    BY <1>3 DEF FindUser
  <2>q. PICK q : q = [req[r] EXCEPT !.pc = "putUser", !.todo = @ \ {a}, !.user = u, !.userRow = users[u]]
    OBVIOUS
  <2>2. req' = [req EXCEPT ![r] = q]
    BY <1>1, <2>1, <2>q DEF TypeInv, ReqOK
  <2>3. /\ q.group = req[r].group /\ q.groupRow = req[r].groupRow /\ q.ids = req[r].ids
        /\ q.op = req[r].op /\ q.pc = "putUser" /\ q.user = u /\ q.userRow = users[u]
    BY <1>1, <2>q DEF Req
  <2>4. tainted \subseteq tainted' /\ (u \notin tainted' => OnlyUsedBy(r, u))
    BY <2>1 DEF TouchUser, TaintIf, OnlyUsedBy
  <2>5. \A x : SlotHoldsGroup(q, x) <=> HoldsGroup(r, x)
    BY <1>1, <2>3 DEF SlotHoldsGroup, HoldsGroup
  <2>6. \A x \in Gids \ tainted' : SlotHoldsGroup(q, x) => OnlyHeldBy(r, x) /\ FreshGroup(q, x)'
    <3>1. \A x \in Gids \ tainted : HoldsGroup(r, x) => OnlyHeldBy(r, x) /\ FreshGroup(req[r], x)
      BY HeldAlone DEF Agreement, CopiesFresh
    <3> QED BY <1>1, <2>3, <2>4, <2>5, <3>1 DEF FreshGroup
  <2>7. \A x \in Uids \ tainted' : SlotHoldsUser(q, x) => OnlyUsedBy(r, x) /\ FreshUser(q, x)'
    BY <1>1, <2>1, <2>3, <2>4 DEF SlotHoldsUser, FreshUser
  <2>8. HeldOnce' /\ CopiesFresh'
    BY <1>1, <2>2, <2>4, <2>6, <2>7, SlotStep, TablesSame DEF Agreement, TypeInv
  <2>9. PairsOK'
    BY <1>1, <2>2, <2>3, <2>4, <2>5, PairSame, TablesSame DEF Agreement, TypeInv, PairsOK
  <2> QED BY <2>8, <2>9 DEF Agreement
<1> QED
  BY <1>2, <1>3

LEMMA GetUserAgrees ==
    ASSUME TypeInv, Agreement, NEW r \in Requests, GetUser(r)
    PROVE  Agreement'
<1>1. users' = users /\ groups' = groups /\ req[r].pc = "getUser" /\ req[r].ids = {} /\ req[r] \in Req
  BY DEF GetUser, TypeInv, ReqOK, SlotOK
<1>2. CASE Finish(r) /\ tainted' = tainted
  BY <1>1, <1>2, AbortAgrees
<1>3. CASE ~ (Finish(r) /\ tainted' = tainted)
  <2> DEFINE u == req[r].user
  <2>q. PICK q : q = [req[r] EXCEPT !.pc = "findTokens", !.userRow = users[u]]
    OBVIOUS
  <2>1. u \in DOMAIN users /\ TouchUser(r, u)
        /\ req' = [req EXCEPT ![r].pc = "findTokens", ![r].userRow = users[u]]
    BY <1>3 DEF GetUser
  <2>2. req' = [req EXCEPT ![r] = q]
    BY <1>1, <2>1, <2>q DEF TypeInv, ReqOK
  <2>3. q.userRow = users[u] /\ q.user = u /\ q.pc = "findTokens"
    BY <1>1, <2>q DEF Req
  <2>4. tainted \subseteq tainted' /\ (u \notin tainted' => OnlyUsedBy(r, u))
    BY <2>1 DEF TouchUser, TaintIf, OnlyUsedBy
  <2>5. \A x : ~ SlotHoldsGroup(q, x) /\ ~ HoldsGroup(r, x)
    BY <1>1, <2>3 DEF SlotHoldsGroup, HoldsGroup
  <2>6. \A x \in Uids \ tainted' : SlotHoldsUser(q, x) => OnlyUsedBy(r, x) /\ FreshUser(q, x)'
    BY <1>1, <2>1, <2>3, <2>4 DEF SlotHoldsUser, FreshUser
  <2>7. HeldOnce' /\ CopiesFresh'
    BY <1>1, <2>2, <2>4, <2>5, <2>6, SlotStep, TablesSame DEF Agreement, TypeInv
  <2>8. PairsOK'
    BY <1>1, <2>2, <2>4, <2>5, PairSame, TablesSame DEF Agreement, TypeInv, PairsOK
  <2> QED BY <2>7, <2>8 DEF Agreement
<1> QED
  BY <1>2, <1>3

LEMMA FindTokensAgrees ==
    ASSUME TypeInv, Agreement, NEW r \in Requests, FindTokens(r)
    PROVE  Agreement'
<1>1. users' = users /\ groups' = groups /\ tainted' = tainted
      /\ req[r].pc = "findTokens" /\ req[r].ids = {} /\ req[r] \in Req
  BY DEF FindTokens, TypeInv, ReqOK, SlotOK
<1>2. CASE Finish(r)
  BY <1>1, <1>2, AbortAgrees
<1>3. CASE ~ Finish(r)
  <2>q. PICK q : q = [req[r] EXCEPT !.pc = "dropUser"]
    OBVIOUS
  <2>1. req' = [req EXCEPT ![r].pc = "dropUser"]
    BY <1>3 DEF FindTokens
  <2>2. req' = [req EXCEPT ![r] = q]
    BY <1>1, <2>1, <2>q DEF TypeInv, ReqOK
  <2>3. q.userRow = req[r].userRow /\ q.user = req[r].user /\ q.pc = "dropUser"
    BY <1>1, <2>q DEF Req
  <2>4. \A x : ~ SlotHoldsGroup(q, x) /\ ~ HoldsGroup(r, x)
    BY <1>1, <2>3 DEF SlotHoldsGroup, HoldsGroup
  <2>5. \A x : SlotHoldsUser(q, x) <=> HoldsUser(r, x)
    BY <1>1, <2>3 DEF SlotHoldsUser, HoldsUser
  <2>6. \A x \in Uids \ tainted' : SlotHoldsUser(q, x) => OnlyUsedBy(r, x) /\ FreshUser(q, x)'
    <3>1. \A x \in Uids \ tainted : HoldsUser(r, x) => OnlyUsedBy(r, x) /\ FreshUser(req[r], x)
      BY HeldAlone DEF Agreement, CopiesFresh
    <3> QED BY <1>1, <2>3, <2>5, <3>1 DEF FreshUser
  <2>7. HeldOnce' /\ CopiesFresh'
    BY <1>1, <2>2, <2>4, <2>6, SlotStep, TablesSame DEF Agreement, TypeInv
  <2>8. PairsOK'
    BY <1>1, <2>2, <2>4, PairSame, TablesSame DEF Agreement, TypeInv, PairsOK
  <2> QED BY <2>7, <2>8 DEF Agreement
<1> QED
  BY <1>2, <1>3

(* A row of the table of users or of groups that may be written: an untainted row
   that a request holds is there, and is not builtin. *)
LEMMA HeldIsWritable ==
    ASSUME TypeInv, BuiltinsStay, CopiesFresh, NEW r \in Requests
    PROVE  /\ \A g \in Gids \ (tainted \cup {AdminId}) : HoldsGroup(r, g) => Writable(groups, g)
           /\ \A u \in Uids \ (tainted \cup {RootId}) : HoldsUser(r, u) => Writable(users, u)
  BY DEF TypeInv, UsersOK, GroupsOK, UserRow, GroupRow, BuiltinsStay, RootStays, AdminStays,
         CopiesFresh, FreshUser, FreshGroup, Writable

LEMMA SavedUser ==
    ASSUME UsersOK, NEW u, NEW provider, NEW gs, SaveUser(u, provider, gs)
    PROVE  /\ DOMAIN users' = DOMAIN users
           /\ \A v \in DOMAIN users \ {u} : users'[v] = users[v]
           /\ Writable(users, u) => users'[u].groups = gs
  BY DEF UsersOK, SaveUser, Writable, UserRow

LEMMA SavedGroup ==
    ASSUME GroupsOK, NEW g, NEW provider, NEW isNil, NEW us, SaveGroup(g, provider, isNil, us)
    PROVE  /\ DOMAIN groups' = DOMAIN groups
           /\ \A h \in DOMAIN groups \ {g} : groups'[h] = groups[h]
           /\ Writable(groups, g) => groups'[g].users = IF isNil THEN groups[g].users ELSE us
  BY DEF GroupsOK, SaveGroup, Writable, GroupRow

LEMMA PutUserAgrees ==
    ASSUME TypeInv, BuiltinsStay, Agreement, NEW r \in Requests, PutUser(r)
    PROVE  Agreement'
<1> DEFINE u == req[r].user
           row == req[r].userRow
           g == req[r].group
           next == IF req[r].op = "add" THEN row.groups \cup {g} ELSE row.groups \ {g}
           pc == IF req[r].todo = {} THEN "putGroup" ELSE "findUser"
<1>1. /\ req[r].pc = "putUser" /\ req[r] \in Req /\ req[r].op \in {"add", "remove"}
      /\ u \in Uids /\ g \in Gids /\ groups' = groups
  BY DEF PutUser, TypeInv, ReqOK, SlotOK
<1>2. CASE Abort(r) /\ users' = users
  BY <1>1, <1>2, AbortAgrees
<1>3. CASE ~ (Abort(r) /\ users' = users)
  <2>q. PICK q : q = [req[r] EXCEPT !.pc = pc, !.ids = @ \cup {u}, !.user = NoId, !.userRow = NoUser]
    OBVIOUS
  <2>1. /\ req' = [req EXCEPT ![r].pc = pc, ![r].ids = @ \cup {u},
                              ![r].user = NoId, ![r].userRow = NoUser]
        /\ tainted' = tainted
        /\ \/ users' = users /\ req[r].op = "remove" /\ g \notin row.groups
           \/ SaveUser(u, row.provider, next)
    BY <1>3 DEF PutUser
  <2>2. req' = [req EXCEPT ![r] = q]
    BY <1>1, <2>1, <2>q DEF TypeInv, ReqOK
  <2>3. /\ q.group = g /\ q.groupRow = req[r].groupRow /\ q.ids = req[r].ids \cup {u}
        /\ q.op = req[r].op /\ q.pc \in {"putGroup", "findUser"}
    BY <1>1, <2>q DEF Req
  <2>4. /\ \A x : SlotHoldsGroup(q, x) <=> HoldsGroup(r, x)
        /\ \A x : HoldsGroup(r, x) <=> x = g
        /\ \A x : ~ SlotHoldsUser(q, x)
        /\ HoldsUser(r, u)
    BY <1>1, <2>3 DEF SlotHoldsGroup, SlotHoldsUser, HoldsGroup, HoldsUser
  <2>5. \A v \in DOMAIN users \ {u} : v \in DOMAIN users' /\ users'[v] = users[v]
    BY <2>1, SavedUser DEF TypeInv
  <2>6. DOMAIN users' = DOMAIN users
    BY <2>1, SavedUser DEF TypeInv
  <2>7. HeldOnce' /\ CopiesFresh'
    <3>1. \A x \in Gids \ tainted' : SlotHoldsGroup(q, x) => OnlyHeldBy(r, x) /\ FreshGroup(q, x)'
      <4>1. \A x \in Gids \ tainted : HoldsGroup(r, x) => OnlyHeldBy(r, x) /\ FreshGroup(req[r], x)
        BY HeldAlone DEF Agreement, CopiesFresh
      <4> QED BY <1>1, <2>1, <2>3, <2>4, <4>1 DEF FreshGroup
    <3>2. \A x \in Uids \ tainted' : SameUser(x) \/ OnlyUsedBy(r, x)
      <4>1. u \notin tainted => OnlyUsedBy(r, u)
        BY <1>1, <2>4, HeldAlone DEF Agreement
      <4> QED BY <2>1, <2>5, <4>1 DEF SameUser
    <3>3. \A x : SameGroup(x)
      BY <1>1 DEF SameGroup
    <3> QED BY <2>1, <2>2, <2>4, <3>1, <3>2, <3>3, SlotStep DEF Agreement, TypeInv
  <2>8. ASSUME NEW v \in Uids \ (tainted \cup {RootId}), NEW h \in Gids \ (tainted \cup {AdminId})
        PROVE  PairOK(v, h)'
    <3>1. PairOK(v, h)
      BY DEF Agreement, PairsOK
    <3>2. Listed(v, h)' <=> Listed(v, h)
      BY <1>1 DEF Listed
    <3>3. CASE v # u
      <4>1. In(v, h)' <=> In(v, h)
        BY <2>5, <2>6, <3>3 DEF In
      <4> QED BY <2>2, <2>3, <2>4, <3>1, <3>2, <3>3, <4>1, PairSame DEF TypeInv
    <3>4. CASE v = u
      <4>1. v \in DOMAIN users /\ row.groups = users[v].groups /\ Writable(users, v)
        BY <2>4, <3>4, HeldIsWritable DEF Agreement, CopiesFresh, FreshUser
      <4>2. users'[v].groups = next
        BY <1>1, <2>1, <3>4, <4>1, SavedUser DEF TypeInv
      <4>3. CASE h # g
        <5>1. In(v, h)' <=> In(v, h)
          BY <2>6, <4>1, <4>2, <4>3 DEF In
        <5> QED BY <2>2, <2>4, <3>1, <3>2, <4>3, <5>1, PairSame DEF TypeInv
      <4>4. CASE h = g
        <5>1. In(v, h)' <=> req[r].op = "add"
          BY <1>1, <2>6, <4>1, <4>2, <4>4 DEF In
        <5>2. \A s \in Requests : req'[s] = IF s = r THEN q ELSE req[s]
          BY <2>2 DEF TypeInv, ReqOK
        <5>3. \A s \in Requests : HoldsGroup(s, h)' => s = r
          <6>1. OnlyHeldBy(r, h)
            BY <2>4, <4>4, HeldAlone DEF Agreement
          <6> QED BY <5>2, <6>1 DEF OnlyHeldBy, HoldsGroup
        <5>4. HoldsGroup(r, h)' /\ v \in req'[r].ids /\ req'[r].op = req[r].op
          BY <2>3, <2>4, <3>4, <4>4, <5>2 DEF HoldsGroup, SlotHoldsGroup
        <5>5. HalfWritten(v, h)'
          BY <5>4 DEF HalfWritten
        <5> QED BY <5>1, <5>3, <5>4, <5>5 DEF PairOK
      <4> QED BY <4>3, <4>4
    <3> QED BY <3>3, <3>4
  <2> QED BY <2>1, <2>7, <2>8 DEF Agreement, PairsOK
<1> QED
  BY <1>2, <1>3

LEMMA PutGroupAgrees ==
    ASSUME TypeInv, BuiltinsStay, Agreement, NEW r \in Requests, PutGroup(r)
    PROVE  Agreement'
<1> DEFINE g == req[r].group
           row == req[r].groupRow
           ids == req[r].ids
           isNil == req[r].op = "remove" /\ row.isNull
           outcomes == IF req[r].op = "add" THEN {[ok |-> TRUE, users |-> row.users \cup ids]}
                       ELSE RemoveOutcomes(row.users, ids)
<1>1. /\ req[r].pc = "putGroup" /\ req[r] \in Req /\ req[r].op \in {"add", "remove"}
      /\ g \in Gids /\ users' = users /\ (row.isNull => row.users = {})
  BY DEF PutGroup, TypeInv, ReqOK, SlotOK
<1>2. CASE Abort(r) /\ groups' = groups
  BY <1>1, <1>2, AbortAgrees
<1>3. CASE ~ (Abort(r) /\ groups' = groups)
  <2>1. PICK out \in outcomes :
          /\ out.ok
          /\ SaveGroup(g, row.provider, isNil, out.users)
          /\ Finish(r)
          /\ TaintIf(req[r].op = "remove" /\ out.users \cap ids # {}, g)
    BY <1>3 DEF PutGroup
  <2>2. req' = [req EXCEPT ![r] = Idle] /\ tainted \subseteq tainted'
        /\ (req[r].op = "remove" /\ out.users \cap ids # {} => g \in tainted')
    BY <2>1 DEF Finish, TaintIf
  <2>3. /\ DOMAIN groups' = DOMAIN groups
        /\ \A h \in DOMAIN groups \ {g} : groups'[h] = groups[h]
        /\ Writable(groups, g) => groups'[g].users = IF isNil THEN groups[g].users ELSE out.users
    <3> HIDE DEF isNil
    <3> QED BY <2>1, SavedGroup DEF TypeInv
  <2>4. HoldsGroup(r, g) /\ \A x : HoldsGroup(r, x) => x = g
    BY <1>1 DEF HoldsGroup
  <2>5. g \notin tainted => OnlyHeldBy(r, g)
    BY <1>1, <2>4, HeldAlone DEF Agreement
  <2>6. HeldOnce' /\ CopiesFresh'
    <3>1. \A x \in Gids \ tainted' : SameGroup(x) \/ OnlyHeldBy(r, x)
      BY <2>2, <2>3, <2>5 DEF SameGroup
    <3>2. \A x : SameUser(x)
      BY <1>1 DEF SameUser
    <3> QED BY <2>2, <3>1, <3>2, SlotStep, IdleHoldsNothing DEF Agreement, TypeInv
  <2>7. (req[r].op = "add" => out.users = row.users \cup ids)
        /\ (req[r].op = "remove" => out.users \subseteq row.users /\ row.users \ ids \subseteq out.users)
    <3>1. CASE req[r].op = "add"
      BY <2>1, <3>1
    <3>2. CASE req[r].op = "remove"
      <4>1. out \in RemoveOutcomes(row.users, ids)
        BY <2>1, <3>2
      <4> QED BY <2>1, <3>2, <4>1, OutcomesKeepOthers
    <3> QED BY <1>1, <3>1, <3>2
  <2>8. ASSUME NEW v \in Uids \ (tainted' \cup {RootId}), NEW h \in Gids \ (tainted' \cup {AdminId})
        PROVE  PairOK(v, h)'
    <3>1. PairOK(v, h)
      BY <2>2 DEF Agreement, PairsOK
    <3>2. In(v, h)' <=> In(v, h)
      BY <1>1 DEF In
    <3>3. CASE h # g
      <4>1. Listed(v, h)' <=> Listed(v, h)
        BY <2>3, <3>3 DEF Listed
      <4> QED BY <2>2, <2>4, <3>1, <3>2, <3>3, <4>1, PairSame, IdleHoldsNothing DEF TypeInv
    <3>4. CASE h = g
      <4>1. /\ h \in DOMAIN groups /\ row.users = groups[h].users /\ Writable(groups, h)
            /\ OnlyHeldBy(r, h)
        BY <2>2, <2>4, <2>5, <3>4, HeldIsWritable DEF Agreement, CopiesFresh, FreshGroup
      <4>2. groups'[h].users = IF isNil THEN {} ELSE out.users
        BY <1>1, <2>3, <3>4, <4>1
      <4>3. Listed(v, h)' <=> v \in out.users
        BY <1>1, <2>3, <2>7, <4>1, <4>2 DEF Listed
      <4>4. Listed(v, h) <=> v \in row.users
        BY <4>1 DEF Listed
      <4>5. \A s \in Requests : ~ HoldsGroup(s, h)'
        <5>1. \A s \in Requests : req'[s] = IF s = r THEN Idle ELSE req[s]
          BY <2>2 DEF TypeInv, ReqOK
        <5> QED BY <4>1, <5>1 DEF OnlyHeldBy, HoldsGroup, Idle
      <4>6. CASE v \in ids
        <5>1. In(v, h) <=> req[r].op = "add"
          BY <2>4, <3>1, <3>4, <4>6 DEF PairOK
        <5>2. v \in out.users <=> req[r].op = "add"
          BY <1>1, <2>2, <2>7, <3>4, <4>6
        <5> QED BY <3>2, <4>3, <4>5, <5>1, <5>2 DEF PairOK
      <4>7. CASE v \notin ids
        <5>1. ~ HalfWritten(v, h)
          BY <4>1, <4>7 DEF HalfWritten, OnlyHeldBy
        <5>2. v \in out.users <=> v \in row.users
          BY <1>1, <2>7, <4>7
        <5> QED BY <3>1, <3>2, <4>3, <4>4, <4>5, <5>1, <5>2 DEF PairOK
      <4> QED BY <4>6, <4>7
    <3> QED BY <3>3, <3>4
  <2> QED BY <2>6, <2>8 DEF Agreement, PairsOK
<1> QED
  BY <1>2, <1>3

LEMMA DropGroupAgrees ==
    ASSUME TypeInv, BuiltinsStay, Agreement, NEW r \in Requests, DropGroup(r)
    PROVE  Agreement'
<1> DEFINE g == req[r].group
<1>1. /\ req[r].pc = "dropGroup" /\ req[r].ids = {} /\ g \in Gids
      /\ users' = users /\ tainted' = tainted
      /\ groups' = groups \/ groups' = Without(groups, g)
      /\ req' = [req EXCEPT ![r] = Idle]
      /\ req[r].groupRow.isNull /\ req[r].groupRow.users = {}
  BY DEF DropGroup, Finish, TypeInv, ReqOK, SlotOK
<1>2. /\ HoldsGroup(r, g)
      /\ g \notin tainted => OnlyHeldBy(r, g) /\ FreshGroup(req[r], g)
  <2>1. HoldsGroup(r, g)
    BY <1>1 DEF HoldsGroup
  <2> QED BY <1>1, <2>1, HeldAlone DEF Agreement, CopiesFresh
<1>3. \A h \in DOMAIN groups \ {g} : h \in DOMAIN groups' /\ groups'[h] = groups[h]
  BY <1>1 DEF Without
<1>4. HeldOnce' /\ CopiesFresh'
  <2>1. \A x \in Gids \ tainted' : SameGroup(x) \/ OnlyHeldBy(r, x)
    BY <1>1, <1>2, <1>3 DEF SameGroup
  <2>2. \A x : SameUser(x)
    BY <1>1 DEF SameUser
  <2> QED BY <1>1, <2>1, <2>2, SlotStep, IdleHoldsNothing DEF Agreement, TypeInv
<1>5. ASSUME NEW v \in Uids \ (tainted \cup {RootId}), NEW h \in Gids \ (tainted \cup {AdminId})
      PROVE  PairOK(v, h)'
  <2>1. PairOK(v, h)
    BY DEF Agreement, PairsOK
  <2>2. In(v, h)' <=> In(v, h)
    BY <1>1 DEF In
  <2>3. Listed(v, h)' <=> Listed(v, h)
    <3>1. CASE h # g
      BY <1>1, <1>3, <3>1 DEF Listed, Without
    <3>2. CASE h = g
      BY <1>1, <1>2, <3>2 DEF Listed, FreshGroup, Without
    <3> QED BY <3>1, <3>2
  <2> QED BY <1>1, <2>1, <2>2, <2>3, PairSame, IdleHoldsNothing DEF TypeInv
<1> QED
  BY <1>1, <1>4, <1>5 DEF Agreement, PairsOK

LEMMA DropUserAgrees ==
    ASSUME TypeInv, BuiltinsStay, Agreement, NEW r \in Requests, DropUser(r)
    PROVE  Agreement'
<1> DEFINE u == req[r].user
<1>1. /\ req[r].pc = "dropUser" /\ req[r].ids = {} /\ u \in Uids
      /\ groups' = groups /\ tainted' = tainted
      /\ users' = users \/ users' = Without(users, u)
      /\ req' = [req EXCEPT ![r] = Idle]
      /\ req[r].userRow.groups = {}
  BY DEF DropUser, Finish, TypeInv, ReqOK, SlotOK
<1>2. u \notin tainted => OnlyUsedBy(r, u) /\ FreshUser(req[r], u)
  <2>1. HoldsUser(r, u)
    BY <1>1 DEF HoldsUser
  <2> QED BY <1>1, <2>1, HeldAlone DEF Agreement, CopiesFresh
<1>3. \A v \in DOMAIN users \ {u} : v \in DOMAIN users' /\ users'[v] = users[v]
  BY <1>1 DEF Without
<1>4. HeldOnce' /\ CopiesFresh'
  <2>1. \A x \in Uids \ tainted' : SameUser(x) \/ OnlyUsedBy(r, x)
    BY <1>1, <1>2, <1>3 DEF SameUser
  <2>2. \A x : SameGroup(x)
    BY <1>1 DEF SameGroup
  <2> QED BY <1>1, <2>1, <2>2, SlotStep, IdleHoldsNothing DEF Agreement, TypeInv
<1>5. ASSUME NEW v \in Uids \ (tainted \cup {RootId}), NEW h \in Gids \ (tainted \cup {AdminId})
      PROVE  PairOK(v, h)'
  <2>1. PairOK(v, h)
    BY DEF Agreement, PairsOK
  <2>2. Listed(v, h)' <=> Listed(v, h)
    BY <1>1 DEF Listed
  <2>3. In(v, h)' <=> In(v, h)
    <3>1. CASE v # u
      BY <1>1, <1>3, <3>1 DEF In, Without
    <3>2. CASE v = u
      BY <1>1, <1>2, <3>2 DEF In, FreshUser, Without
    <3> QED BY <3>1, <3>2
  <2> QED BY <1>1, <2>1, <2>2, <2>3, PairSame, IdleHoldsNothing DEF TypeInv
<1> QED
  BY <1>1, <1>4, <1>5 DEF Agreement, PairsOK

(* A write of one statement leaves the requests alone, and every row whose list it
   changes is tainted. *)
LEMMA WriteAgrees ==
    ASSUME Agreement, req' = req, tainted \subseteq tainted',
           \A g \in Gids \ tainted' : SameGroup(g) /\ \A u : Listed(u, g)' <=> Listed(u, g),
           \A u \in Uids \ tainted' : SameUser(u) /\ \A g : In(u, g)' <=> In(u, g)
    PROVE  Agreement'
<1>1. /\ \A r, g : HoldsGroup(r, g)' <=> HoldsGroup(r, g)
      /\ \A r, u : HoldsUser(r, u)' <=> HoldsUser(r, u)
      /\ \A u, g : HalfWritten(u, g)' <=> HalfWritten(u, g)
  BY DEF HoldsGroup, HoldsUser, HalfWritten
<1>2. HeldOnce'
  BY <1>1 DEF Agreement, HeldOnce
<1>3. CopiesFresh'
  BY <1>1 DEF Agreement, CopiesFresh, FreshGroup, FreshUser, SameGroup, SameUser
<1>4. PairsOK'
  BY <1>1 DEF Agreement, PairsOK, PairOK
<1> QED
  BY <1>2, <1>3, <1>4 DEF Agreement

LEMMA WritesAgree ==
    ASSUME TypeInv, BuiltinsStay, Agreement, CreateUser \/ CreateGroup \/ UpdateUser \/ UpdateGroup
    PROVE  Agreement'
<1> USE DEF SameGroup, SameUser, In, Listed
<1>1. CASE CreateUser
  <2>1. PICK u \in Uids \ DOMAIN users, name \in UserNames, provider \in Providers, list \in BodyGroups :
          /\ users' = Insert(users, u, [name |-> name, provider |-> provider,
                                        groups |-> list, builtin |-> FALSE])
          /\ TaintIf(list # {}, u)
    BY <1>1 DEF CreateUser
  <2>2. groups' = groups /\ req' = req /\ tainted \subseteq tainted' /\ u \notin DOMAIN users
    BY <1>1, <2>1 DEF CreateUser, TaintIf, TypeInv, UsersOK
  <2>3. \A v \in Uids \ tainted' : SameUser(v) /\ \A g : In(v, g)' <=> In(v, g)
    BY <2>1, <2>2 DEF Insert, TaintIf
  <2> QED BY <2>2, <2>3, WriteAgrees
<1>2. CASE CreateGroup
  <2>1. PICK g \in Gids \ DOMAIN groups, provider \in Providers, body \in {{}} \cup {{l} : l \in BodyUsers} :
          /\ groups' = Insert(groups, g, [provider |-> provider, users |-> UNION body,
                                          isNull |-> body = {}, builtin |-> FALSE])
          /\ TaintIf(UNION body # {}, g)
    BY <1>2 DEF CreateGroup
  <2>2. users' = users /\ req' = req /\ tainted \subseteq tainted' /\ g \notin DOMAIN groups
    BY <1>2, <2>1 DEF CreateGroup, TaintIf, TypeInv, GroupsOK
  <2>3. \A h \in Gids \ tainted' : SameGroup(h) /\ \A u : Listed(u, h)' <=> Listed(u, h)
    BY <2>1, <2>2 DEF Insert, TaintIf
  <2> QED BY <2>2, <2>3, WriteAgrees
<1>3. CASE UpdateUser
  <2>1. PICK u \in DOMAIN users, provider \in Providers, body \in {{}} \cup {{l} : l \in BodyGroups} :
          /\ SaveUser(u, provider, IF body = {} THEN users[u].groups ELSE UNION body)
          /\ TaintIf(body # {}, u)
    BY <1>3 DEF UpdateUser
  <2>2. groups' = groups /\ req' = req /\ tainted \subseteq tainted'
    BY <1>3, <2>1 DEF UpdateUser, TaintIf
  <2>3. /\ DOMAIN users' = DOMAIN users
        /\ \A v \in DOMAIN users : v \notin tainted' => users'[v].groups = users[v].groups
    BY <2>1 DEF SaveUser, Writable, TaintIf, TypeInv, UsersOK, UserRow
  <2> QED BY <2>2, <2>3, WriteAgrees
<1>4. CASE UpdateGroup
  <2>1. PICK g \in DOMAIN groups, provider \in Providers, body \in {{}} \cup {{l} : l \in BodyUsers} :
          SaveGroup(g, provider, body = {}, UNION body) /\ TaintIf(body # {}, g)
    BY <1>4 DEF UpdateGroup
  <2>2. users' = users /\ req' = req /\ tainted \subseteq tainted'
    BY <1>4, <2>1 DEF UpdateGroup, TaintIf
  <2>3. /\ DOMAIN groups' = DOMAIN groups
        /\ \A h \in DOMAIN groups : h \notin tainted' =>
             groups'[h].users = groups[h].users /\ groups'[h].isNull = groups[h].isNull
    BY <2>1 DEF SaveGroup, Writable, TaintIf, TypeInv, GroupsOK, GroupRow
  <2> QED BY <2>2, <2>3, WriteAgrees
<1> QED
  BY <1>1, <1>2, <1>3, <1>4

LEMMA RestartAgrees ==
    ASSUME TypeInv, BuiltinsStay, Agreement, Restart
    PROVE  Agreement'
<1> DEFINE first == FirstId(users)
<1>1. /\ req' = [r \in Requests |-> Idle] /\ groups' = groups /\ tainted \subseteq tainted'
      /\ SaveUser(first, users[first].provider, {FirstId(groups)})
      /\ Writable(users, first) => first \in tainted'
      /\ \A g \in Gids \ tainted' : \A r \in Requests : req[r].group = g => req[r].ids = {}
  BY DEF Restart
<1>2. \A r \in Requests : \A x : ~ HoldsGroup(r, x)' /\ ~ HoldsUser(r, x)'
  BY <1>1 DEF HoldsGroup, HoldsUser, Idle
<1>3. HeldOnce' /\ CopiesFresh'
  BY <1>2 DEF HeldOnce, CopiesFresh
<1>4. DOMAIN users' = DOMAIN users /\ \A v \in DOMAIN users \ tainted' : users'[v] = users[v]
  BY <1>1, SavedUser DEF SaveUser, TypeInv
<1>5. ASSUME NEW v \in Uids \ (tainted' \cup {RootId}), NEW h \in Gids \ (tainted' \cup {AdminId})
      PROVE  PairOK(v, h)'
  <2>1. In(v, h) <=> Listed(v, h)
    BY <1>1 DEF Agreement, PairsOK, PairOK, HalfWritten, HoldsGroup
  <2>2. (In(v, h)' <=> In(v, h)) /\ (Listed(v, h)' <=> Listed(v, h))
    BY <1>1, <1>4 DEF In, Listed
  <2> QED BY <1>2, <2>1, <2>2 DEF PairOK
<1> QED
  BY <1>3, <1>5 DEF Agreement, PairsOK

LEMMA AgreementInductive ==
    ASSUME IInv, [Next]_vars
    PROVE  IInv'
<1>1. TypeInv' /\ BuiltinsStay'
  BY TypeInvInductive DEF IInv
<1>2. Agreement'
  <2>1. ASSUME NEW r \in Requests, Handler(r) PROVE Agreement'
    <3>1. CASE BeginMembers(r) \/ BeginDeleteGroup(r) \/ BeginDeleteUser(r)
      <4>1. ASSUME NEW op, NEW g, NEW batch,
                   Begin(r, [Idle EXCEPT !.pc = "getGroup", !.op = op, !.group = g, !.todo = batch])
            PROVE  Agreement'
        BY <4>1, BeginAgrees DEF IInv, Idle
      <4>2. ASSUME NEW g, Begin(r, [Idle EXCEPT !.pc = "getGroup", !.op = "deleteGroup", !.group = g])
            PROVE  Agreement'
        BY <4>2, BeginAgrees DEF IInv, Idle
      <4>3. ASSUME NEW u, Begin(r, [Idle EXCEPT !.pc = "getUser", !.op = "deleteUser", !.user = u])
            PROVE  Agreement'
        BY <4>3, BeginAgrees DEF IInv, Idle
      <4> QED BY <3>1, <4>1, <4>2, <4>3 DEF BeginMembers, BeginDeleteGroup, BeginDeleteUser
    <3> QED BY <2>1, <3>1, GetGroupAgrees, FindUserAgrees, PutUserAgrees, PutGroupAgrees,
               DropGroupAgrees, GetUserAgrees, FindTokensAgrees, DropUserAgrees DEF Handler, IInv
  <2>2. CASE UNCHANGED vars
    BY <2>2, WriteAgrees DEF vars, IInv, SameGroup, SameUser, In, Listed
  <2> QED BY <2>1, <2>2, WritesAgree, RestartAgrees DEF Next, IInv
<1> QED
  BY <1>1, <1>2 DEF IInv

(* The two records of membership agree wherever the handlers can be relied on for it:
   rows that two requests never held together, that no failure left half-written and
   no body or restart rewrote. *)
THEOREM MembershipAgreement == Spec => []MembershipAgrees
<1>1. Init => IInv
  BY InitTypeInv, InitBuiltins, InitAgreement DEF IInv
<1>2. IInv /\ [Next]_vars => IInv'
  BY AgreementInductive
<1>3. IInv => MembershipAgrees
  BY AgreementSuffices DEF IInv, Agreement
<1> QED
  BY <1>1, <1>2, <1>3, PTL DEF Spec

LEMMA OnlyPostsAdd ==
    ASSUME TypeInv, [Next]_vars
    PROVE  /\ CreateUser \/ DOMAIN users' \subseteq DOMAIN users
           /\ CreateGroup \/ DOMAIN groups' \subseteq DOMAIN groups
<1> DEFINE Shrinks == DOMAIN users' \subseteq DOMAIN users /\ DOMAIN groups' \subseteq DOMAIN groups
<1>1. ASSUME NEW r \in Requests, Handler(r) PROVE Shrinks
  <2>1. CASE BeginMembers(r) \/ BeginDeleteGroup(r) \/ BeginDeleteUser(r)
    BY <2>1 DEF BeginMembers, BeginDeleteGroup, BeginDeleteUser, Begin
  <2>2. CASE GetGroup(r) \/ FindUser(r) \/ GetUser(r) \/ FindTokens(r)
    BY <2>2 DEF GetGroup, FindUser, GetUser, FindTokens
  <2>3. CASE PutUser(r)
    BY <2>3 DEF PutUser, SaveUser
  <2>4. CASE PutGroup(r)
    BY <2>4 DEF PutGroup, SaveGroup
  <2>5. CASE DropGroup(r)
    BY <2>5 DEF DropGroup, Without
  <2>6. CASE DropUser(r)
    BY <2>6 DEF DropUser, Without
  <2> QED BY <1>1, <2>1, <2>2, <2>3, <2>4, <2>5, <2>6 DEF Handler
<1>2. CASE UpdateUser \/ UpdateGroup \/ Restart \/ UNCHANGED vars
  BY <1>2 DEF UpdateUser, UpdateGroup, Restart, SaveUser, SaveGroup, vars
<1>3. CASE CreateUser
  BY <1>3 DEF CreateUser
<1>4. CASE CreateGroup
  BY <1>4 DEF CreateGroup
<1> QED
  BY <1>1, <1>2, <1>3, <1>4 DEF Next

(* A deleted user or group comes back only by a POST that brings its id: no handler that
   still holds the row, and no restart, inserts one. It comes back without the memberships
   of the old row: where the two records agree, no list on the other side still has it. *)
THEOREM DeletedReturns == Spec => DeletedReturnsAsNew
<1>1. ASSUME IInv, [Next]_vars, NEW u \in (used \cap Uids) \ DOMAIN users, u \in DOMAIN users'
      PROVE  /\ CreateUser
             /\ \A g \in Gids \ tainted :
                   u \notin tainted /\ ~ Builtin(groups, g) /\ ~ HalfWritten(u, g) => ~ Listed(u, g)
  <2>1. CreateUser
    BY <1>1, OnlyPostsAdd DEF IInv
  <2>2. MembershipAgrees
    BY <1>1, AgreementSuffices DEF IInv, Agreement
  <2>3. ~ Builtin(users, u) /\ \A g : ~ In(u, g)
    BY <1>1 DEF Builtin, In
  <2> QED BY <2>1, <2>2, <2>3 DEF MembershipAgrees
<1>2. ASSUME IInv, [Next]_vars, NEW g \in (used \cap Gids) \ DOMAIN groups, g \in DOMAIN groups'
      PROVE  /\ CreateGroup
             /\ \A u \in Uids \ tainted :
                   g \notin tainted /\ ~ Builtin(users, u) /\ ~ HalfWritten(u, g) => ~ In(u, g)
  <2>1. CreateGroup
    BY <1>2, OnlyPostsAdd DEF IInv
  <2>2. MembershipAgrees
    BY <1>2, AgreementSuffices DEF IInv, Agreement
  <2>3. ~ Builtin(groups, g) /\ \A u : ~ Listed(u, g)
    BY <1>2 DEF Builtin, Listed
  <2> QED BY <2>1, <2>2, <2>3 DEF MembershipAgrees
<1>3. IInv /\ [Next]_vars =>
         /\ \A u \in (used \cap Uids) \ DOMAIN users : u \in DOMAIN users' =>
              /\ CreateUser
              /\ \A g \in Gids \ tainted :
                    u \notin tainted /\ ~ Builtin(groups, g) /\ ~ HalfWritten(u, g) => ~ Listed(u, g)
         /\ \A g \in (used \cap Gids) \ DOMAIN groups : g \in DOMAIN groups' =>
              /\ CreateGroup
              /\ \A u \in Uids \ tainted :
                    g \notin tainted /\ ~ Builtin(users, u) /\ ~ HalfWritten(u, g) => ~ In(u, g)
  BY <1>1, <1>2
<1>4. Init => IInv
  BY InitTypeInv, InitBuiltins, InitAgreement DEF IInv
<1>5. IInv /\ [Next]_vars => IInv'
  BY AgreementInductive
<1> QED
  BY <1>3, <1>4, <1>5, PTL DEF Spec, DeletedReturnsAsNew

-----------------------------------------------------------------------------
(* A group whose list was ever written stays, unless a deletion and a write of it
   overlapped (DeleteGroup tells nil from empty). *)
THEOREM FilledIsFinal == Spec => FilledGroupsStay
<1>1. ASSUME IInv, [Next]_vars
      PROVE  \A g \in DOMAIN groups : ~ groups[g].isNull /\ g \notin tainted' => g \in DOMAIN groups'
  <2>1. ASSUME NEW r \in Requests, DropGroup(r)
        PROVE  \A g \in DOMAIN groups : ~ groups[g].isNull /\ g \notin tainted' => g \in DOMAIN groups'
    <3>1. /\ req[r].pc = "dropGroup" /\ req[r].groupRow.isNull /\ tainted' = tainted
          /\ groups' = IF Writable(groups, req[r].group) THEN Without(groups, req[r].group) ELSE groups
      BY <1>1, <2>1 DEF DropGroup, IInv, TypeInv, ReqOK, SlotOK
    <3>2. \A g \in DOMAIN groups : g # req[r].group => g \in DOMAIN groups'
      BY <3>1 DEF Without
    <3>3. ASSUME NEW g \in DOMAIN groups, g = req[r].group, g \notin tainted
          PROVE  groups[g].isNull
      <4>1. HoldsGroup(r, g) /\ g \in Gids
        BY <1>1, <3>1, <3>3 DEF HoldsGroup, IInv, TypeInv, GroupsOK
      <4> QED BY <1>1, <3>1, <3>3, <4>1 DEF IInv, Agreement, CopiesFresh, FreshGroup
    <3> QED BY <3>1, <3>2, <3>3
  <2>2. ASSUME DOMAIN groups \subseteq DOMAIN groups'
        PROVE  \A g \in DOMAIN groups : ~ groups[g].isNull /\ g \notin tainted' => g \in DOMAIN groups'
    BY <2>2
  <2>3. ASSUME NEW r \in Requests, Handler(r), ~ DropGroup(r) PROVE DOMAIN groups \subseteq DOMAIN groups'
    <3>1. CASE BeginMembers(r) \/ BeginDeleteGroup(r) \/ BeginDeleteUser(r)
      BY <3>1 DEF BeginMembers, BeginDeleteGroup, BeginDeleteUser, Begin
    <3>2. CASE GetGroup(r) \/ FindUser(r) \/ GetUser(r) \/ FindTokens(r) \/ DropUser(r)
      BY <3>2 DEF GetGroup, FindUser, GetUser, FindTokens, DropUser
    <3>3. CASE PutUser(r)
      BY <3>3 DEF PutUser
    <3>4. CASE PutGroup(r)
      <4>1. groups' = groups \/ \E g, provider, isNil, us : SaveGroup(g, provider, isNil, us)
        BY <3>4 DEF PutGroup
      <4> QED BY <4>1 DEF SaveGroup
    <3> QED BY <2>3, <3>1, <3>2, <3>3, <3>4 DEF Handler
  <2>4. CASE CreateUser \/ CreateGroup \/ UpdateUser \/ UpdateGroup \/ Restart \/ UNCHANGED vars
    <3>1. DOMAIN groups \subseteq DOMAIN groups'
      <4>1. \/ groups' = groups
            \/ \E g, provider, isNil, us : SaveGroup(g, provider, isNil, us)
            \/ \E g, row : groups' = Insert(groups, g, row)
        BY <2>4 DEF CreateUser, CreateGroup, UpdateUser, UpdateGroup, Restart, vars
      <4> QED BY <4>1 DEF SaveGroup, Insert
    <3> QED BY <2>2, <3>1
  <2> QED BY <1>1, <2>1, <2>2, <2>3, <2>4 DEF Next
<1>2. Init => IInv
  BY InitTypeInv, InitBuiltins, InitAgreement DEF IInv
<1>3. IInv /\ [Next]_vars => IInv'
  BY AgreementInductive
<1> QED
  BY <1>1, <1>2, <1>3, PTL DEF Spec, FilledGroupsStay

-----------------------------------------------------------------------------
(* The slice helpers of groups_svc.go. Their loops are recursive functions: a function that
   satisfies the equation of one is shown to exist, so that CHOOSE takes one that satisfies
   it too; what that one returns follows by Induction. *)

(* A state and a step, tabulated for each number, have a run of any length. *)
IsRun(g, St, start, step, n) ==
    /\ g \in [0..n -> St] /\ g[0] = start
    /\ \A k \in 1..n : g[k] = step[k][g[k - 1]]

IsStep(step, St) == step \in [Nat -> [St -> St]]

LEMMA RunExists ==
    ASSUME NEW St, NEW start, start \in St, NEW step, IsStep(step, St), NEW n, n \in Nat
    PROVE  \E g : IsRun(g, St, start, step, n)
<1> DEFINE Run(g, m) == g[0] = start /\ \A k \in 1..m : g[k] = step[k][g[k - 1]]
<1> DEFINE Good == {m \in Nat : \E g \in [0..m -> St] : Run(g, m)}
<1>1. 0 \in Good
  <2>1. [k \in 0..0 |-> start] \in [0..0 -> St] /\ Run([k \in 0..0 |-> start], 0)
    OBVIOUS
  <2> QED BY <2>1
<1>2. ASSUME NEW m \in Nat, m \in Good PROVE m + 1 \in Good
  <2>1. PICK g \in [0..m -> St] : Run(g, m)
    BY <1>2
  <2> USE DEF IsStep
  <2>2. PICK s \in St : s = step[m + 1][g[m]]
    OBVIOUS
  <2> DEFINE h == [k \in 0..(m + 1) |-> IF k = m + 1 THEN s ELSE g[k]]
  <2>3. h \in [0..(m + 1) -> St]
    OBVIOUS
  <2>4. h[0] = start
    BY <2>1
  <2>5. ASSUME NEW k \in 1..(m + 1) PROVE h[k] = step[k][h[k - 1]]
    <3>1. h[k - 1] = g[k - 1]
      OBVIOUS
    <3>2. CASE k = m + 1
      BY <2>2, <3>1, <3>2
    <3>3. CASE k # m + 1
      <4>1. k \in 1..m /\ h[k] = g[k]
        BY <3>3
      <4> HIDE DEF h
      <4> QED BY <2>1, <3>1, <4>1
    <3> QED BY <3>2, <3>3
  <2> HIDE DEF h
  <2> QED BY <2>3, <2>4, <2>5
<1>3. \A m \in Nat : m \in Good
  <2> HIDE DEF Good
  <2> QED BY <1>1, <1>2, Induction
<1> QED
  BY <1>3 DEF IsRun

-----------------------------------------------------------------------------
(* The loop of RemoveDuplicates as a function f of itself. *)
KeptBody(list, f, n) ==
    IF n = 0 THEN <<>>
    ELSE IF \E i \in 1..(n - 1) : list[i] = list[n] THEN f[n - 1]
    ELSE Append(f[n - 1], list[n])

Kept(list) == CHOOSE f : f = [n \in 0..Len(list) |-> KeptBody(list, f, n)]

LEMMA DuplicatesIsKept ==
    ASSUME NEW list
    PROVE  RemoveDuplicates(list) = Kept(list)[Len(list)]
  BY Zenon DEF RemoveDuplicates, Kept, KeptBody

LEMMA KeptRuns ==
    ASSUME NEW S, NEW list \in Seq(S)
    PROVE  /\ Kept(list)[0] = <<>>
           /\ \A n \in 1..Len(list) : Kept(list)[n] = KeptBody(list, Kept(list), n)
<1> DEFINE N == Len(list)
<1>1. N \in Nat /\ \A i \in 1..N : list[i] \in S
  BY LenProperties, ElementOfSeq
<1> DEFINE again == {n \in 1..N : \E i \in 1..(n - 1) : list[i] = list[n]}
           step == [n \in Nat |-> [s \in Seq(S) |->
                      IF n \in 1..N /\ n \notin again THEN Append(s, list[n]) ELSE s]]
<1>2. step \in [Nat -> [Seq(S) -> Seq(S)]]
  <2>1. ASSUME NEW n \in Nat, NEW s \in Seq(S), n \in 1..N PROVE Append(s, list[n]) \in Seq(S)
    BY <1>1, <2>1, AppendProperties
  <2> QED BY <2>1
<1>3. <<>> \in Seq(S)
  OBVIOUS
<1>4. \E g : g \in [0..N -> Seq(S)] /\ g[0] = <<>> /\ \A k \in 1..N : g[k] = step[k][g[k - 1]]
  <2>1. N \in Nat /\ IsStep(step, Seq(S))
    BY <1>1, <1>2 DEF IsStep
  <2>2. \E g : IsRun(g, Seq(S), <<>>, step, N)
    <3> HIDE DEF again, step, N
    <3> QED BY <1>3, <2>1, RunExists
  <2> QED BY <2>2 DEF IsRun
<1>5. PICK g : g \in [0..N -> Seq(S)] /\ g[0] = <<>> /\ \A k \in 1..N : g[k] = step[k][g[k - 1]]
  BY <1>4
<1>6. ASSUME NEW k \in 0..N PROVE g[k] = KeptBody(list, g, k)
  <2>1. CASE k = 0
    BY <1>5, <2>1 DEF KeptBody
  <2>2. CASE k # 0
    <3>1. k \in 1..N /\ k - 1 \in 0..N
      BY <1>1, <2>2
    <3>2. PICK s \in Seq(S) : s = g[k - 1]
      BY <1>5, <3>1
    <3>3. step[k][s] = IF k \notin again THEN Append(s, list[k]) ELSE s
      BY <3>1
    <3>4. k \in again <=> \E i \in 1..(k - 1) : list[i] = list[k]
      BY <3>1
    <3> HIDE DEF step, again
    <3> QED BY <1>5, <2>2, <3>1, <3>2, <3>3, <3>4, Zenon DEF KeptBody
  <2> QED BY <2>1, <2>2
<1>7. g = [k \in 0..N |-> KeptBody(list, g, k)]
  <2> HIDE DEF N, step
  <2> QED BY <1>5, <1>6, Zenon
<1>8. Kept(list) = [k \in 0..N |-> KeptBody(list, Kept(list), k)]
  <2> HIDE DEF step
  <2> QED BY <1>7, Zenon DEF Kept
<1>9. \A k \in 0..N : Kept(list)[k] = KeptBody(list, Kept(list), k)
  <2> HIDE DEF N
  <2> QED BY <1>8, Zenon
<1> QED
  <2>1. Kept(list)[0] = KeptBody(list, Kept(list), 0)
    BY <1>1, <1>9
  <2> QED BY <1>1, <1>9, <2>1 DEF KeptBody

(* The elements of a list up to position n. *)
Upto(list, n) == {list[i] : i \in 1..n}

(* After n elements: each of them once, and at the head the elements up to the first
   that comes again, unmoved. *)
Distinct(list, n, m, kept) ==
    /\ {kept[i] : i \in 1..Len(kept)} = Upto(list, n)
    /\ \A i, j \in 1..Len(kept) : kept[i] = kept[j] => i = j
    /\ n <= m => Len(kept) = n
    /\ n >= m => Len(kept) >= m
    /\ \A i \in 1..m : i <= n => kept[i] = list[i]

LEMMA DistinctGrows ==
    ASSUME NEW S, NEW list, NEW n \in Nat, NEW m \in Nat,
           \A i, j \in 1..m : list[i] = list[j] => i = j,
           NEW kept \in Seq(S), Distinct(list, n, m, kept), NEW x \in S, x = list[n + 1]
    PROVE  /\ (\E i \in 1..n : list[i] = x) => Distinct(list, n + 1, m, kept)
           /\ ~ (\E i \in 1..n : list[i] = x) => Distinct(list, n + 1, m, Append(kept, x))
<1>1. Len(kept) \in Nat
  BY LenProperties
<1>2. Upto(list, n + 1) = Upto(list, n) \cup {x}
  BY DEF Upto
<1>3. ASSUME \E i \in 1..n : list[i] = x PROVE Distinct(list, n + 1, m, kept)
  <2>1. Upto(list, n + 1) = Upto(list, n)
    BY <1>2, <1>3 DEF Upto
  <2>2. ~ (n + 1 <= m)
    BY <1>3
  <2> QED BY <1>1, <2>1, <2>2 DEF Distinct
<1>4. ASSUME ~ (\E i \in 1..n : list[i] = x) PROVE Distinct(list, n + 1, m, Append(kept, x))
  <2>1. PICK s : s = Append(kept, x)
    OBVIOUS
  <2>2. /\ s \in Seq(S) /\ Len(s) = Len(kept) + 1 /\ s[Len(kept) + 1] = x
        /\ \A i \in 1..Len(kept) : s[i] = kept[i]
    BY <2>1, AppendProperties
  <2>3. ASSUME NEW i \in 1..Len(kept) PROVE kept[i] # x
    <3>1. kept[i] \in Upto(list, n)
      BY DEF Distinct
    <3> QED BY <1>4, <3>1 DEF Upto
  <2>4. {s[i] : i \in 1..Len(s)} = {kept[i] : i \in 1..Len(kept)} \cup {x}
    BY <1>1, <2>2
  <2>5. \A i, j \in 1..Len(s) : s[i] = s[j] => i = j
    BY <1>1, <2>2, <2>3 DEF Distinct
  <2>6. /\ n + 1 <= m => Len(s) = n + 1
        /\ n + 1 >= m => Len(s) >= m
    BY <1>1, <2>2 DEF Distinct
  <2>7. \A i \in 1..m : i <= n + 1 => s[i] = list[i]
    <3>1. ASSUME NEW i \in 1..m, i <= n PROVE s[i] = list[i]
      <4>1. i <= Len(kept)
        BY <3>1, <1>1 DEF Distinct
      <4> QED BY <1>1, <2>2, <3>1, <4>1 DEF Distinct
    <3>2. n + 1 <= m => s[n + 1] = list[n + 1]
      BY <2>2 DEF Distinct
    <3> QED BY <3>1, <3>2
  <2> QED BY <1>2, <2>1, <2>4, <2>5, <2>6, <2>7 DEF Distinct
<1> QED
  BY <1>3, <1>4

(* RemoveDuplicates of a list whose first m elements are distinct. *)
LEMMA DuplicatesGo ==
    ASSUME NEW S, NEW list \in Seq(S), NEW m \in 0..Len(list),
           \A i, j \in 1..m : list[i] = list[j] => i = j
    PROVE  RemoveDuplicates(list) \in Seq(S) /\ Distinct(list, Len(list), m, RemoveDuplicates(list))
<1> DEFINE N == Len(list)
           g == Kept(list)
           Good == {n \in Nat : n <= N => g[n] \in Seq(S) /\ Distinct(list, n, m, g[n])}
<1>1. N \in Nat /\ \A i \in 1..N : list[i] \in S
  BY LenProperties, ElementOfSeq
<1>2. g[0] = <<>> /\ \A n \in 1..N : g[n] = KeptBody(list, g, n)
  BY KeptRuns
<1> HIDE DEF g
<1>3. 0 \in Good
  <2>1. g[0] = <<>> /\ <<>> \in Seq(S) /\ Len(<<>>) = 0
    BY <1>2
  <2>2. Distinct(list, 0, m, <<>>)
    BY DEF Distinct, Upto
  <2> QED BY <1>1, <2>1, <2>2
<1>4. ASSUME NEW n \in Nat, n \in Good PROVE n + 1 \in Good
  <2> SUFFICES ASSUME n + 1 <= N PROVE g[n + 1] \in Seq(S) /\ Distinct(list, n + 1, m, g[n + 1])
    OBVIOUS
  <2>1. PICK kept \in Seq(S) : kept = g[n] /\ Distinct(list, n, m, kept)
    BY <1>1, <1>4
  <2>2. PICK x \in S : x = list[n + 1]
    BY <1>1
  <2>3. g[n + 1] = IF \E i \in 1..n : list[i] = x THEN kept ELSE Append(kept, x)
    <3>1. n + 1 \in 1..N /\ n + 1 # 0 /\ (n + 1) - 1 = n
      BY <1>1
    <3> QED BY <1>2, <2>1, <2>2, <3>1, Zenon DEF KeptBody
  <2>4. Append(kept, x) \in Seq(S)
    BY AppendProperties
  <2>5. m \in Nat /\ \A i, j \in 1..m : list[i] = list[j] => i = j
    OBVIOUS
  <2> HIDE DEF Good
  <2> QED BY <2>1, <2>2, <2>3, <2>4, <2>5, DistinctGrows
<1>5. \A n \in Nat : n \in Good
  <2> HIDE DEF Good
  <2> QED BY <1>3, <1>4, Induction
<1> QED
  BY <1>1, <1>5, DuplicatesIsKept DEF g

-----------------------------------------------------------------------------
(* The loop of RemoveFromSlice as a function f of itself. *)
SliceStart(list) == [ok |-> TRUE, arr |-> list, len |-> Len(list)]

Shifted(arr, n, k, len) == [i \in 1..n |-> IF k <= i /\ i < len THEN arr[i + 1] ELSE arr[i]]

SliceStep(n, batch, s, k) ==
    IF ~ s.ok \/ s.arr[k] \notin batch THEN s
    ELSE IF k > s.len THEN [s EXCEPT !.ok = FALSE]
    ELSE [ok |-> TRUE, len |-> s.len - 1, arr |-> Shifted(s.arr, n, k, s.len)]

SliceBody(list, batch, f, k) ==
    IF k = 0 THEN SliceStart(list) ELSE SliceStep(Len(list), batch, f[k - 1], k)

SliceLoop(list, batch) == CHOOSE f : f = [k \in 0..Len(list) |-> SliceBody(list, batch, f, k)]

LEMMA SliceIsLoop ==
    ASSUME NEW list, NEW batch
    PROVE  LET end == SliceLoop(list, batch)[Len(list)] IN
           RemoveFromSlice(list, batch) =
               IF end.ok THEN [ok |-> TRUE, list |-> SubSeq(end.arr, 1, end.len)] ELSE Panic
  BY Zenon DEF RemoveFromSlice, SliceLoop, SliceBody, SliceStart, SliceStep, Shifted

SliceStates(n, S) == [ok : BOOLEAN, arr : [1..n -> S], len : 0..n]

LEMMA StepTyped ==
    ASSUME NEW S, NEW n \in Nat, NEW batch, NEW s \in SliceStates(n, S), NEW k \in 1..n
    PROVE  SliceStep(n, batch, s, k) \in SliceStates(n, S)
<1>1. CASE s.ok /\ s.arr[k] \in batch /\ k <= s.len
  <2>1. PICK len \in 0..n : len = s.len
    BY DEF SliceStates
  <2>2. PICK arr \in [1..n -> S] : arr = s.arr
    BY DEF SliceStates
  <2>3. Shifted(arr, n, k, len) \in [1..n -> S] /\ len - 1 \in Int
    BY DEF Shifted
  <2>4. k <= len => len - 1 \in 0..n
    OBVIOUS
  <2> QED BY <1>1, <2>1, <2>2, <2>3, <2>4 DEF SliceStates, SliceStep
<1>2. CASE s.ok /\ s.arr[k] \in batch /\ k > s.len
  <2>1. SliceStep(n, batch, s, k) = [s EXCEPT !.ok = FALSE]
    BY <1>2, Zenon DEF SliceStep
  <2> QED BY <2>1 DEF SliceStates
<1>3. CASE ~ s.ok \/ s.arr[k] \notin batch
  BY <1>3, Zenon DEF SliceStep
<1>4. s.len \in Int
  BY DEF SliceStates
<1> QED
  BY <1>1, <1>2, <1>3, <1>4

LEMMA SliceRuns ==
    ASSUME NEW S, NEW n \in Nat, NEW list \in [1..n -> S], NEW batch
    PROVE  LET g == SliceLoop(list, batch) IN
           /\ Len(list) = n /\ g[0] = SliceStart(list)
           /\ \A k \in 1..n : g[k] = SliceStep(n, batch, g[k - 1], k)
           /\ \A k \in 0..n : g[k] \in SliceStates(n, S)
<1> DEFINE St == SliceStates(n, S)
           step == [k \in Nat |-> [s \in St |-> IF k \in 1..n THEN SliceStep(n, batch, s, k) ELSE s]]
<1>1. Len(list) = n
  BY LenProperties, IsASeq
<1>2. SliceStart(list) \in St
  BY <1>1 DEF SliceStart, SliceStates
<1>3. IsStep(step, St)
  <2>1. \A k \in 1..n : \A s \in St : SliceStep(n, batch, s, k) \in St
    BY StepTyped
  <2> HIDE DEF St
  <2> QED BY <2>1 DEF IsStep
<1>4. PICK g : IsRun(g, St, SliceStart(list), step, n)
  <2> HIDE DEF St, step
  <2> QED BY <1>2, <1>3, RunExists
<1>5. g \in [0..n -> St] /\ g[0] = SliceStart(list) /\ \A k \in 1..n : g[k] = step[k][g[k - 1]]
  BY <1>4 DEF IsRun
<1> HIDE DEF St
<1>6. ASSUME NEW k \in 0..n PROVE g[k] = SliceBody(list, batch, g, k)
  <2>1. CASE k = 0
    BY <1>5, <2>1, Zenon DEF SliceBody
  <2>2. CASE k # 0
    <3>1. k \in 1..n /\ k \in Nat /\ k - 1 \in 0..n
      BY <2>2
    <3>2. PICK s \in St : s = g[k - 1]
      BY <1>5, <3>1
    <3>3. step[k][s] = SliceStep(n, batch, s, k)
      BY <3>1
    <3> HIDE DEF step
    <3> QED BY <1>1, <1>5, <2>2, <3>1, <3>2, <3>3, Zenon DEF SliceBody
  <2> QED BY <2>1, <2>2
<1>7. g = [k \in 0..n |-> SliceBody(list, batch, g, k)]
  <2> HIDE DEF step
  <2> QED BY <1>5, <1>6, Zenon
<1> DEFINE h == SliceLoop(list, batch)
<1>8. h = [k \in 0..n |-> SliceBody(list, batch, h, k)]
  <2> HIDE DEF step
  <2> QED BY <1>1, <1>7, Zenon DEF SliceLoop
<1> HIDE DEF h
<1>9. \A k \in 0..n : h[k] = SliceBody(list, batch, h, k)
  BY <1>8, Zenon
<1>10. h[0] = SliceStart(list)
  <2>1. 0 \in 0..n
    OBVIOUS
  <2> QED BY <1>9, <2>1, Zenon DEF SliceBody
<1>11. ASSUME NEW k \in 1..n PROVE h[k] = SliceStep(n, batch, h[k - 1], k)
  <2>1. k \in 0..n /\ k # 0
    OBVIOUS
  <2> QED BY <1>1, <1>9, <2>1, Zenon DEF SliceBody
<1> DEFINE Good == {k \in Nat : k <= n => h[k] \in St}
<1>12. 0 \in Good
  BY <1>2, <1>10
<1>13. ASSUME NEW k \in Nat, k \in Good PROVE k + 1 \in Good
  <2> SUFFICES ASSUME k + 1 <= n PROVE h[k + 1] \in St
    OBVIOUS
  <2>1. k + 1 \in 1..n /\ (k + 1) - 1 = k /\ h[k] \in St
    BY <1>13
  <2>2. h[k + 1] = SliceStep(n, batch, h[k], k + 1)
    BY <1>11, <2>1
  <2> QED BY <2>1, <2>2, StepTyped DEF St
<1>14. \A k \in Nat : k \in Good
  <2> HIDE DEF Good
  <2> QED BY <1>12, <1>13, Induction
<1> QED
  BY <1>1, <1>10, <1>11, <1>14 DEF h, St

-----------------------------------------------------------------------------
(* The positions of a batch in a list, one after the other, which the loop deletes: those
   it has not skipped because it had deleted the one before. *)
Chain(list, n, batch, R) ==
    /\ R \subseteq 1..n
    /\ \A p \in 1..n : p \in R <=> list[p] \in batch /\ p - 1 \notin R

LEMMA ChainExists ==
    ASSUME NEW list, NEW batch
    PROVE  \A n \in Nat : \E R : Chain(list, n, batch, R)
<1> DEFINE Good == {n \in Nat : \E R : Chain(list, n, batch, R)}
<1>1. 0 \in Good
  <2>1. Chain(list, 0, batch, {})
    BY DEF Chain
  <2> QED BY <2>1
<1>2. ASSUME NEW n \in Nat, n \in Good PROVE n + 1 \in Good
  <2>1. PICK R : Chain(list, n, batch, R)
    BY <1>2
  <2>2. R \subseteq 1..n
    BY <2>1 DEF Chain
  <2>3. CASE list[n + 1] \in batch /\ n \notin R
    <3>1. Chain(list, n + 1, batch, R \cup {n + 1})
      BY <2>1, <2>2, <2>3 DEF Chain
    <3> QED BY <3>1
  <2>4. CASE ~ (list[n + 1] \in batch /\ n \notin R)
    <3>1. Chain(list, n + 1, batch, R)
      BY <2>1, <2>2, <2>4 DEF Chain
    <3> QED BY <3>1
  <2> QED BY <2>3, <2>4
<1> HIDE DEF Good
<1>3. \A n \in Nat : n \in Good
  BY <1>1, <1>2, Induction
<1> QED
  BY <1>3 DEF Good

(* What the loop has before it: the rest of the list, moved to the left by the number d of
   deletions, and the last element over and over. *)
Ahead(list, n, arr, k, d) ==
    \A i \in 1..n : i > k => arr[i] = IF i + d <= n THEN list[i + d] ELSE list[n]

(* What it leaves behind it: the elements it has come to that it did not delete. *)
Behind(list, n, R, arr, k, d) ==
    /\ \A i \in 1..n : i <= k /\ i <= n - d => \E p \in (1..n) \ R : p <= k + d /\ arr[i] = list[p]
    /\ \A p \in (1..n) \ R : p <= k + d => \E i \in 1..n : i <= k /\ i <= n - d /\ arr[i] = list[p]

LEMMA ShiftedIs ==
    ASSUME NEW n \in Nat, NEW arr, NEW k \in Nat, NEW len \in 0..n
    PROVE  /\ \A i \in 1..n : i < k \/ i >= len => Shifted(arr, n, k, len)[i] = arr[i]
           /\ \A i \in 1..n : k <= i /\ i < len => Shifted(arr, n, k, len)[i] = arr[i + 1]
  BY DEF Shifted

LEMMA AheadShifts ==
    ASSUME NEW n \in Nat, NEW list, NEW arr, NEW k \in Nat, NEW d \in Nat, k + 1 <= n - d,
           Ahead(list, n, arr, k, d)
    PROVE  Ahead(list, n, Shifted(arr, n, k + 1, n - d), k + 1, d + 1)
<1> DEFINE new == Shifted(arr, n, k + 1, n - d)
<1> SUFFICES ASSUME NEW i \in 1..n, i > k + 1
             PROVE  new[i] = IF i + (d + 1) <= n THEN list[i + (d + 1)] ELSE list[n]
  BY DEF Ahead
<1>1. n - d \in 0..n
  OBVIOUS
<1>2. CASE i < n - d
  <2>1. new[i] = arr[i + 1]
    BY <1>1, <1>2 DEF Shifted
  <2>2. i + 1 \in 1..n /\ i + 1 > k /\ (i + 1) + d = i + (d + 1)
    BY <1>2
  <2> HIDE DEF new
  <2> QED BY <2>1, <2>2 DEF Ahead
<1>3. CASE i >= n - d
  <2>1. new[i] = arr[i]
    BY <1>1, <1>3, ShiftedIs
  <2>2. arr[i] = list[n]
    <3>1. arr[i] = IF i + d <= n THEN list[i + d] ELSE list[n]
      BY DEF Ahead
    <3>2. i + d <= n => i + d = n
      BY <1>3
    <3> QED BY <3>1, <3>2
  <2>3. ~ (i + (d + 1) <= n)
    BY <1>3
  <2> QED BY <2>1, <2>2, <2>3
<1> QED
  BY <1>2, <1>3

(* A deletion at position k + 1 of the array, which holds position p = k + 1 + d of the
   list: that one is on the chain, and the one after it, which the loop skips, is not. *)
LEMMA BehindShifts ==
    ASSUME NEW n \in Nat, NEW list, NEW batch, NEW R, Chain(list, n, batch, R), NEW arr,
           NEW k \in Nat, NEW d \in Nat, k + 1 + d < n, k + 1 + d \in R,
           Ahead(list, n, arr, k, d), Behind(list, n, R, arr, k, d)
    PROVE  Behind(list, n, R, Shifted(arr, n, k + 1, n - d), k + 1, d + 1)
<1> DEFINE new == Shifted(arr, n, k + 1, n - d)
           next == k + 2 + d
<1>1. next \in (1..n) \ R /\ (k + 1) + (d + 1) = next
  BY DEF Chain
<1>2. \A i \in 1..n : i <= k => new[i] = arr[i]
  BY DEF Shifted
<1>3. new[k + 1] = list[next]
  <2>1. new[k + 1] = arr[k + 2]
    BY DEF Shifted
  <2>2. arr[k + 2] = list[next]
    BY DEF Ahead
  <2> QED BY <2>1, <2>2
<1> HIDE DEF new
<1>4. ASSUME NEW i \in 1..n, i <= k + 1
      PROVE  \E p \in (1..n) \ R : p <= next /\ new[i] = list[p]
  <2>1. CASE i = k + 1
    BY <1>1, <1>3, <2>1
  <2>2. CASE i <= k
    <3>1. i <= n - d
      BY <2>2
    <3>2. PICK p \in (1..n) \ R : p <= k + d /\ arr[i] = list[p]
      BY <2>2, <3>1 DEF Behind
    <3> QED BY <1>2, <2>2, <3>2
  <2> QED BY <1>4, <2>1, <2>2
<1>5. ASSUME NEW p \in (1..n) \ R, p <= next
      PROVE  \E i \in 1..n : i <= k + 1 /\ i <= n - (d + 1) /\ new[i] = list[p]
  <2>1. CASE p = next
    <3>1. k + 1 \in 1..n /\ k + 1 <= n - (d + 1)
      OBVIOUS
    <3> QED BY <1>3, <2>1, <3>1
  <2>2. CASE p # next
    <3>1. p <= k + d
      BY <1>5, <2>2
    <3>2. PICK i \in 1..n : i <= k /\ i <= n - d /\ arr[i] = list[p]
      BY <3>1 DEF Behind
    <3>3. i <= k + 1 /\ i <= n - (d + 1)
      BY <3>2
    <3> QED BY <1>2, <3>2, <3>3
  <2> QED BY <2>1, <2>2
<1> QED
  BY <1>1, <1>4, <1>5 DEF Behind, new

(* The loop after k elements of a list that does not end with one of the batch: the one it
   has come to is not on the chain. *)
Skips(list, n, R, s, k) ==
    /\ s.ok /\ s.len \in 0..n
    /\ Ahead(list, n, s.arr, k, n - s.len) /\ Behind(list, n, R, s.arr, k, n - s.len)
    /\ k + (n - s.len) \notin R

LEMMA SkipsStep ==
    ASSUME NEW n \in Nat, NEW list, NEW batch, NEW R, Chain(list, n, batch, R), n > 0, list[n] \notin batch,
           NEW s, NEW k \in 0..(n - 1), Skips(list, n, R, s, k)
    PROVE  Skips(list, n, R, SliceStep(n, batch, s, k + 1), k + 1)
<1>1. PICK d \in 0..n : d = n - s.len /\ s.len = n - d
  BY DEF Skips
<1>2. PICK arr : arr = s.arr
  OBVIOUS
<1>3. s.ok /\ Ahead(list, n, arr, k, d) /\ Behind(list, n, R, arr, k, d) /\ k + d \notin R
  BY <1>1, <1>2 DEF Skips
<1>4. arr[k + 1] = IF k + 1 + d <= n THEN list[k + 1 + d] ELSE list[n]
  BY <1>3 DEF Ahead
<1>5. k + 1 + d \in R <=> k + 1 + d <= n /\ arr[k + 1] \in batch
  <2>1. (k + 1 + d) - 1 = k + d
    OBVIOUS
  <2> QED BY <1>3, <1>4, <2>1 DEF Chain
<1>6. CASE arr[k + 1] \notin batch
  <2>1. SliceStep(n, batch, s, k + 1) = s
    BY <1>2, <1>6 DEF SliceStep
  <2>2. Ahead(list, n, arr, k + 1, d)
    BY <1>3 DEF Ahead
  <2>3. (k + 1) + d \notin R
    BY <1>5, <1>6
  <2>4. \A i \in 1..n : i <= k + 1 /\ i <= n - d => \E p \in (1..n) \ R : p <= (k + 1) + d /\ arr[i] = list[p]
    <3> SUFFICES ASSUME NEW i \in 1..n, i <= k + 1, i <= n - d
                 PROVE  \E p \in (1..n) \ R : p <= (k + 1) + d /\ arr[i] = list[p]
      OBVIOUS
    <3>1. CASE i <= k
      <4>1. PICK p \in (1..n) \ R : p <= k + d /\ arr[i] = list[p]
        BY <1>3, <3>1 DEF Behind
      <4> QED BY <4>1
    <3>2. CASE i = k + 1
      <4>1. k + 1 + d \in (1..n) \ R /\ arr[i] = list[k + 1 + d]
        BY <1>4, <2>3, <3>2
      <4> QED BY <4>1
    <3> QED BY <3>1, <3>2
  <2>5. \A p \in (1..n) \ R : p <= (k + 1) + d => \E i \in 1..n : i <= k + 1 /\ i <= n - d /\ arr[i] = list[p]
    <3> SUFFICES ASSUME NEW p \in (1..n) \ R, p <= (k + 1) + d
                 PROVE  \E i \in 1..n : i <= k + 1 /\ i <= n - d /\ arr[i] = list[p]
      OBVIOUS
    <3>1. CASE p <= k + d
      <4>1. PICK i \in 1..n : i <= k /\ i <= n - d /\ arr[i] = list[p]
        BY <1>3, <3>1 DEF Behind
      <4> QED BY <4>1
    <3>2. CASE p = k + 1 + d
      BY <1>4, <3>2
    <3> QED BY <3>1, <3>2
  <2>6. Behind(list, n, R, arr, k + 1, d)
    BY <2>4, <2>5 DEF Behind
  <2> QED BY <1>1, <1>2, <1>3, <2>1, <2>2, <2>3, <2>6 DEF Skips
<1>7. CASE arr[k + 1] \in batch
  <2>1. k + 1 + d < n /\ k + 1 + d \in R
    BY <1>4, <1>5, <1>7
  <2>2. PICK new : new = Shifted(arr, n, k + 1, n - d)
    OBVIOUS
  <2>3. SliceStep(n, batch, s, k + 1) = [ok |-> TRUE, len |-> (n - d) - 1, arr |-> new]
    <3>1. ~ (k + 1 > n - d)
      BY <2>1
    <3> QED BY <1>1, <1>2, <1>3, <1>7, <2>2, <3>1 DEF SliceStep
  <2>4. Ahead(list, n, new, k + 1, d + 1)
    <3>1. k + 1 <= n - d
      BY <2>1
    <3> QED BY <1>3, <2>2, <3>1, AheadShifts
  <2>5. Behind(list, n, R, new, k + 1, d + 1)
    BY <1>3, <2>1, <2>2, BehindShifts
  <2>6. (k + 1) + (d + 1) \notin R
    BY <2>1 DEF Chain
  <2>7. n - ((n - d) - 1) = d + 1 /\ (n - d) - 1 \in 0..n
    BY <2>1
  <2> QED BY <2>3, <2>4, <2>5, <2>6, <2>7 DEF Skips
<1> QED
  BY <1>6, <1>7

(* The elements of a list off the chain. *)
Spared(list, n, R) == {list[p] : p \in (1..n) \ R}

(* What Removal makes of the state the loop ends in. *)
LEMMA RemovalOfEnd ==
    ASSUME NEW S, NEW n \in Nat, NEW list \in [1..n -> S], NEW batch,
           NEW s, s \in SliceStates(n, S), s = SliceLoop(list, batch)[n]
    PROVE  Removal(list, batch) =
               IF s.ok THEN [ok |-> TRUE, users |-> {s.arr[i] : i \in 1..s.len}]
               ELSE [ok |-> FALSE, users |-> {}]
<1>1. Len(list) = n
  BY LenProperties, IsASeq
<1>2. PICK arr \in [1..n -> S] : arr = s.arr
  BY DEF SliceStates
<1>3. PICK len \in 0..n : len = s.len
  BY DEF SliceStates
<1>4. RemoveFromSlice(list, batch) = IF s.ok THEN [ok |-> TRUE, list |-> SubSeq(arr, 1, len)] ELSE Panic
  BY <1>1, <1>2, <1>3, SliceIsLoop, Zenon
<1>5. ToSet(SubSeq(arr, 1, len)) = {arr[i] : i \in 1..len}
  <2>1. SubSeq(arr, 1, len) = [i \in 1..len |-> arr[i]]
    <3>1. arr \in Seq(S) /\ Len(arr) = n
      BY LenProperties, IsASeq
    <3>2. PICK t : t = SubSeq(arr, 1, len)
      OBVIOUS
    <3>3. t \in Seq(S) /\ Len(t) = len /\ \A i \in 1..len : t[i] = arr[i]
      BY <3>1, <3>2, SubSeqProperties
    <3>4. t = [i \in 1..Len(t) |-> t[i]]
      BY <3>3, LenProperties
    <3> QED BY <3>2, <3>3, <3>4
  <2> QED BY <2>1 DEF ToSet
<1>6. ToSet(<<>>) = {}
  BY DEF ToSet
<1>7. CASE s.ok
  <2>1. RemoveFromSlice(list, batch) = [ok |-> TRUE, list |-> SubSeq(arr, 1, len)]
    BY <1>4, <1>7
  <2>2. PICK t : t = SubSeq(arr, 1, len)
    OBVIOUS
  <2>3. Removal(list, batch) = [ok |-> TRUE, users |-> ToSet(t)]
    BY <2>1, <2>2 DEF Removal
  <2>4. ToSet(t) = {s.arr[i] : i \in 1..s.len}
    BY <1>2, <1>3, <1>5, <2>2
  <2> QED BY <1>7, <2>3, <2>4
<1>8. CASE ~ s.ok
  <2>1. Removal(list, batch) = [ok |-> FALSE, users |-> ToSet(<<>>)]
    BY <1>4, <1>8 DEF Removal, Panic
  <2> QED BY <1>6, <1>8, <2>1
<1> QED
  BY <1>7, <1>8

LEMMA RemovalSkips ==
    ASSUME NEW S, NEW n \in Nat, NEW list \in [1..n -> S], NEW batch, NEW R, Chain(list, n, batch, R),
           n = 0 \/ list[n] \notin batch
    PROVE  Removal(list, batch) = [ok |-> TRUE, users |-> Spared(list, n, R)]
<1> DEFINE g == SliceLoop(list, batch)
<1>1. /\ Len(list) = n /\ g[0] = SliceStart(list)
      /\ \A k \in 1..n : g[k] = SliceStep(n, batch, g[k - 1], k)
      /\ \A k \in 0..n : g[k] \in SliceStates(n, S)
  BY SliceRuns
<1>2. PICK s : s = g[n]
  OBVIOUS
<1>3. s \in SliceStates(n, S)
  BY <1>1, <1>2
<1>4. Removal(list, batch) = IF s.ok THEN [ok |-> TRUE, users |-> {s.arr[i] : i \in 1..s.len}]
                             ELSE [ok |-> FALSE, users |-> {}]
  BY <1>2, <1>3, RemovalOfEnd
<1> HIDE DEF g
<1>5. CASE n = 0
  <2>1. s.ok /\ s.len = 0
    BY <1>1, <1>2, <1>5 DEF SliceStart
  <2>2. {s.arr[i] : i \in 1..s.len} = {} /\ Spared(list, n, R) = {}
    BY <1>5, <2>1 DEF Spared
  <2> QED BY <1>4, <2>1, <2>2
<1>6. CASE n > 0 /\ list[n] \notin batch
  <2>1. Skips(list, n, R, g[0], 0)
    <3>1. 0 \notin R
      BY DEF Chain
    <3>2. Ahead(list, n, list, 0, 0)
      BY DEF Ahead
    <3>3. Behind(list, n, R, list, 0, 0)
      BY DEF Behind
    <3>4. n - n = 0 /\ 0 + 0 = 0
      OBVIOUS
    <3> QED BY <1>1, <3>1, <3>2, <3>3, <3>4 DEF Skips, SliceStart
  <2> DEFINE Good == {k \in Nat : k <= n => Skips(list, n, R, g[k], k)}
  <2>2. 0 \in Good
    BY <2>1
  <2>3. ASSUME NEW k \in Nat, k \in Good PROVE k + 1 \in Good
    <3> SUFFICES ASSUME k + 1 <= n PROVE Skips(list, n, R, g[k + 1], k + 1)
      OBVIOUS
    <3>1. k \in 0..(n - 1) /\ k + 1 \in 1..n /\ (k + 1) - 1 = k /\ Skips(list, n, R, g[k], k)
      BY <2>3
    <3>2. g[k + 1] = SliceStep(n, batch, g[k], k + 1)
      BY <1>1, <3>1
    <3> HIDE DEF Good
    <3> QED BY <1>6, <3>1, <3>2, SkipsStep
  <2>4. \A k \in Nat : k \in Good
    <3> HIDE DEF Good
    <3> QED BY <2>2, <2>3, Induction
  <2>5. Skips(list, n, R, s, n)
    BY <1>2, <2>4
  <2>6. s.ok /\ s.len \in 0..n /\ Behind(list, n, R, s.arr, n, n - s.len)
    BY <2>5 DEF Skips
  <2>7. ASSUME NEW i \in 1..s.len PROVE s.arr[i] \in Spared(list, n, R)
    <3>1. i \in 1..n /\ i <= n - (n - s.len)
      BY <2>6
    <3>2. PICK p \in (1..n) \ R : s.arr[i] = list[p]
      BY <2>6, <3>1 DEF Behind
    <3> QED BY <3>2 DEF Spared
  <2>8. ASSUME NEW p \in (1..n) \ R PROVE list[p] \in {s.arr[i] : i \in 1..s.len}
    <3>1. p <= n + (n - s.len)
      BY <2>6
    <3>2. PICK i \in 1..n : i <= n - (n - s.len) /\ s.arr[i] = list[p]
      BY <2>6, <3>1 DEF Behind
    <3>3. i \in 1..s.len
      BY <2>6, <3>2
    <3> QED BY <3>2, <3>3
  <2>9. {s.arr[i] : i \in 1..s.len} = Spared(list, n, R)
    BY <2>7, <2>8 DEF Spared
  <2> QED BY <1>4, <2>6, <2>9
<1> QED
  BY <1>5, <1>6

(* One of the batch only, the last of the list. *)
LEMMA RemovalOfLast ==
    ASSUME NEW S, NEW n \in Nat, NEW list \in [1..n -> S], NEW batch, NEW R, Chain(list, n, batch, R),
           n > 0, list[n] \in batch, \A m \in 1..(n - 1) : list[m] \notin batch
    PROVE  Removal(list, batch) = [ok |-> TRUE, users |-> Spared(list, n, R)]
<1> DEFINE g == SliceLoop(list, batch)
<1>1. /\ Len(list) = n /\ g[0] = SliceStart(list)
      /\ \A k \in 1..n : g[k] = SliceStep(n, batch, g[k - 1], k)
      /\ \A k \in 0..n : g[k] \in SliceStates(n, S)
  BY SliceRuns
<1>2. PICK s : s = g[n]
  OBVIOUS
<1>3. s \in SliceStates(n, S)
  BY <1>1, <1>2
<1>4. Removal(list, batch) = IF s.ok THEN [ok |-> TRUE, users |-> {s.arr[i] : i \in 1..s.len}]
                             ELSE [ok |-> FALSE, users |-> {}]
  BY <1>2, <1>3, RemovalOfEnd
<1> HIDE DEF g
<1> DEFINE Good == {k \in Nat : k < n => g[k] = SliceStart(list)}
<1>5. 0 \in Good
  BY <1>1
<1>6. ASSUME NEW k \in Nat, k \in Good PROVE k + 1 \in Good
  <2> SUFFICES ASSUME k + 1 < n PROVE g[k + 1] = SliceStart(list)
    OBVIOUS
  <2>1. k + 1 \in 1..n /\ (k + 1) - 1 = k /\ g[k] = SliceStart(list) /\ list[k + 1] \notin batch
    BY <1>6
  <2>2. g[k + 1] = SliceStep(n, batch, g[k], k + 1)
    BY <1>1, <2>1
  <2> QED BY <2>1, <2>2 DEF SliceStep, SliceStart
<1>7. \A k \in Nat : k \in Good
  <2> HIDE DEF Good
  <2> QED BY <1>5, <1>6, Induction
<1>8. s = [ok |-> TRUE, len |-> n - 1, arr |-> Shifted(list, n, n, n)]
  <2>1. n \in 1..n /\ n - 1 \in Nat /\ n - 1 < n /\ ~ (n > n)
    OBVIOUS
  <2>2. g[n - 1] = SliceStart(list)
    BY <1>7, <2>1
  <2>3. s = SliceStep(n, batch, SliceStart(list), n)
    BY <1>1, <1>2, <2>1, <2>2
  <2> QED BY <1>1, <2>1, <2>3 DEF SliceStep, SliceStart
<1>9. \A i \in 1..n : Shifted(list, n, n, n)[i] = list[i]
  BY DEF Shifted
<1>10. R = {n}
  <2>1. R \subseteq {n}
    BY DEF Chain
  <2>2. n \in 1..n /\ n - 1 \notin R
    BY <2>1
  <2>3. n \in R
    BY <2>2 DEF Chain
  <2> QED BY <2>1, <2>3
<1>11. {s.arr[i] : i \in 1..s.len} = Spared(list, n, R)
  <2>1. (1..n) \ R = 1..(n - 1)
    BY <1>10
  <2>2. s.arr = Shifted(list, n, n, n) /\ s.len = n - 1
    BY <1>8
  <2>3. {s.arr[i] : i \in 1..s.len} = {list[i] : i \in 1..(n - 1)}
    BY <1>9, <2>2
  <2> QED BY <2>1, <2>3 DEF Spared
<1> QED
  BY <1>4, <1>8, <1>11

(* The loop after k elements of a list that ends with one of the batch and has another. *)
Nearing(list, n, batch, arr, k, d) ==
    /\ Ahead(list, n, arr, k, d)
    /\ d = 0 => \A p \in 1..k : list[p] \notin batch
    /\ d > 0 => k <= n - d + 1 /\ (k = n - d + 1 => d >= 2)

Fails(list, n, batch, s, k) ==
    s.ok => s.len \in 0..n /\ Nearing(list, n, batch, s.arr, k, n - s.len)

LEMMA FailsStep ==
    ASSUME NEW n \in Nat, NEW list, NEW batch, n > 0, list[n] \in batch,
           \E m \in 1..(n - 1) : list[m] \in batch,
           NEW S, NEW s, s \in SliceStates(n, S), NEW k \in 0..(n - 1), Fails(list, n, batch, s, k)
    PROVE  Fails(list, n, batch, SliceStep(n, batch, s, k + 1), k + 1)
<1>1. CASE ~ s.ok
  BY <1>1 DEF SliceStep, Fails
<1>2. CASE s.ok
  <2>1. PICK d \in 0..n : d = n - s.len /\ s.len = n - d
    BY <1>2 DEF Fails
  <2>2. PICK arr : arr = s.arr
    OBVIOUS
  <2>3. /\ Ahead(list, n, arr, k, d)
        /\ d = 0 => \A p \in 1..k : list[p] \notin batch
        /\ d > 0 => k <= n - d + 1 /\ (k = n - d + 1 => d >= 2)
    <3>1. Nearing(list, n, batch, arr, k, d)
      BY <1>2, <2>1, <2>2 DEF Fails
    <3> QED BY <3>1 DEF Nearing
  <2>4. arr[k + 1] = IF k + 1 + d <= n THEN list[k + 1 + d] ELSE list[n]
    BY <2>3 DEF Ahead
  <2>5. CASE k + 1 > n - d
    <3>1. arr[k + 1] \in batch
      BY <2>4, <2>5
    <3>2. SliceStep(n, batch, s, k + 1) = [s EXCEPT !.ok = FALSE]
      BY <1>2, <2>1, <2>2, <2>5, <3>1 DEF SliceStep
    <3>3. ~ SliceStep(n, batch, s, k + 1).ok
      BY <3>2 DEF SliceStates
    <3> QED BY <3>3 DEF Fails
  <2>6. CASE k + 1 <= n - d /\ arr[k + 1] \notin batch
    <3>1. SliceStep(n, batch, s, k + 1) = s
      BY <2>2, <2>6 DEF SliceStep
    <3>2. Ahead(list, n, arr, k + 1, d)
      BY <2>3 DEF Ahead
    <3>3. d = 0 => \A p \in 1..(k + 1) : list[p] \notin batch
      BY <2>3, <2>4, <2>6
    <3>4. Nearing(list, n, batch, arr, k + 1, d)
      BY <2>6, <3>2, <3>3 DEF Nearing
    <3>5. s.len \in 0..n /\ n - s.len = d
      BY <2>1
    <3> QED BY <2>2, <3>1, <3>4, <3>5 DEF Fails
  <2>7. CASE k + 1 <= n - d /\ arr[k + 1] \in batch
    <3>1. PICK new : new = Shifted(arr, n, k + 1, n - d)
      OBVIOUS
    <3>2. SliceStep(n, batch, s, k + 1) = [ok |-> TRUE, len |-> (n - d) - 1, arr |-> new]
      <4>1. ~ (k + 1 > n - d)
        BY <2>7
      <4> QED BY <1>2, <2>1, <2>2, <2>7, <3>1, <4>1 DEF SliceStep
    <3>3. Ahead(list, n, new, k + 1, d + 1)
      BY <2>3, <2>7, <3>1, AheadShifts
    <3>4. k + 1 = n - d => d > 0
      <4>1. PICK m \in 1..(n - 1) : list[m] \in batch
        OBVIOUS
      <4> QED BY <2>3, <4>1
    <3>5. PICK len : len = (n - d) - 1
      OBVIOUS
    <3>6. n - len = d + 1 /\ len \in 0..n /\ len < n
      BY <2>7, <3>5
    <3>7. k + 1 <= len + 1 /\ (k + 1 = len + 1 => len <= n - 2)
      BY <2>7, <3>4, <3>5
    <3>8. Nearing(list, n, batch, new, k + 1, d + 1)
      BY <3>3, <3>6, <3>7 DEF Nearing
    <3> QED BY <3>2, <3>5, <3>6, <3>8 DEF Fails
  <2> QED BY <2>5, <2>6, <2>7
<1> QED
  BY <1>1, <1>2

LEMMA RemovalFails ==
    ASSUME NEW S, NEW n \in Nat, NEW list \in [1..n -> S], NEW batch,
           n > 0, list[n] \in batch, \E m \in 1..(n - 1) : list[m] \in batch
    PROVE  Removal(list, batch) = [ok |-> FALSE, users |-> {}]
<1> DEFINE g == SliceLoop(list, batch)
<1>1. /\ Len(list) = n /\ g[0] = SliceStart(list)
      /\ \A k \in 1..n : g[k] = SliceStep(n, batch, g[k - 1], k)
      /\ \A k \in 0..n : g[k] \in SliceStates(n, S)
  BY SliceRuns
<1>2. PICK s : s = g[n]
  OBVIOUS
<1>3. s \in SliceStates(n, S)
  BY <1>1, <1>2
<1>4. Removal(list, batch) = IF s.ok THEN [ok |-> TRUE, users |-> {s.arr[i] : i \in 1..s.len}]
                             ELSE [ok |-> FALSE, users |-> {}]
  BY <1>2, <1>3, RemovalOfEnd
<1> HIDE DEF g
<1> DEFINE Good == {k \in Nat : k <= n => Fails(list, n, batch, g[k], k)}
<1>5. 0 \in Good
  <2>1. Ahead(list, n, list, 0, 0) /\ n - n = 0
    BY DEF Ahead
  <2>2. Fails(list, n, batch, g[0], 0)
    BY <1>1, <2>1 DEF Fails, Nearing, SliceStart
  <2> QED BY <2>2
<1>6. ASSUME NEW k \in Nat, k \in Good PROVE k + 1 \in Good
  <2> SUFFICES ASSUME k + 1 <= n PROVE Fails(list, n, batch, g[k + 1], k + 1)
    OBVIOUS
  <2>1. k \in 0..(n - 1) /\ k + 1 \in 1..n /\ (k + 1) - 1 = k /\ Fails(list, n, batch, g[k], k)
    BY <1>6
  <2>0. g[k] \in SliceStates(n, S)
    BY <1>1
  <2>2. g[k + 1] = SliceStep(n, batch, g[k], k + 1)
    BY <1>1, <2>1
  <2> HIDE DEF Good
  <2> QED BY <2>0, <2>1, <2>2, FailsStep
<1>7. \A k \in Nat : k \in Good
  <2> HIDE DEF Good
  <2> QED BY <1>5, <1>6, Induction
<1>8. Fails(list, n, batch, s, n)
  BY <1>2, <1>7
<1>9. ~ s.ok
  <2> SUFFICES ASSUME s.ok PROVE FALSE
    OBVIOUS
  <2>1. PICK d \in 0..n : d = n - s.len /\ Nearing(list, n, batch, s.arr, n, d)
    BY <1>8 DEF Fails
  <2>2. d = 0
    BY <2>1 DEF Nearing
  <2> QED BY <2>1, <2>2 DEF Nearing
<1> QED
  BY <1>4, <1>9

(* A list of n that has each element of S once. *)
Ordered(list, n, S) ==
    /\ list \in [1..n -> S]
    /\ \A i, j \in 1..n : list[i] = list[j] => i = j
    /\ \A x \in S : \E i \in 1..n : list[i] = x

(* What RemoveFromSlice does to a list of n: it fails if the last element and another one
   are in the batch, and else takes out those on the chain. *)
Result(list, n, batch, R) ==
    IF n > 0 /\ list[n] \in batch /\ \E m \in 1..(n - 1) : list[m] \in batch
    THEN [ok |-> FALSE, users |-> {}] ELSE [ok |-> TRUE, users |-> Spared(list, n, R)]

LEMMA RemovalIs ==
    ASSUME NEW S, NEW n \in Nat, NEW list, Ordered(list, n, S), NEW batch, NEW R, Chain(list, n, batch, R)
    PROVE  Removal(list, batch) = Result(list, n, batch, R)
<1>0. list \in [1..n -> S]
  BY DEF Ordered
<1> USE DEF Result
<1>1. CASE n > 0 /\ list[n] \in batch /\ \E m \in 1..(n - 1) : list[m] \in batch
  BY <1>0, <1>1, RemovalFails
<1>2. CASE n > 0 /\ list[n] \in batch /\ ~ (\E m \in 1..(n - 1) : list[m] \in batch)
  BY <1>0, <1>2, RemovalOfLast
<1>3. CASE n = 0 \/ list[n] \notin batch
  <2>1. PICK f \in [1..n -> S] : f = list
    BY <1>0
  <2>2. Chain(f, n, batch, R) /\ (n = 0 \/ f[n] \notin batch)
    BY <1>3, <2>1
  <2>3. Removal(f, batch) = [ok |-> TRUE, users |-> Spared(f, n, R)]
    BY <2>2, RemovalSkips
  <2>4. ~ (n > 0 /\ list[n] \in batch)
    BY <1>3
  <2> QED BY <2>1, <2>3, <2>4
<1> QED
  BY <1>1, <1>2, <1>3

-----------------------------------------------------------------------------
(* An injection keeps the size of a set of positions. *)
LEMMA ImageCount ==
    ASSUME NEW P, IsFiniteSet(P), NEW f, \A p, q \in P : f[p] = f[q] => p = q
    PROVE  /\ IsFiniteSet({f[p] : p \in P}) /\ Cardinality({f[p] : p \in P}) = Cardinality(P)
           /\ Cardinality(P) \in Nat
<1> DEFINE T == {f[p] : p \in P}
           g == [p \in P |-> f[p]]
<1>1. g \in Bijection(P, T)
  <2>1. g \in [P -> T] /\ (\A p, q \in P : g[p] = g[q] => p = q) /\ \A t \in T : \E p \in P : g[p] = t
    OBVIOUS
  <2> HIDE DEF g, T
  <2> QED BY <2>1, Fun_IsBij
<1>2. ExistsBijection(P, T)
  BY <1>1 DEF ExistsBijection
<1> HIDE DEF T
<1>3. IsFiniteSet(T) /\ Cardinality(T) = Cardinality(P)
  BY <1>2, FS_Bijection
<1> QED
  BY <1>3, FS_CardinalityType DEF T

LEMMA PartCount ==
    ASSUME NEW T, IsFiniteSet(T), NEW P, P \subseteq T
    PROVE  /\ IsFiniteSet(P) /\ IsFiniteSet(T \ P)
           /\ Cardinality(P) \in Nat /\ Cardinality(T) \in Nat /\ Cardinality(T \ P) \in Nat
           /\ Cardinality(T) = Cardinality(P) + Cardinality(T \ P)
<1>1. T \cap P = P
  OBVIOUS
<1>2. IsFiniteSet(P) /\ IsFiniteSet(T \ P)
  BY FS_Subset
<1>3. Cardinality(P) \in Nat /\ Cardinality(T) \in Nat /\ Cardinality(T \ P) \in Nat
  BY <1>2, FS_CardinalityType
<1>4. Cardinality(T \ P) = Cardinality(T) - Cardinality(P)
  BY <1>1, FS_Difference
<1> QED
  BY <1>2, <1>3, <1>4

(* H are the positions of the batch in a list that does not end with one of them, R those
   on the chain. Every other one of the batch follows one on the chain, and every one on
   the chain that none follows is followed by one that is not of the batch. *)
LEMMA ChainCount ==
    ASSUME NEW n \in Nat, NEW H, NEW R, H \subseteq 1..n, R \subseteq H, n > 0, n \notin H,
           \A p \in H : p \in R <=> p - 1 \notin R
    PROVE  /\ 2 * Cardinality(H \ R) <= Cardinality(H)
           /\ Cardinality((1..n) \ H) >= 1
           /\ Cardinality((1..n) \ H) >= Cardinality(H) - 2 * Cardinality(H \ R)
<1> DEFINE K == H \ R
           N == (1..n) \ H
           back == [p \in Int |-> p - 1]
           forth == [p \in Int |-> p + 1]
           before == {back[p] : p \in K}
           alone == R \ before
           after == {forth[p] : p \in alone}
<1>1. IsFiniteSet(1..n)
  BY FS_Interval
<1>2. /\ IsFiniteSet(H) /\ IsFiniteSet(N)
      /\ Cardinality(H) \in Nat /\ Cardinality(N) \in Nat
  BY <1>1, PartCount
<1>3. /\ IsFiniteSet(R) /\ IsFiniteSet(K) /\ Cardinality(R) \in Nat /\ Cardinality(K) \in Nat
      /\ Cardinality(H) = Cardinality(R) + Cardinality(K)
  BY <1>2, PartCount
<1>4. before \subseteq R
  OBVIOUS
<1>5. Cardinality(before) = Cardinality(K)
  <2>1. \A p, q \in K : back[p] = back[q] => p = q
    OBVIOUS
  <2> HIDE DEF back, K
  <2> QED BY <1>3, <2>1, ImageCount
<1>6. /\ IsFiniteSet(alone) /\ Cardinality(alone) \in Nat
      /\ Cardinality(R) = Cardinality(K) + Cardinality(alone)
  <2> HIDE DEF before, K
  <2> QED BY <1>3, <1>4, <1>5, PartCount
<1>7. after \subseteq N
  <2> SUFFICES ASSUME NEW p \in alone PROVE p + 1 \in N
    OBVIOUS
  <2>1. p \in R /\ p \in 1..n /\ p # n
    OBVIOUS
  <2>2. p + 1 \in 1..n
    BY <2>1
  <2>3. p + 1 \notin H
    <3> SUFFICES ASSUME p + 1 \in H PROVE FALSE
      OBVIOUS
    <3>1. (p + 1) - 1 = p
      BY <2>1
    <3>2. p + 1 \in K
      BY <2>1, <3>1
    <3>3. p \in before
      BY <2>1, <3>1, <3>2
    <3> QED BY <3>3
  <2> QED BY <2>2, <2>3
<1>8. Cardinality(after) = Cardinality(alone)
  <2>1. \A p, q \in alone : forth[p] = forth[q] => p = q
    OBVIOUS
  <2> HIDE DEF forth, alone
  <2> QED BY <1>6, <2>1, ImageCount
<1>9. Cardinality(after) <= Cardinality(N)
  <2> HIDE DEF after, N
  <2> QED BY <1>2, <1>7, FS_Subset
<1>10. n \in N
  OBVIOUS
<1>11. Cardinality(N) # 0
  <2> HIDE DEF N
  <2> QED BY <1>2, <1>10, FS_EmptySet
<1> HIDE DEF K, N, alone, before, after
<1>12. Cardinality(K) <= Cardinality(R)
  BY <1>3, <1>6
<1>13. 2 * Cardinality(K) <= Cardinality(H)
  BY <1>3, <1>12
<1>14. Cardinality(N) >= 1
  BY <1>2, <1>11
<1>15. Cardinality(N) >= Cardinality(H) - 2 * Cardinality(K)
  BY <1>2, <1>3, <1>6, <1>8, <1>9
<1> QED
  BY <1>13, <1>14, <1>15 DEF K, N

(* That is what SetToSeqs(S) holds. *)
LEMMA OrderFacts ==
    ASSUME NEW S, IsFiniteSet(S), NEW list, list \in SetToSeqs(S), NEW n, n = Cardinality(S)
    PROVE  n \in Nat /\ Ordered(list, n, S)
<1>1. n \in Nat
  BY FS_CardinalityType
<1>2. list \in [1..n -> S] /\ \A i, j \in 1..n : list[i] = list[j] => i = j
  BY <1>1 DEF SetToSeqs
<1>3. list \in Injection(1..n, S)
  BY <1>2, Fun_IsInj
<1>4. Cardinality(1..n) = Cardinality(S)
  BY <1>1, FS_Interval
<1>5. list \in Surjection(1..n, S)
  BY <1>3, <1>4, FS_Injection
<1>6. \A x \in S : \E i \in 1..n : list[i] = x
  BY <1>5 DEF Surjection
<1> QED
  BY <1>1, <1>2, <1>6 DEF Ordered

Onto(f, k, T) == f \in [1..k -> T] /\ \A x \in T : \E i \in 1..k : f[i] = x

LEMMA OrderIs ==
    ASSUME NEW S, IsFiniteSet(S), NEW n, n = Cardinality(S), NEW list, Onto(list, n, S)
    PROVE  list \in SetToSeqs(S)
<1> USE DEF Onto
<1>1. n \in Nat
  BY FS_CardinalityType
<1>2. list \in Surjection(1..n, S)
  BY Fun_IsSurj
<1>3. Cardinality(1..n) = Cardinality(S) /\ IsFiniteSet(1..n)
  BY <1>1, FS_Interval
<1>4. list \in Injection(1..n, S)
  BY <1>2, <1>3, FS_SurjSameCardinalityImpliesInj
<1>5. \A i, j \in 1..n : list[i] = list[j] => i = j
  BY <1>4 DEF Injection, IsInjective
<1> QED
  BY <1>5 DEF SetToSeqs

LEMMA OrderExists ==
    ASSUME NEW S, IsFiniteSet(S)
    PROVE  \E list : Onto(list, Cardinality(S), S)
<1>1. PICK f : f \in Bijection(1..Cardinality(S), S)
  BY FS_CardinalityType DEF ExistsBijection
<1>2. Onto(f, Cardinality(S), S)
  BY <1>1 DEF Bijection, Surjection, Onto
<1> QED
  BY <1>2

LEMMA TwoOf ==
    ASSUME NEW T, IsFiniteSet(T), NEW x \in T
    PROVE  Cardinality(T) > 1 <=> \E y \in T : y # x
<1>1. Cardinality(T) \in Nat /\ IsFiniteSet(T \ {x}) /\ Cardinality(T \ {x}) \in Nat
      /\ Cardinality(T \ {x}) = Cardinality(T) - 1
  BY FS_CardinalityType, FS_RemoveElement
<1>2. Cardinality(T \ {x}) = 0 <=> T \ {x} = {}
  BY <1>1, FS_EmptySet
<1>3. Cardinality(T) > 1 <=> T \ {x} # {}
  BY <1>1, <1>2
<1> QED
  BY <1>3

LEMMA MaxIs ==
    ASSUME NEW x \in Int
    PROVE  Max({1, x}) = IF x >= 1 THEN x ELSE 1
<1>1. Max({1, x}) \in {1, x} /\ \A y \in {1, x} : Max({1, x}) >= y
  <2>1. \E z \in {1, x} : \A y \in {1, x} : z >= y
    OBVIOUS
  <2> QED BY <2>1 DEF Max
<1> QED
  BY <1>1

LEMMA RemovableIs ==
    ASSUME NEW S, IsFiniteSet(S), NEW hits, hits \subseteq S, NEW gone, gone \subseteq hits
    PROVE  Removable(S, hits, gone) <=>
               /\ 2 * Cardinality(hits \ gone) <= Cardinality(hits)
               /\ Cardinality(S \ hits) >= 1
               /\ Cardinality(S \ hits) >= Cardinality(hits) - 2 * Cardinality(hits \ gone)
<1>1. /\ IsFiniteSet(hits) /\ Cardinality(hits) \in Nat /\ Cardinality(S \ hits) \in Nat
  BY PartCount
<1>2. Cardinality(hits \ gone) \in Nat
  BY <1>1, PartCount
<1>3. PICK x \in Int : x = Cardinality(hits) - 2 * Cardinality(hits \ gone)
  BY <1>1, <1>2
<1>4. Max({1, x}) = IF x >= 1 THEN x ELSE 1
  BY MaxIs
<1>5. Cardinality(S \ hits) >= Max({1, x}) <=> Cardinality(S \ hits) >= 1 /\ Cardinality(S \ hits) >= x
  BY <1>1, <1>4
<1> QED
  BY <1>3, <1>5 DEF Removable

(* The positions of a list, by what they hold. *)
At(list, P) == {list[p] : p \in P}

Hits(list, n, batch) == {p \in 1..n : list[p] \in batch}

Placed(list, n, S, batch, R, H) ==
    /\ R \subseteq H /\ H \subseteq 1..n /\ \A p \in H : p \in R <=> p - 1 \notin R
    /\ S \cap batch = At(list, H)
    /\ At(list, H) \ At(list, R) = At(list, H \ R)
    /\ S \ At(list, H) = At(list, (1..n) \ H)
    /\ Spared(list, n, R) = S \ At(list, R)

LEMMA Positions ==
    ASSUME NEW S, NEW n \in Nat, NEW list, Ordered(list, n, S), NEW batch, NEW R, Chain(list, n, batch, R)
    PROVE  Placed(list, n, S, batch, R, Hits(list, n, batch))
<1> DEFINE H == Hits(list, n, batch)
<1> USE DEF Ordered, At, Hits
<1>1. R \subseteq H /\ H \subseteq 1..n /\ \A p \in H : p \in R <=> p - 1 \notin R
  BY DEF Chain
<1>2. \A p \in 1..n : list[p] \in S
  OBVIOUS
<1>3. ASSUME NEW P, P \subseteq 1..n, NEW Q, Q \subseteq P
      PROVE  At(list, P) \ At(list, Q) = At(list, P \ Q)
  BY <1>3
<1>4. S = At(list, 1..n)
  BY <1>2
<1>5. S \cap batch = At(list, H)
  BY <1>4
<1>6. S \ At(list, R) = {list[p] : p \in (1..n) \ R}
  BY <1>1, <1>3, <1>4
<1>7. S \ At(list, H) = At(list, (1..n) \ H)
  BY <1>1, <1>3, <1>4
<1>8. At(list, H) \ At(list, R) = At(list, H \ R)
  BY <1>1, <1>3
<1> QED
  BY <1>1, <1>5, <1>6, <1>7, <1>8 DEF Spared, Placed

(* Whatever the order of the list, RemoveOutcomes knows what comes of it. *)
LEMMA RemovalSound ==
    ASSUME NEW S, IsFiniteSet(S), NEW batch, NEW list, list \in SetToSeqs(S)
    PROVE  Removal(list, batch) \in RemoveOutcomes(S, batch)
<1>1. PICK n : n = Cardinality(S)
  OBVIOUS
<1>0. n \in Nat /\ Ordered(list, n, S)
  BY <1>1, OrderFacts
<1>2. /\ n \in Nat /\ list \in [1..n -> S]
      /\ \A i, j \in 1..n : list[i] = list[j] => i = j
  BY <1>0 DEF Ordered
<1>3. PICK R : Chain(list, n, batch, R)
  BY <1>2, ChainExists
<1>4. PICK H : H = Hits(list, n, batch)
  OBVIOUS
<1>5. PICK hits : hits = S \cap batch
  OBVIOUS
<1>6. PICK gone : gone = At(list, R)
  OBVIOUS
<1>7. /\ R \subseteq H /\ H \subseteq 1..n /\ \A p \in H : p \in R <=> p - 1 \notin R
      /\ hits = At(list, H) /\ hits \ gone = At(list, H \ R)
      /\ S \ hits = At(list, (1..n) \ H)
      /\ Spared(list, n, R) = S \ gone
  <2>1. Placed(list, n, S, batch, R, H)
    BY <1>0, <1>3, <1>4, Positions
  <2> QED BY <1>5, <1>6, <2>1 DEF Placed
<1>8. gone \subseteq hits /\ hits \subseteq S /\ IsFiniteSet(hits)
  <2>1. gone \subseteq hits /\ hits \subseteq S
    BY <1>5, <1>6, <1>7 DEF At
  <2> QED BY <2>1, PartCount
<1> DEFINE last == n > 0 /\ list[n] \in batch
           other == \E m \in 1..(n - 1) : list[m] \in batch
<1>9. Removal(list, batch) = IF last /\ other THEN [ok |-> FALSE, users |-> {}]
                             ELSE [ok |-> TRUE, users |-> S \ gone]
  <2>1. Removal(list, batch) = Result(list, n, batch, R)
    BY <1>0, <1>3, RemovalIs
  <2>2. Removal(list, batch) = IF last /\ other THEN [ok |-> FALSE, users |-> {}]
                               ELSE [ok |-> TRUE, users |-> Spared(list, n, R)]
    BY <2>1, Zenon DEF Result
  <2>3. Spared(list, n, R) = S \ gone
    BY <1>7
  <2> QED BY <2>2, <2>3
<1>10. RemoveOutcomes(S, batch) =
           IF Cardinality(hits) <= 1 THEN {[ok |-> TRUE, users |-> S \ batch]}
           ELSE {[ok |-> FALSE, users |-> {}]} \cup
                {[ok |-> TRUE, users |-> S \ D] : D \in {D \in SUBSET hits : Removable(S, hits, D)}}
  BY <1>5, Zenon DEF RemoveOutcomes
<1>11. Cardinality(hits) \in Nat
  BY <1>8, FS_CardinalityType
<1>12. last => (other <=> Cardinality(hits) > 1)
  <2> SUFFICES ASSUME last PROVE other <=> Cardinality(hits) > 1
    OBVIOUS
  <2>1. PICK x \in hits : x = list[n]
    BY <1>2, <1>4, <1>7 DEF At, Hits
  <2>2. Cardinality(hits) > 1 <=> \E y \in hits : y # x
    BY <1>8, TwoOf
  <2>3. ASSUME NEW m \in 1..(n - 1), list[m] \in batch PROVE \E y \in hits : y # x
    <3>1. m \in H /\ list[m] # x
      BY <1>2, <1>4, <2>1, <2>3 DEF Hits
    <3> QED BY <1>7, <3>1 DEF At
  <2>4. ASSUME NEW y \in hits, y # x PROVE other
    <3>1. PICK m \in H : list[m] = y
      BY <1>7 DEF At
    <3>2. m \in 1..(n - 1) /\ list[m] \in batch
      BY <1>2, <1>4, <2>1, <2>4, <3>1 DEF Hits
    <3> QED BY <3>2
  <2> QED BY <2>2, <2>3, <2>4
<1>13. CASE last /\ other
  <2>1. ~ (Cardinality(hits) <= 1)
    BY <1>11, <1>12, <1>13
  <2> QED BY <1>9, <1>10, <1>13, <2>1
<1>14. CASE Cardinality(hits) <= 1
  <2>1. ~ (last /\ other)
    BY <1>11, <1>12, <1>14
  <2>2. hits \ gone = {}
    <3> SUFFICES ASSUME NEW p \in H \ R PROVE FALSE
      BY <1>7 DEF At
    <3>1. p - 1 \in H /\ p \in H /\ p # p - 1 /\ p \in 1..n /\ p - 1 \in 1..n
      BY <1>7
    <3>2. list[p] \in hits /\ list[p - 1] \in hits /\ list[p - 1] # list[p]
      BY <1>2, <1>7, <3>1 DEF At
    <3>3. Cardinality(hits) > 1
      BY <1>8, <3>2, TwoOf
    <3> QED BY <1>11, <1>14, <3>3
  <2>3. S \ gone = S \ batch
    BY <1>5, <1>8, <2>2
  <2> QED BY <1>9, <1>10, <1>14, <2>1, <2>3
<1>15. CASE ~ (Cardinality(hits) <= 1) /\ ~ (last /\ other)
  <2>1. ~ last
    BY <1>11, <1>12, <1>15
  <2>2. n > 0 /\ n \notin H
    <3>1. hits # {}
      BY <1>8, <1>15, FS_EmptySet
    <3>2. n > 0
      BY <1>2, <1>7, <3>1 DEF At
    <3> QED BY <1>4, <2>1, <3>2 DEF Hits
  <2>3. /\ 2 * Cardinality(H \ R) <= Cardinality(H)
        /\ Cardinality((1..n) \ H) >= 1
        /\ Cardinality((1..n) \ H) >= Cardinality(H) - 2 * Cardinality(H \ R)
    BY <1>2, <1>7, <2>2, ChainCount
  <2>4. ASSUME NEW P, P \subseteq 1..n PROVE Cardinality(At(list, P)) = Cardinality(P)
    <3>1. IsFiniteSet(P)
      <4>1. IsFiniteSet(1..n) /\ P \in SUBSET (1..n)
        BY <1>2, <2>4, FS_Interval
      <4> QED BY <4>1, FS_Subset
    <3>2. \A p, q \in P : list[p] = list[q] => p = q
      BY <1>2, <2>4
    <3> QED BY <3>1, <3>2, ImageCount DEF At
  <2>5. /\ Cardinality(hits) = Cardinality(H) /\ Cardinality(hits \ gone) = Cardinality(H \ R)
        /\ Cardinality(S \ hits) = Cardinality((1..n) \ H)
    <3>1. H \ R \subseteq 1..n /\ (1..n) \ H \subseteq 1..n
      BY <1>7
    <3> QED BY <1>7, <2>4, <3>1
  <2>6. Removable(S, hits, gone)
    BY <1>8, <2>3, <2>5, RemovableIs
  <2> QED BY <1>8, <1>9, <1>10, <1>15, <2>6
<1> QED
  BY <1>13, <1>14, <1>15

LEMMA Halves ==
    /\ \A j \in Int : (2 * j) % 2 = 0 /\ (2 * j) \div 2 = j
    /\ \A j \in Int : (2 * j - 1) % 2 = 1 /\ ((2 * j - 1) + 1) \div 2 = j
    /\ \A p \in Int : \E j \in Int : p = 2 * j \/ p = 2 * j - 1
<1>1. ASSUME NEW j \in Int PROVE (2 * j) % 2 = 0 /\ (2 * j) \div 2 = j
  OBVIOUS
<1>2. ASSUME NEW j \in Int PROVE (2 * j - 1) % 2 = 1 /\ ((2 * j - 1) + 1) \div 2 = j
  OBVIOUS
<1>3. ASSUME NEW p \in Int PROVE \E j \in Int : p = 2 * j \/ p = 2 * j - 1
  <2>1. p = 2 * (p \div 2) \/ p = 2 * (p \div 2) + 1
    OBVIOUS
  <2>2. p \div 2 \in Int
    OBVIOUS
  <2>3. PICK h \in Int : p = 2 * h \/ p = 2 * h + 1
    BY <2>1, <2>2
  <2>4. h + 1 \in Int /\ 2 * (h + 1) - 1 = 2 * h + 1
    OBVIOUS
  <2> QED BY <2>3, <2>4
<1> QED
  BY <1>1, <1>2, <1>3

(* An order of a elements to delete, s to skip and m others: one to delete in every odd
   place up to 2 * a; behind them, those to skip, and others when these have run out; and
   the rest of the others at the end. *)
Woven(dd, kk, nn, a, s, m) ==
    [p \in 1..(a + s + m) |->
        IF p > 2 * a THEN nn[p - a - s]
        ELSE IF p % 2 = 1 THEN dd[(p + 1) \div 2]
        ELSE IF p \div 2 <= s THEN kk[p \div 2]
        ELSE nn[p \div 2 - s]]

LEMMA WovenIs ==
    ASSUME NEW a \in Nat, NEW s \in Nat, NEW m \in Nat, s <= a, a <= s + m,
           NEW dd, NEW kk, NEW nn, NEW w, w = Woven(dd, kk, nn, a, s, m)
    PROVE  /\ \A j \in 1..a : 2 * j - 1 \in 1..(a + s + m) /\ w[2 * j - 1] = dd[j]
           /\ \A j \in 1..s : 2 * j \in 1..(a + s + m) /\ w[2 * j] = kk[j]
           /\ \A j \in 1..(a - s) : 2 * (j + s) \in 1..(a + s + m) /\ w[2 * (j + s)] = nn[j]
           /\ \A j \in (a - s + 1)..m : j + a + s \in 1..(a + s + m) /\ w[j + a + s] = nn[j]
<1>1. ASSUME NEW j \in 1..a PROVE 2 * j - 1 \in 1..(a + s + m) /\ w[2 * j - 1] = dd[j]
  <2>1. PICK p \in 1..(a + s + m) : p = 2 * j - 1
    OBVIOUS
  <2>2. p % 2 = 1 /\ (p + 1) \div 2 = j /\ ~ (p > 2 * a)
    BY <2>1, Halves
  <2>3. w[p] = dd[(p + 1) \div 2]
    BY <2>2 DEF Woven
  <2> QED BY <2>1, <2>2, <2>3
<1>2. ASSUME NEW j \in 1..a PROVE 2 * j \in 1..(a + s + m) /\ w[2 * j] = IF j <= s THEN kk[j] ELSE nn[j - s]
  <2>1. PICK p \in 1..(a + s + m) : p = 2 * j
    OBVIOUS
  <2>2. p % 2 = 0 /\ p \div 2 = j /\ ~ (p > 2 * a)
    BY <2>1, Halves
  <2>3. w[p] = IF p \div 2 <= s THEN kk[p \div 2] ELSE nn[p \div 2 - s]
    BY <2>2 DEF Woven
  <2> QED BY <2>1, <2>2, <2>3
<1>3. ASSUME NEW j \in (a - s + 1)..m PROVE j + a + s \in 1..(a + s + m) /\ w[j + a + s] = nn[j]
  <2>1. PICK p \in 1..(a + s + m) : p = j + a + s
    OBVIOUS
  <2>2. p > 2 * a /\ p - a - s = j
    BY <2>1
  <2>3. w[p] = nn[p - a - s]
    BY <2>2 DEF Woven
  <2> QED BY <2>1, <2>2, <2>3
<1>4. ASSUME NEW j \in 1..(a - s) PROVE 2 * (j + s) \in 1..(a + s + m) /\ w[2 * (j + s)] = nn[j]
  <2>1. PICK i \in 1..a : i = j + s
    OBVIOUS
  <2>2. ~ (i <= s) /\ i - s = j
    BY <2>1
  <2>3. w[2 * i] = nn[j]
    BY <1>2, <2>2
  <2> QED BY <1>2, <2>1, <2>3
<1>5. \A j \in 1..s : j \in 1..a
  OBVIOUS
<1> QED
  BY <1>1, <1>2, <1>3, <1>4, <1>5

(* Every place of the woven list is one of those. *)
Place(p, a, s, m) ==
    \/ \E j \in 1..a : p = 2 * j - 1
    \/ \E j \in 1..s : p = 2 * j
    \/ \E j \in 1..(a - s) : p = 2 * (j + s)
    \/ \E j \in (a - s + 1)..m : p = j + a + s

LEMMA WovenPlaces ==
    ASSUME NEW a \in Nat, NEW s \in Nat, NEW m \in Nat, s <= a, a <= s + m, NEW p \in 1..(a + s + m)
    PROVE  Place(p, a, s, m)
<1> USE DEF Place
<1>1. CASE p > 2 * a
  <2>1. p - a - s \in (a - s + 1)..m /\ p = (p - a - s) + a + s
    BY <1>1
  <2> QED BY <2>1
<1>2. CASE p <= 2 * a
  <2>1. PICK j \in Int : p = 2 * j \/ p = 2 * j - 1
    BY Halves
  <2>2. j \in 1..a
    BY <1>2, <2>1
  <2>3. CASE p = 2 * j /\ j > s
    <3>1. j - s \in 1..(a - s) /\ p = 2 * ((j - s) + s)
      BY <2>2, <2>3
    <3> QED BY <3>1
  <2>4. CASE p = 2 * j /\ j <= s
    BY <2>2, <2>4
  <2> QED BY <2>1, <2>2, <2>3, <2>4
<1> QED
  BY <1>1, <1>2

Odds(a) == {2 * j - 1 : j \in 1..a}

(* The loop deletes D from a woven list, skips K and leaves N alone. *)
Parts(S, batch, D, K, N) ==
    S = D \cup K \cup N /\ D \subseteq batch /\ K \subseteq batch /\ N \cap batch = {}

Deletes(w, n, S, batch, R, D) ==
    Onto(w, n, S) /\ Chain(w, n, batch, R) /\ At(w, R) = D /\ w[n] \notin batch

LEMMA WovenWorks ==
    ASSUME NEW S, NEW D, NEW K, NEW N, NEW batch, Parts(S, batch, D, K, N),
           NEW a \in Nat, NEW s \in Nat, NEW m \in Nat, s <= a, a <= s + m, m >= 1,
           NEW dd, Onto(dd, a, D), NEW kk, Onto(kk, s, K), NEW nn, Onto(nn, m, N)
    PROVE  Deletes(Woven(dd, kk, nn, a, s, m), a + s + m, S, batch, Odds(a), D)
<1>0. PICK w : w = Woven(dd, kk, nn, a, s, m)
  OBVIOUS
<1> USE DEF Parts
<1> DEFINE n == a + s + m
<1>1. /\ \A j \in 1..a : 2 * j - 1 \in 1..n /\ w[2 * j - 1] = dd[j]
      /\ \A j \in 1..s : 2 * j \in 1..n /\ w[2 * j] = kk[j]
      /\ \A j \in 1..(a - s) : 2 * (j + s) \in 1..n /\ w[2 * (j + s)] = nn[j]
      /\ \A j \in (a - s + 1)..m : j + a + s \in 1..n /\ w[j + a + s] = nn[j]
  BY <1>0, WovenIs
<1>2. /\ \A j \in 1..a : dd[j] \in D
      /\ \A j \in 1..s : kk[j] \in K
      /\ \A j \in 1..m : nn[j] \in N
  BY DEF Onto
<1>3. /\ \A j \in 1..(a - s) : j \in 1..m
      /\ \A j \in (a - s + 1)..m : j \in 1..m
      /\ \A j \in 1..m : j \in 1..(a - s) \/ j \in (a - s + 1)..m
  OBVIOUS
<1>4. ASSUME NEW p \in 1..n
      PROVE  /\ w[p] \in D \cup K \cup N
             /\ p \in Odds(a) => w[p] \in D
             /\ p \notin Odds(a) => w[p] \in N \/ (w[p] \in K /\ p - 1 \in Odds(a))
  <2>1. CASE \E j \in 1..a : p = 2 * j - 1
    BY <1>1, <1>2, <2>1 DEF Odds
  <2>2. CASE \E j \in 1..s : p = 2 * j
    <3>1. PICK j \in 1..s : p = 2 * j
      BY <2>2
    <3>2. w[p] \in K
      BY <1>1, <1>2, <3>1
    <3>3. p \notin Odds(a)
      BY <3>1 DEF Odds
    <3>4. p - 1 \in Odds(a)
      BY <3>1 DEF Odds
    <3> QED BY <3>2, <3>3, <3>4
  <2>3. CASE \E j \in 1..(a - s) : p = 2 * (j + s)
    <3>1. PICK j \in 1..(a - s) : p = 2 * (j + s)
      BY <2>3
    <3>2. w[p] \in N
      BY <1>1, <1>2, <1>3, <3>1
    <3>3. p \notin Odds(a)
      BY <3>1 DEF Odds
    <3> QED BY <3>2, <3>3
  <2>4. CASE \E j \in (a - s + 1)..m : p = j + a + s
    <3>1. PICK j \in (a - s + 1)..m : p = j + a + s
      BY <2>4
    <3>2. w[p] \in N
      BY <1>1, <1>2, <1>3, <3>1
    <3>3. p \notin Odds(a)
      BY <3>1 DEF Odds
    <3> QED BY <3>2, <3>3
  <2>5. \/ \E j \in 1..a : p = 2 * j - 1
        \/ \E j \in 1..s : p = 2 * j
        \/ \E j \in 1..(a - s) : p = 2 * (j + s)
        \/ \E j \in (a - s + 1)..m : p = j + a + s
    <3>1. Place(p, a, s, m)
      BY WovenPlaces
    <3> QED BY <3>1, Zenon DEF Place
  <2> QED BY <2>1, <2>2, <2>3, <2>4, <2>5, Zenon
<1>5. Odds(a) \subseteq 1..n
  BY <1>1 DEF Odds
<1>6. ASSUME NEW x \in D \cup K \cup N PROVE \E p \in 1..n : w[p] = x
  <2>1. CASE x \in D
    <3>1. PICK j \in 1..a : dd[j] = x
      BY <2>1 DEF Onto
    <3> QED BY <1>1, <3>1
  <2>2. CASE x \in K
    <3>1. PICK j \in 1..s : kk[j] = x
      BY <2>2 DEF Onto
    <3> QED BY <1>1, <3>1
  <2>3. CASE x \in N
    <3>1. PICK j \in 1..m : nn[j] = x
      BY <2>3 DEF Onto
    <3>2. CASE j \in 1..(a - s)
      BY <1>1, <3>1, <3>2
    <3>3. CASE j \in (a - s + 1)..m
      BY <1>1, <3>1, <3>3
    <3> QED BY <1>3, <3>2, <3>3
  <2> QED BY <2>1, <2>2, <2>3
<1>7. Onto(w, n, D \cup K \cup N)
  <2>1. w = [p \in 1..n |-> w[p]]
    BY <1>0 DEF Woven
  <2>2. w \in [1..n -> D \cup K \cup N]
    BY <1>4, <2>1
  <2> QED BY <1>6, <2>2 DEF Onto
<1>8. ASSUME NEW p \in 1..n PROVE p \in Odds(a) <=> w[p] \in batch /\ p - 1 \notin Odds(a)
  <2>1. p \in Odds(a) => p - 1 \notin Odds(a)
    BY DEF Odds
  <2> QED BY <1>4, <2>1
<1>9. Chain(w, n, batch, Odds(a))
  BY <1>5, <1>8 DEF Chain
<1>10. At(w, Odds(a)) = D
  <2>1. ASSUME NEW x \in D PROVE x \in At(w, Odds(a))
    <3>1. PICK j \in 1..a : dd[j] = x
      BY DEF Onto
    <3>2. 2 * j - 1 \in Odds(a) /\ w[2 * j - 1] = x
      BY <1>1, <3>1 DEF Odds
    <3> QED BY <3>2 DEF At
  <2>2. At(w, Odds(a)) \subseteq D
    BY <1>4, <1>5 DEF At
  <2> QED BY <2>1, <2>2
<1>11. w[n] \notin batch
  <2>1. CASE m \in (a - s + 1)..m
    <3>1. n = m + a + s
      OBVIOUS
    <3>2. w[n] = nn[m] /\ m \in 1..m
      BY <1>1, <2>1, <3>1
    <3> QED BY <1>2, <3>2
  <2>2. CASE m = a - s
    <3>1. m \in 1..(a - s) /\ n = 2 * (m + s) /\ m \in 1..m
      BY <2>2
    <3>2. w[n] = nn[m]
      BY <1>1, <3>1
    <3> QED BY <1>2, <3>1, <3>2
  <2>3. m \in (a - s + 1)..m \/ m = a - s
    OBVIOUS
  <2> QED BY <2>1, <2>2, <2>3
<1> QED
  BY <1>0, <1>7, <1>9, <1>10, <1>11 DEF Deletes

(* There is an order of the list on which the loop deletes just the given part of the batch. *)
LEMMA DeletionReached ==
    ASSUME NEW S, IsFiniteSet(S), NEW batch, NEW hits, hits = S \cap batch,
           NEW D, D \subseteq hits, Removable(S, hits, D)
    PROVE  \E list \in SetToSeqs(S) : Removal(list, batch) = [ok |-> TRUE, users |-> S \ D]
<1> DEFINE K == hits \ D
           N == S \ hits
           a == Cardinality(D)
           s == Cardinality(K)
           m == Cardinality(N)
           n == Cardinality(S)
<1>1. hits \subseteq S /\ S = D \cup K \cup N /\ D \subseteq batch /\ K \subseteq batch /\ N \cap batch = {}
  OBVIOUS
<1>2. /\ IsFiniteSet(hits) /\ IsFiniteSet(N)
      /\ Cardinality(hits) \in Nat /\ m \in Nat /\ n \in Nat /\ n = Cardinality(hits) + m
  BY <1>1, PartCount
<1>3. /\ IsFiniteSet(D) /\ IsFiniteSet(K)
      /\ a \in Nat /\ s \in Nat /\ Cardinality(hits) = a + s
  BY <1>2, PartCount
<1>4. 2 * s <= Cardinality(hits) /\ m >= 1 /\ m >= Cardinality(hits) - 2 * s
  BY <1>1, RemovableIs
<1>5. PICK dd, kk, nn : Onto(dd, a, D) /\ Onto(kk, s, K) /\ Onto(nn, m, N)
  <2> HIDE DEF K, N
  <2>1. PICK dd : Onto(dd, a, D)
    BY <1>3, OrderExists
  <2>2. PICK kk : Onto(kk, s, K)
    BY <1>3, OrderExists
  <2>3. PICK nn : Onto(nn, m, N)
    BY <1>2, OrderExists
  <2> QED BY <2>1, <2>2, <2>3
<1> HIDE DEF K, N, a, s, m, n
<1>6. s <= a /\ a <= s + m /\ n = a + s + m /\ n \in Nat /\ n > 0
  BY <1>2, <1>3, <1>4
<1>7. PICK w : w = Woven(dd, kk, nn, a, s, m)
  OBVIOUS
<1>8. Deletes(w, a + s + m, S, batch, Odds(a), D)
  <2>1. Parts(S, batch, D, K, N)
    BY <1>1 DEF Parts
  <2> QED BY <1>2, <1>3, <1>4, <1>5, <1>6, <1>7, <2>1, WovenWorks
<1>9. Onto(w, n, S) /\ Chain(w, n, batch, Odds(a)) /\ At(w, Odds(a)) = D /\ w[n] \notin batch
  BY <1>6, <1>8 DEF Deletes
<1>10. w \in SetToSeqs(S)
  BY <1>9, OrderIs DEF n
<1>11. Ordered(w, n, S)
  BY <1>10, OrderFacts DEF n
<1>12. Removal(w, batch) = Result(w, n, batch, Odds(a))
  BY <1>6, <1>9, <1>11, RemovalIs
<1>13. Placed(w, n, S, batch, Odds(a), Hits(w, n, batch))
  BY <1>6, <1>9, <1>11, Positions
<1>14. Spared(w, n, Odds(a)) = S \ D
  BY <1>9, <1>13 DEF Placed
<1>15. Removal(w, batch) = [ok |-> TRUE, users |-> S \ D]
  BY <1>9, <1>12, <1>14 DEF Result
<1> QED
  BY <1>10, <1>15

(* And one on which it fails, when the batch has two of the list. *)
LEMMA FailureReached ==
    ASSUME NEW S, IsFiniteSet(S), NEW batch, Cardinality(S \cap batch) > 1
    PROVE  \E list \in SetToSeqs(S) : Removal(list, batch) = [ok |-> FALSE, users |-> {}]
<1> DEFINE hits == S \cap batch
           n == Cardinality(S)
<1>1. IsFiniteSet(hits) /\ n \in Nat /\ hits \subseteq S
  BY PartCount
<1>2. hits # {}
  BY FS_EmptySet
<1>3. PICK x \in hits : TRUE
  BY <1>2
<1>4. PICK y \in hits : y # x
  <2> HIDE DEF hits
  <2>1. Cardinality(hits) > 1
    BY DEF hits
  <2> QED BY <1>1, <2>1, TwoOf
<1>5. PICK f : Onto(f, n, S)
  BY OrderExists
<1>6. f \in [1..n -> S] /\ \A z \in S : \E i \in 1..n : f[i] = z
  BY <1>5 DEF Onto
<1>7. PICK q \in 1..n : f[q] = x
  BY <1>6
<1> HIDE DEF n
<1> DEFINE w == [i \in 1..n |-> IF i = n THEN x ELSE IF i = q THEN f[n] ELSE f[i]]
<1>8. n \in 1..n /\ n > 0 /\ w[n] = x
  BY <1>1
<1>9. Onto(w, n, S)
  <2>1. w \in [1..n -> S]
    BY <1>6, <1>8
  <2>2. ASSUME NEW z \in S PROVE \E i \in 1..n : w[i] = z
    <3>1. PICK j \in 1..n : f[j] = z
      BY <1>6
    <3>2. CASE j = q
      BY <1>7, <1>8, <3>1, <3>2
    <3>3. CASE j # q /\ j = n
      <4>1. w[q] = f[n]
        BY <3>3
      <4> QED BY <3>1, <3>3, <4>1
    <3>4. CASE j # q /\ j # n
      <4>1. w[j] = f[j]
        BY <3>4
      <4> QED BY <3>1, <4>1
    <3> QED BY <3>2, <3>3, <3>4
  <2> QED BY <2>1, <2>2 DEF Onto
<1> HIDE DEF w
<1>10. w \in SetToSeqs(S)
  BY <1>9, OrderIs DEF n
<1>11. Ordered(w, n, S)
  BY <1>10, OrderFacts DEF n
<1>12. PICK R : Chain(w, n, batch, R)
  BY <1>1, ChainExists
<1>13. Removal(w, batch) = Result(w, n, batch, R)
  BY <1>1, <1>11, <1>12, RemovalIs
<1>14. \E i \in 1..(n - 1) : w[i] \in batch
  <2>1. PICK i \in 1..n : w[i] = y
    BY <1>9 DEF Onto
  <2>2. i # n
    BY <1>4, <1>8, <2>1
  <2>3. i \in 1..(n - 1)
    BY <1>1, <2>2
  <2> QED BY <2>1, <2>3
<1>15. Removal(w, batch) = [ok |-> FALSE, users |-> {}]
  BY <1>8, <1>13, <1>14 DEF Result
<1> QED
  BY <1>10, <1>15

LEMMA RemovalComplete ==
    ASSUME NEW S, IsFiniteSet(S), NEW batch, NEW out \in RemoveOutcomes(S, batch)
    PROVE  \E list \in SetToSeqs(S) : Removal(list, batch) = out
<1>1. PICK hits : hits = S \cap batch
  OBVIOUS
<1>2. RemoveOutcomes(S, batch) =
          IF Cardinality(hits) <= 1 THEN {[ok |-> TRUE, users |-> S \ batch]}
          ELSE {[ok |-> FALSE, users |-> {}]} \cup
               {[ok |-> TRUE, users |-> S \ D] : D \in {D \in SUBSET hits : Removable(S, hits, D)}}
  BY <1>1, Zenon DEF RemoveOutcomes
<1>3. Cardinality(hits) \in Nat
  <2>1. hits \subseteq S
    BY <1>1
  <2> QED BY <2>1, PartCount
<1>4. CASE Cardinality(hits) <= 1
  <2>1. PICK list : Onto(list, Cardinality(S), S)
    BY OrderExists
  <2>2. list \in SetToSeqs(S)
    BY <2>1, OrderIs
  <2>3. Removal(list, batch) \in RemoveOutcomes(S, batch)
    BY <2>2, RemovalSound
  <2>4. Removal(list, batch) = out
    <3>1. RemoveOutcomes(S, batch) = {[ok |-> TRUE, users |-> S \ batch]}
      BY <1>2, <1>4, Zenon
    <3>2. PICK x : RemoveOutcomes(S, batch) = {x}
      BY <3>1
    <3> QED BY <2>3, <3>2
  <2> QED BY <2>2, <2>4
<1>5. CASE ~ (Cardinality(hits) <= 1) /\ out = [ok |-> FALSE, users |-> {}]
  BY <1>1, <1>3, <1>5, FailureReached
<1>6. CASE ~ (Cardinality(hits) <= 1) /\ out # [ok |-> FALSE, users |-> {}]
  <2>1. PICK D \in SUBSET hits : Removable(S, hits, D) /\ out = [ok |-> TRUE, users |-> S \ D]
    BY <1>2, <1>6
  <2> QED BY <1>1, <2>1, DeletionReached
<1> QED
  BY <1>4, <1>5, <1>6

-----------------------------------------------------------------------------
LEMMA SeqOfSet ==
    ASSUME NEW T, IsFiniteSet(T), NEW b, b = SetToSeq(T)
    PROVE  Onto(b, Cardinality(T), T) /\ Cardinality(T) \in Nat
<1>1. PICK f \in Bijection(1..Cardinality(T), T) : TRUE
  BY FS_CardinalityType DEF ExistsBijection
<1>2. f \in [1..Cardinality(T) -> T] /\ IsInjective(f)
  BY <1>1 DEF Bijection, Injection
<1>3. b \in [1..Cardinality(T) -> T] /\ IsInjective(b)
  BY <1>2, Zenon DEF SetToSeq
<1>4. b \in Injection(1..Cardinality(T), T)
  BY <1>3 DEF Injection
<1>5. Cardinality(T) \in Nat /\ Cardinality(1..Cardinality(T)) = Cardinality(T)
  BY FS_CardinalityType, FS_Interval
<1>6. b \in Surjection(1..Cardinality(T), T)
  BY <1>4, <1>5, FS_Injection
<1> QED
  BY <1>3, <1>5, <1>6 DEF Surjection, Onto

(* RemoveDuplicates of a list with the users of a batch appended. *)
LEMMA AppendedExact ==
    ASSUME NEW S, IsFiniteSet(S), NEW batch, IsFiniteSet(batch), NEW list, list \in SetToSeqs(S),
           NEW appended, appended = RemoveDuplicates(list \o SetToSeq(batch))
    PROVE  ToSet(appended) = S \cup batch /\ IsInjective(appended) /\ IsPrefix(list, appended)
<1>1. PICK n : n = Cardinality(S)
  OBVIOUS
<1>2. n \in Nat /\ Ordered(list, n, S)
  BY <1>1, OrderFacts
<1>3. PICK b, k : b = SetToSeq(batch) /\ k = Cardinality(batch)
  OBVIOUS
<1>4. Onto(b, k, batch) /\ k \in Nat
  BY <1>3, SeqOfSet
<1>5. PICK T : T = S \cup batch
  OBVIOUS
<1>6. list \in [1..n -> T] /\ b \in [1..k -> T]
  BY <1>2, <1>4, <1>5 DEF Ordered, Onto
<1>7. list \in Seq(T) /\ Len(list) = n /\ b \in Seq(T) /\ Len(b) = k
  BY <1>2, <1>4, <1>6, IsASeq, LenProperties
<1>8. PICK both : both = list \o b
  OBVIOUS
<1>9. /\ both \in Seq(T) /\ Len(both) = n + k
      /\ \A i \in 1..(n + k) : both[i] = IF i <= n THEN list[i] ELSE b[i - n]
  BY <1>7, <1>8, ConcatProperties
<1>10. \A i \in 1..n : both[i] = list[i]
  BY <1>2, <1>4, <1>9
<1>11. \A i, j \in 1..n : both[i] = both[j] => i = j
  BY <1>2, <1>10 DEF Ordered
<1>12. appended \in Seq(T) /\ Distinct(both, n + k, n, appended)
  <2>1. n \in 0..Len(both)
    BY <1>2, <1>4, <1>9
  <2>2. appended = RemoveDuplicates(both)
    BY <1>3, <1>8
  <2> QED BY <1>9, <1>11, <2>1, <2>2, DuplicatesGo
<1>13. Upto(both, n + k) = T
  <2>1. ASSUME NEW x \in S PROVE x \in Upto(both, n + k)
    <3>1. PICK i \in 1..n : list[i] = x
      BY <1>2 DEF Ordered
    <3>2. i \in 1..(n + k)
      BY <1>2, <1>4
    <3> QED BY <1>10, <3>1, <3>2 DEF Upto
  <2>2. ASSUME NEW x \in batch PROVE x \in Upto(both, n + k)
    <3>1. PICK i \in 1..k : b[i] = x
      BY <1>4 DEF Onto
    <3>2. i + n \in 1..(n + k) /\ ~ (i + n <= n) /\ (i + n) - n = i
      BY <1>2, <1>4
    <3>3. both[i + n] = x
      BY <1>9, <3>1, <3>2
    <3> QED BY <3>2, <3>3 DEF Upto
  <2>3. ASSUME NEW i \in 1..(n + k) PROVE both[i] \in T
    BY <1>9, ElementOfSeq
  <2> QED BY <1>5, <2>1, <2>2, <2>3 DEF Upto
<1>14. Len(appended) \in Nat /\ DOMAIN appended = 1..Len(appended)
  BY <1>12, LenProperties
<1>15. ToSet(appended) = T
  BY <1>12, <1>13, <1>14 DEF ToSet, Distinct
<1>16. IsInjective(appended)
  BY <1>12, <1>14 DEF IsInjective, Distinct
<1>17. Len(appended) >= n /\ \A i \in 1..n : appended[i] = list[i]
  <2>1. \A i \in 1..n : appended[i] = both[i]
    BY <1>2, <1>4, <1>12 DEF Distinct
  <2>2. Len(appended) >= n
    BY <1>2, <1>4, <1>12 DEF Distinct
  <2> QED BY <1>10, <2>1, <2>2
<1>18. SubSeq(list, 1, n) = SubSeq(appended, 1, n)
  <2>1. PICK t : t = SubSeq(list, 1, n)
    OBVIOUS
  <2>2. PICK u : u = SubSeq(appended, 1, n)
    OBVIOUS
  <2>3. t \in Seq(T) /\ Len(t) = n /\ \A i \in 1..n : t[i] = list[i]
    BY <1>2, <1>7, <2>1, SubSeqProperties
  <2>4. u \in Seq(T) /\ Len(u) = n /\ \A i \in 1..n : u[i] = appended[i]
    BY <1>2, <1>12, <1>14, <1>17, <2>2, SubSeqProperties
  <2>5. \A i \in 1..n : t[i] = u[i]
    BY <1>17, <2>3, <2>4
  <2>6. t = u
    BY <2>3, <2>4, <2>5, SeqEqual
  <2> QED BY <2>1, <2>2, <2>6
<1>19. IsPrefix(list, appended)
  BY <1>7, <1>17, <1>18 DEF IsPrefix
<1> QED
  BY <1>5, <1>15, <1>16, <1>19

LEMMA ExactOnFinite ==
    ASSUME NEW members, IsFiniteSet(members), NEW batch, IsFiniteSet(batch)
    PROVE  ExactOn(members, batch)
<1>1. \A list \in SetToSeqs(members) : Removal(list, batch) \in RemoveOutcomes(members, batch)
  BY RemovalSound
<1>2. \A out \in RemoveOutcomes(members, batch) :
        \E list \in SetToSeqs(members) : Removal(list, batch) = out
  BY RemovalComplete
<1>3. {Removal(list, batch) : list \in SetToSeqs(members)} = RemoveOutcomes(members, batch)
  BY <1>1, <1>2
<1>4. ASSUME NEW list \in SetToSeqs(members),
             NEW appended, appended = RemoveDuplicates(list \o SetToSeq(batch))
      PROVE  /\ ToSet(appended) = members \cup batch /\ IsInjective(appended)
             /\ IsPrefix(list, appended)
  BY <1>4, AppendedExact
<1> QED
  BY <1>3, <1>4, Zenon DEF ExactOn

(* For lists and batches of any size: over all orders of a list, RemoveFromSlice
   (groups_svc.go) deletes, skips and panics exactly as RemoveOutcomes says, which PutGroup
   of the model takes for it; RemoveDuplicates of a list with a batch appended has each
   user once and begins with the list. *)
THEOREM ListsAreExact ==
    \A members, batch : IsFiniteSet(members) /\ IsFiniteSet(batch) => ExactOn(members, batch)
  BY ExactOnFinite

(* The same of the lists that a run goes through. *)
THEOREM OutcomesSafe == Spec => []OutcomesExact
<1>1. OutcomesExact
  <2>1. ASSUME NEW members \in SUBSET (1..5), NEW batch \in SUBSET (1..5)
        PROVE  ExactOn(members, batch)
    <3>1. IsFiniteSet(1..5)
      <4>1. 1 \in Int /\ 5 \in Int
        OBVIOUS
      <4> QED BY <4>1, FS_Interval, Zenon
    <3>2. IsFiniteSet(members) /\ IsFiniteSet(batch)
      BY <3>1, FS_Subset
    <3> QED BY <3>2, ListsAreExact
  <2> QED BY <2>1, Zenon DEF OutcomesExact
<1> QED
  BY <1>1, PTL
=============================================================================
