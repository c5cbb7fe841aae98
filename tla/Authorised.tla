------------------------------ MODULE Authorised ------------------------------
(***************************************************************************)
(* What authorisation promises. A question is decided once, from the groups *)
(* its caller was in at some moment since it was asked and from what those  *)
(* groups may do at the moment of the decision, whatever changes meanwhile. *)
(***************************************************************************)
EXTENDS FiniteSets

CONSTANTS Requests,
          Questions,       \* with a field user, the caller
          Covers(_, _)     \* an entitlement covers a question

VARIABLES member,  \* user -> its groups, for the users there are
          grants,  \* group -> its entitlements now
          asked    \* request -> its question while open, else its verdict

Verdict(v) == [state |-> v]
Open(q, seen) == [state |-> "open", question |-> q, seen |-> seen]

In(members, u) == {members[v] : v \in {u} \cap DOMAIN members}
Granted(gs, q) == \E g \in gs : \E e \in grants[g] : Covers(e, q)

Init == asked = [r \in Requests |-> Verdict("none")]

Ask(r) ==
    /\ asked[r].state # "open"
    /\ \E q \in Questions : asked' = [asked EXCEPT ![r] = Open(q, In(member, q.user))]
    /\ UNCHANGED <<member, grants>>

Decide(r) ==
    /\ asked[r].state = "open"
    /\ \/ /\ \E gs \in asked[r].seen : Granted(gs, asked[r].question)
          /\ asked' = [asked EXCEPT ![r] = Verdict("pass")]
       \/ /\ \E gs \in asked[r].seen : ~ Granted(gs, asked[r].question)
          /\ asked' = [asked EXCEPT ![r] = Verdict("deny")]
       \/ /\ asked[r].question.user \notin DOMAIN member
          /\ asked' = [asked EXCEPT ![r] = Verdict("error")]
    /\ UNCHANGED <<member, grants>>

(* Members and grants change in any way; seen collects the groups of the caller
   while its question is open, and a verdict may be forgotten. *)
Change ==
    /\ DOMAIN asked' = Requests
    /\ \A r \in Requests :
          IF asked[r].state = "open"
          THEN asked'[r] = [asked[r] EXCEPT !.seen = @ \cup In(member', asked[r].question.user)]
          ELSE asked'[r] \in {asked[r], Verdict("none")}

Next == Change \/ \E r \in Requests : Ask(r) \/ Decide(r)

Spec == Init /\ [][Next]_<<member, grants, asked>>
=============================================================================
