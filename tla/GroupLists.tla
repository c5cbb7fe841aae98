----------------------------- MODULE GroupLists -----------------------------
(***************************************************************************)
(* The two helpers of services/groups_svc.go that compute the new users    *)
(* column of a group, RemoveDuplicates and RemoveFromSlice, with the        *)
(* semantics of Go slices: deleting from a slice while ranging over it      *)
(* shifts its backing array under the loop. RemoveOutcomes says in closed   *)
(* form what RemoveFromSlice can do to a list whose order is not known;     *)
(* ExactOn compares it with the loop, and Membership uses it.               *)
(***************************************************************************)
EXTENDS Naturals, Sequences, FiniteSets, FiniteSetsExt, SequencesExt

(* The loop keeps the first occurrence of every item, in order. *)
RemoveDuplicates(list) ==
    LET kept[n \in 0..Len(list)] ==
          IF n = 0 THEN <<>>
          ELSE IF \E i \in 1..(n - 1) : list[i] = list[n] THEN kept[n - 1]
               ELSE Append(kept[n - 1], list[n])
    IN kept[Len(list)]

Panic == [ok |-> FALSE, list |-> <<>>]

(* Mutant: the length checked is the one the loop started with. *)
RemoveFromSliceUnchecked(list, batch) ==
    LET n == Len(list)
        loop[k \in 0..n] ==
          IF k = 0 THEN [ok |-> TRUE, arr |-> list, len |-> n]
          ELSE LET s == loop[k - 1] IN
               IF s.arr[k] \notin batch THEN s
               ELSE [ok |-> TRUE, len |-> s.len - 1,
                     arr |-> [i \in 1..n |-> IF k <= i /\ i < s.len THEN s.arr[i + 1] ELSE s.arr[i]]]
    IN [ok |-> TRUE, list |-> SubSeq(loop[n].arr, 1, loop[n].len)]

(* for key, value := range groupUsers: the range keeps the original length n but
   reads the backing array, which append(groupUsers[:key], groupUsers[key+1:]...)
   shifts in place; groupUsers[key+1:] panics past the current length. Here
   k = key + 1, arr is the backing array and len the current length. *)
RemoveFromSlice(list, batch) ==
    LET n == Len(list)
        loop[k \in 0..n] ==
          IF k = 0 THEN [ok |-> TRUE, arr |-> list, len |-> n]
          ELSE LET s == loop[k - 1] IN
               IF ~ s.ok \/ s.arr[k] \notin batch THEN s
               ELSE IF k > s.len THEN [s EXCEPT !.ok = FALSE]
               ELSE [ok |-> TRUE, len |-> s.len - 1,
                     arr |-> [i \in 1..n |-> IF k <= i /\ i < s.len THEN s.arr[i + 1] ELSE s.arr[i]]]
        end == loop[n]
    IN IF end.ok THEN [ok |-> TRUE, list |-> SubSeq(end.arr, 1, end.len)] ELSE Panic

(* Some order of S makes the loop remove exactly gone out of hits, two or more:
   every other hit of each run of adjacent hits goes, and the elements outside the
   batch must be enough to separate the runs and to end the list. *)
Removable(S, hits, gone) ==
    LET skipped == Cardinality(hits \ gone) IN
    /\ 2 * skipped <= Cardinality(hits)
    /\ Cardinality(S \ hits) >= Max({1, Cardinality(hits) - 2 * skipped})

(* RemoveFromSlice on a duplicate-free list with elements S in some order: one hit
   is removed; with several, the loop panics when the last element is a hit. *)
RemoveOutcomes(S, batch) ==
    LET hits == S \cap batch IN
    IF Cardinality(hits) <= 1
    THEN {[ok |-> TRUE, users |-> S \ batch]}
    ELSE {[ok |-> FALSE, users |-> {}]} \cup
         {[ok |-> TRUE, users |-> S \ gone] :
             gone \in {D \in SUBSET hits : Removable(S, hits, D)}}

-----------------------------------------------------------------------------
Removal(list, batch) ==
    LET out == RemoveFromSlice(list, batch) IN [ok |-> out.ok, users |-> ToSet(out.list)]

(* Over all orders of a list of members, RemoveFromSlice does what RemoveOutcomes says,
   no more and no less; RemoveDuplicates of the list with a batch appended has each
   member of both once, and the old list at its head. *)
ExactOn(members, batch) ==
    /\ {Removal(list, batch) : list \in SetToSeqs(members)} = RemoveOutcomes(members, batch)
    /\ \A list \in SetToSeqs(members) :
          LET appended == RemoveDuplicates(list \o SetToSeq(batch)) IN
          /\ ToSet(appended) = members \cup batch /\ IsInjective(appended)
          /\ IsPrefix(list, appended)
=============================================================================
