------------------------------ MODULE LogJson ------------------------------
(***************************************************************************)
(* How a job hands data back: GetJob looks in the log of the job's pods for *)
(* text between two ^JSON marks (findDelimitedString in                     *)
(* services/job_svc.go). The log is read at any moment, also while a        *)
(* container is writing it, and joins the logs of all pods in the order in  *)
(* which they are listed, which is not that in which they ran: of each pod  *)
(* what its init container wrote and what its application container wrote.  *)
(* The two headers are one here, and every log is read: the text of an      *)
(* error, which the code puts in place of one, is left out.                 *)
(*                                                                          *)
(* A log is a sequence of characters and Mark the sequence of the mark's.   *)
(* Only its length and that it does not overlap itself matter, so that TLC  *)
(* takes a shorter one over a small alphabet.                               *)
(***************************************************************************)
EXTENDS Naturals, Sequences, FiniteSets, FiniteSetsExt, SequencesExt

CONSTANTS Chars, Mark,
          Header,     \* what GetLog puts before the log of a container
          MaxPods,    \* backoffLimit + 1
          MaxLog      \* bounds the characters the pods write

(* No two occurrences of ^JSON overlap. *)
ASSUME MarkAssumption ==
    /\ Mark \in Seq(Chars) /\ Mark # <<>>
    /\ \A n \in 1..(Len(Mark) - 1) :
         SubSeq(Mark, 1, n) # SubSeq(Mark, Len(Mark) - n + 1, Len(Mark))
ASSUME HeaderAssumption ==
    Header \in Seq(Chars) /\ \A i \in 1..Len(Header), j \in 1..Len(Mark) : Header[i] # Mark[j]
ASSUME BoundsAssumption == MaxPods \in Nat \ {0} /\ MaxLog \in Nat

VARIABLES
    logs,      \* what each container has written so far, two for each pod of the list
    running    \* the position of the container that runs

vars == <<logs, running>>

(* GetLog: the logs of the containers, each after its header. *)
GetLog(list) == FlattenSeq([p \in 1..Len(list) |-> Header \o list[p]])

log == GetLog(logs)

L == Len(Mark)

MarkAt(str, i) == i >= 1 /\ i + L - 1 <= Len(str) /\ SubSeq(str, i, i + L - 1) = Mark

Marks(str) == {i \in 1..Len(str) : MarkAt(str, i)}

Nil   == [ok |-> TRUE,  match |-> <<>>]     \* a nil match: GetJob reads no data
Panic == [ok |-> FALSE, match |-> <<>>]     \* index or slice bounds out of range

(* Mutant: the end of the log is tested before the mark. *)
findDelimitedStringGuarded(str) ==
    LET from == Min(Marks(str)) + L
        loop[i \in from..(Len(str) + 1)] ==
          IF i + L - 1 >= Len(str) THEN Nil
          ELSE IF MarkAt(str, i) THEN [ok |-> TRUE, match |-> SubSeq(str, from, i - 1)]
          ELSE loop[i + 1]
    IN IF Marks(str) = {} THEN Nil ELSE loop[from]

(* Mutant: the search resumes inside the opening mark. *)
findDelimitedStringFromMark(str) ==
    LET from == Min(Marks(str))
        loop[i \in from..(Len(str) + 1)] ==
          IF i + L - 1 > Len(str) THEN Panic
          ELSE IF MarkAt(str, i) THEN [ok |-> TRUE, match |-> SubSeq(str, from, i - 1)]
          ELSE IF i + L >= Len(str) THEN Nil
          ELSE loop[i + 1]
    IN IF Marks(str) = {} THEN Nil ELSE loop[from]

(* Mutant: the last mark closes the text. *)
findDelimitedStringToLast(str) ==
    IF Cardinality(Marks(str)) < 2 THEN Nil
    ELSE [ok |-> TRUE, match |-> SubSeq(str, Min(Marks(str)) + L, Max(Marks(str)) - 1)]

(* The loop, with positions counted from 1: it reads str[index] and
   str[index:index+L] before it knows that they exist, and after each character
   gives up when the mark would have to end the log. *)
findDelimitedString(str) ==
    LET from == Min(Marks(str)) + L
        loop[i \in from..(Len(str) + 1)] ==
          IF i + L - 1 > Len(str) THEN Panic
          ELSE IF MarkAt(str, i) THEN [ok |-> TRUE, match |-> SubSeq(str, from, i - 1)]
          ELSE IF i + L >= Len(str) THEN Nil
          ELSE loop[i + 1]
    IN IF Marks(str) = {} THEN Nil ELSE loop[from]

-----------------------------------------------------------------------------
Init == logs = <<(<<>>), (<<>>)>> /\ running = 1

Write ==
    /\ Len(FlattenSeq(logs)) < MaxLog
    /\ \E c \in Chars : logs' = [logs EXCEPT ![running] = Append(@, c)]
    /\ UNCHANGED running

(* The init container, at an odd position, is done and the application's starts. *)
StartApp == running % 2 = 1 /\ running' = running + 1 /\ UNCHANGED logs

(* The pod fails and another one takes its place; names are random, and so is
   the position of the new one in the list. *)
Retry ==
    /\ Len(logs) < 2 * MaxPods
    /\ \E p \in 1..(Len(logs) + 1) :
          /\ p % 2 = 1
          /\ logs' = InsertAt(InsertAt(logs, p, <<>>), p, <<>>) /\ running' = p

Next == Write \/ StartApp \/ Retry

Spec == Init /\ [][Next]_vars

-----------------------------------------------------------------------------
(* The text between the first mark and the next one after it. *)
Enclosed(str) ==
    LET from == Min(Marks(str)) + L
        ends == {i \in Marks(str) : i >= from}
    IN IF Marks(str) = {} \/ ends = {} THEN <<>> ELSE SubSeq(str, from, Min(ends) - 1)

(* GetJob fails on a log that goes on for less than the length of a mark after
   the first mark, and on no other: a job that has just written ^JSON cannot be
   looked at until it has written more. *)
PanicsExactly ==
    findDelimitedString(log).ok <=>
        (Marks(log) = {} \/ Min(Marks(log)) + 2 * L - 1 <= Len(log))

(* What is read is the enclosed text, and all of it is read once anything follows
   the closing mark. *)
ReadsEnclosed ==
    LET out == findDelimitedString(log) IN
    /\ out.match # <<>> => out.match = Enclosed(log)
    /\ ~ MarkAt(log, Len(log) - L + 1) /\ out.ok => out.match = Enclosed(log)

(* Data read from a log is not read differently later, however the log goes on, as
   long as the container that writes is the last one joined: two looks at one job then
   never disagree about its data. *)
AnswersAreStable ==
    [][running' = Len(logs') /\ findDelimitedString(log).match # <<>> =>
         findDelimitedString(log') = findDelimitedString(log)]_vars
=============================================================================
