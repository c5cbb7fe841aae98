------------------------------ MODULE LogProofs ------------------------------
(***************************************************************************)
(* Proofs about LogJson, for every alphabet, mark, header and number of     *)
(* pods: what findDelimitedString finds in any text, and that what it has   *)
(* found once it finds again in a longer log.                               *)
(*                                                                          *)
(* The search and the joining of the logs are recursive functions. A value  *)
(* that satisfies the equation of one is shown to exist, so that CHOOSE     *)
(* takes a function that satisfies it too; what that function returns       *)
(* follows by induction, for which a set of numbers stands for the          *)
(* predicate.                                                               *)
(***************************************************************************)
EXTENDS LogJson, TLAPS, SequenceTheorems, WellFoundedInduction, NaturalsInduction

(* A set of numbers that is not empty has a least one. *)
LEMMA LeastExists ==
    ASSUME NEW S, S \subseteq Nat, S # {}
    PROVE  Min(S) \in S /\ \A i \in S : Min(S) =< i
<1> DEFINE Less == OpToRel(<, Nat)
<1>1. Less = {p \in Nat \X Nat : p[1] < p[2]}
  BY Zenon DEF OpToRel
<1>2. IsWellFoundedOn(Less, Nat)
  BY NatLessThanWellFounded
<1> HIDE DEF Less
<1>3. PICK x \in S : \A y \in S : ~ (<<y, x>> \in Less)
  BY <1>2, WFMin, Zenon
<1>4. \A y \in S : x =< y
  <2>1. ASSUME NEW a \in Nat, NEW c \in Nat, ~ (<<a, c>> \in Less) PROVE c =< a
    BY <1>1, <2>1
  <2> QED BY <1>3, <2>1
<1> QED
  BY <1>4 DEF Min

(* A set that holds 0 and, with a number, the next one holds all. *)
LEMMA Induction ==
    ASSUME NEW S, 0 \in S, \A n \in Nat : n \in S => n + 1 \in S
    PROVE  \A n \in Nat : n \in S
<1>1. SUFFICES ASSUME Nat \ S # {} PROVE FALSE
  OBVIOUS
<1>2. PICK x \in Nat \ S : \A y \in Nat \ S : x =< y
  BY <1>1, LeastExists
<1>3. x - 1 \in Nat /\ x - 1 \notin Nat \ S /\ x = (x - 1) + 1
  BY <1>2
<1> QED
  BY <1>2, <1>3

-----------------------------------------------------------------------------
(* The loop of findDelimitedString, from position i, as a function f of itself. *)
LoopBody(str, from, f, i) ==
    IF i + L - 1 > Len(str) THEN Panic
    ELSE IF MarkAt(str, i) THEN [ok |-> TRUE, match |-> SubSeq(str, from, i - 1)]
    ELSE IF i + L >= Len(str) THEN Nil
    ELSE f[i + 1]

Loop(str, from) ==
    CHOOSE f : f = [i \in from..(Len(str) + 1) |-> LoopBody(str, from, f, i)]

LEMMA FindIsLoop ==
    ASSUME NEW str, Marks(str) # {}
    PROVE  findDelimitedString(str) = Loop(str, Min(Marks(str)) + L)[Min(Marks(str)) + L]
  BY Zenon DEF findDelimitedString, Loop, LoopBody

(* The marks the loop accepts from position i on: all but one that ends the log,
   unless it stands right at i. *)
Accepted(str, i) == {j \in Marks(str) : j >= i /\ (j = i \/ j + L - 1 < Len(str))}

(* What the loop returns from position i, without the loop. *)
Found(str, from, i) ==
    IF i + L - 1 > Len(str) THEN Panic
    ELSE IF Accepted(str, i) = {} THEN Nil
    ELSE [ok |-> TRUE, match |-> SubSeq(str, from, Min(Accepted(str, i)) - 1)]

LEMMA MarksTyped ==
    /\ L \in Nat \ {0}
    /\ \A str : Marks(str) \subseteq Nat
    /\ \A str : Len(str) \in Nat =>
         \A i \in Marks(str) : i >= 1 /\ i + L - 1 <= Len(str)
<1>1. L \in Nat \ {0}
  BY MarkAssumption, EmptySeq, LenProperties DEF L
<1> QED
  BY <1>1 DEF Marks, MarkAt

LEMMA AcceptedTyped ==
    ASSUME NEW str, NEW i, Accepted(str, i) # {}
    PROVE  Min(Accepted(str, i)) \in Accepted(str, i) /\ \A j \in Accepted(str, i) : Min(Accepted(str, i)) =< j
<1>1. Accepted(str, i) \subseteq Nat
  BY MarksTyped DEF Accepted
<1> QED
  BY <1>1, LeastExists

(* Found is what the body of the loop computes from Found. *)
LEMMA FoundIsBody ==
    ASSUME NEW str, Len(str) \in Nat, NEW from \in Nat \ {0}, NEW i \in from..(Len(str) + 1),
           NEW f, i + 1 <= Len(str) + 1 => f[i + 1] = Found(str, from, i + 1)
    PROVE  Found(str, from, i) = LoopBody(str, from, f, i)
<1>0. L \in Nat \ {0} /\ i \in Nat \ {0}
  BY MarksTyped
<1>1. CASE i + L - 1 > Len(str)
  BY <1>1 DEF Found, LoopBody
<1>2. CASE i + L - 1 <= Len(str) /\ MarkAt(str, i)
  <2>1. i \in Accepted(str, i)
    BY <1>0, <1>2 DEF Accepted, Marks
  <2>2. Min(Accepted(str, i)) = i
    <3>1. Min(Accepted(str, i)) \in Nat
      BY <2>1, AcceptedTyped, MarksTyped DEF Accepted
    <3>2. Min(Accepted(str, i)) =< i /\ Min(Accepted(str, i)) >= i
      BY <2>1, AcceptedTyped DEF Accepted
    <3> QED BY <1>0, <3>1, <3>2
  <2> QED BY <1>0, <1>2, <2>1, <2>2 DEF Found, LoopBody
<1>3. CASE i + L - 1 <= Len(str) /\ ~ MarkAt(str, i) /\ i + L >= Len(str)
  <2>1. \A j \in Accepted(str, i) : j >= i + 1 /\ j + L - 1 < Len(str) /\ j \in Nat
    BY <1>0, <1>3, MarksTyped DEF Accepted, Marks
  <2>2. Accepted(str, i) = {}
    BY <1>0, <1>3, <2>1
  <2> QED BY <1>0, <1>3, <2>2 DEF Found, LoopBody
<1>4. CASE i + L - 1 <= Len(str) /\ ~ MarkAt(str, i) /\ i + L < Len(str)
  <2>1. Accepted(str, i) = Accepted(str, i + 1)
    BY <1>0, <1>4, MarksTyped DEF Accepted, Marks
  <2>2. LoopBody(str, from, f, i) = Found(str, from, i + 1)
    BY <1>0, <1>4 DEF LoopBody
  <2> QED BY <1>0, <1>4, <2>1, <2>2 DEF Found
<1> QED
  BY <1>0, <1>1, <1>2, <1>3, <1>4

(* The loop returns Found, from every position it may start at. *)
LEMMA LoopIsFound ==
    ASSUME NEW str, Len(str) \in Nat, NEW from \in Nat \ {0}
    PROVE  \A i \in from..(Len(str) + 1) : Loop(str, from)[i] = Found(str, from, i)
<1> DEFINE Dom == from..(Len(str) + 1)
<1> DEFINE F == [i \in Dom |-> Found(str, from, i)]
<1> DEFINE loop == Loop(str, from)
<1>1. F = [i \in Dom |-> LoopBody(str, from, F, i)]
  <2>1. ASSUME NEW i \in Dom PROVE Found(str, from, i) = LoopBody(str, from, F, i)
    <3>1. i + 1 <= Len(str) + 1 => F[i + 1] = Found(str, from, i + 1)
      OBVIOUS
    <3> HIDE DEF F
    <3> QED BY <3>1, FoundIsBody
  <2> HIDE DEF Dom
  <2> QED BY <2>1, Zenon
<1>2. loop = [i \in Dom |-> LoopBody(str, from, loop, i)]
  <2> HIDE DEF F
  <2> QED BY <1>1, Zenon DEF Loop
<1> HIDE DEF loop
<1>3. ASSUME NEW i \in Dom, i + 1 \in Dom => loop[i + 1] = Found(str, from, i + 1)
      PROVE  loop[i] = Found(str, from, i)
  <2>1. i + 1 <= Len(str) + 1 => loop[i + 1] = Found(str, from, i + 1)
    BY <1>3
  <2>2. loop[i] = LoopBody(str, from, loop, i)
    BY <1>2, Zenon
  <2> QED BY <2>1, <2>2, FoundIsBody
<1> DEFINE Good == {n \in Nat : \A i \in Dom : Len(str) + 1 - i = n => loop[i] = Found(str, from, i)}
<1>4. 0 \in Good
  BY <1>3
<1>5. \A n \in Nat : n \in Good => n + 1 \in Good
  BY <1>3
<1>6. \A n \in Nat : n \in Good
  <2> HIDE DEF Good
  <2> QED BY <1>4, <1>5, Induction
<1>7. ASSUME NEW i \in Dom PROVE loop[i] = Found(str, from, i)
  <2>1. Len(str) + 1 - i \in Nat
    OBVIOUS
  <2> QED BY <1>6, <2>1
<1> QED
  BY <1>7 DEF loop

(* What findDelimitedString returns on any text, without the loop. *)
LEMMA FindIsFound ==
    ASSUME NEW str, Len(str) \in Nat, Marks(str) # {}
    PROVE  LET from == Min(Marks(str)) + L IN
           /\ Min(Marks(str)) \in Marks(str) /\ \A i \in Marks(str) : Min(Marks(str)) =< i
           /\ from \in Nat \ {0} /\ from <= Len(str) + 1
           /\ findDelimitedString(str) = Found(str, from, from)
<1> DEFINE first == Min(Marks(str))
<1>1. first \in Marks(str) /\ \A i \in Marks(str) : first =< i
  BY MarksTyped, LeastExists
<1>2. first \in Nat /\ first >= 1 /\ first + L - 1 <= Len(str) /\ L \in Nat \ {0}
  BY <1>1, MarksTyped
<1> HIDE DEF first
<1>3. first + L \in Nat \ {0} /\ first + L <= Len(str) + 1
  BY <1>2
<1>4. findDelimitedString(str) = Loop(str, first + L)[first + L]
  BY FindIsLoop DEF first
<1>5. Loop(str, first + L)[first + L] = Found(str, first + L, first + L)
  BY <1>3, LoopIsFound
<1> QED
  BY <1>1, <1>3, <1>4, <1>5 DEF first

LEMMA PanicsOn ==
    ASSUME NEW str, Len(str) \in Nat
    PROVE  findDelimitedString(str).ok <=>
             (Marks(str) = {} \/ Min(Marks(str)) + 2 * L - 1 <= Len(str))
<1>1. CASE Marks(str) = {}
  BY <1>1, Zenon DEF findDelimitedString, Nil
<1>2. CASE Marks(str) # {}
  <2> DEFINE first == Min(Marks(str))
  <2>1. first \in Nat /\ L \in Nat /\ findDelimitedString(str) = Found(str, first + L, first + L)
    BY <1>2, FindIsFound, MarksTyped
  <2> HIDE DEF first
  <2>2. Found(str, first + L, first + L).ok <=> ~ (first + L + L - 1 > Len(str))
    BY DEF Found, Panic, Nil
  <2> QED BY <1>2, <2>1, <2>2 DEF first
<1> QED
  BY <1>1, <1>2

LEMMA ReadsOn ==
    ASSUME NEW str, Len(str) \in Nat
    PROVE  LET out == findDelimitedString(str) IN
           /\ out.match # <<>> => out.match = Enclosed(str)
           /\ ~ MarkAt(str, Len(str) - L + 1) /\ out.ok => out.match = Enclosed(str)
<1>1. CASE Marks(str) = {}
  BY <1>1, Zenon DEF findDelimitedString, Nil, Enclosed
<1>2. CASE Marks(str) # {}
  <2> DEFINE first == Min(Marks(str))
             from == first + L
             out == findDelimitedString(str)
             ends == {i \in Marks(str) : i >= from}
             ends0 == Accepted(str, from)
  <2>1. first \in Nat /\ L \in Nat /\ from \in Nat /\ out = Found(str, from, from)
    BY <1>2, FindIsFound, MarksTyped
  <2>2. Enclosed(str) = IF ends = {} THEN <<>> ELSE SubSeq(str, from, Min(ends) - 1)
    BY <1>2, Zenon DEF Enclosed
  <2> HIDE DEF first, out
  <2>3. ends0 \subseteq ends
    BY DEF Accepted
  <2>4. ASSUME ends0 # {} PROVE Min(ends) = Min(ends0)
    <3>1. Min(ends) \in ends /\ \A j \in ends : Min(ends) =< j
      BY <2>3, <2>4, MarksTyped, LeastExists
    <3>2. Min(ends0) \in ends0 /\ \A j \in ends0 : Min(ends0) =< j
      BY <2>4, AcceptedTyped
    <3>3. Min(ends0) \in Nat /\ Min(ends) \in Nat /\ Min(ends) =< Min(ends0)
      BY <2>3, <3>1, <3>2, MarksTyped
    <3>4. Min(ends) \in ends0
      BY <2>1, <3>1, <3>2, <3>3, MarksTyped DEF Accepted
    <3> QED BY <3>2, <3>3, <3>4
  <2>5. out.match # <<>> => out.match = Enclosed(str)
    BY <2>1, <2>2, <2>3, <2>4 DEF Found, Panic, Nil
  <2>6. ASSUME ~ MarkAt(str, Len(str) - L + 1) PROVE ends = ends0
    BY <2>1, <2>6, MarksTyped DEF Accepted, Marks
  <2>7. ~ MarkAt(str, Len(str) - L + 1) /\ out.ok => out.match = Enclosed(str)
    BY <2>1, <2>2, <2>4, <2>6 DEF Found, Panic, Nil
  <2> QED BY <2>5, <2>7 DEF out
<1> QED
  BY <1>1, <1>2

(* A text that goes on keeps the marks it has; new ones begin behind them. *)
LEMMA MarksOfLonger ==
    ASSUME NEW S, NEW str \in Seq(S), NEW ext \in Seq(S)
    PROVE  Marks(str) = {i \in Marks(str \o ext) : i + L - 1 <= Len(str)}
<1>1. /\ Len(str) \in Nat /\ Len(ext) \in Nat
      /\ Len(str \o ext) \in Nat /\ Len(str \o ext) >= Len(str)
  BY LenProperties, ConcatProperties
<1>2. ASSUME NEW i \in Nat \ {0}, i + L - 1 <= Len(str) PROVE MarkAt(str, i) <=> MarkAt(str \o ext, i)
  <2>1. L \in Nat \ {0}
    BY MarksTyped
  <2>2. i \in 1..Len(str) /\ i + L - 1 \in 1..Len(str)
    BY <1>1, <1>2, <2>1
  <2>3. SubSeq(str \o ext, i, i + L - 1) = SubSeq(str, i, i + L - 1)
    BY <2>2, SubSeqOfConcat1
  <2> QED BY <1>1, <1>2, <2>1, <2>3 DEF MarkAt
<1> QED
  BY <1>1, <1>2, MarksTyped DEF Marks

LEMMA StableOn ==
    ASSUME NEW S, NEW str \in Seq(S), NEW ext \in Seq(S), findDelimitedString(str).match # <<>>
    PROVE  findDelimitedString(str \o ext) = findDelimitedString(str)
<1> DEFINE long == str \o ext
<1>1. /\ Len(str) \in Nat /\ Len(ext) \in Nat /\ L \in Nat \ {0}
      /\ Len(long) \in Nat /\ Len(long) >= Len(str)
  BY LenProperties, ConcatProperties, MarksTyped
<1>2. Marks(str) = {i \in Marks(long) : i + L - 1 <= Len(str)}
  BY MarksOfLonger
<1>3. Marks(str) # {}
  BY Zenon DEF findDelimitedString, Nil
<1> DEFINE first == Min(Marks(str))
           from == first + L
<1>4. /\ first \in Marks(str) /\ \A i \in Marks(str) : first =< i
      /\ from \in Nat \ {0}
      /\ findDelimitedString(str) = Found(str, from, from)
  BY <1>1, <1>3, FindIsFound
<1>5. first \in Nat /\ first + L - 1 <= Len(str)
  BY <1>1, <1>4, MarksTyped
<1>6. Min(Marks(long)) = first /\ findDelimitedString(long) = Found(long, from, from)
  <2>1. Marks(long) # {}
    BY <1>2, <1>3
  <2>2. /\ Min(Marks(long)) \in Marks(long) /\ \A i \in Marks(long) : Min(Marks(long)) =< i
        /\ findDelimitedString(long) = Found(long, Min(Marks(long)) + L, Min(Marks(long)) + L)
    BY <1>1, <2>1, FindIsFound
  <2>3. Min(Marks(long)) \in Nat /\ Min(Marks(long)) =< first
    BY <1>2, <1>4, <2>2, MarksTyped
  <2>4. Min(Marks(long)) \in Marks(str)
    BY <1>1, <1>2, <1>5, <2>2, <2>3
  <2>5. Min(Marks(long)) = first
    BY <1>4, <1>5, <2>3, <2>4
  <2> QED BY <2>2, <2>5
<1> HIDE DEF first, long
<1> DEFINE m == Min(Accepted(str, from))
<1>7. ~ (from + L - 1 > Len(str)) /\ Accepted(str, from) # {} /\ SubSeq(str, from, m - 1) # <<>>
  BY <1>4 DEF Found, Panic, Nil
<1>8. m \in Accepted(str, from) /\ \A j \in Accepted(str, from) : m =< j
  BY <1>7, AcceptedTyped
<1>9. m \in Nat /\ m >= 1 /\ m + L - 1 <= Len(str)
  BY <1>1, <1>8, MarksTyped DEF Accepted
<1> HIDE DEF m
<1>10. m \in Accepted(long, from)
  BY <1>1, <1>2, <1>5, <1>8, <1>9 DEF Accepted
<1>11. \A j \in Accepted(long, from) : m =< j
  <2> SUFFICES ASSUME NEW j \in Accepted(long, from), j < m PROVE FALSE
    BY <1>9, MarksTyped DEF Accepted
  <2>1. j \in Nat /\ j \in Marks(long) /\ j >= from
    BY MarksTyped DEF Accepted
  <2>2. j + L - 1 < Len(str)
    BY <1>1, <1>9, <2>1
  <2>3. j \in Marks(str)
    BY <1>1, <1>2, <2>1, <2>2
  <2>4. j \in Accepted(str, from)
    BY <2>1, <2>2, <2>3 DEF Accepted
  <2> QED BY <1>8, <1>9, <2>1, <2>4
<1>12. Min(Accepted(long, from)) = m
  <2>1. /\ Min(Accepted(long, from)) \in Accepted(long, from)
        /\ \A j \in Accepted(long, from) : Min(Accepted(long, from)) =< j
    BY <1>10, AcceptedTyped
  <2>2. Min(Accepted(long, from)) \in Nat
    BY <2>1, MarksTyped DEF Accepted
  <2> QED BY <1>9, <1>10, <1>11, <2>1, <2>2
<1>13. SubSeq(long, from, m - 1) = SubSeq(str, from, m - 1)
  <2>1. from <= m - 1
    BY <1>4, <1>7, <1>9, SubSeqEmpty DEF m
  <2>2. from \in 1..Len(str) /\ m - 1 \in 1..Len(str)
    BY <1>1, <1>4, <1>9, <2>1
  <2> QED BY <2>2, SubSeqOfConcat1 DEF long
<1>14. ~ (from + L - 1 > Len(long))
  BY <1>1, <1>4, <1>7
<1>15. Found(long, from, from) = Found(str, from, from)
  BY <1>7, <1>10, <1>12, <1>13, <1>14 DEF Found, m
<1> QED
  BY <1>4, <1>6, <1>15 DEF long

-----------------------------------------------------------------------------
(* g[i] is the join of the first i of the sequences. *)
Joins(seqs, g, n) == \A i \in 1..n : g[i] = IF i = 1 THEN seqs[i] ELSE g[i - 1] \o seqs[i]

LEMMA JoinsExist ==
    ASSUME NEW S, NEW seqs \in Seq(Seq(S))
    PROVE  \A n \in 1..Len(seqs) : \E g \in [1..n -> Seq(S)] : Joins(seqs, g, n)
<1> DEFINE Good == {k \in Nat : k + 1 <= Len(seqs) => \E g \in [1..(k + 1) -> Seq(S)] : Joins(seqs, g, k + 1)}
<1>1. Len(seqs) \in Nat /\ \A i \in 1..Len(seqs) : seqs[i] \in Seq(S)
  BY LenProperties, ElementOfSeq
<1>2. 0 \in Good
  <2> SUFFICES ASSUME 1 <= Len(seqs) PROVE \E g \in [1..1 -> Seq(S)] : Joins(seqs, g, 1)
    OBVIOUS
  <2>1. [i \in 1..1 |-> seqs[1]] \in [1..1 -> Seq(S)]
    BY <1>1
  <2>2. Joins(seqs, [i \in 1..1 |-> seqs[1]], 1)
    BY DEF Joins
  <2> QED BY <2>1, <2>2
<1>3. ASSUME NEW k \in Nat, k \in Good PROVE k + 1 \in Good
  <2> SUFFICES ASSUME k + 2 <= Len(seqs)
               PROVE  \E g \in [1..(k + 2) -> Seq(S)] : Joins(seqs, g, k + 2)
    OBVIOUS
  <2>1. PICK g \in [1..(k + 1) -> Seq(S)] : Joins(seqs, g, k + 1)
    BY <1>1, <1>3
  <2>2. PICK join \in Seq(S) : join = g[k + 1] \o seqs[k + 2]
    <3>1. g[k + 1] \in Seq(S) /\ seqs[k + 2] \in Seq(S)
      BY <1>1, <2>1
    <3> QED BY <3>1, ConcatProperties, Zenon
  <2> DEFINE h == [i \in 1..(k + 2) |-> IF i = k + 2 THEN join ELSE g[i]]
  <2>3. h \in [1..(k + 2) -> Seq(S)]
    OBVIOUS
  <2>4. ASSUME NEW i \in 1..(k + 2) PROVE h[i] = IF i = 1 THEN seqs[i] ELSE h[i - 1] \o seqs[i]
    <3>1. CASE i = k + 2
      <4>1. h[k + 2] = join
        OBVIOUS
      <4>2. h[k + 1] = g[k + 1]
        OBVIOUS
      <4>3. i # 1 /\ i - 1 = k + 1
        BY <3>1
      <4> HIDE DEF h
      <4> QED BY <2>2, <3>1, <4>1, <4>2, <4>3, Zenon
    <3>2. CASE i # k + 2
      <4>1. i \in 1..(k + 1) /\ h[i] = g[i] /\ (i # 1 => h[i - 1] = g[i - 1])
        BY <3>2
      <4> HIDE DEF h
      <4> QED BY <2>1, <4>1 DEF Joins
    <3> QED BY <3>1, <3>2
  <2>5. Joins(seqs, h, k + 2)
    BY <2>4, Zenon DEF Joins
  <2> QED BY <2>3, <2>5
<1>4. \A k \in Nat : k \in Good
  <2> HIDE DEF Good
  <2> QED BY <1>2, <1>3, Induction
<1>5. ASSUME NEW n \in 1..Len(seqs) PROVE \E g \in [1..n -> Seq(S)] : Joins(seqs, g, n)
  <2>1. PICK k \in Nat : k + 1 = n
    <3>1. n - 1 \in Nat /\ (n - 1) + 1 = n
      BY <1>1
    <3> QED BY <3>1
  <2>2. k \in Good
    BY <1>4, Zenon
  <2>3. k + 1 <= Len(seqs)
    BY <2>1
  <2>4. \E g \in [1..(k + 1) -> Seq(S)] : Joins(seqs, g, k + 1)
    BY <2>2, <2>3
  <2> QED BY <2>1, <2>4
<1> QED
  BY <1>5

(* There is one join of the first i. *)
LEMMA JoinsUnique ==
    ASSUME NEW seqs, NEW g, NEW h, NEW n \in Nat, Joins(seqs, g, n), Joins(seqs, h, n)
    PROVE  \A i \in 1..n : g[i] = h[i]
<1> DEFINE Good == {k \in Nat : k + 1 <= n => g[k + 1] = h[k + 1]}
<1>1. 0 \in Good
  BY DEF Joins
<1>2. ASSUME NEW k \in Nat, k \in Good PROVE k + 1 \in Good
  <2> SUFFICES ASSUME k + 2 <= n PROVE g[k + 2] = h[k + 2]
    OBVIOUS
  <2>1. k + 2 \in 1..n /\ k + 2 # 1 /\ (k + 2) - 1 = k + 1
    OBVIOUS
  <2>2. g[k + 2] = g[k + 1] \o seqs[k + 2] /\ h[k + 2] = h[k + 1] \o seqs[k + 2]
    BY <2>1 DEF Joins
  <2>3. g[k + 1] = h[k + 1]
    BY <1>2, <2>1
  <2> QED BY <2>2, <2>3
<1>3. \A k \in Nat : k \in Good
  <2> HIDE DEF Good
  <2> QED BY <1>1, <1>2, Induction
<1>4. ASSUME NEW i \in 1..n PROVE g[i] = h[i]
  <2>1. i - 1 \in Nat /\ (i - 1) + 1 = i
    OBVIOUS
  <2> QED BY <1>3, <2>1
<1> QED
  BY <1>4

LEMMA FlattenIsJoin ==
    ASSUME NEW S, NEW seqs \in Seq(Seq(S)), Len(seqs) # 0
    PROVE  \E g \in [1..Len(seqs) -> Seq(S)] : Joins(seqs, g, Len(seqs)) /\ FlattenSeq(seqs) = g[Len(seqs)]
<1> DEFINE n == Len(seqs)
<1> DEFINE Body(f, i) == IF i = 1 THEN seqs[i] ELSE f[i - 1] \o seqs[i]
<1> DEFINE flatten == CHOOSE f : f = [i \in 1..n |-> Body(f, i)]
<1>1. n \in Nat /\ n \in 1..n
  BY LenProperties
<1>2. PICK g \in [1..n -> Seq(S)] : Joins(seqs, g, n)
  BY <1>1, JoinsExist
<1>3. FlattenSeq(seqs) = flatten[n]
  BY Zenon DEF FlattenSeq
<1>4. g = [i \in 1..n |-> Body(g, i)]
  BY <1>2, Zenon DEF Joins
<1>5. flatten = [i \in 1..n |-> Body(flatten, i)]
  <2> HIDE DEF n, Body
  <2> QED BY <1>4, Zenon
<1>6. Joins(seqs, flatten, n)
  <2> HIDE DEF flatten
  <2> QED BY <1>5, Zenon DEF Joins
<1>7. flatten[n] = g[n]
  <2> HIDE DEF flatten, n
  <2> QED BY <1>1, <1>2, <1>6, JoinsUnique
<1> QED
  BY <1>2, <1>3, <1>7

(* b is a but for its last list, the n-th, which goes on by ext. *)
Grows(a, b, n, last, ext) ==
    /\ Len(a) = n /\ Len(b) = n /\ \A i \in 1..(n - 1) : b[i] = a[i]
    /\ a[n] = last /\ b[n] = last \o ext

LEMMA Associates ==
    ASSUME NEW S, NEW y \in Seq(S), NEW z \in Seq(S)
    PROVE  \A x \in Seq(S) : x \o (y \o z) = (x \o y) \o z
<1>1. ASSUME NEW x \in Seq(S) PROVE x \o (y \o z) = (x \o y) \o z
  BY ConcatProperties
<1> QED
  BY <1>1

LEMMA FlattenGrows ==
    ASSUME NEW S, NEW a \in Seq(Seq(S)), NEW b \in Seq(Seq(S)), NEW last \in Seq(S), NEW ext \in Seq(S),
           NEW n \in Nat \ {0}, Grows(a, b, n, last, ext)
    PROVE  FlattenSeq(b) = FlattenSeq(a) \o ext
<1>0. \A x \in Seq(S) : x \o (last \o ext) = (x \o last) \o ext
  BY Associates, Zenon
<1> USE DEF Grows
<1>1. PICK g : g \in [1..n -> Seq(S)] /\ Joins(a, g, n) /\ FlattenSeq(a) = g[n]
  BY FlattenIsJoin
<1>2. PICK h : h \in [1..n -> Seq(S)] /\ Joins(b, h, n) /\ FlattenSeq(b) = h[n]
  BY FlattenIsJoin
<1>3. CASE n = 1
  BY <1>1, <1>2, <1>3 DEF Joins
<1>4. CASE n # 1
  <2>1. PICK k \in Nat \ {0} : n = k + 1 /\ k \in 1..n /\ k \in 1..k
    <3>1. n - 1 \in Nat \ {0} /\ n = (n - 1) + 1 /\ n - 1 \in 1..n /\ n - 1 \in 1..(n - 1)
      BY <1>4
    <3> QED BY <3>1
  <2>2. \A i \in 1..k : a[i] = b[i] /\ i \in 1..n
    BY <2>1
  <2>3. Joins(a, g, k)
    BY <1>1, <2>2, Zenon DEF Joins
  <2>4. Joins(a, h, k)
    BY <1>2, <2>2, Zenon DEF Joins
  <2>5. g[k] = h[k]
    BY <2>1, <2>3, <2>4, JoinsUnique
  <2>6. g[n] = g[k] \o last /\ h[n] = h[k] \o (last \o ext)
    <3>1. n \in 1..n /\ n # 1 /\ n - 1 = k
      BY <1>4, <2>1
    <3> QED BY <1>1, <1>2, <3>1, Zenon DEF Joins
  <2>7. PICK x \in Seq(S) : x = g[k]
    BY <1>1, <2>1
  <2>8. x \o (last \o ext) = (x \o last) \o ext
    BY <1>0, Zenon
  <2> QED BY <1>1, <1>2, <2>5, <2>6, <2>7, <2>8, Zenon
<1> QED
  BY <1>3, <1>4

-----------------------------------------------------------------------------
(* There is always a pod, each has two containers, and one of them runs. *)
TypeInv ==
    /\ logs \in Seq(Seq(Chars)) /\ Len(logs) % 2 = 0
    /\ running \in 1..Len(logs)

(* What InsertAt puts where. *)
Inserted(list, p, e, out) ==
    Len(out) = Len(list) + 1 /\ out[p] = e /\ \A i \in 1..(p - 1) : out[i] = list[i]

LEMMA InsertTyped ==
    ASSUME NEW S, NEW list \in Seq(S), NEW p \in 1..(Len(list) + 1), NEW e \in S
    PROVE  InsertAt(list, p, e) \in Seq(S) /\ Inserted(list, p, e, InsertAt(list, p, e))
<1>1. Len(list) \in Nat /\ \A i \in 1..Len(list) : list[i] \in S
  BY LenProperties, ElementOfSeq
<1>2. PICK front : front = SubSeq(list, 1, p - 1)
  OBVIOUS
<1>3. front \in Seq(S) /\ Len(front) = p - 1 /\ \A i \in 1..(p - 1) : front[i] = list[i]
  <2>1. \A i \in 1..(p - 1) : list[i] \in S
    BY <1>1
  <2>2. /\ SubSeq(list, 1, p - 1) \in Seq(S)
        /\ Len(SubSeq(list, 1, p - 1)) = IF 1 <= p - 1 THEN (p - 1) - 1 + 1 ELSE 0
        /\ \A i \in 1..((p - 1) - 1 + 1) : SubSeq(list, 1, p - 1)[i] = list[1 + i - 1]
    BY <1>1, <2>1, SubSeqProperties
  <2> QED BY <1>1, <1>2, <2>2
<1>4. PICK rear : rear = SubSeq(list, p, Len(list))
  OBVIOUS
<1>5. rear \in Seq(S) /\ Len(rear) = Len(list) - p + 1
  <2>1. \A i \in p..Len(list) : list[i] \in S
    BY <1>1
  <2>2. /\ SubSeq(list, p, Len(list)) \in Seq(S)
        /\ Len(SubSeq(list, p, Len(list))) = IF p <= Len(list) THEN Len(list) - p + 1 ELSE 0
    BY <1>1, <2>1, SubSeqProperties
  <2> QED BY <1>1, <1>4, <2>2
<1>6. PICK mid : mid = Append(front, e)
  OBVIOUS
<1>7. /\ mid \in Seq(S) /\ Len(mid) = p /\ mid[p] = e
      /\ \A i \in 1..(p - 1) : mid[i] = list[i]
  <2>1. /\ mid \in Seq(S) /\ Len(mid) = Len(front) + 1 /\ mid[Len(front) + 1] = e
        /\ \A i \in 1..Len(front) : mid[i] = front[i]
    BY <1>3, <1>6, AppendProperties
  <2> QED BY <1>1, <1>3, <2>1
<1>8. InsertAt(list, p, e) = mid \o rear
  <2>1. mid = front \o <<e>>
    BY <1>3, <1>6, AppendIsConcat
  <2> QED BY <1>2, <1>4, <2>1, Zenon DEF InsertAt
<1>9. /\ mid \o rear \in Seq(S) /\ Len(mid \o rear) = Len(list) + 1
      /\ \A i \in 1..p : (mid \o rear)[i] = mid[i]
  <2>1. /\ mid \o rear \in Seq(S) /\ Len(mid \o rear) = Len(mid) + Len(rear)
        /\ \A i \in 1..(Len(mid) + Len(rear)) :
             (mid \o rear)[i] = IF i <= Len(mid) THEN mid[i] ELSE rear[i - Len(mid)]
    BY <1>5, <1>7, ConcatProperties
  <2> QED BY <1>1, <1>5, <1>7, <2>1
<1> QED
  BY <1>1, <1>7, <1>8, <1>9 DEF Inserted

(* A new pod brings two logs, both empty. *)
LEMMA RetryTyped ==
    ASSUME logs \in Seq(Seq(Chars)), Retry
    PROVE  /\ logs' \in Seq(Seq(Chars)) /\ Len(logs') = Len(logs) + 2
           /\ running' \in 1..(Len(logs) + 1)
<1>1. PICK p \in 1..(Len(logs) + 1) :
        logs' = InsertAt(InsertAt(logs, p, <<>>), p, <<>>) /\ running' = p
  BY DEF Retry
<1>2. PICK e \in Seq(Chars) : e = <<>>
  BY EmptySeq
<1>3. PICK once : once = InsertAt(logs, p, e)
  OBVIOUS
<1>4. once \in Seq(Seq(Chars)) /\ Len(once) = Len(logs) + 1
  <2>1. InsertAt(logs, p, e) \in Seq(Seq(Chars)) /\ Inserted(logs, p, e, InsertAt(logs, p, e))
    BY InsertTyped
  <2> QED BY <1>3, <2>1 DEF Inserted
<1>5. logs' = InsertAt(once, p, e)
  BY <1>1, <1>2, <1>3
<1>6. logs' \in Seq(Seq(Chars)) /\ Len(logs') = Len(once) + 1
  <2>1. p \in 1..(Len(once) + 1)
    BY <1>4, LenProperties
  <2>2. /\ InsertAt(once, p, e) \in Seq(Seq(Chars))
        /\ Inserted(once, p, e, InsertAt(once, p, e))
    BY <1>4, <2>1, InsertTyped
  <2> QED BY <1>5, <2>2 DEF Inserted
<1> QED
  BY <1>1, <1>4, <1>6, LenProperties

LEMMA TypeInvInit == Init => TypeInv
  BY DEF Init, TypeInv

LEMMA TypeInvStep == TypeInv /\ [Next]_vars => TypeInv'
<1> SUFFICES ASSUME TypeInv, [Next]_vars PROVE TypeInv'
  OBVIOUS
<1>0. logs \in Seq(Seq(Chars)) /\ running \in 1..Len(logs) /\ Len(logs) \in Nat
      /\ Len(logs) % 2 = 0
  BY LenProperties DEF TypeInv
<1>1. CASE Write
  <2>1. PICK c \in Chars : logs' = [logs EXCEPT ![running] = Append(@, c)] /\ running' = running
    BY <1>1 DEF Write
  <2>2. PICK text \in Seq(Chars) : text = Append(logs[running], c)
    <3>1. PICK old \in Seq(Chars) : old = logs[running]
      BY <1>0, ElementOfSeq
    <3>2. Append(old, c) \in Seq(Chars)
      BY AppendProperties
    <3> QED BY <3>1, <3>2, Zenon
  <2>3. logs' = [logs EXCEPT ![running] = text]
    BY <2>1, <2>2
  <2> QED BY <1>0, <2>1, <2>3, ExceptSeq DEF TypeInv
<1>2. CASE StartApp
  <2>1. running % 2 = 1 /\ running' = running + 1 /\ logs' = logs
    BY <1>2 DEF StartApp
  <2>2. PICK n \in Nat : n = Len(logs)
    BY <1>0
  <2>3. PICK r \in 1..n : r = running
    BY <1>0, <2>2
  <2>4. n % 2 = 0 /\ r % 2 = 1
    BY <1>0, <2>1, <2>2, <2>3
  <2>5. r + 1 \in 1..n
    BY <2>4
  <2> QED BY <1>0, <2>1, <2>2, <2>3, <2>5 DEF TypeInv
<1>3. CASE Retry
  <2>1. /\ logs' \in Seq(Seq(Chars)) /\ Len(logs') = Len(logs) + 2
        /\ running' \in 1..(Len(logs) + 1)
    BY <1>0, <1>3, RetryTyped
  <2>2. PICK n \in Nat : n = Len(logs)
    BY <1>0
  <2>3. n % 2 = 0
    BY <1>0, <2>2
  <2>4. (n + 2) % 2 = 0
    BY <2>3
  <2>5. Len(logs') % 2 = 0 /\ running' \in 1..Len(logs')
    BY <2>1, <2>2, <2>4
  <2> QED BY <2>1, <2>5 DEF TypeInv
<1>4. CASE UNCHANGED vars
  BY <1>4 DEF TypeInv, vars
<1> QED
  BY <1>1, <1>2, <1>3, <1>4 DEF Next

(* The logs of a job are a list that is never empty, two for each pod, and the container
   that runs is on it: what GetLog (job_svc.go) goes through. *)
THEOREM TypeSafe == Spec => []TypeInv
  BY TypeInvInit, TypeInvStep, PTL DEF Spec

(* The logs with their headers. *)
Blocks(list) == [p \in 1..Len(list) |-> Header \o list[p]]

LEMMA BlocksTyped ==
    ASSUME NEW list \in Seq(Seq(Chars))
    PROVE  /\ Blocks(list) \in Seq(Seq(Chars)) /\ Len(Blocks(list)) = Len(list)
           /\ \A p \in 1..Len(list) : Blocks(list)[p] = Header \o list[p]
<1>1. \A p \in 1..Len(list) : list[p] \in Seq(Chars)
  BY ElementOfSeq
<1>2. \A p \in 1..Len(list) : Header \o list[p] \in Seq(Chars)
  <2>1. \A text \in Seq(Chars) : Header \o text \in Seq(Chars)
    BY HeaderAssumption, ConcatProperties
  <2> QED BY <1>1, <2>1, Zenon
<1>3. Len(list) \in Nat
  BY LenProperties
<1>4. Blocks(list) \in [1..Len(list) -> Seq(Chars)]
  BY <1>2, Zenon DEF Blocks
<1>5. Blocks(list) \in Seq(Seq(Chars)) /\ Len(Blocks(list)) = Len(list)
  BY <1>3, <1>4
<1> QED
  BY <1>5, Zenon DEF Blocks

LEMMA LogTyped ==
    ASSUME NEW list \in Seq(Seq(Chars)), Len(list) # 0
    PROVE  GetLog(list) \in Seq(Chars)
<1>1. Blocks(list) \in Seq(Seq(Chars)) /\ Len(Blocks(list)) = Len(list) /\ Len(list) \in Nat \ {0}
  BY BlocksTyped, LenProperties
<1>2. PICK g : g \in [1..Len(list) -> Seq(Chars)] /\ FlattenSeq(Blocks(list)) = g[Len(list)]
  BY <1>1, FlattenIsJoin
<1>3. g[Len(list)] \in Seq(Chars)
  BY <1>1, <1>2
<1> QED
  BY <1>2, <1>3, Zenon DEF GetLog, Blocks

LEMMA LogOfState ==
    ASSUME TypeInv PROVE log \in Seq(Chars) /\ Len(log) \in Nat
<1>1. logs \in Seq(Seq(Chars)) /\ Len(logs) # 0
  BY LenProperties DEF TypeInv
<1>2. GetLog(logs) \in Seq(Chars)
  BY <1>1, LogTyped
<1> QED
  BY <1>2, LenProperties DEF log

(* At whatever moment GetJob looks at a log, findDelimitedString (job_svc.go) fails on
   it when it goes on for less than the length of a mark after the first mark, and
   then only. *)
THEOREM PanicsSafe == Spec => []PanicsExactly
<1>1. TypeInv => PanicsExactly
  BY LogOfState, PanicsOn DEF PanicsExactly
<1> QED
  BY <1>1, TypeSafe, PTL

(* What findDelimitedString hands out is the text between the first two marks, and it
   hands out all of it once anything follows the second. *)
THEOREM ReadsSafe == Spec => []ReadsEnclosed
<1>1. TypeInv => ReadsEnclosed
  <2> SUFFICES ASSUME TypeInv PROVE ReadsEnclosed
    OBVIOUS
  <2>1. PICK str : str = log /\ Len(str) \in Nat
    BY LogOfState
  <2> QED BY <2>1, ReadsOn DEF ReadsEnclosed
<1> QED
  BY <1>1, TypeSafe, PTL

LEMMA HeaderFirst ==
    /\ \A old \in Seq(Chars), c \in Chars : Header \o Append(old, c) = (Header \o old) \o <<c>>
    /\ \A c \in Chars : <<c>> \in Seq(Chars)
    /\ Header \o <<>> = Header /\ Header \in Seq(Chars)
<1>1. Header \in Seq(Chars)
  BY HeaderAssumption
<1>2. \A c \in Chars : <<c>> \in Seq(Chars)
  OBVIOUS
<1>3. ASSUME NEW old \in Seq(Chars), NEW c \in Chars
      PROVE  Header \o Append(old, c) = (Header \o old) \o <<c>>
  <2>1. PICK one \in Seq(Chars) : one = <<c>>
    BY <1>2, Zenon
  <2>2. Header \o (old \o one) = (Header \o old) \o one
    BY <1>1, Associates
  <2>3. Append(old, c) = old \o <<c>>
    BY AppendIsConcat
  <2> QED BY <2>1, <2>2, <2>3
<1>4. Header \o <<>> = Header
  BY <1>1, ConcatEmptySeq
<1> QED
  BY <1>1, <1>2, <1>3, <1>4

(* A step that writes at the end of the list of logs makes the log longer and changes
   nothing of what there is. *)
LEMMA LogGrows ==
    ASSUME TypeInv, Next, running' = Len(logs')
    PROVE  \E ext \in Seq(Chars) : log' = log \o ext
<1>1. PICK n \in Nat \ {0} : n = Len(logs)
  BY LenProperties DEF TypeInv
<1>2. /\ logs \in Seq(Seq(Chars)) /\ running \in 1..n
      /\ \A p \in 1..n : logs[p] \in Seq(Chars)
  BY <1>1, ElementOfSeq DEF TypeInv
<1>3. logs' \in Seq(Seq(Chars))
  BY TypeInvStep DEF TypeInv
<1>4. PICK a : a = Blocks(logs)
  OBVIOUS
<1>5. /\ a \in Seq(Seq(Chars)) /\ Len(a) = n /\ \A p \in 1..n : a[p] = Header \o logs[p]
  BY <1>1, <1>2, <1>4, BlocksTyped
<1>6. PICK b : b = Blocks(logs')
  OBVIOUS
<1>7. /\ b \in Seq(Seq(Chars)) /\ Len(b) = Len(logs')
      /\ \A p \in 1..Len(logs') : b[p] = Header \o logs'[p]
  BY <1>3, <1>6, BlocksTyped
<1>8. log = FlattenSeq(a) /\ log' = FlattenSeq(b)
  BY <1>4, <1>6, Zenon DEF log, GetLog, Blocks
<1>9. CASE Write
  <2>1. PICK c \in Chars : logs' = [logs EXCEPT ![running] = Append(@, c)] /\ running' = running
    BY <1>9 DEF Write
  <2>2. PICK old \in Seq(Chars) : old = logs[n]
    BY <1>2
  <2>3. PICK last : last = Header \o old
    OBVIOUS
  <2>4. PICK text \in Seq(Chars) : text = Append(old, c)
    BY AppendProperties
  <2>5. running = n
    BY <1>1, <1>2, <2>2, <2>1, <2>4, ExceptSeq
  <2>6. logs' = [logs EXCEPT ![n] = text]
    BY <2>2, <2>1, <2>4, <2>5
  <2>7. /\ Len(logs') = n /\ logs'[n] = text
        /\ \A p \in 1..(n - 1) : p \in 1..n /\ logs'[p] = logs[p]
    BY <1>1, <1>2, <2>6, ExceptSeq
  <2>8. a[n] = last /\ b[n] = last \o <<c>> /\ <<c>> \in Seq(Chars)
    <3>1. n \in 1..n /\ n \in 1..Len(logs')
      BY <2>7
    <3>2. a[n] = Header \o old
      BY <1>5, <2>2, <3>1, Zenon
    <3>3. b[n] = Header \o text
      BY <1>7, <2>7, <3>1, Zenon
    <3>4. Header \o text = last \o <<c>> /\ <<c>> \in Seq(Chars)
      BY <2>3, <2>4, HeaderFirst, Zenon
    <3> QED BY <2>3, <3>2, <3>3, <3>4, Zenon
  <2>9. \A p \in 1..(n - 1) : b[p] = a[p]
    BY <1>5, <1>7, <2>7, Zenon
  <2>10. Grows(a, b, n, last, <<c>>)
    BY <1>5, <1>7, <2>7, <2>8, <2>9, Zenon DEF Grows
  <2>11. last \in Seq(Chars)
    BY <2>3, HeaderAssumption, ConcatProperties
  <2>12. FlattenSeq(b) = FlattenSeq(a) \o <<c>>
    <3>0. PICK ext \in Seq(Chars) : ext = <<c>>
      BY <2>8, Zenon
    <3>1. Grows(a, b, n, last, ext)
      BY <2>10, <3>0
    <3>2. a \in Seq(Seq(Chars)) /\ b \in Seq(Seq(Chars))
      BY <1>5, <1>7, Zenon
    <3>3. FlattenSeq(b) = FlattenSeq(a) \o ext
      BY <2>11, <3>1, <3>2, FlattenGrows
    <3> QED BY <3>0, <3>3
  <2> QED BY <1>8, <2>8, <2>12, Zenon
<1>10. CASE StartApp
  <2>1. log' = log \o <<>> /\ <<>> \in Seq(Chars)
    <3>1. log' = log
      BY <1>10 DEF StartApp, log, GetLog
    <3>2. log \in Seq(Chars)
      BY LogOfState
    <3> QED BY <3>1, <3>2, EmptySeq, ConcatEmptySeq
  <2> QED BY <2>1
<1>11. ~ Retry
  BY <1>1, <1>2, RetryTyped
<1> QED
  BY <1>9, <1>10, <1>11 DEF Next

(* Data that GetJob has once read from a log it reads again from whatever the log
   becomes, as long as the pod that writes is the last of the list. *)
THEOREM AnswersSafe == Spec => AnswersAreStable
<1>1. ASSUME TypeInv, [Next]_vars
      PROVE  [running' = Len(logs') /\ findDelimitedString(log).match # <<>> =>
                findDelimitedString(log') = findDelimitedString(log)]_vars
  <2> SUFFICES ASSUME Next, running' = Len(logs'), findDelimitedString(log).match # <<>>
               PROVE  findDelimitedString(log') = findDelimitedString(log)
    BY <1>1
  <2>1. PICK ext \in Seq(Chars) : log' = log \o ext
    BY <1>1, LogGrows
  <2>2. PICK str \in Seq(Chars) : str = log
    BY <1>1, LogOfState
  <2>3. findDelimitedString(str \o ext) = findDelimitedString(str)
    BY <2>2, StableOn
  <2> QED BY <2>1, <2>2, <2>3
<1> QED
  BY <1>1, TypeSafe, PTL DEF Spec, AnswersAreStable
=============================================================================
