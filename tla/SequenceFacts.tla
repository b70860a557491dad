--------------------------- MODULE SequenceFacts ---------------------------
(***************************************************************************)
(* Induction over the naturals and what it gives: functions defined by     *)
(* recursion, and what Selected does to a sequence.                        *)
(***************************************************************************)
EXTENDS Selections, SequenceTheorems, WellFoundedInduction, TLAPS

\* Every set of naturals has a least one.
LEMMA Least ==
    ASSUME NEW T, T \subseteq Nat, T # {}
    PROVE  \E x \in T : \A y \in T : x <= y
<1>1. OpToRel(<, Nat) = {ss \in Nat \X Nat : ss[1] < ss[2]}
  BY Zenon DEF OpToRel
<1>2. IsWellFoundedOn({ss \in Nat \X Nat : ss[1] < ss[2]}, Nat)
  BY <1>1, NatLessThanWellFounded, Zenon
<1>3. PICK x \in T : \A y \in T : ~ (<<y, x>> \in {ss \in Nat \X Nat : ss[1] < ss[2]})
  BY <1>2, WFMin, Zenon
<1>4. ASSUME NEW y \in T PROVE x <= y
  <2>1. x \in Nat /\ y \in Nat
    OBVIOUS
  <2>2. ~ (y < x)
    <3>1. <<y, x>> \in {ss \in Nat \X Nat : ss[1] < ss[2]} <=> y < x
      BY <2>1
    <3>. QED
      BY <1>3, <3>1
  <2>. QED
    BY <2>1, <2>2
<1>. QED
  BY <1>4

\* Induction over the naturals, the induction hypothesis being a set.
LEMMA Induction ==
    ASSUME NEW S, 0 \in S, \A n \in Nat : n \in S => n + 1 \in S
    PROVE  \A n \in Nat : n \in S
<1> SUFFICES ASSUME Nat \ S # {} PROVE FALSE
  OBVIOUS
<1>1. PICK x \in Nat \ S : \A y \in Nat \ S : x <= y
  BY Least
<1>2. x # 0 /\ x \in Nat
  OBVIOUS
<1>3. x - 1 \in Nat /\ ~ (x <= x - 1) /\ (x - 1) + 1 = x
  BY <1>2
<1>4. x - 1 \in S
  BY <1>1, <1>3
<1>. QED
  BY <1>1, <1>3, <1>4

\* The same up to a bound.
LEMMA BoundedInduction ==
    ASSUME NEW N \in Nat, NEW S, 0 \in S, \A i \in 1..N : i - 1 \in S => i \in S
    PROVE  \A i \in 0..N : i \in S
<1> DEFINE U == {n \in Nat : n <= N => n \in S}
<1>1. 0 \in U
  OBVIOUS
<1>2. ASSUME NEW n \in Nat, n \in U PROVE n + 1 \in U
  <2>1. CASE n + 1 <= N
    <3>1. n + 1 \in 1..N /\ (n + 1) - 1 = n /\ n <= N
      BY <2>1
    <3>. QED
      BY <1>2, <3>1
  <2>. QED
    BY <2>1
<1>3. \A n \in Nat : n \in U
  <2> HIDE DEF U
  <2>. QED
    BY <1>1, <1>2, Induction
<1>. QED
  BY <1>3

\* The values of a function are of a type if the first is and each step keeps it.
LEMMA BoundedTyping ==
    ASSUME NEW N \in Nat, NEW V, NEW f, f[0] \in V,
           \A i \in 1..N : f[i - 1] \in V => f[i] \in V
    PROVE  \A i \in 0..N : f[i] \in V
<1> DEFINE S == {i \in 0..N : f[i] \in V}
<1>1. 0 \in S /\ \A i \in 1..N : i - 1 \in S => i \in S
  OBVIOUS
<1>2. \A i \in 0..N : i \in S
  <2> HIDE DEF S
  <2>. QED
    BY <1>1, BoundedInduction
<1>. QED
  BY <1>2

\* The steps of a recursion over 1..N, and a function that takes them.
Steps(N, V) == [1..N -> [V -> V]]

Takes(f, N, V, base, Step) ==
    f \in [0..N -> V] /\ f[0] = base /\ \A n \in 1..N : f[n] = Step[n][f[n - 1]]

\* A function is defined by its value at 0 and a step from each value to the next.
LEMMA RecursiveFunction ==
    ASSUME NEW N \in Nat, NEW V, NEW base \in V, NEW Step, Step \in Steps(N, V)
    PROVE  \E f : Takes(f, N, V, base, Step)
<1> USE DEF Steps
<1> DEFINE Obeys(f, n) == f[0] = base /\ \A i \in 1..n : f[i] = Step[i][f[i - 1]]
           S == {n \in 0..N : \E f \in [0..n -> V] : Obeys(f, n)}
<1>1. 0 \in S
  <2>1. [i \in 0..0 |-> base] \in [0..0 -> V] /\ Obeys([i \in 0..0 |-> base], 0)
    OBVIOUS
  <2> HIDE DEF Obeys
  <2>. QED
    BY <2>1
<1>2. ASSUME NEW n \in 1..N, n - 1 \in S PROVE n \in S
  <2>1. PICK f \in [0..(n - 1) -> V] : Obeys(f, n - 1)
    BY <1>2
  <2>2. /\ n \in Nat /\ n - 1 \in 0..(n - 1) /\ 0 \in 0..(n - 1) /\ n \notin 0..(n - 1)
        /\ \A i \in 0..n : i = n \/ i \in 0..(n - 1)
        /\ \A i \in 0..(n - 1) : i \in 0..n
    OBVIOUS
  <2>3. Step[n][f[n - 1]] \in V
    BY <2>2
  <2> DEFINE g == [i \in 0..n |-> IF i = n THEN Step[n][f[n - 1]] ELSE f[i]]
  <2>4. g \in [0..n -> V]
    BY <2>2, <2>3
  <2>5. g[n] = Step[n][f[n - 1]] /\ \A i \in 0..(n - 1) : g[i] = f[i]
    BY <2>2
  <2>6. g[0] = base
    BY <2>1, <2>2, <2>5
  <2>7. \A i \in 1..n : g[i] = Step[i][g[i - 1]]
    <3> SUFFICES ASSUME NEW i \in 1..n PROVE g[i] = Step[i][g[i - 1]]
      OBVIOUS
    <3> HIDE DEF g
    <3>1. CASE i = n
      BY <2>2, <2>5, <3>1
    <3>2. CASE i # n
      <4>1. i \in 1..(n - 1) /\ i - 1 \in 0..(n - 1) /\ i \in 0..(n - 1)
        BY <3>2
      <4>2. f[i] = Step[i][f[i - 1]]
        BY <2>1, <4>1
      <4>. QED
        BY <2>5, <4>1, <4>2
    <3>. QED
      BY <3>1, <3>2
  <2> HIDE DEF g
  <2>8. Obeys(g, n)
    BY <2>6, <2>7
  <2> HIDE DEF Obeys
  <2>. QED
    BY <2>4, <2>8
<1>3. N \in S
  <2> HIDE DEF S
  <2>1. \A i \in 0..N : i \in S
    BY <1>1, <1>2, BoundedInduction
  <2>. QED
    BY <2>1
<1>. QED
  BY <1>3 DEF Takes

\* An element at the seam of two sequences belongs to either.
LEMMA AppendToConcat ==
    ASSUME NEW X, NEW s \in Seq(X), NEW t \in Seq(X), NEW x \in X
    PROVE  Append(s \o t, x) = s \o Append(t, x)
<1>1. PICK one \in Seq(X) : one = <<x>>
  <2>1. <<x>> \in Seq(X)
    OBVIOUS
  <2>. QED
    BY <2>1
<1>2. s \o t \in Seq(X) /\ Append(s \o t, x) = (s \o t) \o one /\ Append(t, x) = t \o one
  BY <1>1, ConcatProperties, AppendIsConcat
<1>3. (s \o t) \o one = s \o (t \o one)
  BY ConcatAssociative
<1>. QED
  BY <1>2, <1>3

LEMMA ConcatToAppend ==
    ASSUME NEW X, NEW s \in Seq(X), NEW t \in Seq(X), NEW x \in X
    PROVE  Append(s, x) \o t = s \o (<<x>> \o t)
<1>1. PICK one \in Seq(X) : one = <<x>>
  <2>1. <<x>> \in Seq(X)
    OBVIOUS
  <2>. QED
    BY <2>1
<1>2. Append(s, x) = s \o one
  BY <1>1, AppendIsConcat
<1>3. (s \o one) \o t = s \o (one \o t)
  BY ConcatAssociative
<1>. QED
  BY <1>1, <1>2, <1>3

\* The function Selected is defined by.
Kept(s, S) ==
    CHOOSE kept : kept = [n \in 0..Len(s) |->
        IF n = 0 THEN <<>> ELSE IF s[n] \in S THEN Append(kept[n - 1], s[n]) ELSE kept[n - 1]]

LEMMA KeptDefinition ==
    ASSUME NEW X, NEW s \in Seq(X), NEW S
    PROVE  /\ Selected(s, S) = Kept(s, S)[Len(s)]
           /\ Kept(s, S) \in [0..Len(s) -> Seq(X)]
           /\ Kept(s, S)[0] = <<>>
           /\ \A n \in 1..Len(s) : Kept(s, S)[n] =
                IF s[n] \in S THEN Append(Kept(s, S)[n - 1], s[n]) ELSE Kept(s, S)[n - 1]
<1> DEFINE Step == [n \in 1..Len(s) |-> [v \in Seq(X) |-> IF s[n] \in S THEN Append(v, s[n]) ELSE v]]
<1>1. Step \in Steps(Len(s), Seq(X))
  <2>1. \A n \in 1..Len(s), v \in Seq(X) : s[n] \in X /\ Append(v, s[n]) \in Seq(X)
    BY ElementOfSeq, AppendProperties
  <2>. QED
    BY <2>1 DEF Steps
<1>2. Len(s) \in Nat /\ <<>> \in Seq(X)
  BY LenProperties
<1>3. PICK f : Takes(f, Len(s), Seq(X), <<>>, Step)
  <2> HIDE DEF Step
  <2>. QED
    BY <1>1, <1>2, RecursiveFunction
<1>4. f = [n \in 0..Len(s) |->
        IF n = 0 THEN <<>> ELSE IF s[n] \in S THEN Append(f[n - 1], s[n]) ELSE f[n - 1]]
  <2>1. ASSUME NEW n \in 0..Len(s), n # 0
        PROVE  f[n] = IF s[n] \in S THEN Append(f[n - 1], s[n]) ELSE f[n - 1]
    <3>1. n \in 1..Len(s) /\ n - 1 \in 0..Len(s)
      BY <1>2, <2>1
    <3>2. f[n] = Step[n][f[n - 1]] /\ f[n - 1] \in Seq(X)
      BY <1>3, <3>1 DEF Takes
    <3>. QED
      BY <3>1, <3>2
  <2> HIDE DEF Step
  <2>2. f = [n \in 0..Len(s) |-> f[n]] /\ f[0] = <<>>
    BY <1>3 DEF Takes
  <2>. QED
    BY <2>1, <2>2, Zenon
<1>5. Kept(s, S) = [n \in 0..Len(s) |->
        IF n = 0 THEN <<>> ELSE IF s[n] \in S THEN Append(Kept(s, S)[n - 1], s[n]) ELSE Kept(s, S)[n - 1]]
  BY <1>4, Zenon DEF Kept
<1> DEFINE kept == Kept(s, S)
<1>6. Selected(s, S) = kept[Len(s)]
  BY DEF Selected, Kept
<1> HIDE DEF kept, Step
<1>7. kept[0] = <<>> /\ \A n \in 1..Len(s) : kept[n] =
        IF s[n] \in S THEN Append(kept[n - 1], s[n]) ELSE kept[n - 1]
  <2>1. kept = [n \in 0..Len(s) |->
        IF n = 0 THEN <<>> ELSE IF s[n] \in S THEN Append(kept[n - 1], s[n]) ELSE kept[n - 1]]
    BY <1>5 DEF kept
  <2>2. 0 \in 0..Len(s) /\ \A n \in 1..Len(s) : n \in 0..Len(s) /\ n # 0
    BY <1>2
  <2>. QED
    BY <2>1, <2>2, Zenon
<1>8. \A n \in 0..Len(s) : kept[n] \in Seq(X)
  <2>1. \A n \in 1..Len(s) : kept[n - 1] \in Seq(X) => kept[n] \in Seq(X)
    <3> SUFFICES ASSUME NEW n \in 1..Len(s), kept[n - 1] \in Seq(X) PROVE kept[n] \in Seq(X)
      OBVIOUS
    <3>1. s[n] \in X
      BY ElementOfSeq
    <3>2. Append(kept[n - 1], s[n]) \in Seq(X)
      BY <3>1, AppendProperties
    <3>. QED
      BY <1>7, <3>2
  <2>2. kept[0] \in Seq(X)
    BY <1>2, <1>7
  <2>. QED
    BY <1>2, <2>1, <2>2, BoundedTyping
<1>9. kept \in [0..Len(s) -> Seq(X)]
  <2>1. kept = [n \in 0..Len(s) |-> kept[n]]
    BY <1>5 DEF kept
  <2>. QED
    BY <1>8, <2>1
<1>. QED
  BY <1>6, <1>7, <1>9 DEF kept

LEMMA SelectedType ==
    ASSUME NEW X, NEW s \in Seq(X), NEW S
    PROVE  Selected(s, S) \in Seq(X \cap S) /\ Len(Selected(s, S)) <= Len(s)
<1> DEFINE kept == Kept(s, S)
           V(n) == {v \in Seq(X \cap S) : Len(v) <= n}
           Good == {n \in 0..Len(s) : kept[n] \in V(n)}
<1>1. /\ Selected(s, S) = kept[Len(s)] /\ kept[0] = <<>>
      /\ \A n \in 1..Len(s) : kept[n] = IF s[n] \in S THEN Append(kept[n - 1], s[n]) ELSE kept[n - 1]
  BY KeptDefinition
<1>2. Len(s) \in Nat
  BY LenProperties
<1>3. 0 \in Good
  <2>1. kept[0] \in Seq(X \cap S) /\ Len(kept[0]) = 0
    BY <1>1
  <2> HIDE DEF kept
  <2>. QED
    BY <1>2, <2>1
<1>4. ASSUME NEW n \in 1..Len(s), n - 1 \in Good PROVE n \in Good
  <2>1. kept[n - 1] \in Seq(X \cap S) /\ Len(kept[n - 1]) <= n - 1
    BY <1>4
  <2>2. n \in Nat /\ n \in 0..Len(s) /\ Len(kept[n - 1]) \in Nat
    BY <1>2, <2>1, LenProperties
  <2>3. s[n] \in X
    BY ElementOfSeq
  <2> HIDE DEF kept
  <2>4. CASE s[n] \in S
    <3>1. kept[n] = Append(kept[n - 1], s[n]) /\ s[n] \in X \cap S
      BY <1>1, <2>3, <2>4
    <3>2. kept[n] \in Seq(X \cap S) /\ Len(kept[n]) = Len(kept[n - 1]) + 1
      BY <2>1, <3>1, AppendProperties
    <3>. QED
      BY <2>1, <2>2, <3>2
  <2>5. CASE s[n] \notin S
    <3>1. kept[n] = kept[n - 1]
      BY <1>1, <2>5
    <3>. QED
      BY <2>1, <2>2, <3>1
  <2>. QED
    BY <2>4, <2>5
<1>5. Len(s) \in Good
  <2> HIDE DEF Good
  <2>1. \A n \in 0..Len(s) : n \in Good
    BY <1>2, <1>3, <1>4, BoundedInduction
  <2>. QED
    BY <1>2, <2>1
<1>. QED
  BY <1>1, <1>5

LEMMA SelectedEmpty == \A S : Selected(<<>>, S) = <<>>
<1>1. PICK s \in Seq({}) : s = <<>>
  BY EmptySeq
<1>2. Len(s) = 0
  BY <1>1
<1>3. \A S : Selected(s, S) = Kept(s, S)[Len(s)] /\ Kept(s, S)[0] = <<>>
  BY KeptDefinition
<1>. QED
  BY <1>1, <1>2, <1>3

\* One more element behind a sequence is selected or not.
LEMMA SelectedAppend ==
    ASSUME NEW X, NEW s \in Seq(X), NEW x \in X, NEW S
    PROVE  Selected(Append(s, x), S) =
               IF x \in S THEN Append(Selected(s, S), x) ELSE Selected(s, S)
<1>0. PICK t : t = Append(s, x)
  OBVIOUS
<1> DEFINE a == Kept(s, S)
           b == Kept(t, S)
           Same == {n \in 0..Len(s) : a[n] = b[n]}
<1>1. /\ t \in Seq(X) /\ Len(t) = Len(s) + 1 /\ t[Len(s) + 1] = x
      /\ \A n \in 1..Len(s) : t[n] = s[n]
      /\ Len(s) \in Nat
  BY <1>0, AppendProperties, LenProperties
<1>2. /\ Selected(s, S) = a[Len(s)] /\ a[0] = <<>>
      /\ \A n \in 1..Len(s) : a[n] = IF s[n] \in S THEN Append(a[n - 1], s[n]) ELSE a[n - 1]
  BY KeptDefinition
<1>3. /\ Selected(t, S) = b[Len(t)] /\ b[0] = <<>>
      /\ \A n \in 1..Len(t) : b[n] = IF t[n] \in S THEN Append(b[n - 1], t[n]) ELSE b[n - 1]
  BY <1>1, KeptDefinition
<1> HIDE DEF a, b
<1>4. 0 \in Same
  BY <1>1, <1>2, <1>3
<1>5. ASSUME NEW n \in 1..Len(s), n - 1 \in Same PROVE n \in Same
  <2>1. n \in 1..Len(t) /\ n \in 0..Len(s) /\ a[n - 1] = b[n - 1] /\ t[n] = s[n]
    BY <1>1, <1>5
  <2>. QED
    BY <1>2, <1>3, <2>1
<1>6. a[Len(s)] = b[Len(s)]
  <2> HIDE DEF Same
  <2>1. \A n \in 0..Len(s) : n \in Same
    BY <1>1, <1>4, <1>5, BoundedInduction
  <2>. QED
    BY <1>1, <2>1 DEF Same
<1>7. Len(t) \in 1..Len(t) /\ Len(t) - 1 = Len(s)
  BY <1>1
<1>8. b[Len(t)] = IF x \in S THEN Append(a[Len(s)], x) ELSE a[Len(s)]
  BY <1>1, <1>3, <1>6, <1>7
<1>. QED
  BY <1>0, <1>2, <1>3, <1>8

\* So is the first element.
LEMMA SelectedFirst ==
    ASSUME NEW X, NEW s \in Seq(X), s # <<>>, NEW S
    PROVE  Selected(s, S) =
               IF Head(s) \in S THEN <<Head(s)>> \o Selected(Tail(s), S) ELSE Selected(Tail(s), S)
<1>0. PICK t : t = Tail(s)
  OBVIOUS
<1> DEFINE a == Kept(s, S)
           b == Kept(t, S)
           first == IF Head(s) \in S THEN <<Head(s)>> ELSE <<>>
           Same == {n \in 0..Len(t) : a[n + 1] = first \o b[n]}
<1>1. /\ t \in Seq(X) /\ Len(t) = Len(s) - 1 /\ Len(t) \in Nat
      /\ \A n \in 1..Len(t) : t[n] = s[n + 1]
      /\ Head(s) = s[1] /\ Head(s) \in X
  <2>1. /\ t \in Seq(X) /\ Len(t) = Len(s) - 1 /\ \A n \in 1..Len(t) : t[n] = s[n + 1]
        /\ Head(s) \in X
    BY <1>0, HeadTailProperties
  <2>2. Len(t) \in Nat
    BY <2>1, LenProperties
  <2>3. Head(s) = s[1]
    OBVIOUS
  <2>. QED
    BY <2>1, <2>2, <2>3
<1>2. /\ Selected(s, S) = a[Len(s)] /\ a[0] = <<>>
      /\ \A n \in 1..Len(s) : a[n] = IF s[n] \in S THEN Append(a[n - 1], s[n]) ELSE a[n - 1]
  BY KeptDefinition
<1>3. /\ Selected(t, S) = b[Len(t)] /\ b[0] = <<>> /\ b \in [0..Len(t) -> Seq(X)]
      /\ \A n \in 1..Len(t) : b[n] = IF t[n] \in S THEN Append(b[n - 1], t[n]) ELSE b[n - 1]
  BY <1>1, KeptDefinition
<1> HIDE DEF a, b
<1>4. first \in Seq(X)
  BY <1>1
<1>5. 0 \in Same
  <2>1. Len(s) \in Nat /\ 1 \in 1..Len(s) /\ 0 \in 0..Len(t)
    BY <1>1, LenProperties
  <2>2. a[1] = IF s[1] \in S THEN Append(<<>>, s[1]) ELSE <<>>
    <3>1. a[1] = IF s[1] \in S THEN Append(a[0], s[1]) ELSE a[0]
      <4>1. 1 - 1 = 0
        OBVIOUS
      <4>. QED
        BY <1>2, <2>1, <4>1
    <3>. QED
      BY <1>2, <3>1
  <2>3. a[1] = first
    BY <1>1, <2>2
  <2>4. first \o <<>> = first
    BY <1>4, ConcatEmptySeq
  <2> HIDE DEF first
  <2>5. a[0 + 1] = first \o b[0]
    BY <1>3, <2>3, <2>4
  <2>. QED
    BY <2>1, <2>5
<1> HIDE DEF first
<1>6. ASSUME NEW n \in 1..Len(t), n - 1 \in Same PROVE n \in Same
  <2>1. /\ n \in 0..Len(t) /\ n - 1 \in 0..Len(t) /\ n + 1 \in 1..Len(s) /\ (n + 1) - 1 = n
        /\ (n - 1) + 1 = n
    BY <1>1
  <2>2. a[n] = first \o b[n - 1] /\ t[n] = s[n + 1]
    BY <1>1, <1>6, <2>1
  <2>3. b[n - 1] \in Seq(X) /\ t[n] \in X
    BY <1>1, <1>3, <2>1, ElementOfSeq
  <2>4. first \o Append(b[n - 1], t[n]) = Append(first \o b[n - 1], t[n])
    BY <1>4, <2>3, AppendToConcat
  <2>5. a[n + 1] = IF t[n] \in S THEN Append(first \o b[n - 1], t[n]) ELSE first \o b[n - 1]
    BY <1>2, <2>1, <2>2
  <2>6. b[n] = IF t[n] \in S THEN Append(b[n - 1], t[n]) ELSE b[n - 1]
    BY <1>3
  <2>. QED
    BY <2>1, <2>4, <2>5, <2>6
<1>7. a[Len(s)] = first \o b[Len(t)]
  <2> HIDE DEF Same
  <2>1. \A n \in 0..Len(t) : n \in Same
    BY <1>1, <1>5, <1>6, BoundedInduction
  <2>2. Len(s) \in Nat /\ Len(t) + 1 = Len(s) /\ Len(t) \in 0..Len(t)
    BY <1>1, LenProperties
  <2>. QED
    BY <2>1, <2>2 DEF Same
<1>8. <<>> \o b[Len(t)] = b[Len(t)]
  BY <1>1, <1>3, ConcatEmptySeq
<1>. QED
  BY <1>0, <1>2, <1>3, <1>7, <1>8 DEF first

=============================================================================
