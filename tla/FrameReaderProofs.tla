------------------------- MODULE FrameReaderProofs --------------------------
(***************************************************************************)
(* Theorems about FrameReader for every transport and executor, every      *)
(* device and staging buffer, all payloads, and any number of frames, any  *)
(* of which is damaged.                                                    *)
(***************************************************************************)
EXTENDS FrameReader, SequenceFacts

-----------------------------------------------------------------------------
(* Concatenation, under a name the provers do not expand.                  *)

Cat(a, b) == a \o b

\* What Cat(a, b) is, by its places.
IsCat(a, b, c) ==
    /\ Len(a) \in Nat /\ Len(b) \in Nat /\ Len(c) = Len(a) + Len(b)
    /\ \A i \in 1..Len(a) : c[i] = a[i]
    /\ \A i \in 1..Len(b) : c[Len(a) + i] = b[i]

LEMMA CatFacts ==
    ASSUME NEW X, NEW a \in Seq(X), NEW b \in Seq(X)
    PROVE  Cat(a, b) \in Seq(X) /\ IsCat(a, b, Cat(a, b))
<1>1. Len(a) \in Nat /\ Len(b) \in Nat
  BY LenProperties
<1>2. PICK c : c = a \o b
  OBVIOUS
<1>3. /\ c \in Seq(X) /\ Len(c) = Len(a) + Len(b)
      /\ \A i \in 1..(Len(a) + Len(b)) : c[i] = IF i <= Len(a) THEN a[i] ELSE b[i - Len(a)]
  BY <1>2, ConcatProperties, Zenon
<1>4. \A i \in 1..Len(a) : c[i] = a[i]
  BY <1>1, <1>3
<1>5. ASSUME NEW i \in 1..Len(b) PROVE c[Len(a) + i] = b[i]
  <2>1. Len(a) + i \in 1..(Len(a) + Len(b)) /\ ~(Len(a) + i <= Len(a)) /\ Len(a) + i - Len(a) = i
    BY <1>1
  <2>. QED
    BY <1>3, <2>1
<1>6. Cat(a, b) = c
  BY <1>2 DEF Cat
<1>. QED
  BY <1>1, <1>3, <1>4, <1>5, <1>6 DEF IsCat

LEMMA CatAssociative ==
    ASSUME NEW X, NEW a \in Seq(X), NEW b \in Seq(X), NEW c \in Seq(X)
    PROVE  Cat(Cat(a, b), c) = Cat(a, Cat(b, c))
<1>1. (a \o b) \o c = a \o (b \o c)
  BY ConcatAssociative
<1>. QED
  BY <1>1, Zenon DEF Cat

Begins(a, b) == Len(a) \in 0..Len(b) /\ \A i \in 1..Len(a) : b[i] = a[i]

LEMMA BeginsItself ==
    ASSUME NEW X, NEW a \in Seq(X)
    PROVE  Begins(a, a)
  BY LenProperties DEF Begins

LEMMA BeginsLonger ==
    ASSUME NEW X, NEW a \in Seq(X), NEW b \in Seq(X), NEW c \in Seq(X), Begins(a, b)
    PROVE  Begins(a, Cat(b, c))
<1>1. PICK d : d = Cat(b, c)
  OBVIOUS
<1>2. IsCat(b, c, d) /\ Len(a) \in Nat
  BY <1>1, CatFacts, LenProperties
<1>3. Len(a) <= Len(b) /\ \A i \in 1..Len(a) : b[i] = a[i]
  BY <1>2 DEF Begins
<1>. QED
  BY <1>1, <1>2, <1>3 DEF Begins, IsCat

LEMMA CatEmpty ==
    ASSUME NEW X, NEW a \in Seq(X)
    PROVE  Cat(a, <<>>) = a /\ Cat(<<>>, a) = a
  BY ConcatEmptySeq DEF Cat

-----------------------------------------------------------------------------
(* Sequences of sequences, joined.                                         *)

\* The joins of the first 0, 1, ... of some sequences over X.
Joins(join, seqs, X) ==
    /\ join \in [0..Len(seqs) -> Seq(X)]
    /\ join[0] = <<>>
    /\ \A i \in 1..Len(seqs) : join[i] = join[i - 1] \o seqs[i]

LEMMA JoinsExist ==
    ASSUME NEW X, NEW seqs \in Seq(Seq(X))
    PROVE  \E join : Joins(join, seqs, X)
<1> DEFINE Step == [i \in 1..Len(seqs) |-> [v \in Seq(X) |-> v \o seqs[i]]]
<1>1. Step \in Steps(Len(seqs), Seq(X))
  <2>1. \A i \in 1..Len(seqs), v \in Seq(X) : seqs[i] \in Seq(X) /\ v \o seqs[i] \in Seq(X)
    BY ElementOfSeq, ConcatProperties
  <2>. QED
    BY <2>1 DEF Steps
<1>2. Len(seqs) \in Nat /\ <<>> \in Seq(X)
  BY LenProperties
<1>3. PICK join : Takes(join, Len(seqs), Seq(X), <<>>, Step)
  <2> HIDE DEF Step
  <2>. QED
    BY <1>1, <1>2, RecursiveFunction
<1>4. ASSUME NEW i \in 1..Len(seqs) PROVE join[i] = join[i - 1] \o seqs[i]
  <2>1. join[i] = Step[i][join[i - 1]] /\ join[i - 1] \in Seq(X)
    <3>1. i - 1 \in 0..Len(seqs)
      BY <1>2
    <3>. QED
      BY <1>3, <3>1 DEF Takes
  <2>. QED
    BY <2>1
<1>. QED
  BY <1>3, <1>4 DEF Takes, Joins

LEMMA JoinsAgree ==
    ASSUME NEW X, NEW s \in Seq(Seq(X)), NEW t \in Seq(Seq(X)), NEW f, NEW g,
           Joins(f, s, X), Joins(g, t, X),
           NEW n \in Nat, n <= Len(s), n <= Len(t),
           \A i \in 1..n : s[i] = t[i]
    PROVE  \A i \in 0..n : f[i] = g[i]
<1> DEFINE Same == {i \in 0..n : f[i] = g[i]}
<1>1. 0 \in Same
  BY DEF Joins
<1>2. ASSUME NEW i \in 1..n, i - 1 \in Same PROVE i \in Same
  <2>1. i \in 1..Len(s) /\ i \in 1..Len(t) /\ i \in 0..n
    BY LenProperties
  <2>2. f[i] = f[i - 1] \o s[i] /\ g[i] = g[i - 1] \o t[i] /\ s[i] = t[i]
    BY <2>1 DEF Joins
  <2>3. f[i - 1] = g[i - 1]
    BY <1>2
  <2>4. f[i] = g[i]
    BY <2>2, <2>3, Zenon
  <2>. QED
    BY <2>1, <2>4
<1>3. \A i \in 0..n : i \in Same
  <2> HIDE DEF Same
  <2>. QED
    BY <1>1, <1>2, BoundedInduction
<1>. QED
  BY <1>3

\* The function FlattenSeq is defined by.
Flattened(seqs) ==
    CHOOSE flatten : flatten = [i \in 1..Len(seqs) |->
        IF i = 1 THEN seqs[i] ELSE flatten[i-1] \o seqs[i]]

LEMMA FlattenIsJoin ==
    ASSUME NEW X, NEW seqs \in Seq(Seq(X)), NEW join, Joins(join, seqs, X)
    PROVE  FlattenSeq(seqs) = join[Len(seqs)] /\ FlattenSeq(seqs) \in Seq(X)
<1>0. Len(seqs) \in Nat /\ Len(seqs) \in 0..Len(seqs)
  BY LenProperties
<1>1. join[Len(seqs)] \in Seq(X)
  BY <1>0 DEF Joins
<1>2. CASE Len(seqs) = 0
  <2>1. seqs = <<>>
    BY <1>2, EmptySeq
  <2>2. FlattenSeq(seqs) = seqs
    BY <1>2 DEF FlattenSeq
  <2>. QED
    BY <1>1, <1>2, <2>1, <2>2 DEF Joins
<1>3. CASE Len(seqs) # 0
  <2> DEFINE f == [i \in 1..Len(seqs) |-> join[i]]
             g == Flattened(seqs)
  <2>1. f = [i \in 1..Len(seqs) |-> IF i = 1 THEN seqs[i] ELSE f[i-1] \o seqs[i]]
    <3>1. ASSUME NEW i \in 1..Len(seqs)
          PROVE  join[i] = IF i = 1 THEN seqs[i] ELSE f[i-1] \o seqs[i]
      <4>1. seqs[i] \in Seq(X) /\ join[i] = join[i - 1] \o seqs[i]
        BY ElementOfSeq DEF Joins
      <4>2. CASE i = 1
        <5>1. join[0] = <<>> /\ i - 1 = 0
          BY <4>2 DEF Joins
        <5>2. <<>> \o seqs[i] = seqs[i]
          BY <4>1, ConcatEmptySeq
        <5>. QED
          BY <4>1, <4>2, <5>1, <5>2
      <4>3. CASE i # 1
        <5>1. i - 1 \in 1..Len(seqs)
          BY <1>0, <4>3
        <5>2. f[i - 1] = join[i - 1]
          BY <5>1
        <5>. QED
          BY <4>1, <4>3, <5>2, Zenon
      <4>. QED
        BY <4>2, <4>3
    <3>. QED
      BY <3>1, Zenon
  <2>2. g = [i \in 1..Len(seqs) |-> IF i = 1 THEN seqs[i] ELSE g[i-1] \o seqs[i]]
    BY <2>1, Zenon DEF Flattened
  <2>3. FlattenSeq(seqs) = g[Len(seqs)]
    BY <1>3 DEF FlattenSeq, Flattened
  <2> HIDE DEF g
  <2> DEFINE Same == {i \in 0..Len(seqs) : i # 0 => g[i] = join[i]}
  <2>4. 0 \in Same
    BY <1>0
  <2>5. ASSUME NEW i \in 1..Len(seqs), i - 1 \in Same PROVE i \in Same
    <3>1. g[i] = IF i = 1 THEN seqs[i] ELSE g[i-1] \o seqs[i]
      BY <2>2, Zenon
    <3>2. join[i] = IF i = 1 THEN seqs[i] ELSE f[i-1] \o seqs[i]
      BY <2>1, Zenon
    <3>3. i # 1 => f[i - 1] = join[i - 1] /\ g[i - 1] = join[i - 1]
      <4>1. i # 1 => i - 1 \in 1..Len(seqs)
        BY <1>0
      <4>. QED
        BY <2>5, <4>1
    <3>4. g[i] = join[i]
      <4> HIDE DEF f
      <4>. QED
        BY <3>1, <3>2, <3>3, Zenon
    <3>. QED
      BY <1>0, <3>4
  <2>6. \A i \in 0..Len(seqs) : i \in Same
    <3> HIDE DEF Same
    <3>. QED
      BY <1>0, <2>4, <2>5, BoundedInduction
  <2>. QED
    BY <1>0, <1>1, <1>3, <2>3, <2>6
<1>. QED
  BY <1>2, <1>3

LEMMA FlattenAppend ==
    ASSUME NEW X, NEW seqs \in Seq(Seq(X)), NEW one \in Seq(X)
    PROVE  /\ FlattenSeq(seqs) \in Seq(X)
           /\ FlattenSeq(Append(seqs, one)) = FlattenSeq(seqs) \o one
<1>1. PICK t \in Seq(Seq(X)) : t = Append(seqs, one)
  BY AppendProperties
<1>2. /\ Len(seqs) \in Nat /\ Len(t) = Len(seqs) + 1
      /\ t[Len(seqs) + 1] = one /\ \A i \in 1..Len(seqs) : t[i] = seqs[i]
  BY <1>1, AppendProperties, LenProperties
<1>3. PICK f : Joins(f, seqs, X)
  BY JoinsExist
<1>4. PICK g : Joins(g, t, X)
  BY JoinsExist
<1>5. FlattenSeq(seqs) = f[Len(seqs)] /\ FlattenSeq(seqs) \in Seq(X) /\ FlattenSeq(t) = g[Len(t)]
  BY <1>3, <1>4, FlattenIsJoin
<1>6. f[Len(seqs)] = g[Len(seqs)]
  <2>1. PICK n \in Nat : n = Len(seqs)
    BY <1>2
  <2>2. n <= Len(seqs) /\ n <= Len(t) /\ n \in 0..n
    BY <1>2, <2>1
  <2>3. \A i \in 1..n : seqs[i] = t[i]
    BY <1>2, <2>1
  <2>4. \A i \in 0..n : f[i] = g[i]
    BY <1>3, <1>4, <2>2, <2>3, JoinsAgree
  <2>. QED
    BY <2>1, <2>2, <2>4
<1>7. g[Len(t)] = g[Len(seqs)] \o one
  <2>1. Len(t) \in 1..Len(t) /\ Len(t) - 1 = Len(seqs) /\ t[Len(t)] = one
    BY <1>2
  <2>. QED
    BY <1>4, <2>1 DEF Joins
<1>. QED
  BY <1>1, <1>5, <1>6, <1>7, Zenon

\* What has been joined first stays in front.
LEMMA JoinsGrow ==
    ASSUME NEW X, NEW seqs \in Seq(Seq(X)), NEW join, Joins(join, seqs, X),
           NEW k \in 0..Len(seqs)
    PROVE  Begins(join[k], join[Len(seqs)])
<1>0. PICK n \in Nat : n = Len(seqs)
  BY LenProperties
<1> DEFINE Good == {j \in 0..n : j >= k => Begins(join[k], join[j])}
<1>1. k \in 0..n /\ \A j \in 0..n : join[j] \in Seq(X)
  BY <1>0 DEF Joins
<1>2. Begins(join[k], join[k])
  BY <1>1, BeginsItself
<1>3. 0 \in Good
  <2>1. 0 >= k => k = 0
    BY <1>1
  <2>. QED
    BY <1>0, <1>2, <2>1
<1>4. ASSUME NEW j \in 1..n, j - 1 \in Good PROVE j \in Good
  <2>1. j - 1 \in 0..n /\ j \in 0..n /\ seqs[j] \in Seq(X)
    BY <1>0, ElementOfSeq
  <2>2. join[j] = Cat(join[j - 1], seqs[j])
    BY <1>0 DEF Joins, Cat
  <2>3. CASE k = j
    BY <1>2, <2>1, <2>3
  <2>4. CASE k <= j - 1
    <3>1. Begins(join[k], join[j - 1])
      BY <1>4, <2>1, <2>4
    <3>2. Begins(join[k], Cat(join[j - 1], seqs[j]))
      BY <1>1, <2>1, <3>1, BeginsLonger
    <3>. QED
      BY <2>1, <2>2, <3>2
  <2>5. CASE k > j
    BY <2>1, <2>5
  <2>. QED
    BY <1>1, <2>1, <2>3, <2>4, <2>5
<1>5. n \in Good
  <2> HIDE DEF Good
  <2>1. \A j \in 0..n : j \in Good
    BY <1>3, <1>4, BoundedInduction
  <2>. QED
    BY <2>1
<1>. QED
  BY <1>0, <1>1, <1>5

\* The next sequence follows what has been joined before it.
Follows(a, b, s) ==
    /\ Len(a) \in Nat /\ Len(b) \in Nat /\ Len(a) + Len(b) <= Len(s)
    /\ \A i \in 1..Len(b) : s[Len(a) + i] = b[i]

LEMMA JoinedNext ==
    ASSUME NEW X, NEW seqs \in Seq(Seq(X)), NEW join, Joins(join, seqs, X),
           NEW k \in 1..Len(seqs)
    PROVE  /\ Follows(join[k - 1], seqs[k], join[Len(seqs)])
           /\ Len(join[k]) = Len(join[k - 1]) + Len(seqs[k])
<1>1. PICK n \in Nat : n = Len(seqs)
  BY LenProperties
<1>2. k \in 0..n /\ k - 1 \in 0..n /\ n \in 0..n
  BY <1>1
<1>3. PICK a : a = join[k - 1]
  OBVIOUS
<1>4. PICK b : b = seqs[k]
  OBVIOUS
<1>5. PICK c : c = join[k]
  OBVIOUS
<1>6. PICK d : d = join[Len(seqs)]
  OBVIOUS
<1>7. a \in Seq(X) /\ b \in Seq(X) /\ c = Cat(a, b) /\ d \in Seq(X)
  BY <1>1, <1>2, <1>3, <1>4, <1>5, <1>6, ElementOfSeq DEF Joins, Cat
<1>8. Begins(c, d)
  BY <1>1, <1>2, <1>5, <1>6, JoinsGrow
<1>9. /\ Len(a) \in Nat /\ Len(b) \in Nat /\ Len(c) = Len(a) + Len(b)
      /\ \A i \in 1..Len(b) : c[Len(a) + i] = b[i]
  <2>1. IsCat(a, b, c)
    BY <1>7, CatFacts
  <2>. QED
    BY <2>1 DEF IsCat
<1>10. Len(d) \in Nat /\ Len(c) <= Len(d) /\ \A i \in 1..Len(c) : d[i] = c[i]
  BY <1>7, <1>8, LenProperties DEF Begins
<1>11. ASSUME NEW i \in 1..Len(b) PROVE d[Len(a) + i] = b[i]
  <2>1. Len(a) + i \in 1..Len(c)
    BY <1>9
  <2>. QED
    BY <1>9, <1>10, <2>1
<1>12. Follows(a, b, d)
  BY <1>9, <1>10, <1>11 DEF Follows
<1>. QED
  BY <1>3, <1>4, <1>5, <1>6, <1>9, <1>12

-----------------------------------------------------------------------------
(* Frames and what the line makes of them.                                 *)

Symbol == {"magic", "length", "payload", "check", "noise", "answer"} \X Nat

LEMMA EncodeFacts ==
    ASSUME NEW m \in Message
    PROVE  /\ PayloadLen[m] \in Nat /\ PayloadLen[m] <= MaxPayload
           /\ Encode(m) \in Seq(Symbol)
           /\ Len(Encode(m)) = PayloadLen[m] + 3
           /\ Encode(m)[1] = Magic /\ Encode(m)[2] = <<"length", PayloadLen[m]>>
           /\ \A i \in 3..(PayloadLen[m] + 2) : Encode(m)[i] = <<"payload", m>>
           /\ Encode(m)[PayloadLen[m] + 3] = <<"check", m>>
<1>1. PICK n \in Nat : n = PayloadLen[m] /\ n <= MaxPayload
  BY FrameAssumption
<1>2. m \in Nat
  BY FrameAssumption
<1>3. PICK a : a = <<Magic, <<"length", n>>>>
  OBVIOUS
<1>4. PICK b : b = [i \in 1..n |-> <<"payload", m>>]
  OBVIOUS
<1>5. PICK c : c = <<<<"check", m>>>>
  OBVIOUS
<1>6. a \in Seq(Symbol) /\ Len(a) = 2 /\ a[1] = Magic /\ a[2] = <<"length", n>>
  BY <1>3 DEF Symbol, Magic
<1>7. b \in Seq(Symbol) /\ Len(b) = n /\ \A i \in 1..n : b[i] = <<"payload", m>>
  <2>1. <<"payload", m>> \in Symbol
    BY <1>2 DEF Symbol
  <2>. QED
    BY <1>4, <2>1
<1>8. c \in Seq(Symbol) /\ Len(c) = 1 /\ c[1] = <<"check", m>>
  <2>1. <<"check", m>> \in Symbol
    BY <1>2 DEF Symbol
  <2>. QED
    BY <1>5, <2>1
<1>9. Encode(m) = Cat(Cat(a, b), c)
  BY <1>1, <1>3, <1>4, <1>5 DEF Encode, Cat
<1>10. /\ Cat(a, b) \in Seq(Symbol) /\ Len(Cat(a, b)) = n + 2
       /\ \A i \in 1..2 : Cat(a, b)[i] = a[i]
       /\ \A i \in 1..n : Cat(a, b)[2 + i] = b[i]
  <2>1. Cat(a, b) \in Seq(Symbol) /\ IsCat(a, b, Cat(a, b))
    BY <1>6, <1>7, CatFacts
  <2>. QED
    BY <1>1, <1>6, <1>7, <2>1 DEF IsCat
<1>11. /\ Encode(m) \in Seq(Symbol) /\ Len(Encode(m)) = n + 3
       /\ \A i \in 1..(n + 2) : Encode(m)[i] = Cat(a, b)[i]
       /\ Encode(m)[(n + 2) + 1] = c[1]
  <2>1. Encode(m) \in Seq(Symbol) /\ IsCat(Cat(a, b), c, Encode(m))
    BY <1>8, <1>9, <1>10, CatFacts
  <2>2. 1 \in 1..Len(c)
    BY <1>8
  <2>. QED
    BY <1>1, <1>8, <1>10, <2>1, <2>2 DEF IsCat
<1>12. \A i \in 3..(n + 2) : Encode(m)[i] = <<"payload", m>>
  <2> SUFFICES ASSUME NEW i \in 3..(n + 2) PROVE Encode(m)[i] = <<"payload", m>>
    OBVIOUS
  <2>1. i - 2 \in 1..n /\ 2 + (i - 2) = i /\ i \in 1..(n + 2)
    BY <1>1
  <2>. QED
    BY <1>7, <1>10, <1>11, <2>1
<1>13. Encode(m)[1] = Magic /\ Encode(m)[2] = <<"length", n>>
  <2>1. 1 \in 1..(n + 2) /\ 2 \in 1..(n + 2)
    BY <1>1
  <2>. QED
    BY <1>6, <1>10, <1>11, <2>1
<1>14. (n + 2) + 1 = n + 3
  BY <1>1
<1>. QED
  BY <1>1, <1>8, <1>11, <1>12, <1>13, <1>14

LEMMA SubSeqFacts ==
    ASSUME NEW X, NEW s \in Seq(X), NEW m \in Nat, NEW n \in Nat, m >= 1, m <= n + 1, n <= Len(s)
    PROVE  /\ SubSeq(s, m, n) \in Seq(X) /\ Len(SubSeq(s, m, n)) = (n - m) + 1
           /\ \A i \in 1..((n - m) + 1) : SubSeq(s, m, n)[i] = s[(m + i) - 1]
<1>1. Len(s) \in Nat /\ \A i \in 1..Len(s) : s[i] \in X
  BY LenProperties, ElementOfSeq
<1>2. \A i \in m..n : s[i] \in X
  BY <1>1
<1>3. SubSeq(s, m, n) \in Seq(X)
  BY <1>2, SubSeqProperties
<1>. QED
  BY <1>1, <1>3

LEMMA RemoveAtFacts ==
    ASSUME NEW X, NEW s \in Seq(X), NEW i \in 1..Len(s)
    PROVE  /\ RemoveAt(s, i) \in Seq(X) /\ Len(RemoveAt(s, i)) = Len(s) - 1
           /\ \A x \in 1..(i - 1) : RemoveAt(s, i)[x] = s[x]
           /\ \A x \in i..(Len(s) - 1) : RemoveAt(s, i)[x] = s[x + 1]
<1>1. Len(s) \in Nat /\ i \in Nat
  BY LenProperties
<1>2. PICK a : a = SubSeq(s, 1, i - 1)
  OBVIOUS
<1>3. PICK b : b = SubSeq(s, i + 1, Len(s))
  OBVIOUS
<1>4. a \in Seq(X) /\ Len(a) = i - 1 /\ \A x \in 1..(i - 1) : a[x] = s[x]
  <2>1. /\ 1 \in Nat /\ i - 1 \in Nat /\ 1 >= 1 /\ 1 <= (i - 1) + 1 /\ i - 1 <= Len(s)
        /\ ((i - 1) - 1) + 1 = i - 1 /\ \A x \in 1..(i - 1) : (1 + x) - 1 = x
    BY <1>1
  <2>2. /\ a \in Seq(X) /\ Len(a) = ((i - 1) - 1) + 1
        /\ \A x \in 1..(((i - 1) - 1) + 1) : a[x] = s[(1 + x) - 1]
    BY <1>2, <2>1, SubSeqFacts
  <2>. QED
    BY <2>1, <2>2
<1>5. b \in Seq(X) /\ Len(b) = Len(s) - i /\ \A x \in 1..(Len(s) - i) : b[x] = s[i + x]
  <2>1. PICK j \in Nat : j = i + 1
    BY <1>1
  <2>2. PICK l \in Nat : l = Len(s)
    BY <1>1
  <2>3. /\ j >= 1 /\ j <= l + 1 /\ l <= Len(s) /\ (l - j) + 1 = Len(s) - i
        /\ \A x \in 1..(Len(s) - i) : (j + x) - 1 = i + x
    BY <1>1, <2>1, <2>2
  <2>4. b = SubSeq(s, j, l)
    BY <1>3, <2>1, <2>2
  <2>5. /\ b \in Seq(X) /\ Len(b) = (l - j) + 1
        /\ \A x \in 1..((l - j) + 1) : b[x] = s[(j + x) - 1]
    BY <2>3, <2>4, SubSeqFacts
  <2>. QED
    BY <2>3, <2>5
<1>6. PICK c : c = Cat(a, b)
  OBVIOUS
<1>7. c = RemoveAt(s, i)
  BY <1>2, <1>3, <1>6 DEF RemoveAt, Cat
<1>8. c \in Seq(X) /\ IsCat(a, b, c)
  BY <1>4, <1>5, <1>6, CatFacts
<1>9. Len(c) = Len(s) - 1 /\ \A x \in 1..(i - 1) : c[x] = s[x]
  BY <1>1, <1>4, <1>5, <1>8 DEF IsCat
<1>10. ASSUME NEW x \in i..(Len(s) - 1) PROVE c[x] = s[x + 1]
  <2>1. PICK y \in 1..(Len(s) - i) : y = x - (i - 1)
    BY <1>1
  <2>2. (i - 1) + y = x /\ i + y = x + 1
    BY <1>1, <2>1
  <2>3. c[(i - 1) + y] = b[y]
    BY <1>4, <1>5, <1>8 DEF IsCat
  <2>. QED
    BY <1>5, <2>1, <2>2, <2>3
<1>. QED
  BY <1>7, <1>8, <1>9, <1>10

\* A damaged frame begins with what no frame ends with, and neither it nor its
\* bytes and the first of the next frame read as a frame.
LEMMA DamageFacts ==
    ASSUME NEW m \in Message, NEW bytes \in Damages(Encode(m))
    PROVE  /\ bytes \in Seq(Symbol) /\ Len(bytes) >= 2
           /\ \A v : bytes[1] # <<"check", v>>
           /\ \A d \in Message : \A next :
                  ~ /\ \A v : next # <<"check", v>>
                    /\ \A i \in 1..Len(Encode(d)) : i <= Len(bytes) => Encode(d)[i] = bytes[i]
                    /\ Len(Encode(d)) > Len(bytes) => Encode(d)[Len(bytes) + 1] = next
<1>1. PICK e : e = Encode(m)
  OBVIOUS
<1>2. PICK n \in Nat : n = PayloadLen[m]
  BY EncodeFacts
<1>3. /\ e \in Seq(Symbol) /\ Len(e) = n + 3
      /\ e[1] = Magic /\ e[2] = <<"length", n>>
      /\ \A i \in 3..(n + 2) : e[i] = <<"payload", m>>
      /\ e[n + 3] = <<"check", m>>
  BY <1>1, <1>2, EncodeFacts
<1>4. /\ \A v : Magic # <<"check", v>> /\ Magic # <<"length", v>> /\ Magic # <<"noise", v>>
      /\ \A u, v : <<"length", u>> # <<"check", v>> /\ <<"length", u>> # <<"payload", v>>
                   /\ <<"length", u>> # <<"noise", v>> /\ <<"payload", u>> # <<"noise", v>>
                   /\ <<"noise", u>> # <<"check", v>>
                   /\ (<<"length", u>> = <<"length", v>> => u = v)
  BY DEF Magic
<1>5. ASSUME NEW i \in 1..Len(e), NEW v \in Noise, bytes = [e EXCEPT ![i] = <<"noise", v>>]
      PROVE  /\ bytes \in Seq(Symbol) /\ Len(bytes) = n + 3
             /\ bytes[i] = <<"noise", v>> /\ \A x \in 1..(n + 3) : x # i => bytes[x] = e[x]
  <2>1. <<"noise", v>> \in Symbol
    BY FrameAssumption DEF Symbol
  <2>. QED
    BY <1>3, <1>5, <2>1, ExceptSeq
<1>6. ASSUME NEW i \in 1..Len(e), bytes = RemoveAt(e, i)
      PROVE  /\ bytes \in Seq(Symbol) /\ Len(bytes) = n + 2
             /\ \A x \in 1..(i - 1) : bytes[x] = e[x]
             /\ \A x \in i..(n + 2) : bytes[x] = e[x + 1]
  <2>1. /\ bytes \in Seq(Symbol) /\ Len(bytes) = Len(e) - 1
        /\ \A x \in 1..(i - 1) : bytes[x] = e[x]
        /\ \A x \in i..(Len(e) - 1) : bytes[x] = e[x + 1]
    BY <1>3, <1>6, RemoveAtFacts, Zenon
  <2>2. Len(e) - 1 = n + 2
    BY <1>3
  <2>. QED
    BY <2>1, <2>2, Zenon
<1>7. \/ \E i \in 1..Len(e), v \in Noise : bytes = [e EXCEPT ![i] = <<"noise", v>>]
      \/ \E i \in 1..Len(e) : bytes = RemoveAt(e, i)
  BY <1>1 DEF Damages
<1>8. bytes \in Seq(Symbol) /\ Len(bytes) >= 2
  BY <1>5, <1>6, <1>7
<1>9. ASSUME NEW u PROVE bytes[1] # <<"check", u>>
  <2>1. ASSUME NEW i \in 1..Len(e), NEW v \in Noise, bytes = [e EXCEPT ![i] = <<"noise", v>>]
        PROVE  bytes[1] # <<"check", u>>
    <3>1. bytes[1] = <<"noise", v>> \/ bytes[1] = Magic
      BY <1>3, <1>5, <2>1
    <3>. QED
      BY <1>4, <3>1
  <2>2. ASSUME NEW i \in 1..Len(e), bytes = RemoveAt(e, i)
        PROVE  bytes[1] # <<"check", u>>
    <3>1. bytes[1] = <<"length", n>> \/ bytes[1] = Magic
      <4>1. CASE i = 1
        <5>1. 1 \in i..(n + 2) /\ 1 + 1 = 2
          BY <4>1
        <5>. QED
          BY <1>3, <1>6, <2>2, <5>1
      <4>2. CASE i # 1
        <5>1. 1 \in 1..(i - 1)
          BY <1>3, <4>2
        <5>. QED
          BY <1>3, <1>6, <2>2, <5>1
      <4>. QED
        BY <4>1, <4>2
    <3>. QED
      BY <1>4, <3>1
  <2>. QED
    BY <1>7, <2>1, <2>2
<1>10. ASSUME NEW d \in Message, NEW next,
              \A v : next # <<"check", v>>,
              \A i \in 1..Len(Encode(d)) : i <= Len(bytes) => Encode(d)[i] = bytes[i],
              Len(Encode(d)) > Len(bytes) => Encode(d)[Len(bytes) + 1] = next
       PROVE  FALSE
  <2>1. PICK w : w = Encode(d)
    OBVIOUS
  <2>2. PICK k \in Nat : k = PayloadLen[d]
    BY EncodeFacts
  <2>3. /\ Len(w) = k + 3 /\ w[1] = Magic /\ w[2] = <<"length", k>>
        /\ \A i \in 3..(k + 2) : w[i] = <<"payload", d>>
        /\ w[k + 3] = <<"check", d>>
    BY <2>1, <2>2, EncodeFacts
  <2>4. \A x \in 1..(k + 3) : x <= Len(bytes) => w[x] = bytes[x]
    BY <1>10, <2>1, <2>3
  <2>5. ASSUME NEW i \in 1..Len(e), NEW v \in Noise, bytes = [e EXCEPT ![i] = <<"noise", v>>]
        PROVE  FALSE
    <3>1. /\ Len(bytes) = n + 3 /\ bytes[i] = <<"noise", v>>
          /\ \A x \in 1..(n + 3) : x # i => bytes[x] = e[x]
      BY <1>5, <2>5
    <3>2. i \notin 1..(k + 3)
      <4>1. ASSUME i \in 1..(k + 3) PROVE FALSE
        <5>1. w[i] = <<"noise", v>>
          BY <1>3, <2>4, <3>1, <4>1
        <5>2. i = 1 \/ i = 2 \/ i \in 3..(k + 2) \/ i = k + 3
          BY <4>1
        <5>3. \/ w[i] = Magic \/ w[i] = <<"length", k>> \/ w[i] = <<"payload", d>>
              \/ w[i] = <<"check", d>>
          BY <2>3, <5>2
        <5>. QED
          BY <1>4, <5>1, <5>3
      <4>. QED
        BY <4>1
    <3>3. bytes[2] = <<"length", n>> /\ w[2] = bytes[2]
      <4>1. 2 # i /\ 2 \in 1..(n + 3) /\ 2 \in 1..(k + 3) /\ 2 <= n + 3
        BY <3>2
      <4>. QED
        BY <1>3, <2>4, <3>1, <4>1
    <3>4. k = n
      BY <1>4, <2>3, <3>3
    <3>. QED
      BY <1>3, <3>2, <3>4
  <2>6. ASSUME NEW i \in 1..Len(e), bytes = RemoveAt(e, i) PROVE FALSE
    <3>1. /\ Len(bytes) = n + 2
          /\ \A x \in 1..(i - 1) : bytes[x] = e[x]
          /\ \A x \in i..(n + 2) : bytes[x] = e[x + 1]
      BY <1>6, <2>6
    <3>2. w[1] = bytes[1] /\ w[2] = bytes[2]
      BY <2>4, <3>1
    <3>3. CASE i = 1
      <4>1. 1 \in i..(n + 2) /\ 1 + 1 = 2
        BY <3>3
      <4>2. bytes[1] = <<"length", n>>
        BY <1>3, <3>1, <4>1
      <4>. QED
        BY <1>4, <2>3, <3>2, <4>2
    <3>4. CASE i = 2
      <4>1. 2 \in i..(n + 2) /\ 2 + 1 = 3 /\ (3 \in 3..(n + 2) \/ 3 = n + 3)
        BY <3>4
      <4>2. bytes[2] = <<"payload", m>> \/ bytes[2] = <<"check", m>>
        BY <1>3, <3>1, <4>1
      <4>. QED
        BY <1>4, <2>3, <3>2, <4>2
    <3>5. CASE i # 1 /\ i # 2
      <4>1. 2 \in 1..(i - 1)
        BY <1>3, <3>5
      <4>2. bytes[2] = <<"length", n>>
        BY <1>3, <3>1, <4>1
      <4>3. k = n
        BY <1>4, <2>3, <3>2, <4>2
      <4>4. Len(w) > Len(bytes) /\ Len(bytes) + 1 = k + 3
        BY <2>3, <3>1, <4>3
      <4>5. next = <<"check", d>>
        BY <1>10, <2>1, <2>3, <4>4
      <4>. QED
        BY <1>10, <4>5
    <3>. QED
      BY <3>3, <3>4, <3>5
  <2>. QED
    BY <1>7, <2>5, <2>6
<1>. QED
  BY <1>8, <1>9, <1>10

-----------------------------------------------------------------------------
(* What waits for the reader, frame by frame.                              *)

Entry == [frame : Message \cup {Damaged}, bytes : Seq(Symbol)]

\* A frame is on the line as it was encoded, or damaged.
IsSent(entry) ==
    IF entry.frame = Damaged THEN \E m \in Message : entry.bytes \in Damages(Encode(m))
    ELSE entry.frame \in Message /\ entry.bytes = Encode(entry.frame)

\* The messages read are the first frames posted.
ReadInOrder ==
    /\ posted \in Seq(Entry) /\ got \in Seq(Message)
    /\ \A i \in 1..Len(posted) : IsSent(posted[i])
    /\ Len(got) <= Len(posted)
    /\ \A i \in 1..Len(got) : posted[i].frame = got[i]

PostedRows == [i \in 1..Len(posted) |-> posted[i].bytes]

GotRows == [i \in 1..Len(got) |-> Encode(got[i])]

LEMMA SentFacts ==
    ASSUME NEW entry, IsSent(entry)
    PROVE  Len(entry.bytes) \in Nat /\ Len(entry.bytes) >= 2
           /\ \A v : entry.bytes[1] # <<"check", v>>
<1>1. CASE entry.frame = Damaged
  BY <1>1, DamageFacts, LenProperties DEF IsSent
<1>2. CASE entry.frame # Damaged
  <2>1. PICK b : b = entry.bytes
    OBVIOUS
  <2>2. PICK m \in Message : b = Encode(m)
    BY <1>2, <2>1 DEF IsSent
  <2>3. PICK n \in Nat : n = PayloadLen[m]
    BY EncodeFacts
  <2>4. Len(b) = n + 3 /\ b[1] = Magic
    BY <2>2, <2>3, EncodeFacts
  <2>5. \A v : b[1] # <<"check", v>>
    BY <2>4 DEF Magic
  <2>. QED
    BY <2>1, <2>4, <2>5
<1>. QED
  BY <1>1, <1>2

LEMMA RowTypes ==
    ASSUME ReadInOrder
    PROVE  /\ PostedRows \in Seq(Seq(Symbol)) /\ Len(PostedRows) = Len(posted)
           /\ GotRows \in Seq(Seq(Symbol)) /\ Len(GotRows) = Len(got)
           /\ Len(posted) \in Nat /\ Len(got) \in Nat
           /\ \A i \in 1..Len(got) : GotRows[i] = PostedRows[i]
<1>1. /\ posted \in Seq(Entry) /\ got \in Seq(Message)
      /\ Len(posted) \in Nat /\ Len(got) \in Nat /\ Len(got) <= Len(posted)
  BY LenProperties DEF ReadInOrder
<1>2. PICK R : R = Seq(Symbol)
  OBVIOUS
<1>3. \A i \in 1..Len(posted) : posted[i].bytes \in R
  <2>1. \A i \in 1..Len(posted) : posted[i] \in Entry
    BY <1>1, ElementOfSeq
  <2>. QED
    BY <1>2, <2>1 DEF Entry
<1>4. PostedRows \in Seq(R) /\ Len(PostedRows) = Len(posted)
  BY <1>1, <1>3 DEF PostedRows
<1>5. \A i \in 1..Len(got) : Encode(got[i]) \in R
  <2>1. \A i \in 1..Len(got) : got[i] \in Message
    BY <1>1, ElementOfSeq
  <2>. QED
    BY <1>2, <2>1, EncodeFacts
<1>6. GotRows \in Seq(R) /\ Len(GotRows) = Len(got)
  BY <1>1, <1>5 DEF GotRows
<1>7. ASSUME NEW i \in 1..Len(got) PROVE GotRows[i] = PostedRows[i]
  <2>1. i \in 1..Len(posted) /\ got[i] \in Message /\ posted[i].frame = got[i]
    BY <1>1, ElementOfSeq DEF ReadInOrder
  <2>2. got[i] # Damaged
    BY <2>1, FrameAssumption DEF Damaged
  <2>3. posted[i].bytes = Encode(got[i])
    BY <2>1, <2>2 DEF ReadInOrder, IsSent
  <2>. QED
    BY <2>1, <2>3 DEF GotRows, PostedRows
<1>. QED
  BY <1>1, <1>2, <1>4, <1>6, <1>7

\* The bytes behind the frames read are those of the frames behind them.
LEMMA NextFrames ==
    ASSUME ReadInOrder, NEW part \in Seq(Symbol), NEW rest \in Seq(Symbol),
           Posted = Cat(Cat(BytesOf(got), part), rest)
    PROVE  /\ part # <<>> => Len(got) < Len(posted)
           /\ Len(got) < Len(posted) =>
                  /\ \A i \in 1..Len(part) : i <= Len(posted[Len(got) + 1].bytes) =>
                         part[i] = posted[Len(got) + 1].bytes[i]
                  /\ Len(part) > Len(posted[Len(got) + 1].bytes) =>
                         /\ Len(got) + 1 < Len(posted)
                         /\ part[Len(posted[Len(got) + 1].bytes) + 1] = posted[Len(got) + 2].bytes[1]
<1>1. PICK k \in Nat : k = Len(got)
  BY RowTypes
<1>2. PICK n \in Nat : n = Len(posted) /\ k <= n
  BY <1>1, RowTypes DEF ReadInOrder
<1>3. PICK rows \in Seq(Seq(Symbol)) : rows = PostedRows /\ Len(rows) = n
  BY <1>2, RowTypes
<1>4. PICK f : Joins(f, rows, Symbol)
  BY <1>3, JoinsExist
<1>5. PICK g : Joins(g, GotRows, Symbol)
  BY RowTypes, JoinsExist
<1>6. f[k] = g[k]
  <2>1. PICK s \in Seq(Seq(Symbol)) : s = GotRows
    BY RowTypes
  <2>2. /\ k <= Len(s) /\ k <= Len(rows) /\ k \in 0..k
        /\ \A i \in 1..k : s[i] = rows[i]
    BY <1>1, <1>2, <1>3, <2>1, RowTypes
  <2>3. Joins(g, s, Symbol)
    BY <1>5, <2>1
  <2>4. \A i \in 0..k : g[i] = f[i]
    BY <1>4, <2>2, <2>3, JoinsAgree
  <2>. QED
    BY <2>2, <2>4
<1>7. PICK all \in Seq(Symbol) : all = f[n] /\ all = Posted
  BY <1>3, <1>4, FlattenIsJoin DEF Posted, PostedRows
<1>8. PICK done \in Seq(Symbol) : done = f[k] /\ done = BytesOf(got)
  <2>1. Len(GotRows) = k /\ GotRows \in Seq(Seq(Symbol))
    BY <1>1, RowTypes
  <2>. QED
    BY <1>5, <1>6, <2>1, FlattenIsJoin DEF BytesOf, GotRows
<1>9. IsCat(done, part, Cat(done, part)) /\ Cat(done, part) \in Seq(Symbol)
  BY <1>8, CatFacts
<1>10. IsCat(Cat(done, part), rest, all)
  BY <1>7, <1>8, <1>9, CatFacts
<1>11. /\ Len(done) \in Nat /\ Len(part) \in Nat /\ Len(done) + Len(part) <= Len(all)
       /\ \A i \in 1..Len(part) : all[Len(done) + i] = part[i]
  BY <1>9, <1>10 DEF IsCat
<1>12. part # <<>> => k < n
  <2>1. k = n => Len(done) = Len(all)
    BY <1>7, <1>8
  <2>2. k = n => Len(part) = 0
    BY <1>11, <2>1
  <2>. QED
    BY <1>2, <2>2, EmptySeq
<1>13. ASSUME k < n
       PROVE  /\ \A i \in 1..Len(part) : i <= Len(posted[k + 1].bytes) =>
                         part[i] = posted[k + 1].bytes[i]
              /\ Len(part) > Len(posted[k + 1].bytes) =>
                         /\ k + 1 < n
                         /\ part[Len(posted[k + 1].bytes) + 1] = posted[k + 2].bytes[1]
  <2>1. PICK b : b = posted[k + 1].bytes
    OBVIOUS
  <2>2. PICK next : next = posted[k + 2].bytes
    OBVIOUS
  <2>3. k + 1 \in 1..n /\ (k + 1) - 1 = k
    BY <1>13
  <2>4. rows[k + 1] = b
    BY <1>2, <1>3, <2>1, <2>3 DEF PostedRows
  <2>5. PICK both : both = f[k + 1]
    OBVIOUS
  <2>6. Follows(done, b, all) /\ Len(both) = Len(done) + Len(b)
    <3>1. PICK j \in 1..Len(rows) : j = k + 1 /\ j - 1 = k
      BY <1>3, <2>3
    <3>2. /\ Follows(f[j - 1], rows[j], f[Len(rows)])
          /\ Len(f[j]) = Len(f[j - 1]) + Len(rows[j])
      BY <1>4, JoinedNext
    <3>. QED
      BY <1>3, <1>7, <1>8, <2>4, <2>5, <3>1, <3>2
  <2>7. ASSUME NEW i \in 1..Len(part), i <= Len(b) PROVE part[i] = b[i]
    <3>1. all[Len(done) + i] = b[i]
      BY <2>6, <2>7 DEF Follows
    <3>. QED
      BY <1>11, <3>1
  <2>8. ASSUME Len(part) > Len(b) PROVE k + 1 < n /\ part[Len(b) + 1] = next[1]
    <3>1. k + 1 < n
      <4>1. k + 1 = n => Len(done) + Len(b) = Len(all)
        BY <1>7, <2>5, <2>6
      <4>2. k + 1 # n
        BY <1>11, <2>6, <2>8, <4>1 DEF Follows
      <4>. QED
        BY <2>3, <4>2
    <3>2. k + 2 \in 1..n /\ (k + 2) - 1 = k + 1
      BY <3>1
    <3>3. rows[k + 2] = next
      BY <1>2, <1>3, <2>2, <3>2 DEF PostedRows
    <3>4. Follows(both, next, all)
      <4>1. PICK j \in 1..Len(rows) : j = k + 2 /\ j - 1 = k + 1
        BY <1>3, <3>2
      <4>2. Follows(f[j - 1], rows[j], f[Len(rows)])
        BY <1>4, JoinedNext
      <4>. QED
        BY <1>3, <1>7, <2>5, <3>3, <4>1, <4>2
    <3>5. Len(next) \in Nat /\ Len(next) >= 2
      BY <1>2, <2>2, <3>2, SentFacts DEF ReadInOrder
    <3>6. all[Len(both) + 1] = next[1]
      BY <3>4, <3>5 DEF Follows
    <3>7. Len(both) + 1 = Len(done) + (Len(b) + 1) /\ Len(b) + 1 \in 1..Len(part)
      BY <1>11, <2>6, <2>8 DEF Follows
    <3>8. all[Len(done) + (Len(b) + 1)] = part[Len(b) + 1]
      BY <1>11, <3>7
    <3>. QED
      BY <3>1, <3>6, <3>7, <3>8
  <2>. QED
    BY <2>1, <2>2, <2>7, <2>8
<1>. QED
  BY <1>1, <1>2, <1>12, <1>13

-----------------------------------------------------------------------------
(* Bytes that change places.                                               *)

\* A sequence cut in two.
Split(s, n, p, q) ==
    p = SubSeq(s, 1, n) /\ q = SubSeq(s, n + 1, Len(s))

LEMMA SplitFacts ==
    ASSUME NEW X, NEW s \in Seq(X), NEW n \in Nat, n <= Len(s), NEW p, NEW q, Split(s, n, p, q)
    PROVE  /\ p \in Seq(X) /\ q \in Seq(X) /\ Cat(p, q) = s
           /\ Len(p) = n /\ Len(q) = Len(s) - n
<1>1. PICK l \in Nat : l = Len(s) /\ n <= l
  BY LenProperties
<1>2. PICK j \in Nat : j = n + 1 /\ j >= 1 /\ j <= l + 1 /\ (l - j) + 1 = l - n
  BY <1>1
<1>3. p \in Seq(X) /\ Len(p) = n
  <2>1. PICK i \in Nat : i = 1 /\ i >= 1 /\ i <= n + 1 /\ (n - i) + 1 = n
    OBVIOUS
  <2>2. SubSeq(s, i, n) \in Seq(X) /\ Len(SubSeq(s, i, n)) = (n - i) + 1
    BY <2>1, SubSeqFacts
  <2>. QED
    BY <2>1, <2>2 DEF Split
<1>4. q \in Seq(X) /\ Len(q) = l - n
  <2>1. SubSeq(s, j, l) \in Seq(X) /\ Len(SubSeq(s, j, l)) = (l - j) + 1
    <3>1. l <= Len(s)
      BY <1>1
    <3>. QED
      BY <1>2, <3>1, SubSeqFacts
  <2>. QED
    BY <1>1, <1>2, <2>1 DEF Split
<1>5. SubSeq(s, 1, n) \o SubSeq(s, n + 1, Len(s)) = SubSeq(s, 1, Len(s))
  <2>1. 1 \in 1..(Len(s) + 1) /\ n \in (1 - 1)..Len(s) /\ Len(s) \in n..Len(s)
    BY <1>1
  <2>. QED
    BY <2>1, ConcatAdjacentSubSeq
<1>6. Cat(p, q) = s
  BY <1>5, SubSeqFull DEF Split, Cat
<1>. QED
  BY <1>1, <1>3, <1>4, <1>6

\* The first of one sequence becomes the last of another.
LEMMA HandOver ==
    ASSUME NEW X, NEW s \in Seq(X), NEW t \in Seq(X), t # <<>>
    PROVE  /\ Append(s, Head(t)) \in Seq(X) /\ Tail(t) \in Seq(X)
           /\ Cat(Append(s, Head(t)), Tail(t)) = Cat(s, t)
           /\ Len(Append(s, Head(t))) = Len(s) + 1
           /\ Len(Tail(t)) <= Len(t)
<1>1. PICK h \in X : h = Head(t)
  BY HeadTailProperties
<1>2. PICK r \in Seq(X) : r = Tail(t) /\ Len(r) = Len(t) - 1 /\ Len(t) \in Nat
  BY HeadTailProperties, LenProperties
<1>3. PICK one \in Seq(X) : one = <<h>>
  <2>1. <<h>> \in Seq(X)
    OBVIOUS
  <2>. QED
    BY <2>1
<1>4. Cat(one, r) = t
  <2>1. IsCat(one, r, Cat(one, r)) /\ Cat(one, r) \in Seq(X)
    BY CatFacts
  <2>2. PICK c \in Seq(X) : c = Cat(one, r) /\ IsCat(one, r, c)
    BY <2>1
  <2>3. Len(one) = 1 /\ one[1] = h /\ \A i \in 1..Len(r) : r[i] = t[i + 1]
    BY <1>2, <1>3, HeadTailProperties
  <2>4. Len(c) = Len(t) /\ c[1] = h /\ \A i \in 1..Len(r) : c[1 + i] = r[i]
    BY <1>2, <2>2, <2>3 DEF IsCat
  <2>5. t[1] = h
    BY <1>1
  <2>6. ASSUME NEW i \in 1..Len(c) PROVE c[i] = t[i]
    <3>1. CASE i = 1
      BY <2>4, <2>5, <3>1
    <3>2. CASE i # 1
      <4>1. PICK x \in 1..Len(r) : i = 1 + x /\ i = x + 1
        <5>1. i - 1 \in 1..Len(r) /\ i = 1 + (i - 1) /\ i = (i - 1) + 1
          BY <1>2, <2>4, <3>2
        <5>. QED
          BY <5>1
      <4>. QED
        BY <2>3, <2>4, <4>1
    <3>. QED
      BY <3>1, <3>2
  <2>7. c = t
    BY <2>4, <2>6, SeqEqual
  <2>. QED
    BY <2>2, <2>7
<1>5. PICK a \in Seq(X) : a = Append(s, h) /\ Len(a) = Len(s) + 1
  BY AppendProperties
<1>6. a = Cat(s, one)
  BY <1>3, <1>5, AppendIsConcat DEF Cat
<1>7. Cat(Cat(s, one), r) = Cat(s, Cat(one, r))
  BY CatAssociative
<1>8. Cat(a, r) = Cat(s, t)
  BY <1>4, <1>6, <1>7
<1>. QED
  BY <1>1, <1>2, <1>5, <1>8

Chain(a, b, c, d, e) == Cat(Cat(Cat(Cat(a, b), c), d), e)

LEMMA ChainFacts ==
    ASSUME NEW X, NEW a \in Seq(X), NEW b \in Seq(X), NEW c \in Seq(X), NEW d \in Seq(X),
           NEW e \in Seq(X)
    PROVE  /\ Chain(a, b, c, d, e) \in Seq(X)
           /\ Chain(a, b, c, d, e) = Cat(Cat(a, b), Cat(Cat(c, d), e))
           /\ Chain(a, b, c, d, e) = Cat(Cat(a, Cat(Cat(b, c), d)), e)
           /\ Chain(a, b, c, d, e) = Cat(Cat(Cat(a, b), c), Cat(d, e))
           /\ Chain(Cat(a, b), <<>>, c, d, e) = Chain(a, b, c, d, e)
<1>1. PICK ab \in Seq(X) : ab = Cat(a, b)
  BY CatFacts
<1>2. PICK bc \in Seq(X) : bc = Cat(b, c)
  BY CatFacts
<1>3. PICK cd \in Seq(X) : cd = Cat(c, d)
  BY CatFacts
<1>4. PICK abc \in Seq(X) : abc = Cat(ab, c)
  BY CatFacts
<1>5. PICK abcd \in Seq(X) : abcd = Cat(abc, d)
  BY CatFacts
<1>6. PICK all \in Seq(X) : all = Cat(abcd, e)
  BY CatFacts
<1>7. Chain(a, b, c, d, e) = all
  BY <1>1, <1>4, <1>5, <1>6 DEF Chain
<1>8. all = Cat(ab, Cat(cd, e))
  <2>1. abcd = Cat(ab, cd)
    BY <1>3, <1>4, <1>5, CatAssociative
  <2>. QED
    BY <1>6, <2>1, CatAssociative
<1>9. all = Cat(Cat(a, Cat(bc, d)), e)
  <2>1. abc = Cat(a, bc)
    BY <1>1, <1>2, <1>4, CatAssociative
  <2>2. abcd = Cat(a, Cat(bc, d))
    BY <1>5, <2>1, CatAssociative
  <2>. QED
    BY <1>6, <2>2
<1>10. all = Cat(abc, Cat(d, e))
  BY <1>5, <1>6, CatAssociative
<1>11. Chain(Cat(a, b), <<>>, c, d, e) = all
  <2>1. Cat(ab, <<>>) = ab
    BY CatEmpty
  <2>. QED
    BY <1>1, <1>4, <1>5, <1>6, <2>1 DEF Chain
<1>. QED
  BY <1>1, <1>2, <1>3, <1>4, <1>6, <1>7, <1>8, <1>9, <1>10, <1>11

LEMMA ChainGrows ==
    ASSUME NEW X, NEW a \in Seq(X), NEW b \in Seq(X), NEW c \in Seq(X), NEW d \in Seq(X),
           NEW e \in Seq(X), NEW x \in Seq(X)
    PROVE  Chain(a, b, c, d, Cat(e, x)) = Cat(Chain(a, b, c, d, e), x)
<1>1. PICK ab \in Seq(X) : ab = Cat(a, b)
  BY CatFacts
<1>2. PICK abc \in Seq(X) : abc = Cat(ab, c)
  BY CatFacts
<1>3. PICK abcd \in Seq(X) : abcd = Cat(abc, d)
  BY CatFacts
<1>4. Cat(abcd, Cat(e, x)) = Cat(Cat(abcd, e), x)
  BY CatAssociative
<1>. QED
  BY <1>1, <1>2, <1>3, <1>4 DEF Chain

-----------------------------------------------------------------------------
(* What a transport does.                                                  *)

LinkTyped ==
    /\ wire \in Seq(Symbol) /\ fifo \in Seq(Symbol) /\ staged \in Seq(Symbol)
    /\ buf \in Seq(Symbol) /\ need \in Nat
    /\ out \in Seq(Symbol) /\ tx \in Seq(Symbol) /\ heard \in Seq(Symbol)
    /\ kind \in Kind
    /\ Len(buf) <= need
    /\ kind = "ble" => Len(staged) <= RxBufLen
    /\ kind \notin {"ble", "ws"} => staged = <<>>
    /\ kind \in Flushed => Len(tx) <= TxLen

\* Bytes move from the device or the staging buffer towards the slice.
ReadEffect ==
    /\ Len(buf) < need
    /\ buf' \in Seq(Symbol) /\ staged' \in Seq(Symbol) /\ fifo' \in Seq(Symbol)
    /\ Cat(Cat(buf', staged'), fifo') = Cat(Cat(buf, staged), fifo)
    /\ Begins(buf, buf') /\ Len(buf') <= need
    /\ Len(fifo') <= Len(fifo)
    /\ kind = "ble" => Len(staged') <= RxBufLen
    /\ kind \notin {"ble", "ws"} => staged' = <<>>
    /\ UNCHANGED <<config, polling, wire, need, outgoing>>

\* Bytes move from the slice to the device.
WriteEffect ==
    /\ out # <<>>
    /\ tx' \in Seq(Symbol) /\ out' \in Seq(Symbol)
    /\ Cat(tx', out') = Cat(tx, out)
    /\ kind \in Flushed => Len(tx') <= TxLen
    /\ UNCHANGED <<config, polling, incoming, heard>>

\* A poll ends or begins.
PollEffect ==
    /\ PollTypeOK'
    /\ UNCHANGED <<config, incoming, outgoing>>

LEMMA PollTypeKept ==
    ASSUME PollTypeOK, UNCHANGED <<config, polling>>
    PROVE  PollTypeOK'
  BY DEF PollTypeOK, config, polling

LEMMA PollTypeInterrupted ==
    ASSUME PollTypeOK, Interrupt, UNCHANGED config
    PROVE  PollTypeOK'
  BY DEF PollTypeOK, Interrupt, config

\* Bytes are taken in front of those the transport has.
LEMMA Taken ==
    ASSUME LinkTyped, Len(buf) < need,
           NEW n \in Nat, n >= 1, NEW p, NEW q, n <= need - Len(buf),
           buf' = Cat(buf, p),
           UNCHANGED <<config, polling, wire, need, outgoing>>,
           \/ Split(fifo, n, p, q) /\ n <= Len(fifo) /\ fifo' = q /\ staged = <<>> /\ staged' = <<>>
           \/ Split(staged, n, p, q) /\ n <= Len(staged) /\ staged' = q /\ fifo' = fifo
              /\ kind \in {"ble", "ws"}
    PROVE  ReadEffect
<1>1. /\ buf \in Seq(Symbol) /\ staged \in Seq(Symbol) /\ fifo \in Seq(Symbol)
      /\ Len(buf) \in Nat /\ Len(fifo) \in Nat /\ Len(staged) \in Nat /\ need \in Nat
  BY LenProperties DEF LinkTyped
<1>2. /\ p \in Seq(Symbol) /\ q \in Seq(Symbol) /\ Len(p) = n
      /\ \/ /\ Cat(p, q) = fifo /\ Len(q) = Len(fifo) - n
            /\ fifo' = q /\ staged = <<>> /\ staged' = <<>>
         \/ /\ Cat(p, q) = staged /\ Len(q) = Len(staged) - n
            /\ staged' = q /\ fifo' = fifo /\ kind \in {"ble", "ws"}
  BY <1>1, SplitFacts
<1>3. buf' \in Seq(Symbol) /\ IsCat(buf, p, buf')
  BY <1>1, <1>2, CatFacts
<1>4. Begins(buf, buf') /\ Len(buf') <= need
  <2>1. Len(buf') = Len(buf) + n
    BY <1>2, <1>3 DEF IsCat
  <2>. QED
    BY <1>1, <1>3, <2>1 DEF Begins, IsCat
<1>5. Cat(Cat(buf', staged'), fifo') = Cat(Cat(buf, staged), fifo)
  <2>1. CASE Cat(p, q) = fifo /\ fifo' = q /\ staged = <<>> /\ staged' = <<>>
    <3>1. Cat(buf, staged) = buf /\ Cat(buf', staged') = buf'
      BY <1>1, <1>3, <2>1, CatEmpty
    <3>2. Cat(Cat(buf, p), q) = Cat(buf, Cat(p, q))
      BY <1>1, <1>2, CatAssociative
    <3>. QED
      BY <2>1, <3>1, <3>2
  <2>2. CASE Cat(p, q) = staged /\ staged' = q /\ fifo' = fifo
    <3>1. Cat(Cat(buf, p), q) = Cat(buf, Cat(p, q))
      BY <1>1, <1>2, CatAssociative
    <3>. QED
      BY <2>2, <3>1
  <2>. QED
    BY <1>2, <2>1, <2>2
<1>6. staged' \in Seq(Symbol) /\ fifo' \in Seq(Symbol) /\ Len(fifo') <= Len(fifo)
  BY <1>1, <1>2
<1>7. kind = "ble" => Len(staged') <= RxBufLen
  <2>1. Len(staged') <= Len(staged)
    BY <1>1, <1>2
  <2>2. Len(staged') \in Nat /\ RxBufLen \in Nat
    BY <1>6, LenProperties, BleAssumption
  <2>. QED
    BY <1>1, <2>1, <2>2 DEF LinkTyped
<1>8. kind \notin {"ble", "ws"} => staged' = <<>>
  BY <1>2
<1>. QED
  BY <1>3, <1>4, <1>5, <1>6, <1>7, <1>8 DEF ReadEffect

\* Bytes are staged where nothing was.
LEMMA StagedFirst ==
    ASSUME LinkTyped, Len(buf) < need, kind \in {"ble", "ws"},
           NEW n \in Nat, n >= 1, n <= Len(fifo), NEW p, NEW q, Split(fifo, n, p, q),
           kind = "ble" => n <= RxBufLen,
           staged = <<>>, staged' = p, fifo' = q,
           UNCHANGED <<config, polling, wire, buf, need, outgoing>>
    PROVE  ReadEffect
<1>1. buf \in Seq(Symbol) /\ fifo \in Seq(Symbol) /\ Len(fifo) \in Nat
  BY LenProperties DEF LinkTyped
<1>2. /\ p \in Seq(Symbol) /\ q \in Seq(Symbol) /\ Cat(p, q) = fifo
      /\ Len(p) = n /\ Len(q) = Len(fifo) - n
  BY <1>1, SplitFacts
<1>3. Cat(Cat(buf', staged'), fifo') = Cat(Cat(buf, staged), fifo)
  <2>1. Cat(buf, staged) = buf
    BY <1>1, CatEmpty
  <2>2. Cat(Cat(buf, p), q) = Cat(buf, Cat(p, q))
    BY <1>1, <1>2, CatAssociative
  <2>. QED
    BY <1>2, <2>1, <2>2
<1>4. Begins(buf, buf') /\ Len(buf') <= need
  <2>1. Begins(buf, buf)
    BY <1>1, BeginsItself
  <2>. QED
    BY <2>1 DEF LinkTyped
<1>5. Len(fifo') <= Len(fifo) /\ (kind = "ble" => Len(staged') <= RxBufLen)
  BY <1>1, <1>2
<1>. QED
  BY <1>1, <1>2, <1>3, <1>4, <1>5 DEF ReadEffect

LEMMA Given ==
    ASSUME LinkTyped, out # <<>>, NEW n \in Nat, n <= Len(out), Give(n),
           kind \in Flushed => n <= TxLen - Len(tx)
    PROVE  WriteEffect
<1>1. PICK p : p = SubSeq(out, 1, n)
  OBVIOUS
<1>2. PICK q : q = SubSeq(out, n + 1, Len(out))
  OBVIOUS
<1>3. Split(out, n, p, q) /\ tx' = Cat(tx, p) /\ out' = q
  BY <1>1, <1>2 DEF Give, Split, Cat
<1>4. tx \in Seq(Symbol) /\ out \in Seq(Symbol) /\ Len(tx) \in Nat
  BY LenProperties DEF LinkTyped
<1>5. p \in Seq(Symbol) /\ q \in Seq(Symbol) /\ Cat(p, q) = out /\ Len(p) = n
  BY <1>3, <1>4, SplitFacts
<1>6. tx' \in Seq(Symbol) /\ IsCat(tx, p, tx')
  BY <1>3, <1>4, <1>5, CatFacts
<1>7. Cat(tx', out') = Cat(tx, out)
  <2>1. Cat(Cat(tx, p), q) = Cat(tx, Cat(p, q))
    BY <1>4, <1>5, CatAssociative
  <2>. QED
    BY <1>3, <1>5, <2>1
<1>8. kind \in Flushed => Len(tx') <= TxLen
  <2>1. Len(tx') = Len(tx) + n
    BY <1>5, <1>6 DEF IsCat
  <2>. QED
    BY <1>4, <2>1, LinkAssumption
<1>. QED
  BY <1>3, <1>5, <1>6, <1>7, <1>8 DEF WriteEffect, Give

\* Every step inside a transport is one of the three.
LEMMA TransportEffect ==
    ASSUME LinkTyped, PollTypeOK, BleStep \/ WsStep \/ NbStep \/ EspStep \/ ExecutorStep
    PROVE  ReadEffect \/ WriteEffect \/ PollEffect
<1>1. /\ Len(fifo) \in Nat /\ Len(staged) \in Nat /\ Len(buf) \in Nat /\ Len(out) \in Nat
      /\ Len(tx) \in Nat /\ need \in Nat /\ RxBufLen \in Nat /\ TxLen \in Nat
  BY LenProperties, BleAssumption, LinkAssumption DEF LinkTyped
<1>2. ASSUME NEW n \in Nat, n >= 1, n <= need - Len(buf), Filling, TakeReceived(n),
             kind \notin {"ble", "ws"}
      PROVE  ReadEffect
  <2>1. PICK p : p = SubSeq(fifo, 1, n)
    OBVIOUS
  <2>2. PICK q : q = SubSeq(fifo, n + 1, Len(fifo))
    OBVIOUS
  <2>3. Split(fifo, n, p, q) /\ buf' = Cat(buf, p) /\ fifo' = q /\ n <= Len(fifo)
    BY <1>2, <2>1, <2>2 DEF TakeReceived, Split, Cat
  <2>4. /\ staged = <<>> /\ staged' = <<>> /\ Len(buf) < need
        /\ UNCHANGED <<config, polling, wire, need, outgoing>>
    BY <1>2 DEF TakeReceived, LinkTyped, Filling
  <2>. QED
    BY <1>2, <2>3, <2>4, Taken
<1>3. ASSUME NEW n \in Nat, n >= 1, n <= need - Len(buf), Filling, TakeStaged(n),
             kind \in {"ble", "ws"}
      PROVE  ReadEffect
  <2>1. PICK p : p = SubSeq(staged, 1, n)
    OBVIOUS
  <2>2. PICK q : q = SubSeq(staged, n + 1, Len(staged))
    OBVIOUS
  <2>3. Split(staged, n, p, q) /\ buf' = Cat(buf, p) /\ staged' = q /\ n <= Len(staged)
    BY <1>3, <2>1, <2>2 DEF TakeStaged, Split, Cat
  <2>4. /\ fifo' = fifo /\ Len(buf) < need
        /\ UNCHANGED <<config, polling, wire, need, outgoing>>
    BY <1>3 DEF TakeStaged, Filling
  <2>. QED
    BY <1>3, <2>3, <2>4, Taken
<1>4. CASE BleRefill
  <2>1. PICK n \in 1..Shorter(Len(fifo), RxBufLen) :
            staged' = SubSeq(fifo, 1, n) /\ fifo' = SubSeq(fifo, n + 1, Len(fifo))
    BY <1>4 DEF BleRefill
  <2>2. n \in Nat /\ n >= 1 /\ n <= Len(fifo) /\ n <= RxBufLen
    BY <1>1 DEF Shorter
  <2>3. PICK p : p = SubSeq(fifo, 1, n)
    OBVIOUS
  <2>4. PICK q : q = SubSeq(fifo, n + 1, Len(fifo))
    OBVIOUS
  <2>5. Split(fifo, n, p, q) /\ staged' = p /\ fifo' = q
    BY <2>1, <2>3, <2>4 DEF Split
  <2>6. /\ kind \in {"ble", "ws"} /\ Len(buf) < need /\ staged = <<>>
        /\ UNCHANGED <<config, polling, wire, buf, need, outgoing>>
    BY <1>4 DEF BleRefill, Filling
  <2>. QED
    BY <2>2, <2>5, <2>6, StagedFirst
<1>5. CASE BleCopy
  <2>1. PICK n : n = Shorter(Len(staged), need - Len(buf))
    OBVIOUS
  <2>2. Len(staged) # 0
    BY <1>5, EmptySeq DEF BleCopy, LinkTyped
  <2>3. n \in Nat /\ n >= 1 /\ n <= need - Len(buf)
    BY <1>1, <1>5, <2>1, <2>2 DEF BleCopy, Filling, Shorter
  <2>. QED
    BY <1>3, <1>5, <2>1, <2>3 DEF BleCopy
<1>6. CASE WsReadMessage
  <2>1. PICK n \in 1..Len(fifo) :
            staged' = staged \o SubSeq(fifo, 1, n) /\ fifo' = SubSeq(fifo, n + 1, Len(fifo))
    BY <1>6 DEF WsReadMessage
  <2>2. n \in Nat /\ n >= 1 /\ n <= Len(fifo)
    BY <1>1
  <2>3. PICK p : p = SubSeq(fifo, 1, n)
    OBVIOUS
  <2>4. PICK q : q = SubSeq(fifo, n + 1, Len(fifo))
    OBVIOUS
  <2>5. Split(fifo, n, p, q) /\ staged' = Cat(staged, p) /\ fifo' = q
    BY <2>1, <2>3, <2>4 DEF Split, Cat
  <2>6. /\ kind = "ws" /\ Len(buf) < need /\ staged = <<>>
        /\ UNCHANGED <<config, polling, wire, buf, need, outgoing>>
    BY <1>6 DEF WsReadMessage, Filling
  <2>7. p \in Seq(Symbol)
    BY <2>2, <2>5, SplitFacts DEF LinkTyped
  <2>8. Cat(staged, p) = p
    BY <2>6, <2>7, CatEmpty
  <2>. QED
    BY <2>2, <2>5, <2>6, <2>8, StagedFirst
<1>7. CASE WsPopByte
  <2>1. 1 <= need - Len(buf)
    BY <1>1, <1>7 DEF WsPopByte, Filling
  <2>. QED
    BY <1>3, <1>7, <2>1 DEF WsPopByte
<1>8. CASE NbReadByte \/ EspReadByte
  <2>1. 1 <= need - Len(buf)
    BY <1>1, <1>8 DEF NbReadByte, EspReadByte, Filling
  <2>2. kind \notin {"ble", "ws"} /\ Filling /\ TakeReceived(1)
    BY <1>8 DEF NbReadByte, EspReadByte, Nb, EspBlocking
  <2>. QED
    BY <1>2, <2>1, <2>2
<1>9. CASE EspReadSome
  <2>1. PICK n \in 1..Shorter(Len(fifo), need - Len(buf)) : TakeReceived(n)
    BY <1>9 DEF EspReadSome
  <2>2. n \in Nat /\ n >= 1 /\ n <= need - Len(buf)
    BY <1>1, <1>9 DEF Shorter, EspReadSome, Filling
  <2>. QED
    BY <1>2, <1>9, <2>1, <2>2 DEF EspReadSome
<1>10. CASE BleWrite \/ WsWrite
  <2>1. kind \notin Flushed /\ out # <<>>
    BY <1>10 DEF BleWrite, WsWrite, Writing, Flushed
  <2>2. PICK n \in Nat : n <= Len(out) /\ Give(n)
    BY <1>1, <1>10 DEF BleWrite, WsWrite
  <2>. QED
    BY <2>1, <2>2, Given
<1>11. CASE NbWriteByte \/ EspWriteByte
  <2>1. Len(tx) < TxLen /\ out # <<>> /\ Give(1)
    BY <1>11 DEF NbWriteByte, EspWriteByte, Writing
  <2>2. Len(out) # 0
    BY <2>1, EmptySeq DEF LinkTyped
  <2>3. 1 <= Len(out) /\ 1 <= TxLen - Len(tx)
    BY <1>1, <2>1, <2>2
  <2>. QED
    BY <2>1, <2>3, Given
<1>12. CASE EspWriteSome
  <2>1. PICK n \in 1..Shorter(Len(out), TxLen - Len(tx)) : Give(n)
    BY <1>12 DEF EspWriteSome
  <2>2. n \in Nat /\ n <= Len(out) /\ n <= TxLen - Len(tx) /\ out # <<>>
    BY <1>1, <1>12 DEF Shorter, EspWriteSome, Writing
  <2>. QED
    BY <2>1, <2>2, Given
<1>13. CASE NbPending \/ EspPending
  <2>1. /\ kind \in Async /\ poll' = "blocked" /\ woken' = woken
        /\ UNCHANGED <<config, incoming, outgoing>>
    BY <1>13 DEF NbPending, EspPending, Block, Async
  <2>. QED
    BY <2>1 DEF PollEffect, PollTypeOK, config
<1>14. CASE Yield
  BY <1>14 DEF Yield, PollEffect, PollTypeOK, config
<1>15. CASE Repoll
  BY <1>15 DEF Repoll, PollEffect, PollTypeOK, config
<1>. QED
  BY <1>4, <1>5, <1>6, <1>7, <1>8, <1>9, <1>10, <1>11, <1>12, <1>13, <1>14, <1>15
     DEF BleStep, WsStep, NbStep, EspStep, ExecutorStep

-----------------------------------------------------------------------------
(* The inductive invariant.                                                *)

Incoming == Chain(BytesOf(got), buf, staged, fifo, wire)

AnswerRows == [i \in 1..Len(got) |-> Answer(got[i])]

Answers == Cat(Answer(Handshake), FlattenSeq(AnswerRows))

AllWritten == Cat(Cat(heard, tx), out)

\* Nothing is being read while an answer is written, nothing written while a
\* frame is read, and a read_exact has the length its frame announced.
PhaseOK ==
    /\ phase \in {"header", "rest", "answer", "stopped"}
    /\ error \in ReadError /\ (error # "none" <=> phase = "stopped")
    /\ phase \in {"answer", "stopped"} => buf = <<>> /\ need = 0
    /\ phase # "answer" => out = <<>>
    /\ phase = "header" => need = HeaderLen
    /\ phase = "rest" =>
           Len(buf) >= HeaderLen /\ need = HeaderLen + buf[2][2] + TrailerLen
    /\ phase \in {"header", "rest"} /\ kind \in Flushed => tx = <<>>

PollOK ==
    /\ kind \in Kinds /\ PollTypeOK
    /\ Len(fifo) <= FifoLen

AnswersInOrder ==
    IF phase = "stopped" THEN Begins(AllWritten, Answers) ELSE AllWritten = Answers

BytesArrive == phase # "stopped" => Posted = Incoming

ReaderInv ==
    /\ LinkTyped /\ PollOK /\ PhaseOK /\ ReadInOrder
    /\ BytesArrive
    /\ AnswersInOrder

LEMMA StreamTypes ==
    ASSUME ReadInOrder
    PROVE  BytesOf(got) \in Seq(Symbol) /\ Posted \in Seq(Symbol)
<1>1. PICK f : Joins(f, PostedRows, Symbol)
  BY RowTypes, JoinsExist
<1>2. PICK g : Joins(g, GotRows, Symbol)
  BY RowTypes, JoinsExist
<1>. QED
  BY <1>1, <1>2, RowTypes, FlattenIsJoin DEF BytesOf, Posted, GotRows, PostedRows

LEMMA AnswerType ==
    ASSUME NEW m \in Nat
    PROVE  Answer(m) \in Seq(Symbol)
<1>1. <<"answer", m>> \in Symbol
  BY DEF Symbol
<1>2. AnswerLen \in Nat
  BY FrameAssumption
<1>. QED
  BY <1>1, <1>2 DEF Answer

LEMMA AnswersType ==
    ASSUME got \in Seq(Message)
    PROVE  /\ AnswerRows \in Seq(Seq(Symbol)) /\ Len(AnswerRows) = Len(got)
           /\ FlattenSeq(AnswerRows) \in Seq(Symbol)
           /\ Answers \in Seq(Symbol)
<1>1. PICK R : R = Seq(Symbol)
  OBVIOUS
<1>2. Len(got) \in Nat /\ \A i \in 1..Len(got) : Answer(got[i]) \in R
  <2>1. \A i \in 1..Len(got) : got[i] \in Nat
    BY ElementOfSeq, FrameAssumption
  <2>. QED
    BY <1>1, <2>1, AnswerType, LenProperties
<1>3. AnswerRows \in Seq(R) /\ Len(AnswerRows) = Len(got)
  <2>1. PICK n \in Nat : n = Len(got)
    BY <1>2
  <2>2. PICK row : row = [i \in 1..n |-> Answer(got[i])]
    OBVIOUS
  <2>3. row \in [1..n -> R]
    BY <1>2, <2>1, <2>2
  <2>4. row \in Seq(R) /\ Len(row) = n
    BY <2>1, <2>3, SeqDef, LenProperties
  <2>. QED
    BY <2>1, <2>2, <2>4 DEF AnswerRows
<1>4. PICK f : Joins(f, AnswerRows, Symbol)
  BY <1>1, <1>3, JoinsExist
<1>5. FlattenSeq(AnswerRows) \in Seq(Symbol)
  BY <1>1, <1>3, <1>4, FlattenIsJoin
<1>6. Answer(Handshake) \in Seq(Symbol)
  BY AnswerType DEF Handshake
<1>. QED
  BY <1>1, <1>3, <1>5, <1>6, CatFacts DEF Answers

LEMMA InvImplies ==
    ASSUME ReaderInv
    PROVE  ReaderTypeOK /\ BytesInOrder /\ AnswersAreWhole
<1>1. ReaderTypeOK
  <2>1. \A i \in 1..Len(posted) : posted[i].frame \in Message \cup {Damaged}
    <3>1. \A i \in 1..Len(posted) : posted[i] \in Entry
      BY ElementOfSeq DEF ReaderInv, ReadInOrder
    <3>. QED
      BY <3>1 DEF Entry
  <2>2. /\ kind = "ble" => Len(staged) <= RxBufLen
        /\ Len(buf) <= need
        /\ kind \in Flushed => Len(tx) <= TxLen
    BY DEF ReaderInv, LinkTyped
  <2>3. PollOK /\ PhaseOK /\ got \in Seq(Message)
    BY DEF ReaderInv, ReadInOrder
  <2>. QED
    BY <2>1, <2>2, <2>3 DEF ReaderTypeOK, PollOK, PhaseOK
<1>2. BytesInOrder
  BY Zenon DEF ReaderInv, BytesArrive, BytesInOrder, Incoming, Chain, Cat
<1>3. AnswersAreWhole
  <2>1. AllWritten \in Seq(Symbol) /\ Answers \in Seq(Symbol)
    BY CatFacts, AnswersType DEF ReaderInv, LinkTyped, ReadInOrder, AllWritten
  <2>2. IF phase = "stopped" THEN IsPrefix(AllWritten, Answers) ELSE AllWritten = Answers
    <3>1. CASE phase = "stopped"
      <4>1. Begins(AllWritten, Answers)
        BY <3>1 DEF ReaderInv, AnswersInOrder
      <4>2. PICK w \in Seq(Symbol) : w = AllWritten
        BY <2>1
      <4>3. PICK a \in Seq(Symbol) : a = Answers
        BY <2>1
      <4>4. PICK n \in Nat : n = Len(w) /\ n <= Len(a)
        BY <4>1, <4>2, <4>3, LenProperties DEF Begins
      <4>5. \A i \in 1..n : a[i] = w[i]
        BY <4>1, <4>2, <4>3, <4>4 DEF Begins
      <4>6. PICK one \in Nat : one = 1 /\ one >= 1 /\ one <= n + 1 /\ (n - one) + 1 = n
                                /\ \A i \in 1..n : (one + i) - 1 = i
        OBVIOUS
      <4>7. PICK u \in Seq(Symbol) : u = SubSeq(w, one, n) /\ Len(u) = n /\ \A i \in 1..n : u[i] = w[i]
        BY <4>4, <4>6, SubSeqFacts
      <4>8. PICK v \in Seq(Symbol) : v = SubSeq(a, one, n) /\ Len(v) = n /\ \A i \in 1..n : v[i] = a[i]
        <5>1. n <= Len(a)
          BY <4>4
        <5>2. PICK l \in Nat : l = (n - one) + 1 /\ l = n
          BY <4>6
        <5>3. PICK v : v = SubSeq(a, one, n)
          OBVIOUS
        <5>4. v \in Seq(Symbol) /\ Len(v) = l /\ \A i \in 1..l : v[i] = a[(one + i) - 1]
          BY <4>4, <4>6, <5>1, <5>2, <5>3, SubSeqFacts
        <5>. QED
          BY <4>6, <5>2, <5>3, <5>4
      <4>9. u = v
        BY <4>5, <4>7, <4>8, SeqEqual
      <4>. QED
        BY <3>1, <4>2, <4>3, <4>4, <4>6, <4>7, <4>8, <4>9 DEF IsPrefix
    <3>. QED
      BY <3>1 DEF ReaderInv, AnswersInOrder
  <2>3. phase \in {"header", "rest"} /\ kind \in Flushed => heard = Answers
    <3>1. ASSUME phase \in {"header", "rest"}, kind \in Flushed PROVE heard = Answers
      <4>1. tx = <<>> /\ out = <<>> /\ AllWritten = Answers /\ heard \in Seq(Symbol)
        BY <3>1 DEF ReaderInv, PhaseOK, AnswersInOrder, LinkTyped
      <4>2. Cat(heard, <<>>) = heard
        BY <4>1, CatEmpty
      <4>. QED
        BY <4>1, <4>2 DEF AllWritten
    <3>. QED
      BY <3>1
  <2>. QED
    BY <2>2, <2>3, Zenon DEF AnswersAreWhole, AllWritten, Answers, AnswerRows, Cat
<1>. QED
  BY <1>1, <1>2, <1>3

-----------------------------------------------------------------------------
(* What the steps do to the frames.                                        *)

LEMMA AppendFacts ==
    ASSUME NEW X, NEW s \in Seq(X), NEW e \in X, NEW t, t = Append(s, e)
    PROVE  /\ t \in Seq(X) /\ Len(t) = Len(s) + 1 /\ t[Len(s) + 1] = e
           /\ \A i \in 1..Len(s) : t[i] = s[i]
  BY AppendProperties, Zenon

LEMMA PostedGrows ==
    ASSUME ReadInOrder, NEW entry \in Entry, IsSent(entry),
           posted' = Append(posted, entry), got' = got
    PROVE  /\ ReadInOrder'
           /\ Posted' = Cat(Posted, entry.bytes) /\ BytesOf(got)' = BytesOf(got)
<1>1. PICK n \in Nat : n = Len(posted) /\ Len(got) <= n /\ Len(got) \in Nat
  BY RowTypes DEF ReadInOrder
<1>2. PICK p \in Seq(Entry) : p = Append(posted, entry) /\ Len(p) = n + 1 /\ p[n + 1] = entry
                              /\ \A i \in 1..n : p[i] = posted[i]
  BY <1>1, AppendFacts DEF ReadInOrder
<1>3. ReadInOrder'
  <2>1. \A i \in 1..Len(p) : IsSent(p[i])
    <3>1. \A i \in 1..n : IsSent(posted[i])
      BY <1>1 DEF ReadInOrder
    <3>2. \A i \in 1..(n + 1) : i \in 1..n \/ i = n + 1
      BY <1>1
    <3>. QED
      BY <1>2, <3>1, <3>2
  <2>2. \A i \in 1..Len(got) : p[i].frame = got[i]
    BY <1>1, <1>2 DEF ReadInOrder
  <2>3. Len(got) <= Len(p)
    BY <1>1, <1>2
  <2>. QED
    BY <1>2, <2>1, <2>2, <2>3 DEF ReadInOrder, IsSent
<1>4. Posted' = Cat(Posted, entry.bytes)
  <2>1. PICK R : R = Seq(Symbol)
    OBVIOUS
  <2>2. PICK bytes \in R : bytes = entry.bytes
    BY <2>1 DEF Entry
  <2>3. PICK rows \in Seq(R) : rows = PostedRows /\ Len(rows) = n
                               /\ \A i \in 1..n : rows[i] = posted[i].bytes
    BY <1>1, <2>1, RowTypes DEF PostedRows
  <2>4. PICK grown \in Seq(R) : grown = Append(rows, bytes) /\ Len(grown) = n + 1
                                /\ grown[n + 1] = bytes /\ \A i \in 1..n : grown[i] = rows[i]
    <3>1. rows \in Seq(R) /\ bytes \in R /\ Len(rows) = n
      BY <2>2, <2>3
    <3>. QED
      <4>1. PICK t : t = Append(rows, bytes)
        OBVIOUS
      <4>2. /\ t \in Seq(R) /\ Len(t) = Len(rows) + 1 /\ t[Len(rows) + 1] = bytes
            /\ \A i \in 1..Len(rows) : t[i] = rows[i]
        BY <3>1, <4>1, AppendFacts
      <4>3. Len(t) = n + 1 /\ t[n + 1] = bytes /\ \A i \in 1..n : t[i] = rows[i]
        BY <3>1, <4>2
      <4>. QED
        BY <4>1, <4>2, <4>3, Zenon
  <2>5. PICK new : new = [i \in 1..Len(p) |-> p[i].bytes]
    OBVIOUS
  <2>6. new = grown
    <3>1. DOMAIN new = 1..(n + 1) /\ new = [i \in DOMAIN new |-> new[i]]
      BY <1>2, <2>5
    <3>2. DOMAIN grown = 1..(n + 1) /\ grown = [i \in DOMAIN grown |-> grown[i]]
      BY <2>4, LenProperties
    <3>3. ASSUME NEW i \in 1..(n + 1) PROVE new[i] = grown[i]
      <4>1. new[i] = p[i].bytes
        BY <1>2, <2>5
      <4>2. CASE i \in 1..n
        BY <1>2, <2>3, <2>4, <4>1, <4>2
      <4>3. CASE i = n + 1
        BY <1>2, <2>2, <2>4, <4>1, <4>3
      <4>. QED
        BY <1>1, <4>2, <4>3
    <3>. QED
      BY <3>1, <3>2, <3>3
  <2>7. FlattenSeq(grown) = FlattenSeq(rows) \o bytes
    BY <2>1, <2>3, <2>4, FlattenAppend
  <2>8. Posted' = FlattenSeq(new)
    BY <1>2, <2>5 DEF Posted
  <2>9. Posted = FlattenSeq(rows)
    BY <2>3 DEF Posted, PostedRows
  <2>. QED
    BY <2>2, <2>6, <2>7, <2>8, <2>9, Zenon DEF Cat
<1>5. BytesOf(got)' = BytesOf(got)
  BY DEF BytesOf
<1>. QED
  BY <1>3, <1>4, <1>5

LEMMA GotGrows ==
    ASSUME ReadInOrder, NEW m \in Message, Len(got) < Len(posted),
           posted[Len(got) + 1].frame = m,
           got' = Append(got, m), posted' = posted
    PROVE  /\ ReadInOrder'
           /\ Posted' = Posted /\ BytesOf(got)' = Cat(BytesOf(got), Encode(m))
           /\ Answers' = Cat(Answers, Answer(m))
<1>1. PICK k \in Nat : k = Len(got) /\ k + 1 <= Len(posted) /\ Len(posted) \in Nat
  BY RowTypes
<1>2. PICK g \in Seq(Message) : g = Append(got, m) /\ Len(g) = k + 1 /\ g[k + 1] = m
                                /\ \A i \in 1..k : g[i] = got[i]
  BY <1>1, AppendFacts DEF ReadInOrder
<1>3. \A i \in 1..(k + 1) : i \in 1..k \/ i = k + 1
  BY <1>1
<1>4. ReadInOrder'
  <2>1. \A i \in 1..Len(g) : posted[i].frame = g[i]
    <3>1. \A i \in 1..k : posted[i].frame = got[i]
      BY <1>1 DEF ReadInOrder
    <3>2. posted[k + 1].frame = m
      BY <1>1
    <3>. QED
      BY <1>2, <1>3, <3>1, <3>2
  <2>. QED
    BY <1>1, <1>2, <2>1 DEF ReadInOrder, IsSent
<1>5. PICK R : R = Seq(Symbol)
  OBVIOUS
<1>6. BytesOf(got)' = Cat(BytesOf(got), Encode(m))
  <2>1. PICK bytes \in R : bytes = Encode(m)
    BY <1>5, EncodeFacts
  <2>2. PICK rows \in Seq(R) : rows = GotRows /\ Len(rows) = k
                               /\ \A i \in 1..k : rows[i] = Encode(got[i])
    BY <1>1, <1>5, RowTypes DEF GotRows
  <2>3. PICK grown \in Seq(R) : grown = Append(rows, bytes) /\ Len(grown) = k + 1
                                /\ grown[k + 1] = bytes /\ \A i \in 1..k : grown[i] = rows[i]
    <3>1. rows \in Seq(R) /\ bytes \in R /\ Len(rows) = k
      BY <2>1, <2>2
    <3>. QED
      <4>1. PICK t : t = Append(rows, bytes)
        OBVIOUS
      <4>2. /\ t \in Seq(R) /\ Len(t) = Len(rows) + 1 /\ t[Len(rows) + 1] = bytes
            /\ \A i \in 1..Len(rows) : t[i] = rows[i]
        BY <3>1, <4>1, AppendFacts
      <4>3. Len(t) = k + 1 /\ t[k + 1] = bytes /\ \A i \in 1..k : t[i] = rows[i]
        BY <3>1, <4>2
      <4>. QED
        BY <4>1, <4>2, <4>3, Zenon
  <2>4. PICK new : new = [i \in 1..Len(g) |-> Encode(g[i])]
    OBVIOUS
  <2>5. new = grown
    <3>1. DOMAIN new = 1..(k + 1) /\ new = [i \in DOMAIN new |-> new[i]]
      BY <1>2, <2>4
    <3>2. DOMAIN grown = 1..(k + 1) /\ grown = [i \in DOMAIN grown |-> grown[i]]
      BY <2>3, LenProperties
    <3>3. ASSUME NEW i \in 1..(k + 1) PROVE new[i] = grown[i]
      <4>1. new[i] = Encode(g[i])
        BY <1>2, <2>4
      <4>2. CASE i \in 1..k
        BY <1>2, <2>2, <2>3, <4>1, <4>2
      <4>3. CASE i = k + 1
        BY <1>2, <2>1, <2>3, <4>1, <4>3
      <4>. QED
        BY <1>3, <4>2, <4>3
    <3>. QED
      BY <3>1, <3>2, <3>3
  <2>6. FlattenSeq(grown) = FlattenSeq(rows) \o bytes
    BY <1>5, <2>2, <2>3, FlattenAppend
  <2>7. BytesOf(got)' = FlattenSeq(new)
    BY <1>2, <2>4 DEF BytesOf
  <2>8. BytesOf(got) = FlattenSeq(rows)
    BY <2>2 DEF BytesOf, GotRows
  <2>. QED
    BY <2>1, <2>5, <2>6, <2>7, <2>8, Zenon DEF Cat
<1>7. Answers' = Cat(Answers, Answer(m))
  <2>1. PICK answer \in R : answer = Answer(m)
    BY <1>5, AnswerType, FrameAssumption
  <2>2. PICK rows \in Seq(R) : rows = AnswerRows /\ Len(rows) = k
                               /\ \A i \in 1..k : rows[i] = Answer(got[i])
    <3>1. got \in Seq(Message)
      BY DEF ReadInOrder
    <3>. QED
      BY <1>1, <1>5, <3>1, AnswersType DEF AnswerRows
  <2>3. PICK grown \in Seq(R) : grown = Append(rows, answer) /\ Len(grown) = k + 1
                                /\ grown[k + 1] = answer /\ \A i \in 1..k : grown[i] = rows[i]
    <3>1. rows \in Seq(R) /\ answer \in R /\ Len(rows) = k
      BY <2>1, <2>2
    <3>. QED
      <4>1. PICK t : t = Append(rows, answer)
        OBVIOUS
      <4>2. /\ t \in Seq(R) /\ Len(t) = Len(rows) + 1 /\ t[Len(rows) + 1] = answer
            /\ \A i \in 1..Len(rows) : t[i] = rows[i]
        BY <3>1, <4>1, AppendFacts
      <4>3. Len(t) = k + 1 /\ t[k + 1] = answer /\ \A i \in 1..k : t[i] = rows[i]
        BY <3>1, <4>2
      <4>. QED
        BY <4>1, <4>2, <4>3, Zenon
  <2>4. PICK new : new = [i \in 1..Len(g) |-> Answer(g[i])]
    OBVIOUS
  <2>5. new = grown
    <3>1. DOMAIN new = 1..(k + 1) /\ new = [i \in DOMAIN new |-> new[i]]
      BY <1>2, <2>4
    <3>2. DOMAIN grown = 1..(k + 1) /\ grown = [i \in DOMAIN grown |-> grown[i]]
      BY <2>3, LenProperties
    <3>3. ASSUME NEW i \in 1..(k + 1) PROVE new[i] = grown[i]
      <4>1. new[i] = Answer(g[i])
        BY <1>2, <2>4
      <4>2. CASE i \in 1..k
        BY <1>2, <2>2, <2>3, <4>1, <4>2
      <4>3. CASE i = k + 1
        BY <1>2, <2>1, <2>3, <4>1, <4>3
      <4>. QED
        BY <1>3, <4>2, <4>3
    <3>. QED
      BY <3>1, <3>2, <3>3
  <2>6. PICK old \in R : old = FlattenSeq(rows) /\ FlattenSeq(grown) = Cat(old, answer)
    <3>1. FlattenSeq(rows) \in R /\ FlattenSeq(Append(rows, answer)) = FlattenSeq(rows) \o answer
      BY <1>5, <2>1, <2>2, FlattenAppend
    <3>. QED
      BY <2>3, <3>1, Zenon DEF Cat
  <2>7. Answers' = Cat(Answer(Handshake), FlattenSeq(new))
    BY <1>2, <2>4, Zenon DEF Answers, AnswerRows, Answer
  <2>8. Answers = Cat(Answer(Handshake), old)
    BY <2>2, <2>6, Zenon DEF Answers
  <2>9. Answer(Handshake) \in Seq(Symbol)
    BY AnswerType DEF Handshake
  <2>10. Cat(Cat(Answer(Handshake), old), answer) = Cat(Answer(Handshake), Cat(old, answer))
    BY <1>5, <2>1, <2>9, CatAssociative
  <2>. QED
    BY <2>1, <2>5, <2>6, <2>7, <2>8, <2>10, Zenon
<1>8. Posted' = Posted
  BY DEF Posted
<1>. QED
  BY <1>4, <1>6, <1>7, <1>8

-----------------------------------------------------------------------------
(* The next frame, as far as it has been read.                             *)

\* What has been read of a frame is the front of the entry behind those read
\* and, if longer, goes on as the entry behind that one begins.
ReadsFrom(entry, next) ==
    /\ Len(got) < Len(posted)
    /\ entry = posted[Len(got) + 1] /\ IsSent(entry)
    /\ \A v : next # <<"check", v>>
    /\ \A i \in 1..Len(buf) : i <= Len(entry.bytes) => buf[i] = entry.bytes[i]
    /\ Len(buf) > Len(entry.bytes) => buf[Len(entry.bytes) + 1] = next

LEMMA NextEntry ==
    ASSUME ReaderInv, phase # "stopped", buf # <<>>
    PROVE  \E entry, next : ReadsFrom(entry, next)
<1>1. ReadInOrder /\ buf \in Seq(Symbol)
  BY DEF ReaderInv, LinkTyped
<1>2. PICK rest \in Seq(Symbol) : Posted = Cat(Cat(BytesOf(got), buf), rest)
  <2>1. PICK read \in Seq(Symbol) : read = BytesOf(got)
    BY <1>1, StreamTypes
  <2>2. staged \in Seq(Symbol) /\ fifo \in Seq(Symbol) /\ wire \in Seq(Symbol)
    BY DEF ReaderInv, LinkTyped
  <2>3. Chain(read, buf, staged, fifo, wire) = Cat(Cat(read, buf), Cat(Cat(staged, fifo), wire))
    BY <1>1, <2>2, ChainFacts
  <2>4. Cat(Cat(staged, fifo), wire) \in Seq(Symbol)
    <3>1. Cat(staged, fifo) \in Seq(Symbol)
      BY <2>2, CatFacts
    <3>. QED
      BY <2>2, <3>1, CatFacts
  <2>5. Posted = Incoming
    BY DEF ReaderInv, BytesArrive
  <2>. QED
    BY <2>1, <2>3, <2>4, <2>5, Zenon DEF Incoming
<1>3. PICK k \in Nat : k = Len(got)
  BY <1>1, RowTypes
<1>4. PICK entry : entry = posted[k + 1]
  OBVIOUS
<1>5. Len(got) < Len(posted)
  BY <1>1, <1>2, NextFrames
<1>6. /\ \A i \in 1..Len(buf) : i <= Len(entry.bytes) => buf[i] = entry.bytes[i]
      /\ Len(buf) > Len(entry.bytes) =>
            k + 1 < Len(posted) /\ buf[Len(entry.bytes) + 1] = posted[k + 2].bytes[1]
  BY <1>1, <1>2, <1>3, <1>4, <1>5, NextFrames
<1>7. Len(posted) \in Nat /\ IsSent(entry)
  <2>1. Len(posted) \in Nat
    BY <1>1, RowTypes
  <2>2. k + 1 \in 1..Len(posted)
    BY <1>3, <1>5, <2>1
  <2>. QED
    BY <1>1, <1>4, <2>1, <2>2 DEF ReadInOrder
<1>8. PICK next : /\ \A v : next # <<"check", v>>
                  /\ Len(buf) > Len(entry.bytes) => buf[Len(entry.bytes) + 1] = next
  <2>1. CASE Len(buf) > Len(entry.bytes)
    <3>1. k + 2 \in 1..Len(posted)
      BY <1>6, <1>7, <2>1
    <3>2. IsSent(posted[k + 2])
      BY <1>1, <3>1 DEF ReadInOrder
    <3>3. \A v : posted[k + 2].bytes[1] # <<"check", v>>
      BY <3>2, SentFacts
    <3>. QED
      BY <1>6, <2>1, <3>3
  <2>2. CASE ~(Len(buf) > Len(entry.bytes))
    <3>1. \A v : Magic # <<"check", v>>
      BY DEF Magic
    <3>. QED
      BY <2>2, <3>1
  <2>. QED
    BY <2>1, <2>2
<1>9. ReadsFrom(entry, next)
  BY <1>3, <1>4, <1>5, <1>6, <1>7, <1>8 DEF ReadsFrom
<1>. QED
  BY <1>9

\* A frame that decodes is the next one as it was sent.
LEMMA DecodesNext ==
    ASSUME ReaderInv, phase # "stopped", NEW m \in Message, Decodes(buf, m)
    PROVE  Len(got) < Len(posted) /\ posted[Len(got) + 1].frame = m
<1>1. PICK n \in Nat : n = PayloadLen[m]
  BY EncodeFacts
<1>2. PICK e \in Seq(Symbol) : /\ e = Encode(m) /\ buf = e /\ Len(e) = n + 3
                               /\ e[2] = <<"length", n>> /\ e[n + 3] = <<"check", m>>
  BY <1>1, EncodeFacts DEF Decodes
<1>3. buf # <<>>
  BY <1>2, EmptySeq
<1>4. PICK entry, next : ReadsFrom(entry, next)
  BY <1>3, NextEntry
<1>5. entry.frame # Damaged
  <2>1. SUFFICES ASSUME entry.frame = Damaged PROVE FALSE
    OBVIOUS
  <2>2. PICK c \in Message : entry.bytes \in Damages(Encode(c))
    BY <1>4, <2>1 DEF ReadsFrom, IsSent
  <2>3. PICK bytes \in Damages(Encode(c)) : bytes = entry.bytes
    BY <2>2
  <2>4. /\ \A v : next # <<"check", v>>
        /\ \A i \in 1..Len(Encode(m)) : i <= Len(bytes) => Encode(m)[i] = bytes[i]
        /\ Len(Encode(m)) > Len(bytes) => Encode(m)[Len(bytes) + 1] = next
    BY <1>2, <1>4, <2>3 DEF ReadsFrom
  <2>. QED
    BY <2>4, DamageFacts
<1>6. PICK f \in Message : entry.frame = f /\ entry.bytes = Encode(f)
  BY <1>4, <1>5 DEF ReadsFrom, IsSent
<1>7. PICK k \in Nat : k = PayloadLen[f]
  BY EncodeFacts
<1>8. PICK w : /\ w = entry.bytes /\ Len(w) = k + 3
               /\ w[2] = <<"length", k>> /\ w[k + 3] = <<"check", f>>
  BY <1>6, <1>7, EncodeFacts
<1>9. \A i \in 1..(n + 3) : i <= k + 3 => e[i] = w[i]
  BY <1>2, <1>4, <1>8 DEF ReadsFrom
<1>10. n = k
  <2>1. e[2] = w[2]
    BY <1>9
  <2>. QED
    BY <1>2, <1>8, <2>1
<1>11. m = f
  <2>1. e[n + 3] = w[n + 3]
    BY <1>9, <1>10
  <2>. QED
    BY <1>2, <1>8, <1>10, <2>1
<1>. QED
  BY <1>4, <1>6, <1>11 DEF ReadsFrom

\* A header or a frame that is refused is that of a damaged frame.
LEMMA RefusedIsDamaged ==
    ASSUME ReaderInv, Full,
           \/ phase = "header" /\ ~PlausibleHeader
           \/ phase = "rest" /\ \A m \in Message : ~Decodes(buf, m)
    PROVE  Len(got) < Len(posted) /\ posted[Len(got) + 1].frame = Damaged
<1>1. phase \in {"header", "rest"} /\ Len(buf) = need /\ buf \in Seq(Symbol) /\ Len(buf) \in Nat
  BY LenProperties DEF ReaderInv, LinkTyped, Full
<1>2. Len(buf) >= 2
  BY <1>1 DEF ReaderInv, PhaseOK, HeaderLen
<1>3. PICK entry, next : ReadsFrom(entry, next)
  <2>1. buf # <<>>
    BY <1>2, EmptySeq
  <2>. QED
    BY <1>1, <2>1, NextEntry
<1>4. SUFFICES ASSUME entry.frame # Damaged PROVE FALSE
  BY <1>3 DEF ReadsFrom
<1>5. PICK f \in Message : entry.frame = f /\ entry.bytes = Encode(f)
  BY <1>3, <1>4 DEF ReadsFrom, IsSent
<1>6. PICK k \in Nat : k = PayloadLen[f] /\ k <= MaxPayload
  BY EncodeFacts
<1>7. PICK w \in Seq(Symbol) : /\ w = Encode(f) /\ Len(w) = k + 3
                               /\ w[1] = Magic /\ w[2] = <<"length", k>>
  BY <1>6, EncodeFacts
<1>8. \A i \in 1..Len(buf) : i <= k + 3 => buf[i] = w[i]
  BY <1>3, <1>5, <1>7 DEF ReadsFrom
<1>9. buf[1] = Magic /\ buf[2] = <<"length", k>>
  BY <1>1, <1>2, <1>7, <1>8
<1>10. CASE phase = "header"
  BY <1>6, <1>9, <1>10 DEF PlausibleHeader
<1>11. CASE phase = "rest"
  <2>1. need = HeaderLen + buf[2][2] + TrailerLen
    BY <1>11 DEF ReaderInv, PhaseOK
  <2>2. Len(buf) = k + 3
    BY <1>1, <1>9, <2>1 DEF HeaderLen, TrailerLen
  <2>3. buf = w
    BY <1>1, <1>7, <1>8, <2>2, SeqEqual
  <2>. QED
    BY <1>7, <1>11, <2>3 DEF Decodes
<1>. QED
  BY <1>1, <1>10, <1>11

-----------------------------------------------------------------------------
(* The invariant holds at the start and in every step.                     *)

LEMMA InvAtStart ==
    ASSUME ReaderInit
    PROVE  ReaderInv
<1>1. /\ wire = <<>> /\ fifo = <<>> /\ staged = <<>> /\ buf = <<>> /\ need = 0
      /\ tx = <<>> /\ heard = <<>> /\ out = Answer(Handshake)
      /\ phase = "answer" /\ error = "none" /\ posted = <<>> /\ got = <<>>
      /\ kind \in Kinds /\ PollTypeOK
  BY DEF ReaderInit, LinkInit, PollTypeOK
<1>2. Answer(Handshake) \in Seq(Symbol)
  BY AnswerType DEF Handshake
<1>3. ReadInOrder
  BY <1>1 DEF ReadInOrder
<1>4. PostedRows = <<>> /\ GotRows = <<>> /\ AnswerRows = <<>>
  BY <1>1 DEF PostedRows, GotRows, AnswerRows
<1>5. FlattenSeq(<<>>) = <<>>
  BY DEF FlattenSeq
<1>6. Posted = <<>> /\ BytesOf(got) = <<>>
  <2>1. Posted = FlattenSeq(PostedRows) /\ BytesOf(got) = FlattenSeq(GotRows)
    BY DEF Posted, PostedRows, BytesOf, GotRows
  <2>. QED
    BY <1>4, <1>5, <2>1
<1>7. PICK none \in Seq(Symbol) : none = <<>>
  <2>1. <<>> \in Seq(Symbol)
    OBVIOUS
  <2>. QED
    BY <2>1
<1>8. Cat(none, none) = none
  BY <1>7, CatEmpty
<1>9. BytesArrive
  BY <1>1, <1>6, <1>7, <1>8 DEF BytesArrive, Incoming, Chain
<1>10. AnswersInOrder
  <2>1. Answers = Answer(Handshake)
    <3>1. Cat(Answer(Handshake), none) = Answer(Handshake)
      BY <1>2, <1>7, CatEmpty
    <3>. QED
      BY <1>4, <1>5, <1>7, <3>1 DEF Answers
  <2>2. AllWritten = Answer(Handshake)
    <3>1. Cat(none, Answer(Handshake)) = Answer(Handshake)
      BY <1>2, <1>7, CatEmpty
    <3>. QED
      BY <1>1, <1>7, <1>8, <3>1 DEF AllWritten
  <2>. QED
    BY <1>1, <2>1, <2>2 DEF AnswersInOrder
<1>11. LinkTyped
  <2>1. kind \in Kind /\ RxBufLen \in Nat /\ TxLen \in Nat
    BY <1>1, LinkAssumption, BleAssumption
  <2>. QED
    BY <1>1, <1>2, <2>1 DEF LinkTyped
<1>12. PollOK
  <2>1. PollTypeOK
    BY <1>1
  <2>2. Len(fifo) = 0 /\ FifoLen \in Nat
    BY <1>1, LinkAssumption
  <2>3. Len(fifo) <= FifoLen
    BY <2>2
  <2>. QED
    BY <1>1, <2>1, <2>3 DEF PollOK
<1>13. PhaseOK
  BY <1>1 DEF PhaseOK, ReadError
<1>. QED
  BY <1>3, <1>9, <1>10, <1>11, <1>12, <1>13 DEF ReaderInv

LEMMA PostKeeps ==
    ASSUME ReaderInv, NEW entry \in Entry, IsSent(entry), Post(entry.frame, entry.bytes)
    PROVE  ReaderInv'
<1>1. PICK bytes \in Seq(Symbol) : bytes = entry.bytes
  BY DEF Entry
<1>2. /\ posted' = Append(posted, entry) /\ wire' = Cat(wire, bytes)
      /\ UNCHANGED <<config, polling, fifo, staged, buf, need, outgoing, phase, error, got>>
  <2>1. entry = [frame |-> entry.frame, bytes |-> entry.bytes]
    BY DEF Entry
  <2>. QED
    BY <1>1, <2>1 DEF Post, Cat
<1>3. ReadInOrder' /\ Posted' = Cat(Posted, bytes) /\ BytesOf(got)' = BytesOf(got)
  BY <1>1, <1>2, PostedGrows DEF ReaderInv
<1>4. LinkTyped'
  <2>1. wire' \in Seq(Symbol)
    BY <1>2, CatFacts DEF ReaderInv, LinkTyped
  <2>. QED
    BY <1>2, <2>1 DEF ReaderInv, LinkTyped, config, outgoing
<1>5. PollOK' /\ PhaseOK'
  BY <1>2, PollTypeKept DEF ReaderInv, PollOK, PhaseOK, config, outgoing
<1>6. BytesArrive'
  <2>1. PICK read \in Seq(Symbol) : read = BytesOf(got) /\ read = BytesOf(got)'
    BY <1>3, StreamTypes DEF ReaderInv
  <2>2. Chain(read, buf, staged, fifo, Cat(wire, bytes)) = Cat(Chain(read, buf, staged, fifo, wire), bytes)
    <3>1. /\ wire \in Seq(Symbol) /\ fifo \in Seq(Symbol) /\ staged \in Seq(Symbol)
          /\ buf \in Seq(Symbol)
      BY DEF ReaderInv, LinkTyped
    <3>. QED
      BY <3>1, ChainGrows
  <2>3. Incoming' = Cat(Incoming, bytes)
    BY <1>2, <2>1, <2>2, Zenon DEF Incoming
  <2>. QED
    BY <1>2, <1>3, <2>3 DEF ReaderInv, BytesArrive
<1>7. AnswersInOrder'
  <2>1. AllWritten' = AllWritten /\ Answers' = Answers /\ phase' = phase
    BY <1>2 DEF AllWritten, Answers, AnswerRows, outgoing
  <2>. QED
    BY <2>1 DEF ReaderInv, AnswersInOrder, Begins
<1>. QED
  BY <1>3, <1>4, <1>5, <1>6, <1>7 DEF ReaderInv

\* Where only the link has changed, the frames have not.
LEMMA OutsideKeeps ==
    ASSUME ReaderInv, Outside
    PROVE  /\ ReadInOrder' /\ Posted' = Posted /\ BytesOf(got)' = BytesOf(got)
           /\ Answers' = Answers /\ phase' = phase /\ error' = error
  BY DEF ReaderInv, ReadInOrder, Outside, Posted, BytesOf, Answers, AnswerRows, IsSent

LEMMA ArrivalKeeps ==
    ASSUME ReaderInv, LineArrives
    PROVE  ReaderInv'
<1>1. /\ wire # <<>> /\ Len(fifo) < FifoLen
      /\ fifo' = Append(fifo, Head(wire)) /\ wire' = Tail(wire) /\ Interrupt
      /\ UNCHANGED <<config, staged, buf, need, outgoing>> /\ Outside
  BY DEF LineArrives, Arrive
<1>2. /\ fifo \in Seq(Symbol) /\ wire \in Seq(Symbol) /\ buf \in Seq(Symbol)
      /\ staged \in Seq(Symbol)
  BY DEF ReaderInv, LinkTyped
<1>3. /\ fifo' \in Seq(Symbol) /\ wire' \in Seq(Symbol)
      /\ Cat(fifo', wire') = Cat(fifo, wire) /\ Len(fifo') = Len(fifo) + 1
  BY <1>1, <1>2, HandOver
<1>4. LinkTyped'
  BY <1>1, <1>3 DEF ReaderInv, LinkTyped, config, outgoing
<1>5. PollOK'
  <2>1. Len(fifo') <= FifoLen
    <3>1. Len(fifo) \in Nat /\ FifoLen \in Nat
      BY <1>2, LenProperties, LinkAssumption
    <3>. QED
      BY <1>1, <1>3, <3>1
  <2>2. PollTypeOK'
    BY <1>1, PollTypeInterrupted DEF ReaderInv, PollOK
  <2>. QED
    BY <1>1, <2>1, <2>2 DEF ReaderInv, PollOK, config
<1>6. PhaseOK'
  BY <1>1, OutsideKeeps DEF ReaderInv, PhaseOK, config, outgoing
<1>7. BytesArrive'
  <2>1. PICK read \in Seq(Symbol) : read = BytesOf(got) /\ read = BytesOf(got)'
    BY <1>1, OutsideKeeps, StreamTypes DEF ReaderInv
  <2>2. Chain(read, buf, staged, fifo, wire) = Cat(Cat(Cat(read, buf), staged), Cat(fifo, wire))
    BY <1>2, ChainFacts
  <2>3. Chain(read, buf, staged, fifo', wire') = Cat(Cat(Cat(read, buf), staged), Cat(fifo', wire'))
    BY <1>2, <1>3, ChainFacts
  <2>4. Incoming' = Incoming
    BY <1>1, <1>3, <2>1, <2>2, <2>3, Zenon DEF Incoming
  <2>. QED
    BY <1>1, <2>4, OutsideKeeps DEF ReaderInv, BytesArrive
<1>8. AnswersInOrder'
  <2>1. AllWritten' = AllWritten /\ Answers' = Answers /\ phase' = phase
    BY <1>1, OutsideKeeps DEF AllWritten, outgoing
  <2>. QED
    BY <2>1 DEF ReaderInv, AnswersInOrder, Begins
<1>. QED
  BY <1>1, <1>4, <1>5, <1>6, <1>7, <1>8, OutsideKeeps DEF ReaderInv

\* Bytes on their way out change places, in order.
LEMMA OutgoingKeeps ==
    ASSUME ReaderInv, Outside,
           tx' \in Seq(Symbol), out' \in Seq(Symbol), heard' \in Seq(Symbol),
           AllWritten' = AllWritten,
           kind \in Flushed => Len(tx') <= TxLen,
           out = <<>> => out' = <<>>,
           tx = <<>> /\ out = <<>> => tx' = <<>>,
           PollTypeOK',
           UNCHANGED <<config, incoming>>
    PROVE  ReaderInv'
<1>1. LinkTyped'
  BY DEF ReaderInv, LinkTyped, config, incoming
<1>2. PollOK'
  BY DEF ReaderInv, PollOK, config, incoming
<1>3. PhaseOK'
  BY OutsideKeeps DEF ReaderInv, PhaseOK, config, incoming
<1>4. BytesArrive'
  <2>1. Incoming' = Incoming
    BY OutsideKeeps DEF Incoming, incoming
  <2>. QED
    BY <2>1, OutsideKeeps DEF ReaderInv, BytesArrive
<1>5. AnswersInOrder'
  <2>1. AllWritten' = AllWritten /\ Answers' = Answers /\ phase' = phase
    BY OutsideKeeps
  <2>. QED
    BY <2>1 DEF ReaderInv, AnswersInOrder, Begins
<1>. QED
  BY <1>1, <1>2, <1>3, <1>4, <1>5, OutsideKeeps DEF ReaderInv

LEMMA DrainKeeps ==
    ASSUME ReaderInv, LineDrains
    PROVE  ReaderInv'
<1>1. /\ tx # <<>> /\ heard' = Append(heard, Head(tx)) /\ tx' = Tail(tx)
      /\ Interrupt /\ out' = out /\ UNCHANGED <<config, incoming>> /\ Outside
  BY DEF LineDrains, Drain
<1>2. tx \in Seq(Symbol) /\ heard \in Seq(Symbol) /\ out \in Seq(Symbol)
  BY DEF ReaderInv, LinkTyped
<1>3. /\ heard' \in Seq(Symbol) /\ tx' \in Seq(Symbol)
      /\ Cat(heard', tx') = Cat(heard, tx) /\ Len(tx') <= Len(tx)
  BY <1>1, <1>2, HandOver
<1>4. AllWritten' = AllWritten
  BY <1>1, <1>3, Zenon DEF AllWritten
<1>5. kind \in Flushed => Len(tx') <= TxLen
  <2>1. Len(tx) \in Nat /\ Len(tx') \in Nat /\ TxLen \in Nat
    BY <1>2, <1>3, LenProperties, LinkAssumption
  <2>. QED
    BY <1>3, <2>1 DEF ReaderInv, LinkTyped
<1>6. PollTypeOK'
  BY <1>1, PollTypeInterrupted DEF ReaderInv, PollOK
<1>. QED
  BY <1>1, <1>2, <1>3, <1>4, <1>5, <1>6, OutgoingKeeps

LEMMA ReadKeeps ==
    ASSUME ReaderInv, ReadEffect, Outside
    PROVE  ReaderInv'
<1>1. /\ wire \in Seq(Symbol) /\ fifo \in Seq(Symbol) /\ staged \in Seq(Symbol)
      /\ buf \in Seq(Symbol) /\ need \in Nat /\ Len(buf) \in Nat
  BY LenProperties DEF ReaderInv, LinkTyped
<1>2. /\ buf' \in Seq(Symbol) /\ staged' \in Seq(Symbol) /\ fifo' \in Seq(Symbol)
      /\ Cat(Cat(buf', staged'), fifo') = Cat(Cat(buf, staged), fifo)
      /\ UNCHANGED <<config, polling, wire, need, outgoing>>
  BY DEF ReadEffect
<1>3. phase \in {"header", "rest"}
  <2>1. need # 0
    BY <1>1 DEF ReadEffect
  <2>. QED
    BY <2>1 DEF ReaderInv, PhaseOK
<1>4. Len(buf') \in Nat /\ Len(buf) <= Len(buf') /\ \A i \in 1..Len(buf) : buf'[i] = buf[i]
  <2>1. Len(buf') \in Nat
    BY <1>2, LenProperties
  <2>. QED
    BY <1>1, <2>1 DEF ReadEffect, Begins
<1>5. LinkTyped'
  BY <1>1, <1>2 DEF ReaderInv, LinkTyped, ReadEffect, config, outgoing
<1>6. PollOK'
  <2>1. Len(fifo') \in Nat /\ Len(fifo) \in Nat /\ FifoLen \in Nat
    BY <1>1, <1>2, LenProperties, LinkAssumption
  <2>2. Len(fifo') <= FifoLen
    BY <2>1 DEF ReaderInv, PollOK, ReadEffect
  <2>3. PollTypeOK'
    BY <1>2, PollTypeKept DEF ReaderInv, PollOK
  <2>. QED
    BY <1>2, <2>2, <2>3 DEF ReaderInv, PollOK, config
<1>7. PhaseOK'
  <2>1. phase' = phase /\ error' = error /\ need' = need /\ out' = out /\ tx' = tx /\ kind' = kind
    BY <1>2, OutsideKeeps DEF config, outgoing
  <2>2. phase = "rest" =>
            /\ Len(buf') >= HeaderLen /\ need = HeaderLen + buf'[2][2] + TrailerLen
    <3>1. ASSUME phase = "rest"
          PROVE  Len(buf') >= HeaderLen /\ need = HeaderLen + buf'[2][2] + TrailerLen
      <4>1. Len(buf) >= 2 /\ need = HeaderLen + buf[2][2] + TrailerLen
        BY <3>1 DEF ReaderInv, PhaseOK, HeaderLen
      <4>2. buf'[2] = buf[2]
        BY <1>1, <1>4, <4>1
      <4>. QED
        BY <1>1, <1>4, <4>1, <4>2 DEF HeaderLen
    <3>. QED
      BY <3>1
  <2>3. error \in ReadError /\ (error # "none" <=> phase = "stopped")
        /\ (phase # "answer" => out = <<>>) /\ (phase = "header" => need = HeaderLen)
        /\ (phase \in {"header", "rest"} /\ kind \in Flushed => tx = <<>>)
    BY DEF ReaderInv, PhaseOK
  <2>. QED
    BY <1>3, <2>1, <2>2, <2>3 DEF PhaseOK
<1>8. BytesArrive'
  <2>1. PICK read \in Seq(Symbol) : read = BytesOf(got) /\ read = BytesOf(got)'
    BY OutsideKeeps, StreamTypes DEF ReaderInv
  <2>2. Chain(read, buf, staged, fifo, wire)
            = Cat(Cat(read, Cat(Cat(buf, staged), fifo)), wire)
    BY <1>1, ChainFacts
  <2>3. Chain(read, buf', staged', fifo', wire)
            = Cat(Cat(read, Cat(Cat(buf', staged'), fifo')), wire)
    BY <1>1, <1>2, ChainFacts
  <2>4. Incoming' = Incoming
    BY <1>2, <2>1, <2>2, <2>3, Zenon DEF Incoming
  <2>. QED
    BY <2>4, OutsideKeeps DEF ReaderInv, BytesArrive
<1>9. AnswersInOrder'
  <2>1. AllWritten' = AllWritten /\ Answers' = Answers /\ phase' = phase
    BY <1>2, OutsideKeeps DEF AllWritten, outgoing
  <2>. QED
    BY <2>1 DEF ReaderInv, AnswersInOrder, Begins
<1>. QED
  BY <1>5, <1>6, <1>7, <1>8, <1>9, OutsideKeeps DEF ReaderInv

LEMMA TransportKeeps ==
    ASSUME ReaderInv, TransportStep
    PROVE  ReaderInv'
<1>1. Outside /\ (ReadEffect \/ WriteEffect \/ PollEffect)
  BY TransportEffect DEF ReaderInv, PollOK, TransportStep
<1>2. CASE ReadEffect
  BY <1>1, <1>2, ReadKeeps
<1>3. CASE WriteEffect
  <2>1. /\ out # <<>> /\ tx' \in Seq(Symbol) /\ out' \in Seq(Symbol) /\ Cat(tx', out') = Cat(tx, out)
        /\ (kind \in Flushed => Len(tx') <= TxLen) /\ heard' = heard
        /\ UNCHANGED <<config, polling, incoming>>
    BY <1>3 DEF WriteEffect
  <2>2. heard \in Seq(Symbol) /\ tx \in Seq(Symbol) /\ out \in Seq(Symbol)
    BY DEF ReaderInv, LinkTyped
  <2>3. AllWritten' = AllWritten
    <3>1. Cat(Cat(heard, tx), out) = Cat(heard, Cat(tx, out))
      BY <2>2, CatAssociative
    <3>2. Cat(Cat(heard, tx'), out') = Cat(heard, Cat(tx', out'))
      BY <2>1, <2>2, CatAssociative
    <3>. QED
      BY <2>1, <3>1, <3>2, Zenon DEF AllWritten
  <2>4. PollTypeOK'
    BY <2>1, PollTypeKept DEF ReaderInv, PollOK
  <2>. QED
    BY <1>1, <2>1, <2>2, <2>3, <2>4, OutgoingKeeps
<1>4. CASE PollEffect
  <2>1. /\ out' = out /\ tx' = tx /\ heard' = heard /\ UNCHANGED <<config, incoming>>
        /\ PollTypeOK'
    BY <1>4 DEF PollEffect, outgoing
  <2>2. /\ heard \in Seq(Symbol) /\ tx \in Seq(Symbol) /\ out \in Seq(Symbol)
        /\ kind \in Flushed => Len(tx) <= TxLen
    BY DEF ReaderInv, LinkTyped
  <2>3. AllWritten' = AllWritten
    BY <2>1 DEF AllWritten
  <2>. QED
    BY <1>1, <2>1, <2>2, <2>3, OutgoingKeeps
<1>. QED
  BY <1>1, <1>2, <1>3, <1>4

\* Where the link keeps its bytes and its polls, they stay as they were.
LEMMA FramesKeep ==
    ASSUME ReaderInv, UNCHANGED <<got, posted>>
    PROVE  /\ ReadInOrder' /\ Posted' = Posted /\ BytesOf(got)' = BytesOf(got)
           /\ Answers' = Answers
  BY DEF ReaderInv, ReadInOrder, Posted, BytesOf, Answers, AnswerRows, IsSent

LEMMA AcceptKeeps ==
    ASSUME ReaderInv, AcceptHeader
    PROVE  ReaderInv'
<1>1. /\ phase = "header" /\ Len(buf) = need /\ phase' = "rest"
      /\ need' = HeaderLen + buf[2][2] + TrailerLen
      /\ UNCHANGED <<config, polling, wire, fifo, staged, buf, outgoing, error, posted, got>>
  BY DEF AcceptHeader, Full
<1>2. need = 2 /\ buf \in Seq(Symbol)
  BY <1>1 DEF ReaderInv, PhaseOK, LinkTyped, HeaderLen
<1>3. buf[2][2] \in Nat
  <2>1. buf[2] \in Symbol
    <3>1. 2 \in 1..Len(buf)
      BY <1>1, <1>2
    <3>. QED
      BY <1>2, <3>1, ElementOfSeq
  <2>. QED
    BY <2>1 DEF Symbol
<1>4. need' \in Nat /\ Len(buf) <= need' /\ Len(buf) >= HeaderLen
  BY <1>1, <1>2, <1>3 DEF HeaderLen, TrailerLen
<1>5. LinkTyped'
  BY <1>1, <1>4 DEF ReaderInv, LinkTyped, config, outgoing
<1>6. PollOK'
  BY <1>1, PollTypeKept DEF ReaderInv, PollOK, config
<1>7. PhaseOK'
  <2>1. error' \in ReadError /\ error' = "none" /\ out' = <<>> /\ (kind' \in Flushed => tx' = <<>>)
    BY <1>1 DEF ReaderInv, PhaseOK, config, outgoing
  <2>2. buf' = buf
    BY <1>1
  <2>. QED
    BY <1>1, <1>4, <2>1, <2>2 DEF PhaseOK
<1>8. BytesArrive'
  <2>1. Incoming' = Incoming
    BY <1>1, FramesKeep DEF Incoming
  <2>. QED
    BY <1>1, <2>1, FramesKeep DEF ReaderInv, BytesArrive
<1>9. AnswersInOrder'
  <2>1. AllWritten' = AllWritten
    BY <1>1 DEF AllWritten, outgoing
  <2>. QED
    BY <1>1, <2>1, FramesKeep DEF ReaderInv, AnswersInOrder
<1>. QED
  BY <1>1, <1>5, <1>6, <1>7, <1>8, <1>9, FramesKeep DEF ReaderInv

LEMMA StopKeeps ==
    ASSUME ReaderInv, phase # "stopped", NEW e \in ReadError \ {"none"}, Stop(e)
    PROVE  ReaderInv'
<1>1. /\ phase' = "stopped" /\ error' = e /\ buf' = <<>> /\ need' = 0 /\ out' = <<>>
      /\ UNCHANGED <<config, polling, wire, fifo, staged, tx, heard, posted, got>>
  BY DEF Stop
<1>2. PICK none \in Seq(Symbol) : none = <<>> /\ Len(none) = 0
  <2>1. <<>> \in Seq(Symbol) /\ Len(<<>>) = 0
    OBVIOUS
  <2>. QED
    BY <2>1
<1>3. LinkTyped'
  BY <1>1, <1>2 DEF ReaderInv, LinkTyped, config
<1>4. PollOK'
  BY <1>1, PollTypeKept DEF ReaderInv, PollOK, config
<1>5. PhaseOK'
  BY <1>1 DEF PhaseOK
<1>6. BytesArrive'
  BY <1>1 DEF BytesArrive
<1>7. AnswersInOrder'
  <2>1. heard \in Seq(Symbol) /\ tx \in Seq(Symbol) /\ out \in Seq(Symbol)
    BY DEF ReaderInv, LinkTyped
  <2>2. PICK written \in Seq(Symbol) : written = Cat(heard, tx)
    BY <2>1, CatFacts
  <2>3. Begins(written, Cat(written, out))
    BY <2>1, BeginsItself, BeginsLonger
  <2>4. Answers = Cat(written, out)
    BY <2>2 DEF ReaderInv, AnswersInOrder, AllWritten
  <2>5. AllWritten' = written
    <3>1. Cat(written, none) = written
      BY <1>2, CatEmpty
    <3>. QED
      BY <1>1, <1>2, <2>2, <3>1, Zenon DEF AllWritten
  <2>6. Begins(AllWritten', Answers')
    <3>1. Answers' = Answers
      BY <1>1, FramesKeep
    <3>. QED
      BY <2>3, <2>4, <2>5, <3>1
  <2>. QED
    BY <1>1, <2>6 DEF AnswersInOrder, Begins
<1>. QED
  BY <1>1, <1>3, <1>4, <1>5, <1>6, <1>7, FramesKeep DEF ReaderInv

LEMMA DecodeKeeps ==
    ASSUME ReaderInv, NEW m \in Message, Decode(m)
    PROVE  ReaderInv'
<1>1. /\ phase = "rest" /\ Decodes(buf, m) /\ phase' = "answer" /\ got' = Append(got, m)
      /\ buf' = <<>> /\ need' = 0 /\ out' = Answer(m)
      /\ UNCHANGED <<config, polling, wire, fifo, staged, tx, heard, error, posted>>
  BY DEF Decode
<1>2. Len(got) < Len(posted) /\ posted[Len(got) + 1].frame = m
  BY <1>1, DecodesNext
<1>3. /\ ReadInOrder' /\ Posted' = Posted /\ BytesOf(got)' = Cat(BytesOf(got), Encode(m))
      /\ Answers' = Cat(Answers, Answer(m))
  BY <1>1, <1>2, GotGrows DEF ReaderInv
<1>4. PICK none \in Seq(Symbol) : none = <<>> /\ Len(none) = 0
  <2>1. <<>> \in Seq(Symbol) /\ Len(<<>>) = 0
    OBVIOUS
  <2>. QED
    BY <2>1
<1>5. Answer(m) \in Seq(Symbol)
  BY AnswerType, FrameAssumption
<1>6. LinkTyped'
  BY <1>1, <1>4, <1>5 DEF ReaderInv, LinkTyped, config
<1>7. PollOK'
  BY <1>1, PollTypeKept DEF ReaderInv, PollOK, config
<1>8. PhaseOK'
  BY <1>1 DEF ReaderInv, PhaseOK
<1>9. BytesArrive'
  <2>1. PICK read \in Seq(Symbol) : read = BytesOf(got)
    BY StreamTypes DEF ReaderInv
  <2>2. /\ wire \in Seq(Symbol) /\ fifo \in Seq(Symbol) /\ staged \in Seq(Symbol)
        /\ buf \in Seq(Symbol)
    BY DEF ReaderInv, LinkTyped
  <2>3. Chain(Cat(read, buf), <<>>, staged, fifo, wire) = Chain(read, buf, staged, fifo, wire)
    BY <2>2, ChainFacts
  <2>4. buf = Encode(m)
    BY <1>1 DEF Decodes
  <2>5. Incoming' = Incoming
    BY <1>1, <1>3, <2>1, <2>3, <2>4, Zenon DEF Incoming
  <2>. QED
    BY <1>1, <1>3, <2>5 DEF ReaderInv, BytesArrive
<1>10. AnswersInOrder'
  <2>1. out = <<>> /\ AllWritten = Answers /\ heard \in Seq(Symbol) /\ tx \in Seq(Symbol)
    BY <1>1 DEF ReaderInv, PhaseOK, AnswersInOrder, LinkTyped
  <2>2. PICK written \in Seq(Symbol) : written = Cat(heard, tx)
    BY <2>1, CatFacts
  <2>3. Cat(written, <<>>) = written
    BY CatEmpty
  <2>4. AllWritten = written
    BY <2>1, <2>2, <2>3, Zenon DEF AllWritten
  <2>5. AllWritten' = Cat(written, Answer(m))
    BY <1>1, <2>2, Zenon DEF AllWritten
  <2>6. AllWritten' = Answers'
    BY <1>3, <2>1, <2>4, <2>5
  <2>. QED
    BY <1>1, <2>6 DEF AnswersInOrder
<1>. QED
  BY <1>3, <1>6, <1>7, <1>8, <1>9, <1>10 DEF ReaderInv

LEMMA AnsweredKeeps ==
    ASSUME ReaderInv, Answered
    PROVE  ReaderInv'
<1>1. /\ phase = "answer" /\ out = <<>> /\ (kind \in Flushed => tx = <<>>)
      /\ phase' = "header" /\ buf' = <<>> /\ need' = HeaderLen
      /\ UNCHANGED <<config, polling, wire, fifo, staged, outgoing, error, posted, got>>
  BY DEF Answered, Sent, AwaitHeader
<1>2. buf = <<>> /\ error = "none" /\ error \in ReadError
  BY <1>1 DEF ReaderInv, PhaseOK
<1>3. LinkTyped'
  <2>1. Len(<<>>) = 0 /\ <<>> \in Seq(Symbol)
    OBVIOUS
  <2>2. need' \in Nat /\ Len(buf') <= need' /\ buf' \in Seq(Symbol)
    BY <1>1, <2>1 DEF HeaderLen
  <2>. QED
    BY <1>1, <2>2 DEF ReaderInv, LinkTyped, config, outgoing
<1>4. PollOK'
  BY <1>1, PollTypeKept DEF ReaderInv, PollOK, config
<1>5. PhaseOK'
  BY <1>1, <1>2 DEF PhaseOK, config, outgoing
<1>6. BytesArrive'
  <2>1. Incoming' = Incoming
    BY <1>1, <1>2, FramesKeep DEF Incoming
  <2>. QED
    BY <1>1, <2>1, FramesKeep DEF ReaderInv, BytesArrive
<1>7. AnswersInOrder'
  <2>1. AllWritten' = AllWritten
    BY <1>1 DEF AllWritten, outgoing
  <2>. QED
    BY <1>1, <2>1, FramesKeep DEF ReaderInv, AnswersInOrder
<1>. QED
  BY <1>1, <1>3, <1>4, <1>5, <1>6, <1>7, FramesKeep DEF ReaderInv

LEMMA EntryOfMessage ==
    ASSUME NEW m \in Message
    PROVE  /\ [frame |-> m, bytes |-> Encode(m)] \in Entry
           /\ IsSent([frame |-> m, bytes |-> Encode(m)])
<1>1. m # Damaged
  BY FrameAssumption DEF Damaged
<1>2. Encode(m) \in Seq(Symbol)
  BY EncodeFacts
<1>3. PICK entry : entry = [frame |-> m, bytes |-> Encode(m)]
  OBVIOUS
<1>4. entry \in Entry /\ entry.frame = m /\ entry.bytes = Encode(m)
  BY <1>2, <1>3 DEF Entry
<1>. QED
  BY <1>1, <1>3, <1>4 DEF IsSent

LEMMA EntryOfDamage ==
    ASSUME NEW m \in Message, NEW bytes \in Damages(Encode(m))
    PROVE  /\ [frame |-> Damaged, bytes |-> bytes] \in Entry
           /\ IsSent([frame |-> Damaged, bytes |-> bytes])
<1>1. bytes \in Seq(Symbol)
  BY DamageFacts
<1>2. PICK entry : entry = [frame |-> Damaged, bytes |-> bytes]
  OBVIOUS
<1>3. entry \in Entry /\ entry.frame = Damaged /\ entry.bytes = bytes
  BY <1>1, <1>2 DEF Entry
<1>. QED
  BY <1>2, <1>3 DEF IsSent

LEMMA StepKeeps ==
    ASSUME ReaderInv, ReaderNext
    PROVE  ReaderInv'
<1>1. ASSUME NEW m \in Message, PostMessage(m) PROVE ReaderInv'
  <2>1. PICK entry : entry = [frame |-> m, bytes |-> Encode(m)]
    OBVIOUS
  <2>2. /\ entry \in Entry /\ IsSent(entry)
        /\ Post(entry.frame, entry.bytes)
    BY <1>1, <2>1, EntryOfMessage DEF PostMessage
  <2>. QED
    BY <2>2, PostKeeps
<1>2. ASSUME NEW m \in Message, PostDamaged(m) PROVE ReaderInv'
  <2>1. PICK bytes \in Damages(Encode(m)) : Post(Damaged, bytes)
    BY <1>2 DEF PostDamaged
  <2>2. PICK entry : entry = [frame |-> Damaged, bytes |-> bytes]
    OBVIOUS
  <2>3. /\ entry \in Entry /\ IsSent(entry)
        /\ Post(entry.frame, entry.bytes)
    BY <2>1, <2>2, EntryOfDamage
  <2>. QED
    BY <2>3, PostKeeps
<1>3. CASE LineArrives
  BY <1>3, ArrivalKeeps
<1>4. CASE LineDrains
  BY <1>4, DrainKeeps
<1>5. CASE TransportStep
  BY <1>5, TransportKeeps
<1>6. CASE AcceptHeader
  BY <1>6, AcceptKeeps
<1>7. CASE RejectHeader \/ RejectFrame
  <2>1. phase # "stopped" /\ Stop("InvalidFrame")
    BY <1>7 DEF RejectHeader, RejectFrame
  <2>. QED
    BY <2>1, StopKeeps DEF ReadError
<1>8. ASSUME NEW m \in Message, Decode(m) PROVE ReaderInv'
  BY <1>8, DecodeKeeps
<1>9. CASE Answered
  BY <1>9, AnsweredKeeps
<1>10. CASE TransportFails
  <2>1. phase # "stopped" /\ (Stop("Io") \/ Stop("UnexpectedEof"))
    BY <1>10 DEF TransportFails
  <2>. QED
    BY <2>1, StopKeeps DEF ReadError
<1>. QED
  BY <1>1, <1>2, <1>3, <1>4, <1>5, <1>6, <1>7, <1>8, <1>9, <1>10 DEF ReaderNext, ReaderStep

LEMMA StutterKeeps ==
    ASSUME ReaderInv, UNCHANGED readerVars
    PROVE  ReaderInv'
<1>1. /\ kind' = kind /\ executor' = executor /\ UNCHANGED <<config, polling>>
      /\ wire' = wire /\ fifo' = fifo /\ staged' = staged /\ buf' = buf /\ need' = need
      /\ out' = out /\ tx' = tx /\ heard' = heard
      /\ phase' = phase /\ error' = error /\ posted' = posted /\ got' = got
  BY DEF readerVars, linkVars, config, incoming, outgoing
<1>2. LinkTyped' /\ PollOK' /\ PhaseOK'
  BY <1>1, PollTypeKept DEF ReaderInv, LinkTyped, PollOK, PhaseOK
<1>3. BytesArrive' /\ AnswersInOrder'
  <2>1. Incoming' = Incoming /\ AllWritten' = AllWritten
    BY <1>1, FramesKeep DEF Incoming, AllWritten
  <2>. QED
    BY <1>1, <2>1, FramesKeep DEF ReaderInv, BytesArrive, AnswersInOrder, Begins
<1>. QED
  BY <1>1, <1>2, <1>3, FramesKeep DEF ReaderInv

-----------------------------------------------------------------------------
(* The theorems.                                                           *)

\* The bytes at every place they pass through are all the peer has sent, the
\* answers all the node owes, and what waits behind the frames read is as it
\* was sent: recv_frame and send_frame over every transport.
THEOREM ReaderInductive == ReaderSpec => []ReaderInv
<1>1. ReaderInit => ReaderInv
  BY InvAtStart
<1>2. ReaderInv /\ [ReaderNext]_readerVars => ReaderInv'
  BY StepKeeps, StutterKeeps
<1>. QED
  BY <1>1, <1>2, PTL DEF ReaderSpec

\* Buffers stay within their lengths and only a task with an asynchronous
\* transport is ever left unpolled.
THEOREM ReaderTypeCorrect == ReaderSpec => []ReaderTypeOK
<1>1. ReaderInv => ReaderTypeOK
  BY InvImplies
<1>. QED
  BY <1>1, ReaderInductive, PTL

\* No transport loses, repeats or reorders a byte (BleTransport::fill,
\* WsTransport::read_exact, UartTransport::read_exact and the rest).
THEOREM BytesStayInOrder == ReaderSpec => []BytesInOrder
<1>1. ReaderInv => BytesInOrder
  BY InvImplies
<1>. QED
  BY <1>1, ReaderInductive, PTL

\* The peer gets whole answers in the order of its messages (send_frame and
\* the write_all of the transports).
THEOREM AnswersStayWhole == ReaderSpec => []AnswersAreWhole
<1>1. ReaderInv => AnswersAreWhole
  BY InvImplies
<1>. QED
  BY <1>1, ReaderInductive, PTL

-----------------------------------------------------------------------------
(* What a task that is not polled, and a reader without a byte, wait for.  *)

\* What a future on its way to Pending, or asleep, has met.
HasBlocked ==
    ~Running =>
        \/ phase \in {"header", "rest"} /\ Len(buf) < need
        \/ phase = "answer"

\* No frame is taken to be longer than the longest.
WaitInv == HasBlocked /\ NoWakeupIsLost /\ (phase = "rest" => need <= LongestFrame)

\* What a future finds that meets WouldBlock.
MustWait ==
    \/ Len(buf) < need /\ fifo = <<>>
    \/ out # <<>> /\ Len(tx) = TxLen
    \/ need = 0 /\ out = <<>> /\ tx # <<>>

\* Where neither bytes nor phase change and a task that is not polled was not
\* polled before, it still waits for what it waited for.
LEMMA WaitingGoesOn ==
    ASSUME WaitInv, UNCHANGED <<config, phase, need, buf, fifo, out, tx>>,
           Running' \/ (~Running /\ woken' = woken)
    PROVE  WaitInv'
  BY DEF WaitInv, HasBlocked, NoWakeupIsLost, Full, Running, config

\* The same in a frame that begins or ends: such a step needs a poll.
LEMMA PolledMoves ==
    ASSUME Running, UNCHANGED polling, (phase = "rest" => need <= LongestFrame)'
    PROVE  WaitInv'
  BY DEF WaitInv, HasBlocked, NoWakeupIsLost, Running, polling

\* Bytes move only in a poll; a poll blocks only where no byte can move.
LEMMA PendingMustWait ==
    ASSUME BleStep \/ WsStep \/ NbStep \/ EspStep \/ ExecutorStep
    PROVE  /\ need' = need /\ UNCHANGED config
           /\ \/ Running /\ UNCHANGED polling
              \/ Running /\ MustWait /\ UNCHANGED <<woken, incoming, outgoing>>
              \/ (Running' \/ (~Running /\ woken' = woken)) /\ UNCHANGED <<incoming, outgoing>>
<1>1. CASE BleStep
  BY <1>1 DEF BleStep, BleRefill, BleCopy, BleWrite, Filling, Writing, TakeStaged, Give, incoming
<1>2. CASE WsStep
  BY <1>2 DEF WsStep, WsReadMessage, WsPopByte, WsWrite, Filling, Writing, TakeStaged, Give, incoming
<1>3. CASE NbReadByte \/ NbWriteByte
  BY <1>3 DEF NbReadByte, NbWriteByte, Filling, Writing, TakeReceived, Give, incoming
<1>4. CASE EspReadByte \/ EspWriteByte \/ EspReadSome \/ EspWriteSome
  BY <1>4 DEF EspReadByte, EspWriteByte, EspReadSome, EspWriteSome, Filling, Writing,
     TakeReceived, Give, incoming
<1>5. CASE NbPending \/ EspPending
  BY <1>5 DEF NbPending, EspPending, Block, MustWait, incoming
<1>6. CASE Yield
  BY <1>6 DEF Yield, Running, incoming
<1>7. CASE Repoll
  BY <1>7 DEF Repoll, Running, incoming
<1>. QED
  BY <1>1, <1>2, <1>3, <1>4, <1>5, <1>6, <1>7 DEF NbStep, EspStep, ExecutorStep

LEMMA WaitAtStart ==
    ASSUME ReaderInit
    PROVE  WaitInv
  BY DEF ReaderInit, LinkInit, WaitInv, HasBlocked, NoWakeupIsLost, Running

LEMMA TransportWaits ==
    ASSUME ReaderInv, WaitInv, TransportStep
    PROVE  WaitInv'
<1>1. /\ phase # "stopped" /\ phase' = phase /\ need' = need /\ UNCHANGED config
      /\ \/ Running /\ UNCHANGED polling
         \/ Running /\ MustWait /\ UNCHANGED <<woken, incoming, outgoing>>
         \/ (Running' \/ (~Running /\ woken' = woken)) /\ UNCHANGED <<incoming, outgoing>>
  BY PendingMustWait DEF TransportStep, Outside
<1>2. (phase = "rest" => need <= LongestFrame)'
  BY <1>1 DEF WaitInv
<1>3. CASE Running /\ UNCHANGED polling
  BY <1>2, <1>3, PolledMoves
<1>4. CASE (Running' \/ (~Running /\ woken' = woken)) /\ UNCHANGED <<incoming, outgoing>>
  <2>1. UNCHANGED <<config, phase, need, buf, fifo, out, tx>>
    BY <1>1, <1>4 DEF incoming, outgoing
  <2>. QED
    BY <1>4, <2>1, WaitingGoesOn
<1>5. CASE Running /\ MustWait /\ UNCHANGED <<woken, incoming, outgoing>>
  <2>1. /\ MustWait /\ buf' = buf /\ need' = need /\ fifo' = fifo /\ out' = out /\ tx' = tx
    BY <1>5 DEF incoming, outgoing
  <2>2. Len(buf) \in Nat /\ need \in Nat /\ tx \in Seq(Symbol) /\ Len(tx) \in Nat
    BY LenProperties DEF ReaderInv, LinkTyped
  <2>3. /\ phase \in {"header", "rest", "answer"}
        /\ phase = "answer" => need = 0
        /\ phase # "answer" => out = <<>>
        /\ phase \in {"header", "rest"} => need # 0
    <3>1. phase = "rest" => Len(buf) >= 2 /\ Len(buf) <= need
      BY DEF ReaderInv, PhaseOK, LinkTyped, HeaderLen
    <3>. QED
      BY <1>1, <2>2, <3>1 DEF ReaderInv, PhaseOK, HeaderLen
  <2>4. CASE Len(buf) < need /\ fifo = <<>>
    <3>1. phase \in {"header", "rest"} /\ Len(buf) # need
      BY <2>2, <2>3, <2>4
    <3>. QED
      BY <1>1, <1>2, <2>1, <2>4, <3>1 DEF WaitInv, HasBlocked, NoWakeupIsLost, Full
  <2>5. CASE out # <<>> /\ Len(tx) = TxLen
    <3>1. tx # <<>>
      BY <2>2, <2>5, LinkAssumption
    <3>. QED
      BY <1>1, <1>2, <2>1, <2>3, <2>5, <3>1 DEF WaitInv, HasBlocked, NoWakeupIsLost
  <2>6. CASE need = 0 /\ out = <<>> /\ tx # <<>>
    <3>1. phase = "answer"
      BY <2>3, <2>6
    <3>. QED
      BY <1>1, <1>2, <2>1, <2>6, <3>1 DEF WaitInv, HasBlocked, NoWakeupIsLost
  <2>. QED
    BY <2>1, <2>4, <2>5, <2>6 DEF MustWait
<1>. QED
  BY <1>1, <1>3, <1>4, <1>5

\* An interrupt wakes the task, whatever the bytes it announces.
LEMMA InterruptWakes ==
    ASSUME WaitInv, LineArrives \/ LineDrains
    PROVE  WaitInv'
<1>1. Interrupt /\ executor' = executor /\ phase' = phase /\ need' = need /\ buf' = buf
  BY DEF LineArrives, LineDrains, Arrive, Drain, Outside, incoming, config
<1>2. HasBlocked' /\ (phase = "rest" => need <= LongestFrame)'
  BY <1>1 DEF WaitInv, HasBlocked, Interrupt, Running
<1>3. NoWakeupIsLost'
  BY <1>1 DEF NoWakeupIsLost, Interrupt
<1>. QED
  BY <1>2, <1>3 DEF WaitInv

LEMMA AcceptWaits ==
    ASSUME ReaderInv, WaitInv, AcceptHeader
    PROVE  WaitInv'
<1>1. /\ phase = "header" /\ Full /\ PlausibleHeader /\ phase' = "rest"
      /\ need' = HeaderLen + buf[2][2] + TrailerLen /\ UNCHANGED polling
  BY DEF AcceptHeader
<1>2. Running
  <2>1. Len(buf) = need /\ need \in Nat
    BY <1>1 DEF Full, ReaderInv, LinkTyped
  <2>. QED
    BY <1>1, <2>1 DEF WaitInv, HasBlocked
<1>3. buf[2][2] \in Nat /\ buf[2][2] <= MaxPayload /\ MaxPayload \in Nat
  <2>1. Len(buf) = 2 /\ buf \in Seq(Symbol)
    BY <1>1 DEF ReaderInv, PhaseOK, LinkTyped, Full, HeaderLen
  <2>2. buf[2] \in Symbol
    BY <2>1, ElementOfSeq
  <2>. QED
    BY <1>1, <2>2, FrameAssumption DEF Symbol, PlausibleHeader
<1>4. need' <= LongestFrame
  BY <1>1, <1>3 DEF LongestFrame, HeaderLen, TrailerLen
<1>. QED
  BY <1>1, <1>2, <1>4, PolledMoves

LEMMA StepWaits ==
    ASSUME ReaderInv, WaitInv, ReaderNext
    PROVE  WaitInv'
<1>1. CASE \E m \in Message : PostMessage(m) \/ PostDamaged(m)
  <2>1. UNCHANGED <<config, polling, fifo, buf, need, out, tx, phase>>
    BY <1>1 DEF PostMessage, PostDamaged, Post, outgoing
  <2>2. Running' \/ (~Running /\ woken' = woken)
    BY <2>1 DEF Running, polling
  <2>. QED
    BY <2>1, <2>2, WaitingGoesOn
<1>2. CASE LineArrives \/ LineDrains
  BY <1>2, InterruptWakes
<1>3. CASE TransportStep
  BY <1>3, TransportWaits
<1>4. CASE AcceptHeader
  BY <1>4, AcceptWaits
<1>5. Full => Running
  <2>1. Full => Len(buf) = need /\ need \in Nat /\ phase # "answer"
    BY DEF Full, ReaderInv, LinkTyped
  <2>. QED
    BY <2>1 DEF WaitInv, HasBlocked
<1>6. CASE RejectHeader \/ RejectFrame \/ TransportFails
  <2>1. Running /\ UNCHANGED polling /\ phase' = "stopped"
    BY <1>5, <1>6 DEF RejectHeader, RejectFrame, TransportFails, Stop
  <2>. QED
    BY <2>1, PolledMoves
<1>7. ASSUME NEW m \in Message, Decode(m) PROVE WaitInv'
  <2>1. Running /\ phase' = "answer" /\ UNCHANGED polling
    BY <1>5, <1>7 DEF Decode
  <2>. QED
    BY <2>1, PolledMoves
<1>8. CASE Answered
  <2>1. Running /\ UNCHANGED polling /\ phase' = "header"
    BY <1>8 DEF Answered, AwaitHeader
  <2>. QED
    BY <2>1, PolledMoves
<1>. QED
  BY <1>1, <1>2, <1>3, <1>4, <1>6, <1>7, <1>8 DEF ReaderNext, ReaderStep

LEMMA StutterWaits ==
    ASSUME WaitInv, UNCHANGED readerVars
    PROVE  WaitInv'
<1>1. UNCHANGED <<config, polling, fifo, buf, need, out, tx, phase>>
  BY DEF readerVars, linkVars, incoming, outgoing
<1>2. Running' \/ (~Running /\ woken' = woken)
  BY <1>1 DEF Running, polling
<1>. QED
  BY <1>1, <1>2, WaitingGoesOn

\* The two together: what recv_frame and the futures of the transports wait for.
THEOREM WaitInductive == ReaderSpec => [](ReaderInv /\ WaitInv)
<1>1. ReaderInit => WaitInv
  BY WaitAtStart
<1>2. ReaderInv /\ WaitInv /\ [ReaderNext]_readerVars => WaitInv'
  BY StepWaits, StutterWaits
<1>. QED
  BY <1>1, <1>2, ReaderInductive, PTL DEF ReaderSpec

\* Where interrupts wake the task, no future returns Pending past a byte it could
\* read or room it could fill, whenever the interrupt comes between the WouldBlock
\* and the executor (poll_fn of UartTransport, the futures of esp-hal).
THEOREM WakeupsAreKept == ReaderSpec => []NoWakeupIsLost
<1>1. WaitInv => NoWakeupIsLost
  BY DEF WaitInv
<1>. QED
  BY <1>1, WaitInductive, PTL

\* The next frame has come no further than the bytes have.
LEMMA NextFrameFits ==
    ASSUME ReadInOrder, NEW j \in 1..Len(posted), j = Len(got) + 1
    PROVE  Len(BytesOf(got)) + Len(posted[j].bytes) <= Len(Posted)
<1>1. PICK k \in Nat : k = Len(got)
  BY RowTypes
<1>2. PICK n \in Nat : n = Len(posted) /\ k <= n /\ j \in 1..n /\ j - 1 = k
  BY <1>1, RowTypes DEF ReadInOrder
<1>3. PICK rows \in Seq(Seq(Symbol)) : rows = PostedRows /\ Len(rows) = n
  BY <1>2, RowTypes
<1>4. PICK f : Joins(f, rows, Symbol)
  BY <1>3, JoinsExist
<1>5. PICK s \in Seq(Seq(Symbol)) : s = GotRows
  BY RowTypes
<1>6. PICK g : Joins(g, GotRows, Symbol)
  BY RowTypes, JoinsExist
<1>7. f[k] = g[k]
  <2>1. /\ k <= Len(s) /\ k <= Len(rows) /\ k \in 0..k
        /\ \A i \in 1..k : s[i] = rows[i]
    BY <1>1, <1>2, <1>3, <1>5, RowTypes
  <2>2. Joins(g, s, Symbol)
    BY <1>5, <1>6
  <2>3. \A i \in 0..k : g[i] = f[i]
    BY <1>4, <2>1, <2>2, JoinsAgree
  <2>. QED
    BY <2>1, <2>3
<1>8. Posted = f[n]
  BY <1>3, <1>4, FlattenIsJoin DEF Posted, PostedRows
<1>9. BytesOf(got) = f[k]
  <2>1. Len(GotRows) = k /\ GotRows \in Seq(Seq(Symbol))
    BY <1>1, RowTypes
  <2>. QED
    BY <1>6, <1>7, <2>1, FlattenIsJoin DEF BytesOf, GotRows
<1>10. /\ Follows(f[j - 1], rows[j], f[Len(rows)])
       /\ Len(f[j]) = Len(f[j - 1]) + Len(rows[j])
  <2>1. j \in 1..Len(rows)
    BY <1>2, <1>3
  <2>. QED
    BY <1>4, <2>1, JoinedNext
<1>11. rows[j] = posted[j].bytes
  BY <1>2, <1>3 DEF PostedRows
<1>12. Len(f[k]) + Len(posted[j].bytes) <= Len(f[n])
  BY <1>2, <1>3, <1>10, <1>11 DEF Follows
<1>. QED
  BY <1>8, <1>9, <1>12

\* Once the slices hold all that has come, it is all of the frames not decoded.
LEMMA AllThatHasCome ==
    ASSUME ReaderInv, WaitsForMore
    PROVE  /\ Posted = Cat(BytesOf(got), buf)
           /\ Len(Posted) = Len(BytesOf(got)) + Len(buf)
<1>1. PICK read \in Seq(Symbol) : read = BytesOf(got)
  BY StreamTypes DEF ReaderInv
<1>2. buf \in Seq(Symbol) /\ staged = <<>> /\ fifo = <<>> /\ wire = <<>> /\ phase # "stopped"
  BY DEF ReaderInv, LinkTyped, WaitsForMore
<1>3. PICK both \in Seq(Symbol) : both = Cat(read, buf) /\ Len(both) = Len(read) + Len(buf)
  BY <1>2, CatFacts DEF IsCat
<1>4. Cat(both, <<>>) = both
  BY CatEmpty
<1>5. Chain(read, buf, <<>>, <<>>, <<>>) = both
  BY <1>3, <1>4, Zenon DEF Chain
<1>6. Posted = both
  BY <1>1, <1>2, <1>5 DEF ReaderInv, BytesArrive, Incoming
<1>. QED
  BY <1>1, <1>3, <1>6

LEMMA WaitIsShort ==
    ASSUME ReaderInv, WaitInv, WaitsForMore
    PROVE  Len(buf) \in Nat /\ need \in Nat /\ Len(buf) < need /\ need <= LongestFrame
<1>1. Len(buf) \in Nat /\ need \in Nat /\ Len(buf) <= need
  BY LenProperties DEF ReaderInv, LinkTyped
<1>2. phase \in {"header", "rest"} /\ Len(buf) # need
  BY DEF WaitsForMore, Full
<1>3. need <= LongestFrame
  <2>1. phase = "header" => need = HeaderLen
    BY DEF ReaderInv, PhaseOK
  <2>. QED
    BY <1>1, <1>2, <2>1, FrameAssumption DEF WaitInv, LongestFrame, HeaderLen, TrailerLen
<1>. QED
  BY <1>1, <1>2, <1>3

\* A whole frame among the bytes would have filled the slice.
LEMMA NextIsDamaged ==
    ASSUME ReaderInv, WaitInv, WaitsForMore, NEW j \in 1..Len(posted), j = Len(got) + 1
    PROVE  posted[j].frame = Damaged
<1>1. SUFFICES ASSUME posted[j].frame # Damaged PROVE FALSE
  OBVIOUS
<1>2. IsSent(posted[j])
  BY DEF ReaderInv, ReadInOrder
<1>3. PICK f \in Message : posted[j].bytes = Encode(f)
  BY <1>1, <1>2 DEF IsSent
<1>4. PICK p \in Nat : p = PayloadLen[f]
  BY EncodeFacts
<1>5. PICK w \in Seq(Symbol) : /\ w = posted[j].bytes /\ Len(w) = p + 3
                               /\ w[2] = <<"length", p>>
  BY <1>3, <1>4, EncodeFacts
<1>6. Len(buf) \in Nat /\ need \in Nat /\ Len(buf) < need
  BY WaitIsShort
<1>7. Len(buf) >= p + 3
  <2>1. Len(BytesOf(got)) \in Nat
    BY StreamTypes, LenProperties DEF ReaderInv
  <2>2. Len(BytesOf(got)) + Len(w) <= Len(BytesOf(got)) + Len(buf)
    BY <1>5, AllThatHasCome, NextFrameFits DEF ReaderInv
  <2>. QED
    BY <1>5, <1>6, <2>1, <2>2
<1>8. phase = "rest" /\ need = HeaderLen + buf[2][2] + TrailerLen
  <2>1. phase # "header"
    BY <1>6, <1>7 DEF ReaderInv, PhaseOK, HeaderLen
  <2>2. phase = "rest"
    BY <2>1 DEF WaitsForMore
  <2>. QED
    BY <2>2 DEF ReaderInv, PhaseOK
<1>9. buf[2] = w[2]
  <2>1. buf # <<>>
    BY <1>7, EmptySeq DEF ReaderInv, LinkTyped
  <2>2. PICK entry, other : ReadsFrom(entry, other)
    BY <1>8, <2>1, NextEntry
  <2>3. entry.bytes = w
    BY <1>5, <2>2 DEF ReadsFrom
  <2>4. 2 \in 1..Len(buf) /\ 2 <= Len(w)
    BY <1>5, <1>6, <1>7
  <2>. QED
    BY <2>2, <2>3, <2>4 DEF ReadsFrom
<1>. QED
  BY <1>5, <1>6, <1>7, <1>8, <1>9 DEF HeaderLen, TrailerLen

LEMMA AwaitedIsNew ==
    ASSUME ReaderInv, WaitInv
    PROVE  OnlyNewFramesAreAwaited
<1>1. SUFFICES ASSUME WaitsForMore
               PROVE  \/ Len(got) = Len(posted) /\ buf = <<>>
                      \/ /\ Len(got) < Len(posted) /\ IsDamaged(posted[Len(got) + 1])
                         /\ Len(Posted) < Len(BytesOf(got)) + LongestFrame
  BY DEF OnlyNewFramesAreAwaited
<1>2. PICK k \in Nat : k = Len(got)
  BY RowTypes DEF ReaderInv
<1>3. PICK n \in Nat : n = Len(posted) /\ k <= n
  BY <1>2, RowTypes DEF ReaderInv, ReadInOrder
<1>4. CASE k = n
  <2>1. ~(Len(got) < Len(posted))
    BY <1>2, <1>3, <1>4
  <2>2. phase # "stopped"
    BY <1>1 DEF WaitsForMore
  <2>3. buf = <<>>
    BY <2>1, <2>2, NextEntry DEF ReadsFrom
  <2>. QED
    BY <1>2, <1>3, <1>4, <2>3
<1>5. CASE k < n
  <2>1. PICK j \in 1..Len(posted) : j = k + 1
    BY <1>3, <1>5
  <2>2. posted[j].frame = Damaged
    BY <1>1, <1>2, <2>1, NextIsDamaged
  <2>3. Len(Posted) < Len(BytesOf(got)) + LongestFrame
    <3>1. Len(BytesOf(got)) \in Nat /\ LongestFrame \in Nat
      BY StreamTypes, LenProperties, FrameAssumption
         DEF ReaderInv, LongestFrame, HeaderLen, TrailerLen
    <3>. QED
      BY <1>1, <3>1, AllThatHasCome, WaitIsShort
  <2>. QED
    BY <1>2, <1>3, <1>5, <2>1, <2>2, <2>3 DEF IsDamaged
<1>. QED
  BY <1>3, <1>4, <1>5

\* With every byte the peer has sent in its slices, the reader waits for nothing
\* but new frames, or for less than the longest frame behind the start of a
\* damaged one (recv_frame, over every transport).
THEOREM NothingSentIsAwaited == ReaderSpec => []OnlyNewFramesAreAwaited
<1>1. ReaderInv /\ WaitInv => OnlyNewFramesAreAwaited
  BY AwaitedIsNew
<1>. QED
  BY <1>1, WaitInductive, PTL

-----------------------------------------------------------------------------
(* The refinement.                                                         *)

\* What FrameLink calls sent and ended.
Unread == [i \in 1..(Len(posted) - Len(got)) |-> posted[Len(got) + i].frame]

Ended == IF error = "none" THEN "no"
         ELSE IF error = "InvalidFrame" THEN "damage" ELSE "failure"

Frame == Message \cup {Damaged}

LEMMA UnreadType ==
    ASSUME ReadInOrder
    PROVE  /\ Unread \in Seq(Frame) /\ Len(Unread) = Len(posted) - Len(got)
           /\ Len(posted) - Len(got) \in Nat /\ Len(posted) \in Nat /\ Len(got) \in Nat
           /\ \A i \in 1..(Len(posted) - Len(got)) : Unread[i] = posted[Len(got) + i].frame
<1>1. PICK n \in Nat : n = Len(posted) - Len(got)
  <2>1. Len(posted) - Len(got) \in Nat
    <3>1. Len(posted) \in Nat /\ Len(got) \in Nat /\ Len(got) <= Len(posted)
      BY RowTypes DEF ReadInOrder
    <3>. QED
      BY <3>1
  <2>. QED
    BY <2>1
<1>2. Len(posted) \in Nat /\ Len(got) \in Nat
  BY RowTypes
<1>3. PICK k \in Nat : k = Len(got)
  BY <1>2
<1>4. \A i \in 1..n : posted[k + i].frame \in Frame
  <2>1. \A i \in 1..n : k + i \in 1..Len(posted)
    BY <1>1, <1>2, <1>3
  <2>2. \A i \in 1..Len(posted) : posted[i] \in Entry
    BY ElementOfSeq DEF ReadInOrder
  <2>. QED
    BY <2>1, <2>2 DEF Entry, Frame
<1>5. PICK unread : unread = [i \in 1..n |-> posted[k + i].frame]
  OBVIOUS
<1>6. unread \in [1..n -> Frame]
  BY <1>4, <1>5
<1>7. unread \in Seq(Frame) /\ Len(unread) = n
  BY <1>6, SeqDef, LenProperties
<1>8. Unread = unread
  BY <1>1, <1>3, <1>5 DEF Unread
<1>. QED
  BY <1>1, <1>2, <1>3, <1>5, <1>7, <1>8

LEMMA PostIsPost ==
    ASSUME ReaderInv, NEW frame \in Frame, NEW bytes, Post(frame, bytes)
    PROVE  Frames!PostFrame(frame)
<1>1. ReadInOrder /\ posted \in Seq(Entry)
  BY DEF ReaderInv, ReadInOrder
<1>2. PICK k \in Nat : k = Len(got)
  BY <1>1, UnreadType
<1>3. PICK n \in Nat : n = Len(posted) - k /\ Len(posted) = k + n
  <2>1. Len(posted) - k \in Nat /\ Len(posted) = k + (Len(posted) - k)
    BY <1>1, <1>2, UnreadType
  <2>. QED
    BY <2>1
<1>4. PICK entry : entry = [frame |-> frame, bytes |-> bytes] /\ entry.frame = frame
  <2>1. [frame |-> frame, bytes |-> bytes].frame = frame
    OBVIOUS
  <2>. QED
    BY <2>1, Zenon
<1>5. posted' = Append(posted, entry) /\ got' = got /\ error' = error
  BY <1>4 DEF Post
<1>6. /\ Len(posted') = (k + n) + 1 /\ posted'[(k + n) + 1] = entry
      /\ \A i \in 1..(k + n) : posted'[i] = posted[i]
  BY <1>1, <1>3, <1>5
<1>7. PICK u \in Seq(Frame) : u = Unread /\ Len(u) = n /\ \A i \in 1..n : u[i] = posted[k + i].frame
  BY <1>1, <1>2, <1>3, UnreadType
<1>8. PICK a : a = Append(u, frame)
  OBVIOUS
<1>9. a \in Seq(Frame) /\ Len(a) = n + 1 /\ a[n + 1] = frame /\ \A i \in 1..n : a[i] = u[i]
  BY <1>7, <1>8
<1>10. PICK new : new = [i \in 1..(n + 1) |-> posted'[k + i].frame]
  OBVIOUS
<1>11. Unread' = new
  <2>1. Len(posted') - Len(got') = n + 1
    BY <1>2, <1>5, <1>6
  <2>. QED
    BY <1>2, <1>5, <1>10, <2>1 DEF Unread
<1>12. new = a
  <2>1. DOMAIN a = 1..(n + 1) /\ a = [i \in DOMAIN a |-> a[i]]
    BY <1>9, LenProperties
  <2>2. ASSUME NEW i \in 1..(n + 1) PROVE new[i] = a[i]
    <3>1. new[i] = posted'[k + i].frame
      BY <1>10
    <3>2. CASE i \in 1..n
      <4>1. k + i \in 1..(k + n)
        BY <3>2
      <4>. QED
        BY <1>6, <1>7, <1>9, <3>1, <3>2, <4>1
    <3>3. CASE i = n + 1
      <4>1. k + i = (k + n) + 1
        BY <3>3
      <4>. QED
        BY <1>4, <1>6, <1>9, <3>1, <3>3, <4>1
    <3>. QED
      BY <3>2, <3>3
  <2>. QED
    BY <1>10, <2>1, <2>2
<1>13. Unread' = Append(Unread, frame) /\ got' = got /\ Ended' = Ended
  BY <1>5, <1>7, <1>8, <1>11, <1>12 DEF Ended
<1>. QED
  BY <1>13 DEF Frames!PostFrame, Unread, Ended

LEMMA FirstUnread ==
    ASSUME ReaderInv, Len(got) < Len(posted)
    PROVE  Unread # <<>> /\ Head(Unread) = posted[Len(got) + 1].frame
<1>1. ReadInOrder
  BY DEF ReaderInv
<1>2. PICK u \in Seq(Frame) : u = Unread /\ Len(u) = Len(posted) - Len(got)
  BY <1>1, UnreadType
<1>3. 1 \in 1..(Len(posted) - Len(got)) /\ Len(u) # 0
  BY <1>1, <1>2, UnreadType
<1>4. u[1] = posted[Len(got) + 1].frame
  BY <1>1, <1>2, <1>3, UnreadType
<1>5. u # <<>>
  BY <1>3, EmptySeq
<1>. QED
  BY <1>2, <1>4, <1>5

LEMMA DecodeIsRead ==
    ASSUME ReaderInv, NEW m \in Message, Decode(m)
    PROVE  Frames!ReadFrame
<1>1. ReadInOrder /\ got \in Seq(Message)
  BY DEF ReaderInv, ReadInOrder
<1>2. /\ phase = "rest" /\ Decodes(buf, m) /\ got' = Append(got, m)
      /\ UNCHANGED <<error, posted>>
  BY DEF Decode
<1>3. Len(got) < Len(posted) /\ posted[Len(got) + 1].frame = m
  BY <1>2, DecodesNext
<1>4. Unread # <<>> /\ Head(Unread) = m
  BY <1>3, FirstUnread
<1>5. error = "none"
  BY <1>2 DEF ReaderInv, PhaseOK
<1>6. Unread' = Tail(Unread)
  <2>1. PICK k \in Nat : k = Len(got) /\ Len(got') = k + 1
    BY <1>1, <1>2, UnreadType
  <2>2. PICK n \in Nat : n = Len(posted) - k /\ n >= 1 /\ Len(posted) - (k + 1) = n - 1
    <3>1. Len(posted) \in Nat /\ k < Len(posted)
      BY <1>1, <1>3, <2>1, UnreadType
    <3>2. /\ Len(posted) - k \in Nat /\ Len(posted) - k >= 1
          /\ Len(posted) - (k + 1) = (Len(posted) - k) - 1
      BY <2>1, <3>1
    <3>. QED
      BY <3>2
  <2>3. PICK u \in Seq(Frame) : u = Unread /\ Len(u) = n /\ \A i \in 1..n : u[i] = posted[k + i].frame
    BY <1>1, <2>1, <2>2, UnreadType
  <2>4. PICK t : t = Tail(u)
    OBVIOUS
  <2>5. t \in Seq(Frame) /\ Len(t) = n - 1 /\ \A i \in 1..(n - 1) : t[i] = u[i + 1]
    BY <1>4, <2>3, <2>4, HeadTailProperties
  <2>6. PICK new : new = [i \in 1..(n - 1) |-> posted[(k + 1) + i].frame]
    OBVIOUS
  <2>7. Unread' = new
    BY <1>2, <2>1, <2>2, <2>6 DEF Unread
  <2>8. new = t
    <3>1. DOMAIN t = 1..(n - 1) /\ t = [i \in DOMAIN t |-> t[i]]
      BY <2>5, LenProperties
    <3>2. ASSUME NEW i \in 1..(n - 1) PROVE new[i] = t[i]
      <4>1. i + 1 \in 1..n /\ k + (i + 1) = (k + 1) + i
        BY <2>2
      <4>. QED
        BY <2>3, <2>5, <2>6, <4>1
    <3>. QED
      BY <2>6, <3>1, <3>2
  <2>. QED
    BY <2>3, <2>4, <2>7, <2>8
<1>7. Ended = "no" /\ Ended' = Ended
  BY <1>2, <1>5 DEF Ended
<1>. QED
  BY <1>2, <1>4, <1>6, <1>7 DEF Frames!ReadFrame, Unread, Ended

LEMMA RejectIsDamage ==
    ASSUME ReaderInv, RejectHeader \/ RejectFrame
    PROVE  Frames!MeetDamage
<1>1. /\ phase \in {"header", "rest"} /\ Stop("InvalidFrame")
      /\ Len(got) < Len(posted) /\ posted[Len(got) + 1].frame = Damaged
  BY RefusedIsDamaged DEF RejectHeader, RejectFrame
<1>2. Unread # <<>> /\ Head(Unread) = Damaged
  BY <1>1, FirstUnread
<1>3. error = "none" /\ error' = "InvalidFrame" /\ UNCHANGED <<posted, got>>
  BY <1>1 DEF ReaderInv, PhaseOK, Stop
<1>4. Ended = "no" /\ Ended' = "damage" /\ UNCHANGED <<Unread, got>>
  BY <1>3 DEF Ended, Unread
<1>. QED
  BY <1>2, <1>4 DEF Frames!MeetDamage, Unread, Ended

LEMMA FailureIsFailure ==
    ASSUME ReaderInv, TransportFails
    PROVE  Frames!FailToRead
<1>1. phase # "stopped" /\ (Stop("Io") \/ Stop("UnexpectedEof"))
  BY DEF TransportFails
<1>2. error = "none" /\ error' \in {"Io", "UnexpectedEof"} /\ UNCHANGED <<posted, got>>
  BY <1>1 DEF ReaderInv, PhaseOK, Stop
<1>3. Ended = "no" /\ Ended' = "failure" /\ UNCHANGED <<Unread, got>>
  BY <1>2 DEF Ended, Unread
<1>. QED
  BY <1>3 DEF Frames!FailToRead, Unread, Ended

LEMMA OthersStutter ==
    ASSUME UNCHANGED <<error, posted, got>>
    PROVE  UNCHANGED Frames!frameVars
  BY DEF Frames!frameVars

LEMMA FrameStep ==
    ASSUME ReaderInv, ReaderNext
    PROVE  [Frames!FrameNext]_(Frames!frameVars)
<1>1. ASSUME NEW m \in Message, PostMessage(m) PROVE \E frame \in Frame : Frames!PostFrame(frame)
  <2>1. m \in Frame /\ Frames!PostFrame(m)
    BY <1>1, PostIsPost DEF PostMessage, Frame
  <2>. QED
    BY <2>1
<1>2. ASSUME NEW m \in Message, PostDamaged(m) PROVE \E frame \in Frame : Frames!PostFrame(frame)
  <2>1. Damaged \in Frame /\ Frames!PostFrame(Damaged)
    BY <1>2, PostIsPost DEF PostDamaged, Frame
  <2>. QED
    BY <2>1
<1>3. CASE LineArrives \/ LineDrains \/ TransportStep \/ AcceptHeader \/ Answered
  <2>1. UNCHANGED <<error, posted, got>>
    BY <1>3 DEF LineArrives, LineDrains, TransportStep, AcceptHeader, Answered, Outside
  <2>. QED
    BY <2>1, OthersStutter
<1>. QED
  BY <1>1, <1>2, <1>3, DecodeIsRead, RejectIsDamage, FailureIsFailure
     DEF ReaderNext, ReaderStep, Frames!FrameNext, Frame

\* Over every transport, whole frames are read in order up to the first damaged
\* one, which is never taken for a frame: Node::run over recv_frame.
THEOREM ReaderImplementsFrames == ReaderSpec => ImplementsFrames
<1>1. ReaderInit => Frames!FrameInit
  <2>1. ASSUME ReaderInit PROVE Frames!FrameInit
    <3>1. posted = <<>> /\ got = <<>> /\ error = "none"
      BY <2>1 DEF ReaderInit
    <3>2. Len(posted) - Len(got) = 0
      BY <3>1
    <3>3. Unread = <<>> /\ Ended = "no"
      BY <3>1, <3>2 DEF Unread, Ended
    <3>. QED
      BY <3>1, <3>3 DEF Frames!FrameInit, Unread, Ended
  <2>. QED
    BY <2>1
<1>2. ReaderInv /\ [ReaderNext]_readerVars => [Frames!FrameNext]_(Frames!frameVars)
  <2>1. ASSUME UNCHANGED readerVars PROVE UNCHANGED Frames!frameVars
    BY <2>1, OthersStutter DEF readerVars
  <2>. QED
    BY <2>1, FrameStep
<1>. QED
  BY <1>1, <1>2, ReaderInductive, PTL DEF ReaderSpec, ImplementsFrames, Frames!FrameSpec

=============================================================================
