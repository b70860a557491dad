----------------------------- MODULE Crc32Proofs -----------------------------
(***************************************************************************)
(* Theorems about Crc32 for messages and updates of any length and every   *)
(* set of bytes.                                                           *)
(***************************************************************************)
EXTENDS Crc32, SequenceFacts

USE CrcAssumption

-----------------------------------------------------------------------------
(* Words, of any width, bit by bit                                         *)

Places == SUBSET Nat

LEMMA SameBits ==
    ASSUME NEW a \in Places, NEW b \in Places, \A i \in Nat : i \in a <=> i \in b
    PROVE  a = b
BY DEF Places

LEMMA XorBits ==
    ASSUME NEW a \in Places, NEW b \in Places
    PROVE  /\ Xor(a, b) \in Places
           /\ \A i : i \in Xor(a, b) <=> ~(i \in a <=> i \in b)
BY DEF Places, Xor

LEMMA XorAlgebra ==
    ASSUME NEW a \in Places, NEW b \in Places, NEW c \in Places
    PROVE  /\ Xor(a, b) = Xor(b, a)
           /\ Xor(Xor(a, b), c) = Xor(a, Xor(b, c))
           /\ Xor(a, b) = Xor(a, c) => b = c
           /\ Xor(a, {}) = a
BY DEF Places, Xor

LEMMA ShiftRightBits ==
    ASSUME NEW a \in Places, NEW n \in Nat
    PROVE  /\ ShiftRight(a, n) \in Places
           /\ \A i \in Nat : i \in ShiftRight(a, n) <=> i + n \in a
<1>1. ASSUME NEW j \in a, j >= n PROVE j - n \in Nat
  BY <1>1 DEF Places
<1>2. ShiftRight(a, n) \in Places
  BY <1>1 DEF Places, ShiftRight
<1>3. ASSUME NEW i \in Nat, i \in ShiftRight(a, n) PROVE i + n \in a
  <2>1. PICK j \in a : j >= n /\ i = j - n
    BY <1>3 DEF ShiftRight
  <2>2. j \in Nat
    BY DEF Places
  <2> QED BY <2>1, <2>2
<1>4. ASSUME NEW i \in Nat, i + n \in a PROVE i \in ShiftRight(a, n)
  <2>1. i + n >= n /\ (i + n) - n = i
    OBVIOUS
  <2> QED BY <1>4, <2>1 DEF ShiftRight
<1> QED BY <1>2, <1>3, <1>4

LEMMA PolyBits == POLY \in Places /\ 31 \in POLY /\ POLY \subseteq 0..31
BY DEF POLY, Places

\* A bit of the shifted word is the one above it, flipped where the lowest bit
\* and the polynomial have one.
LEMMA ShiftedBits ==
    ASSUME NEW a \in Places
    PROVE  /\ Shifted(a) \in Places
           /\ \A i \in Nat : i \in Shifted(a) <=> ~(i + 1 \in a <=> 0 \in a /\ i \in POLY)
<1>1. /\ ShiftRight(a, 1) \in Places
      /\ \A i \in Nat : i \in ShiftRight(a, 1) <=> i + 1 \in a
  BY ShiftRightBits
<1>2. /\ Xor(POLY, ShiftRight(a, 1)) \in Places
      /\ \A i : i \in Xor(POLY, ShiftRight(a, 1)) <=> ~(i \in POLY <=> i \in ShiftRight(a, 1))
  BY <1>1, PolyBits, XorBits
<1>3. CASE 0 \in a
  BY <1>1, <1>2, <1>3 DEF Shifted
<1>4. CASE 0 \notin a
  BY <1>1, <1>4 DEF Shifted
<1> QED BY <1>3, <1>4

\* The inner loop is linear.
LEMMA ShiftedXor ==
    ASSUME NEW a \in Places, NEW b \in Places
    PROVE  Shifted(Xor(a, b)) = Xor(Shifted(a), Shifted(b))
<1>1. Xor(a, b) \in Places /\ Shifted(a) \in Places /\ Shifted(b) \in Places
  BY XorBits, ShiftedBits
<1>2. Shifted(Xor(a, b)) \in Places /\ Xor(Shifted(a), Shifted(b)) \in Places
  BY <1>1, XorBits, ShiftedBits
<1>3. ASSUME NEW i \in Nat
      PROVE  i \in Shifted(Xor(a, b)) <=> i \in Xor(Shifted(a), Shifted(b))
  <2>1. i \in Shifted(Xor(a, b)) <=> ~(i + 1 \in Xor(a, b) <=> 0 \in Xor(a, b) /\ i \in POLY)
    BY <1>1, ShiftedBits
  <2>2. /\ i + 1 \in Xor(a, b) <=> ~(i + 1 \in a <=> i + 1 \in b)
        /\ 0 \in Xor(a, b) <=> ~(0 \in a <=> 0 \in b)
    BY XorBits
  <2>3. i \in Xor(Shifted(a), Shifted(b)) <=> ~(i \in Shifted(a) <=> i \in Shifted(b))
    BY <1>1, XorBits
  <2>4. /\ i \in Shifted(a) <=> ~(i + 1 \in a <=> 0 \in a /\ i \in POLY)
        /\ i \in Shifted(b) <=> ~(i + 1 \in b <=> 0 \in b /\ i \in POLY)
    BY ShiftedBits
  <2> QED BY <2>1, <2>2, <2>3, <2>4
<1> QED BY <1>2, <1>3, SameBits

\* A word without a lowest bit is only shifted.
LEMMA ShiftedEven ==
    ASSUME NEW a \in Places, NEW n \in Nat, n \notin a
    PROVE  Shifted(ShiftRight(a, n)) = ShiftRight(a, n + 1)
<1> DEFINE b == ShiftRight(a, n)
<1>1. b \in Places /\ \A i \in Nat : i \in b <=> i + n \in a
  BY ShiftRightBits
<1>2. /\ ShiftRight(a, n + 1) \in Places
      /\ \A i \in Nat : i \in ShiftRight(a, n + 1) <=> i + (n + 1) \in a
  BY ShiftRightBits
<1> HIDE DEF b
<1>3. Shifted(b) \in Places /\ 0 \notin b
  BY <1>1, ShiftedBits
<1>4. ASSUME NEW i \in Nat PROVE i \in Shifted(b) <=> i \in ShiftRight(a, n + 1)
  <2>1. i \in Shifted(b) <=> i + 1 \in b
    BY <1>1, <1>3, ShiftedBits
  <2>2. i + 1 \in Nat /\ (i + 1) + n = i + (n + 1)
    OBVIOUS
  <2>3. i + 1 \in b <=> i + (n + 1) \in a
    BY <1>1, <2>2
  <2> QED BY <1>2, <2>1, <2>3
<1>5. Shifted(b) = ShiftRight(a, n + 1)
  BY <1>2, <1>3, <1>4, SameBits
<1> QED BY <1>5 DEF b

\* Within 32 bits a turn of the inner loop loses nothing: the polynomial has
\* the highest bit, which the shift leaves clear.
LEMMA ShiftedInjective ==
    ASSUME NEW a \in SUBSET (0..31), NEW b \in SUBSET (0..31), Shifted(a) = Shifted(b)
    PROVE  a = b
<1>1. a \in Places /\ b \in Places
  BY DEF Places
<1>2. /\ \A i \in Nat : i \in Shifted(a) <=> ~(i + 1 \in a <=> 0 \in a /\ i \in POLY)
      /\ \A i \in Nat : i \in Shifted(b) <=> ~(i + 1 \in b <=> 0 \in b /\ i \in POLY)
  BY <1>1, ShiftedBits
<1>3. 31 + 1 \notin a /\ 31 + 1 \notin b
  OBVIOUS
<1>4. 0 \in a <=> 0 \in b
  BY <1>2, <1>3, PolyBits
<1>5. ASSUME NEW i \in Nat PROVE i \in a <=> i \in b
  <2>1. CASE i # 0
    <3>1. i - 1 \in Nat /\ (i - 1) + 1 = i
      BY <2>1
    <3>2. /\ i - 1 \in Shifted(a) <=> ~(i \in a <=> 0 \in a /\ i - 1 \in POLY)
          /\ i - 1 \in Shifted(b) <=> ~(i \in b <=> 0 \in b /\ i - 1 \in POLY)
      BY <1>2, <3>1
    <3> QED BY <1>4, <3>2
  <2> QED BY <1>4, <2>1
<1> QED BY <1>1, <1>5, SameBits

LEMMA ShiftedWord ==
    ASSUME NEW a \in SUBSET (0..31)
    PROVE  Shifted(a) \in SUBSET (0..31)
<1>1. a \in Places
  BY DEF Places
<1>2. ASSUME NEW i \in Shifted(a) PROVE i \in 0..31
  <2>1. i \in Nat
    BY <1>1, ShiftedBits DEF Places
  <2>2. i + 1 \in a \/ i \in POLY
    BY <1>1, <2>1, ShiftedBits
  <2> QED BY <2>1, <2>2, PolyBits
<1> QED BY <1>2

-----------------------------------------------------------------------------
(* Eight turns of the inner loop, and the table                            *)

\* c[0], c[1], ... are what n turns of the inner loop make of c[0].
Turns(c, n) == \A j \in 1..n : c[j] = Shifted(c[j - 1])

LEMMA TurnsExist ==
    ASSUME NEW a \in Places, NEW n \in Nat
    PROVE  \E c \in [0..n -> Places] : c[0] = a /\ Turns(c, n) /\ ShiftedBy(a, n) = c[n]
<1> DEFINE Step == [j \in 1..n |-> [b \in Places |-> Shifted(b)]]
<1>1. Step \in Steps(n, Places)
  BY ShiftedBits DEF Steps
<1>2. PICK f : Takes(f, n, Places, a, Step)
  <2> HIDE DEF Step
  <2> QED BY <1>1, RecursiveFunction
<1>3. f \in [0..n -> Places] /\ f[0] = a /\ \A j \in 1..n : f[j] = Shifted(f[j - 1])
  <2>1. ASSUME NEW j \in 1..n PROVE f[j] = Shifted(f[j - 1])
    <3>1. j - 1 \in 0..n
      OBVIOUS
    <3>2. f[j] = Step[j][f[j - 1]] /\ f[j - 1] \in Places
      BY <1>2, <3>1 DEF Takes
    <3> QED BY <3>2
  <2> QED BY <1>2, <2>1 DEF Takes
<1>4. f = [j \in 0..n |-> IF j = 0 THEN a ELSE Shifted(f[j - 1])]
  BY <1>3
<1> DEFINE C == CHOOSE c : c = [j \in 0..n |-> IF j = 0 THEN a ELSE Shifted(c[j - 1])]
<1>5. C = [j \in 0..n |-> IF j = 0 THEN a ELSE Shifted(C[j - 1])]
  BY <1>4, Zenon
<1>6. ShiftedBy(a, n) = C[n]
  BY DEF ShiftedBy
<1> HIDE DEF C
<1>7. \A j \in 0..n : C[j] = f[j]
  <2> DEFINE S == {j \in 0..n : C[j] = f[j]}
  <2>1. 0 \in S
    BY <1>3, <1>5
  <2>2. ASSUME NEW j \in 1..n, j - 1 \in S PROVE j \in S
    <3>1. j \in 0..n /\ j # 0
      OBVIOUS
    <3>2. C[j] = Shifted(C[j - 1])
      BY <1>5, <3>1
    <3> QED BY <1>3, <2>2, <3>1, <3>2
  <2>3. \A j \in 0..n : j \in S
    <3> HIDE DEF S
    <3> QED BY <2>1, <2>2, BoundedInduction
  <2> QED BY <2>3
<1> QED BY <1>3, <1>6, <1>7 DEF Turns

\* There is one way to take them.
LEMMA TurnsAreOne ==
    ASSUME NEW n \in Nat, NEW c, NEW d, c[0] = d[0], Turns(c, n), Turns(d, n)
    PROVE  \A j \in 0..n : c[j] = d[j]
<1> DEFINE S == {j \in 0..n : c[j] = d[j]}
<1>1. 0 \in S
  OBVIOUS
<1>2. ASSUME NEW j \in 1..n, j - 1 \in S PROVE j \in S
  BY <1>2 DEF Turns
<1>3. \A j \in 0..n : j \in S
  <2> HIDE DEF S
  <2> QED BY <1>1, <1>2, BoundedInduction
<1> QED BY <1>3

LEMMA ShiftedByTurns ==
    ASSUME NEW n \in Nat, NEW c, c[0] \in Places, Turns(c, n)
    PROVE  c[n] = ShiftedBy(c[0], n) /\ \A j \in 0..n : c[j] \in Places
<1>1. PICK d \in [0..n -> Places] : d[0] = c[0] /\ Turns(d, n) /\ ShiftedBy(c[0], n) = d[n]
  BY TurnsExist
<1>2. \A j \in 0..n : c[j] = d[j]
  BY <1>1, TurnsAreOne
<1> QED BY <1>1, <1>2

LEMMA ShiftedByType ==
    ASSUME NEW a \in Places, NEW n \in Nat
    PROVE  ShiftedBy(a, n) \in Places
BY TurnsExist

LEMMA ShiftedByXor ==
    ASSUME NEW a \in Places, NEW b \in Places, NEW n \in Nat
    PROVE  ShiftedBy(Xor(a, b), n) = Xor(ShiftedBy(a, n), ShiftedBy(b, n))
<1>1. PICK c \in [0..n -> Places] : c[0] = a /\ Turns(c, n) /\ ShiftedBy(a, n) = c[n]
  BY TurnsExist
<1>2. PICK d \in [0..n -> Places] : d[0] = b /\ Turns(d, n) /\ ShiftedBy(b, n) = d[n]
  BY TurnsExist
<1> DEFINE e == [j \in 0..n |-> Xor(c[j], d[j])]
<1>3. e[0] = Xor(a, b) /\ e[n] = Xor(c[n], d[n])
  BY <1>1, <1>2
<1>4. Turns(e, n)
  <2>1. ASSUME NEW j \in 1..n PROVE e[j] = Shifted(e[j - 1])
    <3>1. j \in 0..n /\ j - 1 \in 0..n
      OBVIOUS
    <3>2. e[j] = Xor(Shifted(c[j - 1]), Shifted(d[j - 1]))
      BY <1>1, <1>2, <3>1 DEF Turns
    <3>3. c[j - 1] \in Places /\ d[j - 1] \in Places
      BY <1>1, <1>2, <3>1
    <3>4. Shifted(Xor(c[j - 1], d[j - 1])) = Xor(Shifted(c[j - 1]), Shifted(d[j - 1]))
      BY <3>3, ShiftedXor
    <3> QED BY <3>1, <3>2, <3>4
  <2> HIDE DEF e
  <2> QED BY <2>1 DEF Turns
<1>5. e[0] \in Places
  BY <1>3, XorBits
<1> HIDE DEF e
<1>6. e[n] = ShiftedBy(e[0], n)
  BY <1>4, <1>5, ShiftedByTurns
<1> QED BY <1>1, <1>2, <1>3, <1>6

\* What is above the lowest n bits is shifted out whole.
LEMMA ShiftedByHigh ==
    ASSUME NEW a \in Places, NEW n \in Nat, \A j \in 0..(n - 1) : j \notin a
    PROVE  ShiftedBy(a, n) = ShiftRight(a, n)
<1> DEFINE c == [j \in 0..n |-> ShiftRight(a, j)]
<1>1. c[0] = a
  <2>1. /\ ShiftRight(a, 0) \in Places
        /\ \A i \in Nat : i \in ShiftRight(a, 0) <=> i + 0 \in a
    BY ShiftRightBits
  <2>2. \A i \in Nat : i \in ShiftRight(a, 0) <=> i \in a
    BY <2>1
  <2> QED BY <2>1, <2>2, SameBits
<1>2. Turns(c, n)
  <2>1. ASSUME NEW j \in 1..n PROVE c[j] = Shifted(c[j - 1])
    <3>1. j \in 0..n /\ j - 1 \in 0..n /\ j - 1 \in Nat /\ j - 1 \notin a /\ (j - 1) + 1 = j
      OBVIOUS
    <3>2. Shifted(ShiftRight(a, j - 1)) = ShiftRight(a, (j - 1) + 1)
      BY <3>1, ShiftedEven
    <3> QED BY <3>1, <3>2
  <2> HIDE DEF c
  <2> QED BY <2>1 DEF Turns
<1>3. c[n] = ShiftRight(a, n)
  OBVIOUS
<1> HIDE DEF c
<1> QED BY <1>1, <1>2, <1>3, ShiftedByTurns

\* Turns keep to 32 bits.
LEMMA TurnsType ==
    ASSUME NEW n \in Nat, NEW c, c[0] \in SUBSET (0..31), Turns(c, n)
    PROVE  \A j \in 0..n : c[j] \in SUBSET (0..31)
<1> DEFINE W == SUBSET (0..31)
<1>1. \A a \in W : Shifted(a) \in W
  BY ShiftedWord
<1> HIDE DEF W
<1>2. ASSUME NEW j \in 1..n, c[j - 1] \in W PROVE c[j] \in W
  <2>1. c[j] = Shifted(c[j - 1])
    BY DEF Turns
  <2> QED BY <1>1, <1>2, <2>1
<1>3. c[0] \in W
  BY DEF W
<1>4. \A j \in 0..n : c[j] \in W
  BY <1>2, <1>3, BoundedTyping
<1> QED BY <1>4 DEF W

LEMMA ShiftedByWord ==
    ASSUME NEW a \in SUBSET (0..31), NEW n \in Nat
    PROVE  ShiftedBy(a, n) \in SUBSET (0..31)
<1>1. a \in Places
  BY DEF Places
<1>2. PICK c \in [0..n -> Places] : c[0] = a /\ Turns(c, n) /\ ShiftedBy(a, n) = c[n]
  BY <1>1, TurnsExist
<1>3. \A j \in 0..n : c[j] \in SUBSET (0..31)
  BY <1>2, TurnsType
<1>4. n \in 0..n
  OBVIOUS
<1>5. c[n] \in SUBSET (0..31)
  BY <1>3, <1>4
<1> QED BY <1>2, <1>5

LEMMA ShiftedByInjective ==
    ASSUME NEW a \in SUBSET (0..31), NEW b \in SUBSET (0..31), NEW n \in Nat,
           ShiftedBy(a, n) = ShiftedBy(b, n)
    PROVE  a = b
<1>1. a \in Places /\ b \in Places
  BY DEF Places
<1>2. PICK c \in [0..n -> Places] : c[0] = a /\ Turns(c, n) /\ ShiftedBy(a, n) = c[n]
  BY <1>1, TurnsExist
<1>3. PICK d \in [0..n -> Places] : d[0] = b /\ Turns(d, n) /\ ShiftedBy(b, n) = d[n]
  BY <1>1, TurnsExist
<1>4. \A j \in 0..n : c[j] \in SUBSET (0..31) /\ d[j] \in SUBSET (0..31)
  <2>1. \A j \in 0..n : c[j] \in SUBSET (0..31)
    BY <1>2, TurnsType
  <2>2. \A j \in 0..n : d[j] \in SUBSET (0..31)
    BY <1>3, TurnsType
  <2> QED BY <2>1, <2>2
<1> DEFINE S == {j \in 0..n : c[j] = d[j] => a = b}
<1>5. 0 \in S
  BY <1>2, <1>3
<1>6. ASSUME NEW j \in 1..n, j - 1 \in S PROVE j \in S
  <2>1. j \in 0..n /\ j - 1 \in 0..n
    OBVIOUS
  <2>2. c[j] = Shifted(c[j - 1]) /\ d[j] = Shifted(d[j - 1])
    BY <1>2, <1>3 DEF Turns
  <2>3. c[j - 1] \in SUBSET (0..31) /\ d[j - 1] \in SUBSET (0..31)
    BY <1>4, <2>1
  <2>4. Shifted(c[j - 1]) = Shifted(d[j - 1]) => c[j - 1] = d[j - 1]
    BY <2>3, ShiftedInjective
  <2> QED BY <1>6, <2>1, <2>2, <2>4
<1>7. n \in S
  <2> HIDE DEF S
  <2> QED BY <1>5, <1>6, BoundedInduction
<1> QED BY <1>2, <1>3, <1>7

-----------------------------------------------------------------------------
(* Updates                                                                 *)

Register == SUBSET (0..31)

LEMMA ByteIsWord ==
    ASSUME NEW byte \in Byte
    PROVE  byte \in SUBSET (0..7) /\ byte \in Register /\ byte \in Places
BY DEF Register, Places

LEMMA RegisterIsPlaces ==
    ASSUME NEW r \in Register
    PROVE  r \in Places
BY DEF Register, Places

LEMMA XorWord ==
    ASSUME NEW a \in Register, NEW b \in Register
    PROVE  Xor(a, b) \in Register
BY DEF Register, Xor

\* The table takes eight turns at once: what update() does with a byte is what
\* the inner loop does with the register and the byte.
LEMMA UpdatedIsShiftedBy ==
    ASSUME NEW state \in Register, NEW byte \in SUBSET (0..7)
    PROVE  /\ Updated(state, byte) = ShiftedBy(Xor(state, byte), 8)
           /\ Updated(state, byte) \in Register
<1> DEFINE w == Xor(state, byte)
           low == w \cap 0..7
           high == w \ (0..7)
<1>1. w \in Register
  <2>1. byte \in Register
    BY DEF Register
  <2> QED BY <2>1, XorWord
<1>2. low \in Places /\ high \in Places /\ w = Xor(low, high)
  <2> HIDE DEF w
  <2> QED BY <1>1 DEF Register, Places, Xor
<1>3. low \in SUBSET (0..7)
  OBVIOUS
<1>4. ShiftedBy(high, 8) = ShiftRight(high, 8)
  <2>1. high \in Places /\ \A j \in 0..(8 - 1) : j \notin high
    BY <1>2
  <2> HIDE DEF high
  <2> QED BY <2>1, ShiftedByHigh
<1>5. ShiftRight(high, 8) = ShiftRight(state, 8)
  <2>1. state \in Places
    BY DEF Register, Places
  <2>2. /\ ShiftRight(high, 8) \in Places
        /\ \A i \in Nat : i \in ShiftRight(high, 8) <=> i + 8 \in high
    BY <1>2, ShiftRightBits
  <2>3. /\ ShiftRight(state, 8) \in Places
        /\ \A i \in Nat : i \in ShiftRight(state, 8) <=> i + 8 \in state
    BY <2>1, ShiftRightBits
  <2>4. ASSUME NEW i \in Nat PROVE i + 8 \in high <=> i + 8 \in state
    <3>1. i + 8 \notin 0..7
      OBVIOUS
    <3>2. i + 8 \notin byte
      BY <1>1, <3>1
    <3> QED BY <3>1, <3>2 DEF Xor
  <2>5. \A i \in Nat : i \in ShiftRight(high, 8) <=> i \in ShiftRight(state, 8)
    BY <2>2, <2>3, <2>4
  <2> HIDE DEF high
  <2> QED BY <2>2, <2>3, <2>5, SameBits
<1>6. table[low] = ShiftedBy(low, 8)
  BY <1>3 DEF table
<1>7. Updated(state, byte) = Xor(table[low], ShiftRight(state, 8))
  BY DEF Updated, LowByte
<1>8. ShiftedBy(w, 8) = Xor(ShiftedBy(low, 8), ShiftedBy(high, 8))
  <2> HIDE DEF low, high, w
  <2> QED BY <1>2, ShiftedByXor
<1>9. ShiftedBy(w, 8) \in Register
  <2> HIDE DEF w
  <2> QED BY <1>1, ShiftedByWord DEF Register
<1> QED BY <1>4, <1>5, <1>6, <1>7, <1>8, <1>9

\* u[0], u[1], ... are the registers after the first bytes of the data.
Updates(u, data) ==
    /\ u[0] \in Register
    /\ \A n \in 1..Len(data) : u[n] = Updated(u[n - 1], data[n])

LEMMA UpdatesType ==
    ASSUME NEW data \in Seq(Byte), NEW u, Updates(u, data)
    PROVE  \A n \in 0..Len(data) : u[n] \in Register
<1>1. ASSUME NEW n \in 1..Len(data), u[n - 1] \in Register PROVE u[n] \in Register
  <2>1. data[n] \in Byte /\ u[n] = Updated(u[n - 1], data[n])
    BY ElementOfSeq DEF Updates
  <2> QED BY <1>1, <2>1, ByteIsWord, UpdatedIsShiftedBy
<1>2. Len(data) \in Nat /\ u[0] \in Register
  BY LenProperties DEF Updates
<1> QED BY <1>1, <1>2, BoundedTyping

LEMMA UpdatesAreOne ==
    ASSUME NEW data \in Seq(Byte), NEW u, NEW v, Updates(u, data), Updates(v, data),
           u[0] = v[0]
    PROVE  \A n \in 0..Len(data) : u[n] = v[n]
<1> DEFINE S == {n \in 0..Len(data) : u[n] = v[n]}
<1>1. Len(data) \in Nat
  BY LenProperties
<1>2. 0 \in S
  BY <1>1
<1>3. ASSUME NEW n \in 1..Len(data), n - 1 \in S PROVE n \in S
  BY <1>1, <1>3 DEF Updates
<1>4. \A n \in 0..Len(data) : n \in S
  <2> HIDE DEF S
  <2> QED BY <1>1, <1>2, <1>3, BoundedInduction
<1> QED BY <1>4

LEMMA UpdatesExist ==
    ASSUME NEW state \in Register, NEW data \in Seq(Byte)
    PROVE  \E u : u[0] = state /\ Updates(u, data) /\ UpdatedBy(state, data) = u[Len(data)]
<1> DEFINE N == Len(data)
           Step == [n \in 1..N |-> [r \in Register |-> Updated(r, data[n])]]
<1>0. N \in Nat
  BY LenProperties
<1>1. Step \in Steps(N, Register)
  <2>1. ASSUME NEW n \in 1..N, NEW r \in Register PROVE Updated(r, data[n]) \in Register
    <3>1. data[n] \in Byte
      BY ElementOfSeq
    <3> QED BY <3>1, ByteIsWord, UpdatedIsShiftedBy
  <2> QED BY <2>1 DEF Steps
<1>2. PICK f : Takes(f, N, Register, state, Step)
  <2> HIDE DEF Step, N
  <2> QED BY <1>0, <1>1, RecursiveFunction
<1>3. f \in [0..N -> Register] /\ f[0] = state /\ \A n \in 1..N : f[n] = Updated(f[n - 1], data[n])
  <2>1. ASSUME NEW n \in 1..N PROVE f[n] = Updated(f[n - 1], data[n])
    <3>1. n - 1 \in 0..N
      BY <1>0
    <3>2. f[n] = Step[n][f[n - 1]] /\ f[n - 1] \in Register
      BY <1>2, <3>1 DEF Takes
    <3> QED BY <3>2
  <2> QED BY <1>2, <2>1 DEF Takes
<1>4. f = [n \in 0..N |-> IF n = 0 THEN state ELSE Updated(f[n - 1], data[n])]
  <2> HIDE DEF N
  <2>1. \A n \in 0..N : n # 0 => n \in 1..N
    BY <1>0
  <2> QED BY <1>3, <2>1
<1> DEFINE U == CHOOSE u : u = [n \in 0..N |-> IF n = 0 THEN state ELSE Updated(u[n - 1], data[n])]
<1>5. U = [n \in 0..N |-> IF n = 0 THEN state ELSE Updated(U[n - 1], data[n])]
  BY <1>4, Zenon
<1>6. UpdatedBy(state, data) = U[N]
  BY DEF UpdatedBy
<1> HIDE DEF U, N
<1>7. U[0] = state
  BY <1>0, <1>5
<1>8. ASSUME NEW n \in 1..N PROVE U[n] = Updated(U[n - 1], data[n])
  <2>1. n \in 0..N /\ n # 0
    BY <1>0
  <2> QED BY <1>5, <2>1
<1>9. Updates(U, data)
  BY <1>7, <1>8 DEF Updates, N
<1> QED BY <1>6, <1>7, <1>9 DEF N

LEMMA UpdatedByUpdates ==
    ASSUME NEW data \in Seq(Byte), NEW u, Updates(u, data)
    PROVE  UpdatedBy(u[0], data) = u[Len(data)] /\ UpdatedBy(u[0], data) \in Register
<1>1. u[0] \in Register /\ Len(data) \in Nat
  BY LenProperties DEF Updates
<1>2. PICK v : v[0] = u[0] /\ Updates(v, data) /\ UpdatedBy(u[0], data) = v[Len(data)]
  BY <1>1, UpdatesExist
<1>3. Len(data) \in 0..Len(data)
  BY <1>1
<1>4. u[Len(data)] = v[Len(data)]
  BY <1>2, <1>3, UpdatesAreOne
<1>5. u[Len(data)] \in Register
  BY <1>3, UpdatesType
<1> QED BY <1>2, <1>4, <1>5

\* How the bytes are cut into updates makes no difference.
LEMMA UpdatedByConcat ==
    ASSUME NEW state \in Register, NEW a \in Seq(Byte), NEW b \in Seq(Byte)
    PROVE  UpdatedBy(UpdatedBy(state, a), b) = UpdatedBy(state, a \o b)
<1> DEFINE ab == a \o b
<1>1. /\ ab \in Seq(Byte) /\ Len(ab) = Len(a) + Len(b) /\ Len(a) \in Nat /\ Len(b) \in Nat
      /\ \A n \in 1..(Len(a) + Len(b)) : ab[n] = IF n <= Len(a) THEN a[n] ELSE b[n - Len(a)]
  BY ConcatProperties, LenProperties
<1> HIDE DEF ab
<1>2. PICK u : u[0] = state /\ Updates(u, ab) /\ UpdatedBy(state, ab) = u[Len(ab)]
  BY <1>1, UpdatesExist
<1>3. Updates(u, a)
  <2>1. ASSUME NEW n \in 1..Len(a) PROVE u[n] = Updated(u[n - 1], a[n])
    <3>1. n \in 1..Len(ab) /\ ab[n] = a[n]
      BY <1>1
    <3> QED BY <1>2, <3>1 DEF Updates
  <2> QED BY <1>2, <2>1 DEF Updates
<1>4. UpdatedBy(state, a) = u[Len(a)] /\ u[Len(a)] \in Register
  BY <1>2, <1>3, UpdatedByUpdates
<1> DEFINE v == [n \in 0..Len(b) |-> u[Len(a) + n]]
<1>5. v[0] = u[Len(a)] /\ v[Len(b)] = u[Len(ab)]
  BY <1>1
<1>6. Updates(v, b)
  <2>1. ASSUME NEW n \in 1..Len(b) PROVE v[n] = Updated(v[n - 1], b[n])
    <3>1. /\ Len(a) + n \in 1..Len(ab) /\ ab[Len(a) + n] = b[n]
          /\ (Len(a) + n) - 1 = Len(a) + (n - 1) /\ n \in 0..Len(b) /\ n - 1 \in 0..Len(b)
      BY <1>1
    <3>2. u[Len(a) + n] = Updated(u[(Len(a) + n) - 1], ab[Len(a) + n])
      BY <1>2, <3>1 DEF Updates
    <3> QED BY <3>1, <3>2
  <2> HIDE DEF v
  <2> QED BY <1>4, <1>5, <2>1 DEF Updates
<1> HIDE DEF v
<1>7. UpdatedBy(v[0], b) = v[Len(b)]
  BY <1>6, UpdatedByUpdates
<1> QED BY <1>2, <1>4, <1>5, <1>7 DEF ab

LEMMA UpdatedByNothing ==
    ASSUME NEW state \in Register
    PROVE  UpdatedBy(state, <<>>) = state
<1>1. <<>> \in Seq(Byte) /\ Len(<<>>) = 0
  BY EmptySeq
<1>2. PICK u : u[0] = state /\ Updates(u, <<>>) /\ UpdatedBy(state, <<>>) = u[Len(<<>>)]
  BY <1>1, UpdatesExist
<1> QED BY <1>1, <1>2

-----------------------------------------------------------------------------
(* The inductive invariant                                                 *)

\* The register is what all the bytes since the last reset make of INIT.
CrcIInv == fed \in Seq(Byte) /\ register = UpdatedBy(INIT, fed)

LEMMA InitIsRegister == INIT \in Register
BY DEF INIT, Register

LEMMA CrcInitIInv == CrcInit => CrcIInv
BY InitIsRegister, UpdatedByNothing, EmptySeq DEF CrcInit, CrcIInv

LEMMA CrcNextIInv == CrcIInv /\ [CrcNext]_crcVars => CrcIInv'
<1> SUFFICES ASSUME CrcIInv, [CrcNext]_crcVars PROVE CrcIInv'
  OBVIOUS
<1>1. CASE \E data \in UNION {[1..n -> Byte] : n \in 0..MaxChunk} : Update(data)
  <2>1. PICK data \in UNION {[1..n -> Byte] : n \in 0..MaxChunk} : Update(data)
    BY <1>1
  <2>2. PICK n \in 0..MaxChunk : data \in [1..n -> Byte]
    OBVIOUS
  <2>3. data \in Seq(Byte)
    BY <2>2
  <2>4. fed \in Seq(Byte) /\ register = UpdatedBy(INIT, fed)
    BY DEF CrcIInv
  <2>5. fed' = fed \o data /\ register' = UpdatedBy(register, data)
    BY <2>1 DEF Update
  <2>6. UpdatedBy(UpdatedBy(INIT, fed), data) = UpdatedBy(INIT, fed \o data)
    BY <2>3, <2>4, InitIsRegister, UpdatedByConcat
  <2>7. fed \o data \in Seq(Byte)
    BY <2>3, <2>4, ConcatProperties
  <2> QED BY <2>4, <2>5, <2>6, <2>7 DEF CrcIInv
<1>2. CASE Reset
  BY <1>2, InitIsRegister, UpdatedByNothing, EmptySeq DEF Reset, CrcIInv
<1>3. CASE UNCHANGED crcVars
  BY <1>3 DEF crcVars, CrcIInv
<1> QED BY <1>1, <1>2, <1>3 DEF CrcNext

\* The register is a function of the bytes fed since the last reset, however
\* they were cut into updates: what EspOta represents it by.
THEOREM CrcInductive == CrcSpec => []CrcIInv
BY CrcInitIInv, CrcNextIInv, PTL DEF CrcSpec

-----------------------------------------------------------------------------
(* Corruption                                                              *)

\* Different registers stay different when the same byte is fed to both, and
\* different bytes take one register to different ones.
LEMMA UpdatedInjective ==
    ASSUME NEW r \in Register, NEW s \in Register, NEW x \in Byte, NEW y \in Byte,
           Updated(r, x) = Updated(s, y)
    PROVE  r = s <=> x = y
<1>1. ShiftedBy(Xor(r, x), 8) = ShiftedBy(Xor(s, y), 8)
  BY ByteIsWord, UpdatedIsShiftedBy
<1>2. x \in Register /\ y \in Register
  BY ByteIsWord
<1>3. Xor(r, x) \in Register /\ Xor(s, y) \in Register
  BY <1>2, XorWord
<1>4. Xor(r, x) = Xor(s, y)
  BY <1>1, <1>3, ShiftedByInjective DEF Register
<1>5. r \in Places /\ s \in Places /\ x \in Places /\ y \in Places
  BY <1>2 DEF Register, Places
<1>6. r = s => x = y
  BY <1>4, <1>5, XorAlgebra
<1>7. x = y => r = s
  <2>1. Xor(x, r) = Xor(r, x) /\ Xor(y, s) = Xor(s, y)
    BY <1>5, XorAlgebra
  <2> QED BY <1>4, <1>5, <2>1, XorAlgebra
<1> QED BY <1>6, <1>7

\* Wherever in a message of any length a byte is changed, the registers part
\* there and never meet again.
LEMMA RegistersPart ==
    ASSUME NEW message \in Seq(Byte), NEW i \in 1..Len(message), NEW byte \in Byte \ {message[i]}
    PROVE  UpdatedBy(INIT, [message EXCEPT ![i] = byte]) # UpdatedBy(INIT, message)
<1> DEFINE other == [message EXCEPT ![i] = byte]
<1>1. /\ other \in Seq(Byte) /\ Len(other) = Len(message) /\ Len(message) \in Nat
      /\ \A n \in 1..Len(message) : other[n] = IF n = i THEN byte ELSE message[n]
  BY ExceptSeq, LenProperties
<1> HIDE DEF other
<1>2. PICK u : u[0] = INIT /\ Updates(u, message) /\ UpdatedBy(INIT, message) = u[Len(message)]
  BY InitIsRegister, UpdatesExist
<1>3. PICK v : v[0] = INIT /\ Updates(v, other) /\ UpdatedBy(INIT, other) = v[Len(other)]
  BY <1>1, InitIsRegister, UpdatesExist
<1>4. \A n \in 0..Len(message) : u[n] \in Register /\ v[n] \in Register
  BY <1>1, <1>2, <1>3, UpdatesType
<1> DEFINE S == {n \in 0..Len(message) : (u[n] = v[n]) <=> n < i}
<1>5. 0 \in S
  BY <1>1, <1>2, <1>3
<1>6. ASSUME NEW n \in 1..Len(message), n - 1 \in S PROVE n \in S
  <2>1. n \in 0..Len(message) /\ n - 1 \in 0..Len(message)
    OBVIOUS
  <2>2. message[n] \in Byte /\ other[n] \in Byte
    BY <1>1, ElementOfSeq
  <2>3. u[n] = Updated(u[n - 1], message[n]) /\ v[n] = Updated(v[n - 1], other[n])
    BY <1>1, <1>2, <1>3 DEF Updates
  <2>4. u[n] = v[n] => (u[n - 1] = v[n - 1] <=> message[n] = other[n])
    <3>1. u[n - 1] \in Register /\ v[n - 1] \in Register
      BY <1>4, <2>1
    <3>2. Updated(u[n - 1], message[n]) = Updated(v[n - 1], other[n])
            => (u[n - 1] = v[n - 1] <=> message[n] = other[n])
      BY <2>2, <3>1, UpdatedInjective
    <3> QED BY <2>3, <3>2, Zenon
  <2>5. message[n] = other[n] <=> n # i
    BY <1>1
  <2>6. (u[n - 1] = v[n - 1]) <=> n - 1 < i
    BY <1>6
  <2>7. CASE n < i
    BY <2>1, <2>3, <2>5, <2>6, <2>7
  <2>8. CASE n = i
    <3>1. u[n - 1] = v[n - 1] /\ message[n] # other[n]
      BY <2>5, <2>6, <2>8
    <3> QED BY <2>1, <2>4, <2>8, <3>1
  <2>9. CASE n > i
    <3>1. u[n - 1] # v[n - 1] /\ message[n] = other[n]
      BY <2>5, <2>6, <2>9
    <3> QED BY <2>1, <2>4, <2>9, <3>1
  <2> QED BY <2>7, <2>8, <2>9
<1>7. Len(message) \in S
  <2>1. Len(message) \in 0..Len(message)
    BY <1>1
  <2>2. \A n \in 0..Len(message) : n \in S
    <3> HIDE DEF S
    <3> QED BY <1>1, <1>5, <1>6, BoundedInduction
  <2> HIDE DEF S
  <2> QED BY <2>1, <2>2
<1> QED BY <1>1, <1>2, <1>3, <1>7 DEF other

\* In an image of any length, a changed byte gives another digest: the last
\* line of OtaRegionFlashWriter::verify never takes the one for the other.
THEOREM CorruptionTheorem == CrcSpec => []CorruptionIsDetected
<1>1. ASSUME CrcIInv, NEW i \in 1..Len(fed), NEW byte \in Byte \ {fed[i]}
      PROVE  finalize(UpdatedBy(INIT, [fed EXCEPT ![i] = byte])) # finalize(register)
  <2> DEFINE other == [fed EXCEPT ![i] = byte]
  <2>1. fed \in Seq(Byte) /\ register = UpdatedBy(INIT, fed)
    BY <1>1 DEF CrcIInv
  <2>2. UpdatedBy(INIT, other) # register
    BY <2>1, RegistersPart
  <2>3. other \in Seq(Byte)
    BY <2>1, ExceptSeq
  <2> HIDE DEF other
  <2>4. UpdatedBy(INIT, other) \in Register /\ register \in Register
    BY <2>1, <2>3, InitIsRegister, UpdatesExist, UpdatedByUpdates
  <2> HIDE DEF other
  <2>5. finalize(UpdatedBy(INIT, other)) # finalize(register)
    BY <2>2, <2>4 DEF finalize, Xor, XOROUT, Register
  <2> QED BY <2>5 DEF other
<1>2. CrcIInv => CorruptionIsDetected
  BY <1>1 DEF CorruptionIsDetected
<1> QED BY <1>2, CrcInductive, PTL

-----------------------------------------------------------------------------
(* Division                                                                *)

Exponents == SUBSET Int

\* r[0], r[1], ... are what the steps of a division leave of r[0].
Divisions(r, highest, n) ==
    /\ \A k \in 0..n : r[k] \in Exponents
    /\ \A k \in 1..n : r[k] = Divided(r[k - 1], highest + 1 - k)

LEMMA DividedType ==
    ASSUME NEW rest \in Exponents, NEW e \in Int
    PROVE  Divided(rest, e) \in Exponents
<1>1. \A g \in Generator : e - 32 + g \in Int
  BY DEF Generator
<1> QED BY <1>1 DEF Divided, Exponents, Xor

LEMMA RemainderDivisions ==
    ASSUME NEW polynomial \in Exponents, NEW highest \in Nat, highest >= 31
    PROVE  \E r : /\ r[0] = polynomial
                  /\ Divisions(r, highest, highest - 31)
                  /\ Remainder(polynomial, highest) = r[highest - 31]
<1> DEFINE N == highest - 31
           Step == [k \in 1..N |-> [p \in Exponents |-> Divided(p, highest + 1 - k)]]
<1>0. N \in Nat
  OBVIOUS
<1>1. Step \in Steps(N, Exponents)
  <2>1. ASSUME NEW k \in 1..N, NEW p \in Exponents
        PROVE  Divided(p, highest + 1 - k) \in Exponents
    BY DividedType
  <2> QED BY <2>1 DEF Steps
<1>2. PICK f : Takes(f, N, Exponents, polynomial, Step)
  <2> HIDE DEF Step, N
  <2> QED BY <1>0, <1>1, RecursiveFunction
<1>3. /\ f \in [0..N -> Exponents] /\ f[0] = polynomial
      /\ \A k \in 1..N : f[k] = Divided(f[k - 1], highest + 1 - k)
  <2>1. ASSUME NEW k \in 1..N PROVE f[k] = Divided(f[k - 1], highest + 1 - k)
    <3>1. k - 1 \in 0..N
      BY <1>0
    <3>2. f[k] = Step[k][f[k - 1]] /\ f[k - 1] \in Exponents
      BY <1>2, <3>1 DEF Takes
    <3> QED BY <3>2
  <2> QED BY <1>2, <2>1 DEF Takes
<1>4. f = [k \in 0..N |-> IF k = 0 THEN polynomial ELSE Divided(f[k - 1], highest + 1 - k)]
  <2> HIDE DEF N
  <2>1. \A k \in 0..N : k # 0 => k \in 1..N
    BY <1>0
  <2> QED BY <1>3, <2>1
<1> DEFINE R == CHOOSE r : r = [k \in 0..N |->
                    IF k = 0 THEN polynomial ELSE Divided(r[k - 1], highest + 1 - k)]
<1>5. R = [k \in 0..N |-> IF k = 0 THEN polynomial ELSE Divided(R[k - 1], highest + 1 - k)]
  BY <1>4, Zenon
<1>6. Remainder(polynomial, highest) = R[N]
  BY DEF Remainder
<1> HIDE DEF R, N
<1>7. R[0] = polynomial
  BY <1>0, <1>5
<1>8. \A k \in 1..N : R[k] = Divided(R[k - 1], highest + 1 - k)
  <2>1. \A k \in 1..N : k \in 0..N /\ k # 0
    BY <1>0
  <2> QED BY <1>5, <2>1
<1>9. \A k \in 0..N : R[k] \in Exponents
  <2>1. ASSUME NEW k \in 1..N, R[k - 1] \in Exponents PROVE R[k] \in Exponents
    BY <1>8, <2>1, DividedType
  <2> QED BY <1>0, <1>7, <2>1, BoundedTyping
<1>10. Divisions(R, highest, N)
  BY <1>8, <1>9 DEF Divisions
<1> QED BY <1>6, <1>7, <1>10 DEF N

\* A polynomial as a word: place i is the exponent i below the top.
Below(rest, top) == {i \in Nat : top - i \in rest}

LEMMA BelowBits ==
    ASSUME NEW rest \in Exponents, NEW top \in Int
    PROVE  /\ Below(rest, top) \in Places
           /\ \A i \in Nat : i \in Below(rest, top) <=> top - i \in rest
BY DEF Below, Places

LEMMA GeneratorIsPoly == \A i \in Nat : 31 - i \in Generator <=> i \in POLY
BY DEF Generator, POLY

\* A step of the division is a turn of the inner loop: reflected, the generator
\* without its highest exponent is POLY.
LEMMA DividedIsShifted ==
    ASSUME NEW rest \in Exponents, NEW top \in Int
    PROVE  Below(Divided(rest, top), top - 1) = Shifted(Below(rest, top))
<1> DEFINE a == Below(rest, top)
           b == Below(Divided(rest, top), top - 1)
<1>1. a \in Places /\ \A i \in Nat : i \in a <=> top - i \in rest
  BY BelowBits
<1>2. b \in Places /\ \A i \in Nat : i \in b <=> top - 1 - i \in Divided(rest, top)
  BY DividedType, BelowBits
<1> HIDE DEF a, b
<1>3. 0 \in a <=> top \in rest
  <2>1. top - 0 = top
    OBVIOUS
  <2> QED BY <1>1, <2>1
<1>4. ASSUME NEW i \in Nat PROVE i \in b <=> i \in Shifted(a)
  <2>1. i \in Shifted(a) <=> ~(i + 1 \in a <=> 0 \in a /\ i \in POLY)
    BY <1>1, ShiftedBits
  <2>2. i + 1 \in a <=> top - 1 - i \in rest
    <3>1. i + 1 \in Nat /\ top - (i + 1) = top - 1 - i
      OBVIOUS
    <3> QED BY <1>1, <3>1
  <2> DEFINE line == {top - 32 + g : g \in Generator}
  <2>3. top - 1 - i \in line <=> i \in POLY
    <3>1. ASSUME NEW g \in Generator, top - 1 - i = top - 32 + g PROVE i \in POLY
      <4>1. g \in Int
        BY DEF Generator
      <4>2. g = 31 - i
        BY <3>1, <4>1
      <4> QED BY <4>2, GeneratorIsPoly
    <3>2. ASSUME i \in POLY PROVE top - 1 - i \in line
      <4>1. 31 - i \in Generator
        BY <3>2, GeneratorIsPoly
      <4>2. top - 1 - i = top - 32 + (31 - i)
        OBVIOUS
      <4> QED BY <4>1, <4>2
    <3> QED BY <3>1, <3>2
  <2>4. top - 1 - i \in Xor(rest, line) <=> ~(top - 1 - i \in rest <=> top - 1 - i \in line)
    <3> HIDE DEF line
    <3> QED BY DEF Xor
  <2>5. Divided(rest, top) = IF top \in rest THEN Xor(rest, line) ELSE rest
    BY DEF Divided
  <2> HIDE DEF line
  <2>6. CASE top \in rest
    BY <1>2, <1>3, <2>1, <2>2, <2>3, <2>4, <2>5, <2>6
  <2>7. CASE top \notin rest
    BY <1>2, <1>3, <2>1, <2>2, <2>5, <2>7
  <2> QED BY <2>6, <2>7
<1>5. Shifted(a) \in Places
  BY <1>1, ShiftedBits
<1>6. b = Shifted(a)
  BY <1>2, <1>4, <1>5, SameBits
<1> QED BY <1>6 DEF a, b

-----------------------------------------------------------------------------
(* The digest                                                              *)

\* The places of a message's one bits, in the order they are sent.
Sent(message) == {j \in 0..(8 * Len(message) - 1) : j % 8 \in message[j \div 8 + 1]}

LEMMA SentBits ==
    ASSUME NEW message \in Seq(Byte), NEW n \in 1..Len(message), NEW i \in 0..7
    PROVE  i + 8 * (n - 1) \in Sent(message) <=> i \in message[n]
<1>1. Len(message) \in Nat
  BY LenProperties
<1>2. i + 8 * (n - 1) \in 0..(8 * Len(message) - 1)
  BY <1>1
<1>3. (i + 8 * (n - 1)) % 8 = i /\ (i + 8 * (n - 1)) \div 8 + 1 = n
  OBVIOUS
<1> QED BY <1>2, <1>3 DEF Sent

\* What has to be sent is the next byte and what is left after it.
LEMMA SentByByte ==
    ASSUME NEW message \in Seq(Byte), NEW n \in 1..Len(message)
    PROVE  \E high \in Places :
              /\ ShiftRight(Sent(message), 8 * (n - 1)) = Xor(message[n], high)
              /\ \A j \in 0..7 : j \notin high
              /\ ShiftRight(high, 8) = ShiftRight(Sent(message), 8 * n)
<1> DEFINE sent == Sent(message)
           now == ShiftRight(sent, 8 * (n - 1))
           high == now \ (0..7)
<1>1. sent \in Places /\ message[n] \in SUBSET (0..7)
  <2>1. message[n] \in Byte
    BY ElementOfSeq
  <2>2. message[n] \in SUBSET (0..7)
    BY <2>1, ByteIsWord
  <2>3. sent \in Places
    BY DEF Sent, Places
  <2> HIDE DEF sent
  <2> QED BY <2>2, <2>3
<1>2. 8 * (n - 1) \in Nat /\ 8 * n \in Nat /\ 8 + 8 * (n - 1) = 8 * n
  OBVIOUS
<1>3. now \in Places /\ \A i \in Nat : i \in now <=> i + 8 * (n - 1) \in sent
  <2> HIDE DEF sent
  <2> QED BY <1>1, <1>2, ShiftRightBits
<1>4. high \in Places /\ \A j \in 0..7 : j \notin high
  BY <1>3 DEF Places
<1>5. now = Xor(message[n], high)
  <2>1. ASSUME NEW i \in 0..7 PROVE i \in now <=> i \in message[n]
    <3>1. i + 8 * (n - 1) \in sent <=> i \in message[n]
      BY SentBits
    <3>2. i \in Nat
      OBVIOUS
    <3> HIDE DEF now, sent
    <3> QED BY <1>3, <3>1, <3>2
  <2> HIDE DEF now
  <2> QED BY <1>1, <2>1 DEF Xor
<1>6. ShiftRight(high, 8) = ShiftRight(sent, 8 * n)
  <2>1. /\ ShiftRight(high, 8) \in Places
        /\ \A i \in Nat : i \in ShiftRight(high, 8) <=> i + 8 \in high
    BY <1>4, ShiftRightBits
  <2>2. /\ ShiftRight(sent, 8 * n) \in Places
        /\ \A i \in Nat : i \in ShiftRight(sent, 8 * n) <=> i + 8 * n \in sent
    <3> HIDE DEF sent
    <3> QED BY <1>1, <1>2, ShiftRightBits
  <2>3. ASSUME NEW i \in Nat PROVE i + 8 \in high <=> i + 8 * n \in sent
    <3>1. i + 8 \in Nat /\ i + 8 \notin 0..7 /\ (i + 8) + 8 * (n - 1) = i + 8 * n
      BY <1>2
    <3> HIDE DEF sent, now
    <3> QED BY <1>3, <3>1
  <2>4. \A i \in Nat : i \in ShiftRight(high, 8) <=> i \in ShiftRight(sent, 8 * n)
    BY <2>1, <2>2, <2>3
  <2> HIDE DEF high, sent
  <2> QED BY <2>1, <2>2, <2>4, SameBits
<1> HIDE DEF now, high
<1> QED BY <1>4, <1>5, <1>6 DEF now

\* The division starts from the message with the register's INIT.
LEMMA DividendIsSent ==
    ASSUME NEW message \in Seq(Byte), NEW bits, bits = 8 * Len(message)
    PROVE  /\ Xor(Polynomial(message), bits..(bits + 31)) \in Exponents
           /\ Below(Xor(Polynomial(message), bits..(bits + 31)), bits + 31)
                = Xor(INIT, Sent(message))
<1> DEFINE dividend == Xor(Polynomial(message), bits..(bits + 31))
<1>1. bits \in Nat /\ Len(message) \in Nat
  BY LenProperties
<1>2. Sent(message) \in Places /\ \A k \in Sent(message) : k \in Nat
  BY DEF Sent, Places
<1>3. Polynomial(message) = {bits + 31 - k : k \in Sent(message)}
  BY DEF Polynomial, Sent
<1>4. Polynomial(message) \in Exponents
  BY <1>1, <1>2, <1>3 DEF Exponents
<1>5. dividend \in Exponents
  BY <1>1, <1>4 DEF Xor, Exponents
<1>6. ASSUME NEW i \in Nat
      PROVE  i \in Below(dividend, bits + 31) <=> i \in Xor(INIT, Sent(message))
  <2>1. i \in Below(dividend, bits + 31) <=> bits + 31 - i \in dividend
    BY DEF Below
  <2>2. bits + 31 - i \in Polynomial(message) <=> i \in Sent(message)
    <3>1. ASSUME NEW k \in Sent(message), bits + 31 - i = bits + 31 - k PROVE i = k
      BY <1>1, <1>2, <3>1
    <3> QED BY <1>3, <3>1
  <2>3. bits + 31 - i \in bits..(bits + 31) <=> i \in INIT
    BY <1>1 DEF INIT
  <2>4. bits + 31 - i \in dividend
          <=> ~(bits + 31 - i \in Polynomial(message) <=> bits + 31 - i \in bits..(bits + 31))
    BY DEF Xor
  <2>5. i \in Xor(INIT, Sent(message)) <=> ~(i \in INIT <=> i \in Sent(message))
    BY DEF Xor
  <2> QED BY <2>1, <2>2, <2>3, <2>4, <2>5
<1>7. INIT \in Places
  BY DEF INIT, Places
<1>8. Xor(INIT, Sent(message)) \in Places /\ Below(dividend, bits + 31) \in Places
  BY <1>1, <1>2, <1>5, <1>7, XorBits, BelowBits
<1> HIDE DEF dividend
<1>9. Below(dividend, bits + 31) = Xor(INIT, Sent(message))
  BY <1>6, <1>8, SameBits
<1> QED BY <1>5, <1>9 DEF dividend

\* The inner loop run over register and message at once does what update()
\* does byte by byte: the message that is still to come waits behind.
LEMMA TurnsAreUpdates ==
    ASSUME NEW message \in Seq(Byte), NEW c, NEW u,
           Turns(c, 8 * Len(message)), c[0] = Xor(INIT, Sent(message)),
           Updates(u, message), u[0] = INIT
    PROVE  c[8 * Len(message)] = u[Len(message)]
<1> DEFINE sent == Sent(message)
           S == {n \in 0..Len(message) : c[8 * n] = Xor(u[n], ShiftRight(sent, 8 * n))}
<1>1. sent \in Places /\ Len(message) \in Nat
  BY LenProperties DEF Sent, Places
<1>2. 0 \in S
  <2>1. ShiftRight(sent, 0) \in Places /\ \A i \in Nat : i \in ShiftRight(sent, 0) <=> i + 0 \in sent
    <3> HIDE DEF sent
    <3> QED BY <1>1, ShiftRightBits
  <2>2. \A i \in Nat : i \in ShiftRight(sent, 0) <=> i \in sent
    BY <2>1
  <2>3. ShiftRight(sent, 0) = sent
    <3> HIDE DEF sent
    <3> QED BY <1>1, <2>1, <2>2, SameBits
  <2> QED BY <1>1, <2>3
<1>3. ASSUME NEW n \in 1..Len(message), n - 1 \in S PROVE n \in S
  <2>1. PICK high \in Places :
          /\ ShiftRight(sent, 8 * (n - 1)) = Xor(message[n], high)
          /\ \A j \in 0..7 : j \notin high
          /\ ShiftRight(high, 8) = ShiftRight(sent, 8 * n)
    BY SentByByte
  <2>2. message[n] \in Byte /\ n - 1 \in 0..Len(message)
    BY ElementOfSeq
  <2>3. u[n - 1] \in Register /\ u[n] = Updated(u[n - 1], message[n])
    BY <2>2, UpdatesType DEF Updates
  <2>4. u[n - 1] \in Places /\ message[n] \in Places
    BY <2>2, <2>3, ByteIsWord, RegisterIsPlaces
  <2> DEFINE mixed == Xor(u[n - 1], message[n])
             d == [j \in 0..8 |-> c[8 * (n - 1) + j]]
  <2>5. c[8 * (n - 1)] = Xor(mixed, high)
    <3>1. c[8 * (n - 1)] = Xor(u[n - 1], ShiftRight(sent, 8 * (n - 1)))
      BY <1>3
    <3> HIDE DEF sent
    <3> QED BY <2>1, <2>4, <3>1, XorAlgebra
  <2>6. mixed \in Places
    BY <2>4, XorBits
  <2>7. d[0] = c[8 * (n - 1)] /\ d[8] = c[8 * n]
    BY <1>1
  <2>8. Turns(d, 8)
    <3>1. ASSUME NEW j \in 1..8 PROVE d[j] = Shifted(d[j - 1])
      <4>1. /\ 8 * (n - 1) + j \in 1..(8 * Len(message))
            /\ (8 * (n - 1) + j) - 1 = 8 * (n - 1) + (j - 1)
            /\ j \in 0..8 /\ j - 1 \in 0..8
        BY <1>1
      <4>2. c[8 * (n - 1) + j] = Shifted(c[(8 * (n - 1) + j) - 1])
        BY <4>1 DEF Turns
      <4> QED BY <4>1, <4>2
    <3> HIDE DEF d
    <3> QED BY <3>1 DEF Turns
  <2> HIDE DEF d, mixed
  <2>9. d[0] \in Places
    BY <2>5, <2>6, <2>7, XorBits
  <2>10. c[8 * n] = ShiftedBy(Xor(mixed, high), 8)
    BY <2>5, <2>7, <2>8, <2>9, ShiftedByTurns
  <2>11. ShiftedBy(Xor(mixed, high), 8) = Xor(ShiftedBy(mixed, 8), ShiftedBy(high, 8))
    BY <2>6, ShiftedByXor
  <2>12. ShiftedBy(mixed, 8) = u[n]
    BY <2>2, <2>3, ByteIsWord, UpdatedIsShiftedBy DEF mixed
  <2>13. ShiftedBy(high, 8) = ShiftRight(sent, 8 * n)
    BY <2>1, ShiftedByHigh
  <2> QED BY <2>10, <2>11, <2>12, <2>13
<1>4. \A n \in 0..Len(message) : n \in S
  <2> HIDE DEF S
  <2> QED BY <1>1, <1>2, <1>3, BoundedInduction
<1>5. c[8 * Len(message)] = Xor(u[Len(message)], ShiftRight(sent, 8 * Len(message)))
  <2>1. Len(message) \in 0..Len(message)
    BY <1>1
  <2> QED BY <1>4, <2>1
<1>6. ShiftRight(sent, 8 * Len(message)) = {}
  BY <1>1 DEF ShiftRight, Sent
<1>7. u[Len(message)] \in Places
  <2>1. Len(message) \in 0..Len(message)
    BY <1>1
  <2>2. u[Len(message)] \in Register
    BY <2>1, UpdatesType
  <2> QED BY <2>2, RegisterIsPlaces
<1> QED BY <1>5, <1>6, <1>7, XorAlgebra

LEMMA ChecksumIsDigest ==
    ASSUME NEW message \in Seq(Byte)
    PROVE  Checksum(message) = finalize(UpdatedBy(INIT, message))
<1> DEFINE bits == 8 * Len(message)
           dividend == Xor(Polynomial(message), bits..(bits + 31))
<1>1. bits \in Nat /\ (bits + 31) - 31 = bits /\ bits + 31 >= 31 /\ bits + 31 \in Nat
  BY LenProperties
<1>2. dividend \in Exponents /\ Below(dividend, bits + 31) = Xor(INIT, Sent(message))
  BY DividendIsSent
<1>3. Checksum(message) = (0..31) \ {31 - e : e \in Remainder(dividend, bits + 31)}
  BY DEF Checksum
<1> HIDE DEF bits, dividend
<1>4. PICK r : /\ r[0] = dividend
               /\ Divisions(r, bits + 31, bits)
               /\ Remainder(dividend, bits + 31) = r[bits]
  BY <1>1, <1>2, RemainderDivisions
<1> DEFINE c == [n \in 0..bits |-> Below(r[n], bits + 31 - n)]
<1>5. c[0] = Xor(INIT, Sent(message)) /\ c[bits] = Below(r[bits], 31)
  BY <1>1, <1>2, <1>4
<1>6. Turns(c, bits)
  <2>1. ASSUME NEW n \in 1..bits PROVE c[n] = Shifted(c[n - 1])
    <3>1. /\ n \in 0..bits /\ n - 1 \in 0..bits /\ bits + 31 - (n - 1) = bits + 31 + 1 - n
          /\ bits + 31 - n = (bits + 31 + 1 - n) - 1 /\ bits + 31 + 1 - n \in Int
      BY <1>1
    <3>2. r[n - 1] \in Exponents /\ r[n] = Divided(r[n - 1], bits + 31 + 1 - n)
      BY <1>4, <3>1 DEF Divisions
    <3>3. Below(Divided(r[n - 1], bits + 31 + 1 - n), (bits + 31 + 1 - n) - 1)
            = Shifted(Below(r[n - 1], bits + 31 + 1 - n))
      BY <3>1, <3>2, DividedIsShifted
    <3>4. c[n] = Below(r[n], bits + 31 - n) /\ c[n - 1] = Below(r[n - 1], bits + 31 - (n - 1))
      BY <3>1
    <3> HIDE DEF c
    <3> QED BY <3>1, <3>2, <3>3, <3>4
  <2> HIDE DEF c
  <2> QED BY <2>1 DEF Turns
<1> HIDE DEF c
<1>7. PICK u : /\ u[0] = INIT /\ Updates(u, message)
               /\ UpdatedBy(INIT, message) = u[Len(message)]
  BY InitIsRegister, UpdatesExist
<1>8. c[bits] = UpdatedBy(INIT, message)
  BY <1>5, <1>6, <1>7, TurnsAreUpdates DEF bits
<1>9. UpdatedBy(INIT, message) \in Register
  BY <1>7, UpdatedByUpdates
<1>10. \A i \in 0..31 : i \in UpdatedBy(INIT, message) <=> 31 - i \in r[bits]
  BY <1>5, <1>8 DEF Below
<1>11. \A i \in 0..31 : i \in {31 - e : e \in r[bits]} <=> 31 - i \in r[bits]
  <2>1. r[bits] \in Exponents
    BY <1>1, <1>4 DEF Divisions
  <2>2. ASSUME NEW i \in 0..31, 31 - i \in r[bits] PROVE i \in {31 - e : e \in r[bits]}
    <3>1. i = 31 - (31 - i)
      OBVIOUS
    <3> QED BY <2>2, <3>1
  <2>3. ASSUME NEW i \in 0..31, NEW e \in r[bits], i = 31 - e PROVE 31 - i \in r[bits]
    <3>1. e \in Int
      BY <2>1 DEF Exponents
    <3>2. 31 - i = e
      BY <2>3, <3>1
    <3> QED BY <3>2
  <2> QED BY <2>2, <2>3
<1>12. Checksum(message) = (0..31) \ UpdatedBy(INIT, message)
  BY <1>3, <1>4, <1>10, <1>11
<1>13. finalize(UpdatedBy(INIT, message)) = (0..31) \ UpdatedBy(INIT, message)
  BY <1>9 DEF finalize, Xor, XOROUT, Register
<1> QED BY <1>12, <1>13

\* However a message is cut into updates, and whatever was fed before a reset,
\* the digest is the CRC-32/ISO-HDLC of the message: table, reflection and index
\* of update() compute the remainder of a division of polynomials.
THEOREM DigestTheorem == CrcSpec => []DigestIsChecksum
<1>1. CrcIInv => DigestIsChecksum
  BY ChecksumIsDigest DEF CrcIInv, DigestIsChecksum
<1> QED BY <1>1, CrcInductive, PTL

-----------------------------------------------------------------------------
(* The check value                                                         *)

\* A turn of the inner loop within 32 bits.
Turn(a, b) == \A i \in 0..31 : i \in b <=> ~(i + 1 \in a <=> 0 \in a /\ i \in POLY)

LEMMA TurnIsShifted ==
    ASSUME NEW a \in Register, NEW b \in Register, Turn(a, b)
    PROVE  Shifted(a) = b
<1>1. a \in Places /\ Shifted(a) \in Register
  BY RegisterIsPlaces, ShiftedWord DEF Register
<1>2. \A i \in 0..31 : i \in Shifted(a) <=> ~(i + 1 \in a <=> 0 \in a /\ i \in POLY)
  BY <1>1, ShiftedBits
<1>3. \A i \in 0..31 : i \in Shifted(a) <=> i \in b
  BY <1>2 DEF Turn
<1> QED BY <1>1, <1>3 DEF Register

LEMMA EightTurns ==
    ASSUME NEW a \in Register
    PROVE  ShiftedBy(a, 8)
             = Shifted(Shifted(Shifted(Shifted(Shifted(Shifted(Shifted(Shifted(a))))))))
<1>1. PICK c \in [0..8 -> Places] : c[0] = a /\ Turns(c, 8) /\ ShiftedBy(a, 8) = c[8]
  <2>1. a \in Places
    BY RegisterIsPlaces
  <2>2. ASSUME NEW n \in Nat
        PROVE  \E c \in [0..n -> Places] : c[0] = a /\ Turns(c, n) /\ ShiftedBy(a, n) = c[n]
    BY <2>1, TurnsExist
  <2>3. 8 \in Nat
    OBVIOUS
  <2> QED BY <2>2, <2>3, Zenon
<1>2. \A j \in 1..8 : c[j] = Shifted(c[j - 1])
  BY <1>1 DEF Turns
<1>3. /\ c[1] = Shifted(c[0]) /\ c[2] = Shifted(c[1]) /\ c[3] = Shifted(c[2])
      /\ c[4] = Shifted(c[3]) /\ c[5] = Shifted(c[4]) /\ c[6] = Shifted(c[5])
      /\ c[7] = Shifted(c[6]) /\ c[8] = Shifted(c[7])
  BY <1>2
<1> QED BY <1>1, <1>3

LEMMA DigitBits ==
    /\ Len(Digits) = 9
    /\ Digits[1] = {0, 4, 5} /\ Digits[2] = {1, 4, 5} /\ Digits[3] = {0, 1, 4, 5}
    /\ Digits[4] = {2, 4, 5} /\ Digits[5] = {0, 2, 4, 5} /\ Digits[6] = {1, 2, 4, 5}
    /\ Digits[7] = {0, 1, 2, 4, 5} /\ Digits[8] = {3, 4, 5} /\ Digits[9] = {0, 3, 4, 5}
<1>1. ASSUME NEW S, NEW n \in Nat, NEW f \in [1..n -> S] PROVE Len(f) = n
  OBVIOUS
<1>2. Digits \in [1..9 -> SUBSET (0..7)]
  BY DEF Digits
<1>3. Len(Digits) = 9
  BY <1>1, <1>2
<1> QED BY <1>3 DEF Digits

\* The register after each digit.
After1 == {3, 6, 12, 16, 17, 21} \cup 26..30
After2 == {1, 4, 5, 8, 9, 11, 12, 13, 15, 18, 19, 21, 23, 28, 29, 31}
After3 == {0, 2, 3, 5, 10, 11, 12, 15, 16, 17, 18, 20, 21, 23, 24, 25, 26, 28, 29, 30}
After4 == {2, 3, 4, 6, 18, 19, 20, 26, 29, 30} \cup 8..12
After5 == {0, 1, 5, 6, 7, 8, 10, 14, 15, 17, 19, 26, 28, 29}
After6 == {1, 2, 3, 4, 7, 10, 11, 13, 16, 18, 19, 23, 25, 26, 28, 29, 30, 31}
After7 == {5, 6, 9, 10, 12, 15, 29, 31} \cup 18..27
After8 == {4, 6, 8, 10, 13, 24, 26, 29, 30} \cup 16..20
After9 == {0, 3, 4, 6, 7, 9, 10, 14, 15, 16, 17, 19, 26, 28, 29}

LEMMA Digit1 == Updated(INIT, Digits[1]) = After1 /\ After1 \in Register
<1> DEFINE c0 == {1, 2, 3} \cup 6..31
           c1 == {0, 1, 2} \cup 5..30
           c2 == {0, 1, 4, 6, 7, 16, 17, 18, 22, 25, 28, 30, 31} \cup 10..14
           c3 == {0, 3, 6, 8, 10, 11, 12, 13, 16, 17, 19, 20, 23, 26, 31}
           c4 == {2, 7, 8, 10, 11, 12, 16, 18, 29, 31} \cup 20..27
           c5 == {1, 6, 7, 9, 10, 11, 15, 17, 28, 30} \cup 19..26
           c6 == {0, 5, 6, 8, 9, 10, 14, 16, 27, 29} \cup 18..25
           c7 == {4, 7, 13, 17, 18, 22} \cup 27..31
<1>1. Xor(INIT, Digits[1]) = c0
  <2>1. Xor(INIT, {0, 4, 5}) = c0
    BY DEF Xor, INIT
  <2> QED BY <2>1, DigitBits
<1>2. /\ Turn(c0, c1) /\ Turn(c1, c2) /\ Turn(c2, c3) /\ Turn(c3, c4)
      /\ Turn(c4, c5) /\ Turn(c5, c6) /\ Turn(c6, c7) /\ Turn(c7, After1)
  BY DEF Turn, POLY, After1
<1>3. /\ c0 \in Register /\ c1 \in Register /\ c2 \in Register /\ c3 \in Register
      /\ c4 \in Register /\ c5 \in Register /\ c6 \in Register /\ c7 \in Register
      /\ INIT \in Register /\ After1 \in Register /\ Digits[1] \in SUBSET (0..7)
  BY DigitBits DEF Register, INIT, After1
<1> HIDE DEF c0, c1, c2, c3, c4, c5, c6, c7
<1>4. /\ Shifted(c0) = c1 /\ Shifted(c1) = c2 /\ Shifted(c2) = c3 /\ Shifted(c3) = c4
      /\ Shifted(c4) = c5 /\ Shifted(c5) = c6 /\ Shifted(c6) = c7 /\ Shifted(c7) = After1
  BY <1>2, <1>3, TurnIsShifted
<1>5. ShiftedBy(c0, 8) = After1
  BY <1>3, <1>4, EightTurns
<1> QED BY <1>1, <1>3, <1>5, UpdatedIsShiftedBy

LEMMA Digit2 == Updated(After1, Digits[2]) = After2 /\ After2 \in Register
<1> DEFINE c0 == {1, 3, 4, 5, 6, 12, 16, 17, 21} \cup 26..30
           c1 == {0, 2, 3, 4, 5, 11, 15, 16, 20} \cup 25..29
           c2 == {8, 9, 10, 14, 20, 21, 23, 25, 28, 29, 30, 31} \cup 1..5
           c3 == {7, 8, 9, 13, 19, 20, 22, 24, 27, 28, 29, 30} \cup 0..4
           c4 == {0, 1, 2, 3, 5, 6, 7, 9, 12, 15, 18, 20, 24, 28, 30, 31}
           c5 == {0, 1, 2, 4, 6, 9, 11, 14, 15, 17, 20, 21, 24, 26, 31}
           c6 == {0, 1, 3, 9, 10, 13, 14, 15, 16, 21, 24, 25, 26, 27, 29, 31}
           c7 == {0, 2, 5, 12, 13, 14, 19, 21, 25, 27, 28, 29, 31}
<1>1. Xor(After1, Digits[2]) = c0
  BY DigitBits DEF Xor, After1
<1>2. /\ Turn(c0, c1) /\ Turn(c1, c2) /\ Turn(c2, c3) /\ Turn(c3, c4)
      /\ Turn(c4, c5) /\ Turn(c5, c6) /\ Turn(c6, c7) /\ Turn(c7, After2)
  BY DEF Turn, POLY, After2
<1>3. /\ c0 \in Register /\ c1 \in Register /\ c2 \in Register /\ c3 \in Register
      /\ c4 \in Register /\ c5 \in Register /\ c6 \in Register /\ c7 \in Register
      /\ After1 \in Register /\ After2 \in Register /\ Digits[2] \in SUBSET (0..7)
  BY DigitBits DEF Register, After1, After2
<1> HIDE DEF c0, c1, c2, c3, c4, c5, c6, c7
<1>4. /\ Shifted(c0) = c1 /\ Shifted(c1) = c2 /\ Shifted(c2) = c3 /\ Shifted(c3) = c4
      /\ Shifted(c4) = c5 /\ Shifted(c5) = c6 /\ Shifted(c6) = c7 /\ Shifted(c7) = After2
  BY <1>2, <1>3, TurnIsShifted
<1>5. ShiftedBy(c0, 8) = After2
  BY <1>3, <1>4, EightTurns
<1> QED BY <1>1, <1>3, <1>5, UpdatedIsShiftedBy

LEMMA Digit3 == Updated(After2, Digits[3]) = After3 /\ After3 \in Register
<1> DEFINE c0 == {0, 8, 9, 11, 12, 13, 15, 18, 19, 21, 23, 28, 29, 31}
           c1 == {5, 7, 9, 10, 11, 12, 14, 15, 17, 18, 19, 21, 22, 23, 24, 26, 28, 29, 31}
           c2 == {4, 6, 8, 9, 10, 11, 13, 14, 16, 17, 18, 20, 21, 22, 23, 25, 27, 28, 30}
           c3 == {3, 5, 7, 8, 9, 10, 12, 13, 15, 16, 17, 19, 20, 21, 22, 24, 26, 27, 29}
           c4 == {2, 4, 6, 7, 8, 9, 11, 12, 14, 15, 16, 18, 19, 20, 21, 23, 25, 26, 28}
           c5 == {1, 3, 5, 6, 7, 8, 10, 11, 13, 14, 15, 17, 18, 19, 20, 22, 24, 25, 27}
           c6 == {0, 2, 4, 5, 6, 7, 9, 10, 12, 13, 14, 16, 17, 18, 19, 21, 23, 24, 26}
           c7 == {1, 3, 4, 6, 11, 12, 13, 16, 17, 18, 19, 21, 22, 24, 25, 26, 27, 29, 30, 31}
<1>1. Xor(After2, Digits[3]) = c0
  BY DigitBits DEF Xor, After2
<1>2. /\ Turn(c0, c1) /\ Turn(c1, c2) /\ Turn(c2, c3) /\ Turn(c3, c4)
      /\ Turn(c4, c5) /\ Turn(c5, c6) /\ Turn(c6, c7) /\ Turn(c7, After3)
  BY DEF Turn, POLY, After3
<1>3. /\ c0 \in Register /\ c1 \in Register /\ c2 \in Register /\ c3 \in Register
      /\ c4 \in Register /\ c5 \in Register /\ c6 \in Register /\ c7 \in Register
      /\ After2 \in Register /\ After3 \in Register /\ Digits[3] \in SUBSET (0..7)
  BY DigitBits DEF Register, After2, After3
<1> HIDE DEF c0, c1, c2, c3, c4, c5, c6, c7
<1>4. /\ Shifted(c0) = c1 /\ Shifted(c1) = c2 /\ Shifted(c2) = c3 /\ Shifted(c3) = c4
      /\ Shifted(c4) = c5 /\ Shifted(c5) = c6 /\ Shifted(c6) = c7 /\ Shifted(c7) = After3
  BY <1>2, <1>3, TurnIsShifted
<1>5. ShiftedBy(c0, 8) = After3
  BY <1>3, <1>4, EightTurns
<1> QED BY <1>1, <1>3, <1>5, UpdatedIsShiftedBy

LEMMA Digit4 == Updated(After3, Digits[4]) = After4 /\ After4 \in Register
<1> DEFINE c0 == {0, 3, 4, 10, 11, 12, 15, 16, 17, 18, 20, 21, 23, 24, 25, 26, 28, 29, 30}
           c1 == {2, 3, 5, 8, 10, 11, 14, 16, 17, 21, 22, 25, 26, 28, 30, 31}
           c2 == {1, 2, 4, 7, 9, 10, 13, 15, 16, 20, 21, 24, 25, 27, 29, 30}
           c3 == {0, 1, 3, 6, 8, 9, 12, 14, 15, 19, 20, 23, 24, 26, 28, 29}
           c4 == {0, 2, 7, 9, 11, 13, 14, 15, 18, 20, 21, 22, 24, 25, 26, 28, 29, 30, 31}
           c5 == {1, 5, 6, 9, 10, 12, 13, 14, 15, 17, 25, 26, 28, 31}
           c6 == {0, 4, 5, 8, 9, 11, 12, 13, 14, 16, 24, 25, 27, 30}
           c7 == {3, 4, 5, 7, 19, 20, 21, 27, 30, 31} \cup 9..13
<1>1. Xor(After3, Digits[4]) = c0
  BY DigitBits DEF Xor, After3
<1>2. /\ Turn(c0, c1) /\ Turn(c1, c2) /\ Turn(c2, c3) /\ Turn(c3, c4)
      /\ Turn(c4, c5) /\ Turn(c5, c6) /\ Turn(c6, c7) /\ Turn(c7, After4)
  BY DEF Turn, POLY, After4
<1>3. /\ c0 \in Register /\ c1 \in Register /\ c2 \in Register /\ c3 \in Register
      /\ c4 \in Register /\ c5 \in Register /\ c6 \in Register /\ c7 \in Register
      /\ After3 \in Register /\ After4 \in Register /\ Digits[4] \in SUBSET (0..7)
  BY DigitBits DEF Register, After3, After4
<1> HIDE DEF c0, c1, c2, c3, c4, c5, c6, c7
<1>4. /\ Shifted(c0) = c1 /\ Shifted(c1) = c2 /\ Shifted(c2) = c3 /\ Shifted(c3) = c4
      /\ Shifted(c4) = c5 /\ Shifted(c5) = c6 /\ Shifted(c6) = c7 /\ Shifted(c7) = After4
  BY <1>2, <1>3, TurnIsShifted
<1>5. ShiftedBy(c0, 8) = After4
  BY <1>3, <1>4, EightTurns
<1> QED BY <1>1, <1>3, <1>5, UpdatedIsShiftedBy

LEMMA Digit5 == Updated(After4, Digits[5]) = After5 /\ After5 \in Register
<1> DEFINE c0 == {0, 3, 5, 6, 18, 19, 20, 26, 29, 30} \cup 8..12
           c1 == {2, 4, 7, 10, 11, 15, 17, 18, 20, 21, 30, 31} \cup 23..28
           c2 == {1, 3, 6, 9, 10, 14, 16, 17, 19, 20, 29, 30} \cup 22..27
           c3 == {0, 2, 5, 8, 9, 13, 15, 16, 18, 19, 28, 29} \cup 21..26
           c4 == {1, 4, 5, 7, 9, 12, 14, 17, 18, 19, 22, 25, 26, 28, 29, 30, 31}
           c5 == {0, 3, 4, 6, 8, 11, 13, 16, 17, 18, 21, 24, 25, 27, 28, 29, 30}
           c6 == {2, 3, 7, 8, 9, 10, 12, 16, 17, 19, 21, 28, 30, 31}
           c7 == {1, 2, 6, 7, 8, 9, 11, 15, 16, 18, 20, 27, 29, 30}
<1>1. Xor(After4, Digits[5]) = c0
  BY DigitBits DEF Xor, After4
<1>2. /\ Turn(c0, c1) /\ Turn(c1, c2) /\ Turn(c2, c3) /\ Turn(c3, c4)
      /\ Turn(c4, c5) /\ Turn(c5, c6) /\ Turn(c6, c7) /\ Turn(c7, After5)
  BY DEF Turn, POLY, After5
<1>3. /\ c0 \in Register /\ c1 \in Register /\ c2 \in Register /\ c3 \in Register
      /\ c4 \in Register /\ c5 \in Register /\ c6 \in Register /\ c7 \in Register
      /\ After4 \in Register /\ After5 \in Register /\ Digits[5] \in SUBSET (0..7)
  BY DigitBits DEF Register, After4, After5
<1> HIDE DEF c0, c1, c2, c3, c4, c5, c6, c7
<1>4. /\ Shifted(c0) = c1 /\ Shifted(c1) = c2 /\ Shifted(c2) = c3 /\ Shifted(c3) = c4
      /\ Shifted(c4) = c5 /\ Shifted(c5) = c6 /\ Shifted(c6) = c7 /\ Shifted(c7) = After5
  BY <1>2, <1>3, TurnIsShifted
<1>5. ShiftedBy(c0, 8) = After5
  BY <1>3, <1>4, EightTurns
<1> QED BY <1>1, <1>3, <1>5, UpdatedIsShiftedBy

LEMMA Digit6 == Updated(After5, Digits[6]) = After6 /\ After6 \in Register
<1> DEFINE c0 == {0, 2, 4, 6, 7, 8, 10, 14, 15, 17, 19, 26, 28, 29}
           c1 == {1, 3, 6, 7, 8, 13, 14, 15, 16, 18, 19, 20, 21, 23, 24, 25, 26, 28, 29, 30, 31}
           c2 == {0, 2, 5, 6, 7, 12, 13, 14, 15, 17, 18, 19, 20, 22, 23, 24, 25, 27, 28, 29, 30}
           c3 == {1, 4, 6, 8, 9, 20, 22, 28, 30, 31} \cup 11..18
           c4 == {0, 3, 5, 7, 8, 19, 21, 27, 29, 30} \cup 10..17
           c5 == {2, 16, 18, 19, 21, 23, 24, 27, 28, 30, 31} \cup 4..8 \cup 10..14
           c6 == {1, 15, 17, 18, 20, 22, 23, 26, 27, 29, 30} \cup 3..7 \cup 9..13
           c7 == {0, 14, 16, 17, 19, 21, 22, 25, 26, 28, 29} \cup 2..6 \cup 8..12
<1>1. Xor(After5, Digits[6]) = c0
  BY DigitBits DEF Xor, After5
<1>2. /\ Turn(c0, c1) /\ Turn(c1, c2) /\ Turn(c2, c3) /\ Turn(c3, c4)
      /\ Turn(c4, c5) /\ Turn(c5, c6) /\ Turn(c6, c7) /\ Turn(c7, After6)
  BY DEF Turn, POLY, After6
<1>3. /\ c0 \in Register /\ c1 \in Register /\ c2 \in Register /\ c3 \in Register
      /\ c4 \in Register /\ c5 \in Register /\ c6 \in Register /\ c7 \in Register
      /\ After5 \in Register /\ After6 \in Register /\ Digits[6] \in SUBSET (0..7)
  BY DigitBits DEF Register, After5, After6
<1> HIDE DEF c0, c1, c2, c3, c4, c5, c6, c7
<1>4. /\ Shifted(c0) = c1 /\ Shifted(c1) = c2 /\ Shifted(c2) = c3 /\ Shifted(c3) = c4
      /\ Shifted(c4) = c5 /\ Shifted(c5) = c6 /\ Shifted(c6) = c7 /\ Shifted(c7) = After6
  BY <1>2, <1>3, TurnIsShifted
<1>5. ShiftedBy(c0, 8) = After6
  BY <1>3, <1>4, EightTurns
<1> QED BY <1>1, <1>3, <1>5, UpdatedIsShiftedBy

LEMMA Digit7 == Updated(After6, Digits[7]) = After7 /\ After7 \in Register
<1> DEFINE c0 == {0, 3, 5, 7, 10, 11, 13, 16, 18, 19, 23, 25, 26, 28, 29, 30, 31}
           c1 == {2, 4, 5, 6, 8, 10, 12, 25, 26, 28, 31} \cup 17..23
           c2 == {1, 3, 4, 5, 7, 9, 11, 24, 25, 27, 30} \cup 16..22
           c3 == {0, 2, 3, 4, 6, 8, 10, 23, 24, 26, 29} \cup 15..21
           c4 == {1, 2, 3, 7, 8, 14, 16, 17, 18, 21, 22} \cup 24..31
           c5 == {0, 1, 2, 6, 7, 13, 15, 16, 17, 20, 21} \cup 23..30
           c6 == {0, 1, 6, 8, 9, 12, 14, 16, 21, 22, 25, 28, 30, 31}
           c7 == {0, 7, 9, 11, 13, 19, 23, 26, 31}
<1>1. Xor(After6, Digits[7]) = c0
  BY DigitBits DEF Xor, After6
<1>2. /\ Turn(c0, c1) /\ Turn(c1, c2) /\ Turn(c2, c3) /\ Turn(c3, c4)
      /\ Turn(c4, c5) /\ Turn(c5, c6) /\ Turn(c6, c7) /\ Turn(c7, After7)
  BY DEF Turn, POLY, After7
<1>3. /\ c0 \in Register /\ c1 \in Register /\ c2 \in Register /\ c3 \in Register
      /\ c4 \in Register /\ c5 \in Register /\ c6 \in Register /\ c7 \in Register
      /\ After6 \in Register /\ After7 \in Register /\ Digits[7] \in SUBSET (0..7)
  BY DigitBits DEF Register, After6, After7
<1> HIDE DEF c0, c1, c2, c3, c4, c5, c6, c7
<1>4. /\ Shifted(c0) = c1 /\ Shifted(c1) = c2 /\ Shifted(c2) = c3 /\ Shifted(c3) = c4
      /\ Shifted(c4) = c5 /\ Shifted(c5) = c6 /\ Shifted(c6) = c7 /\ Shifted(c7) = After7
  BY <1>2, <1>3, TurnIsShifted
<1>5. ShiftedBy(c0, 8) = After7
  BY <1>3, <1>4, EightTurns
<1> QED BY <1>1, <1>3, <1>5, UpdatedIsShiftedBy

LEMMA Digit8 == Updated(After7, Digits[8]) = After8 /\ After8 \in Register
<1> DEFINE c0 == {3, 4, 6, 9, 10, 12, 15, 29, 31} \cup 18..27
           c1 == {2, 3, 5, 8, 9, 11, 14, 28, 30} \cup 17..26
           c2 == {1, 2, 4, 7, 8, 10, 13, 27, 29} \cup 16..25
           c3 == {0, 1, 3, 6, 7, 9, 12, 26, 28} \cup 15..24
           c4 == {0, 2, 6, 9, 11, 14, 16, 17, 18, 22, 24, 25, 26, 29, 30, 31}
           c5 == {1, 9, 10, 13, 16, 17, 19, 20, 25, 26, 27, 28, 31}
           c6 == {0, 8, 9, 12, 15, 16, 18, 19, 24, 25, 26, 27, 30}
           c7 == {5, 7, 9, 11, 14, 25, 27, 30, 31} \cup 17..21
<1>1. Xor(After7, Digits[8]) = c0
  BY DigitBits DEF Xor, After7
<1>2. /\ Turn(c0, c1) /\ Turn(c1, c2) /\ Turn(c2, c3) /\ Turn(c3, c4)
      /\ Turn(c4, c5) /\ Turn(c5, c6) /\ Turn(c6, c7) /\ Turn(c7, After8)
  BY DEF Turn, POLY, After8
<1>3. /\ c0 \in Register /\ c1 \in Register /\ c2 \in Register /\ c3 \in Register
      /\ c4 \in Register /\ c5 \in Register /\ c6 \in Register /\ c7 \in Register
      /\ After7 \in Register /\ After8 \in Register /\ Digits[8] \in SUBSET (0..7)
  BY DigitBits DEF Register, After7, After8
<1> HIDE DEF c0, c1, c2, c3, c4, c5, c6, c7
<1>4. /\ Shifted(c0) = c1 /\ Shifted(c1) = c2 /\ Shifted(c2) = c3 /\ Shifted(c3) = c4
      /\ Shifted(c4) = c5 /\ Shifted(c5) = c6 /\ Shifted(c6) = c7 /\ Shifted(c7) = After8
  BY <1>2, <1>3, TurnIsShifted
<1>5. ShiftedBy(c0, 8) = After8
  BY <1>3, <1>4, EightTurns
<1> QED BY <1>1, <1>3, <1>5, UpdatedIsShiftedBy

LEMMA Digit9 == Updated(After8, Digits[9]) = After9 /\ After9 \in Register
<1> DEFINE c0 == {0, 3, 5, 6, 8, 10, 13, 24, 26, 29, 30} \cup 16..20
           c1 == {2, 4, 7, 8, 12, 16, 17, 18, 20, 21, 30, 31} \cup 24..28
           c2 == {1, 3, 6, 7, 11, 15, 16, 17, 19, 20, 29, 30} \cup 23..27
           c3 == {0, 2, 5, 6, 10, 14, 15, 16, 18, 19, 28, 29} \cup 22..26
           c4 == {1, 4, 8, 13, 14, 17, 18, 19, 20, 22, 25, 26, 28, 29, 30, 31}
           c5 == {0, 3, 7, 12, 13, 16, 17, 18, 19, 21, 24, 25, 27, 28, 29, 30}
           c6 == {2, 5, 6, 8, 9, 11, 12, 16, 17, 18, 19, 21, 28, 30, 31}
           c7 == {1, 4, 5, 7, 8, 10, 11, 15, 16, 17, 18, 20, 27, 29, 30}
<1>1. Xor(After8, Digits[9]) = c0
  BY DigitBits DEF Xor, After8
<1>2. /\ Turn(c0, c1) /\ Turn(c1, c2) /\ Turn(c2, c3) /\ Turn(c3, c4)
      /\ Turn(c4, c5) /\ Turn(c5, c6) /\ Turn(c6, c7) /\ Turn(c7, After9)
  BY DEF Turn, POLY, After9
<1>3. /\ c0 \in Register /\ c1 \in Register /\ c2 \in Register /\ c3 \in Register
      /\ c4 \in Register /\ c5 \in Register /\ c6 \in Register /\ c7 \in Register
      /\ After8 \in Register /\ After9 \in Register /\ Digits[9] \in SUBSET (0..7)
  BY DigitBits DEF Register, After8, After9
<1> HIDE DEF c0, c1, c2, c3, c4, c5, c6, c7
<1>4. /\ Shifted(c0) = c1 /\ Shifted(c1) = c2 /\ Shifted(c2) = c3 /\ Shifted(c3) = c4
      /\ Shifted(c4) = c5 /\ Shifted(c5) = c6 /\ Shifted(c6) = c7 /\ Shifted(c7) = After9
  BY <1>2, <1>3, TurnIsShifted
<1>5. ShiftedBy(c0, 8) = After9
  BY <1>3, <1>4, EightTurns
<1> QED BY <1>1, <1>3, <1>5, UpdatedIsShiftedBy

LEMMA DigitsFed == UpdatedBy(INIT, Digits) = After9
<1> DEFINE after == <<After1, After2, After3, After4, After5, After6, After7, After8, After9>>
           f == [n \in 0..9 |-> IF n = 0 THEN INIT ELSE after[n]]
<1>1. \A n \in 1..9 : f[n] = Updated(f[n - 1], Digits[n])
  <2>1. /\ f[0] = INIT /\ f[1] = After1 /\ f[2] = After2 /\ f[3] = After3 /\ f[4] = After4
        /\ f[5] = After5 /\ f[6] = After6 /\ f[7] = After7 /\ f[8] = After8 /\ f[9] = After9
    OBVIOUS
  <2>2. \A n \in 1..9 : n \in {1, 2, 3, 4, 5, 6, 7, 8, 9}
    OBVIOUS
  <2> HIDE DEF f
  <2> QED BY <2>1, <2>2, Digit1, Digit2, Digit3, Digit4, Digit5, Digit6, Digit7, Digit8, Digit9
<1>2. f[0] = INIT /\ f[9] = After9 /\ f = [n \in 0..9 |-> f[n]]
  OBVIOUS
<1> HIDE DEF f
<1>3. f = [n \in 0..9 |-> IF n = 0 THEN INIT ELSE Updated(f[n - 1], Digits[n])]
  <2>1. \A n \in 0..9 : n # 0 => n \in 1..9
    OBVIOUS
  <2> QED BY <1>1, <1>2, <2>1
<1> DEFINE U == CHOOSE u : u = [n \in 0..9 |-> IF n = 0 THEN INIT ELSE Updated(u[n - 1], Digits[n])]
<1>4. U = [n \in 0..9 |-> IF n = 0 THEN INIT ELSE Updated(U[n - 1], Digits[n])]
  BY <1>3, Zenon
<1>5. UpdatedBy(INIT, Digits) = U[9]
  BY DigitBits DEF UpdatedBy
<1> HIDE DEF U
<1> DEFINE S == {n \in 0..9 : U[n] = f[n]}
<1>6. 0 \in S
  BY <1>2, <1>4
<1>7. ASSUME NEW n \in 1..9, n - 1 \in S PROVE n \in S
  <2>1. n \in 0..9 /\ n # 0
    OBVIOUS
  <2>2. U[n] = Updated(U[n - 1], Digits[n])
    BY <1>4, <2>1
  <2> QED BY <1>1, <1>7, <2>1, <2>2
<1>8. 9 \in S
  <2>1. \A n \in 0..9 : n \in S
    <3> HIDE DEF S
    <3> QED BY <1>6, <1>7, BoundedInduction
  <2> QED BY <2>1
<1> QED BY <1>2, <1>5, <1>8

\* A fresh or reset digest, whatever was fed before the reset, is that of nothing,
\* and takes "123456789" to the check value of CRC-32/ISO-HDLC.
THEOREM KnownDigestsTheorem == CrcSpec => []KnownDigests
<1>1. ASSUME CrcIInv PROVE KnownDigests
  <2> SUFFICES ASSUME fed = <<>>
               PROVE  /\ finalize(register) = {}
                      /\ finalize(UpdatedBy(register, Digits)) = CheckValue
    BY DEF KnownDigests
  <2>1. register = INIT
    BY <1>1, InitIsRegister, UpdatedByNothing DEF CrcIInv
  <2>2. finalize(INIT) = {}
    BY DEF finalize, Xor, INIT, XOROUT
  <2>3. finalize(After9) = CheckValue
    BY DEF finalize, Xor, XOROUT, After9, CheckValue
  <2> QED BY <2>1, <2>2, <2>3, DigitsFed
<1> QED BY <1>1, CrcInductive, PTL

=============================================================================
