------------------------------- MODULE Crc32 -------------------------------
(***************************************************************************)
(* The incremental CRC-32/ISO-HDLC of tpt-node-esp32 (IsoHdlcCrc32 in      *)
(* crc.rs): the register is updated byte by byte through a table, chunk    *)
(* after chunk, and is the only thing the flash writer keeps of an image.  *)
(* A word is the set of the places of its one bits, 0 the lowest.          *)
(***************************************************************************)
EXTENDS Integers, Sequences

CONSTANTS
    Byte,      \* the bytes fed, among SUBSET (0..7)
    MaxChunk,  \* most bytes of one update
    MaxFed     \* bound on the bytes fed between two resets

ASSUME CrcAssumption ==
    /\ Byte \subseteq SUBSET (0..7)
    /\ MaxChunk \in Nat /\ MaxFed \in Nat

VARIABLES
    register,  \* IsoHdlcCrc32::state
    fed        \* history: the bytes fed since the last reset

crcVars == <<register, fed>>

\* Mutant of POLY: 0x04C11DB7, not reflected.
PolyNotReflected == {0, 1, 2, 4, 5, 7, 8, 10, 11, 12, 16, 22, 23, 26}

\* 0xEDB88320
POLY == {5, 8, 9, 15, 19, 20, 21, 23, 24, 26, 27, 29, 30, 31}

INIT == 0..31
XOROUT == 0..31

Xor(a, b) == (a \ b) \cup (b \ a)

ShiftRight(word, n) == {i - n : i \in {j \in word : j >= n}}

LowByte(word) == word \cap 0..7

\* The inner loop of new().
Shifted(c) == IF 0 \in c THEN Xor(POLY, ShiftRight(c, 1)) ELSE ShiftRight(c, 1)

ShiftedBy(word, n) ==
    LET c[j \in 0..n] == IF j = 0 THEN word ELSE Shifted(c[j - 1])
    IN  c[n]

table == [byte \in SUBSET (0..7) |-> ShiftedBy(byte, 8)]

\* Mutant of Updated: the index is masked with 0x7F.
UpdatedBySevenBits(state, byte) ==
    Xor(table[Xor(state, byte) \cap 0..6], ShiftRight(state, 8))

\* One byte of update().
Updated(state, byte) == Xor(table[LowByte(Xor(state, byte))], ShiftRight(state, 8))

UpdatedBy(state, data) ==
    LET after[n \in 0..Len(data)] ==
            IF n = 0 THEN state ELSE Updated(after[n - 1], data[n])
    IN  after[Len(data)]

finalize(state) == Xor(state, XOROUT)

-----------------------------------------------------------------------------
CrcInit ==
    /\ register = INIT
    /\ fed = <<>>

Update(data) ==
    /\ Len(fed) + Len(data) <= MaxFed
    /\ register' = UpdatedBy(register, data)
    /\ fed' = fed \o data

\* Mutant of Reset: the register is cleared.
ResetToZero ==
    /\ register' = {}
    /\ fed' = <<>>

Reset ==
    /\ register' = INIT
    /\ fed' = <<>>

CrcNext ==
    \/ \E data \in UNION {[1..n -> Byte] : n \in 0..MaxChunk} : Update(data)
    \/ Reset

CrcSpec == CrcInit /\ [][CrcNext]_crcVars

-----------------------------------------------------------------------------
(* The definition of the checksum: the message, its bits in the order they *)
(* are sent and the first 32 of them flipped, is a polynomial over GF(2);  *)
(* the checksum is the complement of the remainder of its product with     *)
(* x^32 by the generator.  A polynomial is the set of its exponents.       *)

Generator == {32, 26, 23, 22, 16, 12, 11, 10, 8, 7, 5, 4, 2, 1, 0}

Polynomial(message) ==
    LET bits == 8 * Len(message)
    IN  {bits + 31 - k : k \in {j \in 0..(bits - 1) : j % 8 \in message[j \div 8 + 1]}}

\* A step of the division takes away the exponent e; it takes them from the
\* highest down to 32.
Divided(rest, e) ==
    IF e \in rest THEN Xor(rest, {e - 32 + g : g \in Generator}) ELSE rest

Remainder(polynomial, highest) ==
    LET rest[n \in 0..(highest - 31)] ==
            IF n = 0 THEN polynomial ELSE Divided(rest[n - 1], highest + 1 - n)
    IN  rest[highest - 31]

Checksum(message) ==
    LET bits == 8 * Len(message)
        rest == Remainder(Xor(Polynomial(message), bits..(bits + 31)), bits + 31)
    IN  (0..31) \ {31 - e : e \in rest}

-----------------------------------------------------------------------------
\* However the bytes are cut into updates, and whatever was fed before a reset,
\* the digest is the CRC-32/ISO-HDLC of the bytes fed since: the table, the
\* reflection and the index of update() agree with polynomial division.
DigestIsChecksum == finalize(register) = Checksum(fed)

\* An image that differs from the one fed in a single byte has another digest,
\* so the flash writer's verification notices every such corruption.
CorruptionIsDetected ==
    \A i \in 1..Len(fed) : \A byte \in Byte \ {fed[i]} :
        finalize(UpdatedBy(INIT, [fed EXCEPT ![i] = byte])) # finalize(register)

\* A fresh or reset digest is that of nothing, and feeding it "123456789" gives
\* the check value of the algorithm, as the tests of crc.rs expect.
Digits ==
    LET low == <<{0}, {1}, {0, 1}, {2}, {0, 2}, {1, 2}, {0, 1, 2}, {3}, {0, 3}>>
    IN  [i \in 1..9 |-> {4, 5} \cup low[i]]

\* 0xCBF43926
CheckValue == {1, 2, 5, 8, 11, 12, 13, 18, 20, 21, 22, 23, 24, 25, 27, 30, 31}

KnownDigests ==
    fed = <<>> =>
        /\ finalize(register) = {}
        /\ finalize(UpdatedBy(register, Digits)) = CheckValue

=============================================================================
