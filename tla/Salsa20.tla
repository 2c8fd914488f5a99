------------------------------- MODULE Salsa20 -------------------------------
(***************************************************************************)
(* The stream cipher of salsa20.c, which enciphers and deciphers payloads   *)
(* and envelopes: a key, a nonce and a block number make a matrix of words, *)
(* the rounds mix it, and its bytes are added to the data from any position *)
(* of the stream.  Widths are parameters: the code has WordBits = 32.       *)
(***************************************************************************)
EXTENDS Integers, Sequences, SequencesExt, Eagerly, Bitwise

CONSTANTS WordBits,
          DoubleRounds,  \* the code has 10
          Sigma, Tau,    \* the four constant words for a long and a short key
          Keys,          \* sequences of 8 or 4 words
          Nonces,        \* pairs of words
          Plain,         \* the data, a sequence of bytes
          Pieces         \* how many bytes one call may be given

ByteBits == WordBits \div 4
Word == 0 .. 2 ^ WordBits - 1
Byte == 0 .. 2 ^ ByteBits - 1
CipherAssumption ==
    /\ WordBits % 4 = 0 /\ Plain \in Seq(Byte)
    /\ \A k \in Keys : k \in Seq(Word) /\ Len(k) \in {4, 8}
    /\ Nonces \subseteq Word \X Word /\ Pieces \subseteq Nat

VARIABLES key, nonce,
          buf,    \* the data being enciphered, later deciphered, in place
          si,     \* position in the stream: what earlier calls have done
          opening \* the data has been enciphered and is being deciphered
vars == <<key, nonce, buf, si, opening>>

-----------------------------------------------------------------------------
Add(a, b) == (a + b) % 2 ^ WordBits
\* Shift counts are those of 32-bit words, taken modulo the width.
rotl(v, shift) ==
    LET s == shift % WordBits
    IN  ((v * 2 ^ s) % 2 ^ WordBits) + (v \div 2 ^ (WordBits - s))

s20_quarterround(y0, y1, y2, y3) ==
    LET z1 == y1 ^^ rotl(Add(y0, y3), 7)
        z2 == y2 ^^ rotl(Add(z1, y0), 9)
        z3 == y3 ^^ rotl(Add(z2, z1), 13)
    IN  <<y0 ^^ rotl(Add(z3, z2), 18), z1, z2, z3>>

\* The words of the matrix each quarter round of a round takes, in its order.
Rows == {<<0, 1, 2, 3>>, <<5, 6, 7, 4>>, <<10, 11, 8, 9>>, <<15, 12, 13, 14>>}
Columns == {<<0, 4, 8, 12>>, <<5, 9, 13, 1>>, <<10, 14, 2, 6>>, <<15, 3, 7, 11>>}
Mixed(x, group) ==
    LET z == s20_quarterround(x[group[1]], x[group[2]], x[group[3]], x[group[4]])
    IN  Each({group[j] : j \in 1 .. 4}, LAMBDA i : z[CHOOSE j \in 1 .. 4 : group[j] = i])
Round(x, groups) ==
    FoldLeft(LAMBDA f, group : f @@ Mixed(x, group), <<>>, SetToSeq(groups))
s20_rowround(x) == Round(x, Rows)
s20_columnround(x) == Round(x, Columns)
s20_doubleround(x) == s20_rowround(s20_columnround(x))

Matrix == 0 .. 15
s20_hash(x) ==
    LET z == FoldLeft(LAMBDA y, i : s20_doubleround(y), x, [i \in 1 .. DoubleRounds |-> i])
    IN  Each(Matrix, LAMBDA i : Add(z[i], x[i]))

\* s20_expand32 and s20_expand16: a short key stands in both halves.
Expanded(k, n) ==
    LET constant == IF Len(k) = 8 THEN Sigma ELSE Tau
        second == IF Len(k) = 8 THEN SubSeq(k, 5, 8) ELSE k
    IN  Each(Matrix, LAMBDA i :
            CASE i % 5 = 0 -> constant[i \div 5 + 1]
              [] i \in 1 .. 4 -> k[i]
              [] i \in 6 .. 9 -> n[i - 5]
              [] i \in 11 .. 14 -> second[i - 10])
\* The block of the stream with a number: the nonce, the number in one word, a word of zero.
KeystreamBlock(k, n, number) == s20_hash(Expanded(k, n \o <<number, 0>>))
\* s20_rev_littleendian: byte j of a matrix of words.
ByteOf(words, j) == (words[j \div 4] \div 2 ^ (ByteBits * (j % 4))) % 2 ^ ByteBits

\* Mutated: the blocks made in the loop are numbered from the start of the call.
MadeFromZero(from, n) ==
    LET made[i \in 0 .. n - 1] ==
            IF (from + i) % 64 = 0 THEN i \div 64
            ELSE IF i = 0 THEN from \div 64
            ELSE made[i - 1]
    IN  made

\* The number of the block that keystream holds at byte i of a call from position from: one is
\* made before the loop if the call begins within a block, and one in it at each boundary.
Made(from, n) ==
    LET made[i \in 0 .. n - 1] ==
            IF (from + i) % 64 = 0 THEN (from + i) \div 64
            ELSE IF i = 0 THEN from \div 64
            ELSE made[i - 1]
    IN  made

\* One call over n bytes of data from position from.
s20_crypt(k, nce, from, n, data) ==
    LET made == Made(from, n)
        number == Each(0 .. n - 1, LAMBDA i : made[i])
        keystream == Each({number[i] : i \in 0 .. n - 1}, LAMBDA b : KeystreamBlock(k, nce, b))
    IN  [j \in 1 .. Len(data) |->
            LET i == j - 1 - from IN
            IF i \in 0 .. n - 1 THEN data[j] ^^ ByteOf(keystream[number[i]], (from + i) % 64)
            ELSE data[j]]

-----------------------------------------------------------------------------
Init == key \in Keys /\ nonce \in Nonces /\ buf = Plain /\ si = 0 /\ opening = FALSE
Crypt ==
    \E n \in Pieces :
        /\ si + n <= Len(buf)
        /\ buf' = s20_crypt(key, nonce, si, n, buf)
        /\ si' = si + n /\ UNCHANGED <<key, nonce, opening>>
TurnAround ==
    /\ si = Len(buf) /\ ~opening
    /\ opening' = TRUE /\ si' = 0 /\ UNCHANGED <<key, nonce, buf>>
Next == Crypt \/ TurnAround
Spec == Init /\ [][Next]_vars

-----------------------------------------------------------------------------
TypeOK == /\ key \in Keys /\ nonce \in Nonces /\ buf \in Seq(Byte) /\ Len(buf) = Len(Plain)
          /\ si \in 0 .. Len(buf) /\ opening \in BOOLEAN

\* Whatever pieces the data is enciphered in, deciphering it in whatever pieces gives it back:
\* what has been opened is plain again, what has not been enciphered still is (s20_crypt).
OpensWhatWasSealed ==
    \A i \in 1 .. Len(buf) : (IF opening THEN i <= si ELSE i > si) => buf[i] = Plain[i]

\* Each byte is enciphered with the byte of the stream at its own position, the same whether a
\* call began at a block boundary or within one (s20_crypt's two places that make a block).
StreamByPosition ==
    LET stream == Each(0 .. (Len(buf) - 1) \div 64, LAMBDA b : KeystreamBlock(key, nonce, b))
    IN  \A i \in 1 .. Len(buf) : (IF opening THEN i > si ELSE i <= si) =>
            buf[i] = Plain[i] ^^ ByteOf(stream[(i - 1) \div 64], (i - 1) % 64)

\* A round over the columns is the round over the rows of the matrix turned on its diagonal, as
\* the cipher defines it: the two tables of words agree (s20_rowround and s20_columnround).
ColumnsAreTurnedRows ==
    LET Turned(x) == Each(Matrix, LAMBDA i : x[4 * (i % 4) + i \div 4])
        x == Expanded(key, nonce \o <<si, 0>>)
    IN  s20_columnround(x) = Turned(s20_rowround(Turned(x)))
=============================================================================
