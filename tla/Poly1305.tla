------------------------------- MODULE Poly1305 -------------------------------
(***************************************************************************)
(* The one-time authenticator of poly1305-donna (the 32-bit arithmetic that *)
(* the ESP8266 is built with): the message is taken in pieces of any length *)
(* and multiplied out block by block modulo 2^130 - 5 in five limbs.  The   *)
(* sizes are parameters: the code has LimbBits = 26, BlockBytes = 16 and    *)
(* ByteBits = 8.                                                            *)
(***************************************************************************)
EXTENDS Integers, Sequences, SequencesExt, Eagerly

CONSTANTS LimbBits, BlockBytes, ByteBits,
          ClearedBits,  \* the bits of r that poly1305_init masks out
          Keys,         \* [r, pad], the halves of a key as numbers
          Messages

BlockBits == BlockBytes * ByteBits
Prime == 2 ^ (5 * LimbBits) - 5
SizeAssumption ==
    /\ BlockBits = 5 * LimbBits - 2
    /\ ClearedBits \subseteq 0 .. BlockBits - 1
    /\ Keys \subseteq [r : 0 .. 2 ^ BlockBits - 1, pad : 0 .. 2 ^ BlockBits - 1]

VARIABLES key, message,  \* chosen at the start
          fed,           \* how much of the message the context has taken
          h, leftover,   \* the context: five limbs, and the bytes of an open block
          mac,           \* the tag, -1 while there is none
          verdict        \* what the receiver made of a tag
vars == <<key, message, fed, h, leftover, mac, verdict>>

Limb == 0 .. 4
Low(n) == n % 2 ^ LimbBits
High(n) == n \div 2 ^ LimbBits
InLimbs(n) == Each(Limb, LAMBDA i : Low(n \div 2 ^ (LimbBits * i)))
\* U8TO32 over a block: little endian.
Number(bytes) ==
    MapThenSumSet(LAMBDA i : bytes[i] * 2 ^ (ByteBits * (i - 1)), DOMAIN bytes)
Clamped(r) ==
    MapThenSumSet(LAMBDA i : ((r \div 2 ^ i) % 2) * 2 ^ i, (0 .. BlockBits - 1) \ ClearedBits)

\* d0 to d4, and the carries that make limbs of them again; the carry of the last comes back
\* to limb 0 times 5, and limb 0 carries once more.
Product(x, r) ==
    Each(Limb, LAMBDA k :
        MapThenSumSet(LAMBDA i : x[i] * (IF i <= k THEN r[k - i] ELSE 5 * r[k - i + 5]), Limb))
Carried(d) ==
    LET c[k \in 0 .. 5] == IF k = 0 THEN 0 ELSE High(d[k - 1] + c[k - 1])
        limbs == Each(Limb, LAMBDA k : Low(d[k] + c[k]) + IF k = 0 THEN 5 * c[5] ELSE 0)
    IN  [limbs EXCEPT ![0] = Low(@), ![1] = @ + High(limbs[0])]

\* hibit is 2^128 for the blocks of the message, 0 for the padded one.
Block(x, bytes, hibit) ==
    LET m == InLimbs(Number(bytes) + hibit)
    IN  Carried(Product(Each(Limb, LAMBDA i : x[i] + m[i]), InLimbs(Clamped(key.r))))
poly1305_blocks(x, bytes) ==
    LET block(n) == SubSeq(bytes, (n - 1) * BlockBytes + 1, n * BlockBytes)
    IN  FoldLeft(LAMBDA y, n : Block(y, block(n), 2 ^ BlockBits), x,
                 [n \in 1 .. Len(bytes) \div BlockBytes |-> n])

\* The context after the bytes m: the open block is filled first, whole blocks follow, the
\* rest is kept.
poly1305_update(ctx, m) ==
    LET want == IF ctx.leftover = <<>> THEN 0
                ELSE Min({BlockBytes - Len(ctx.leftover), Len(m)})
        filled == ctx.leftover \o SubSeq(m, 1, want)
        rest == SubSeq(m, want + 1, Len(m))
        whole == Len(rest) - (Len(rest) % BlockBytes)
        opened == IF ctx.leftover = <<>> THEN ctx.h ELSE poly1305_blocks(ctx.h, filled)
    IN  IF ctx.leftover # <<>> /\ Len(filled) < BlockBytes
        THEN [h |-> ctx.h, leftover |-> filled]
        ELSE [h |-> poly1305_blocks(opened, SubSeq(rest, 1, whole)),
              leftover |-> SubSeq(rest, whole + 1, Len(rest))]

\* The open block gets a 1 and zeros and no high bit; the number is carried through, brought
\* below Prime and added to the pad.
Padded(bytes) == Append(bytes, 1) \o [i \in 1 .. BlockBytes - Len(bytes) - 1 |-> 0]
FullyCarried(x) ==
    LET c[k \in 1 .. 5] == IF k = 1 THEN 0 ELSE High(x[k - 1] + c[k - 1])
        limbs == Each(Limb, LAMBDA k : IF k = 0 THEN x[0] ELSE Low(x[k] + c[k]))
        zero == x[0] + 5 * c[5]
    IN  [limbs EXCEPT ![0] = Low(zero), ![1] = @ + High(zero)]
Reduced(x) ==
    LET c[k \in 0 .. 4] == IF k = 0 THEN 5 ELSE High(x[k - 1] + c[k - 1])
        top == x[4] + c[4] - 2 ^ LimbBits
    IN  IF top < 0 THEN x
        ELSE Each(Limb, LAMBDA k : IF k = 4 THEN top ELSE Low(x[k] + c[k]))
Packed(x) == MapThenSumSet(LAMBDA i : Low(x[i]) * 2 ^ (LimbBits * i), Limb)
poly1305_finish(ctx) ==
    LET last == IF ctx.leftover = <<>> THEN ctx.h ELSE Block(ctx.h, Padded(ctx.leftover), 0)
    IN  ((Packed(Reduced(FullyCarried(last))) % 2 ^ BlockBits) + key.pad) % 2 ^ BlockBits

Fresh == [h |-> InLimbs(0), leftover |-> <<>>]
poly1305_auth(m) == poly1305_finish(poly1305_update(Fresh, m))
poly1305_verify(mac1, mac2) == mac1 = mac2

-----------------------------------------------------------------------------
Init == /\ key \in Keys /\ message \in Messages
        /\ fed = 0 /\ h = Fresh.h /\ leftover = Fresh.leftover
        /\ mac = -1 /\ verdict = "none"

Update ==
    \E n \in 0 .. Len(message) - fed :
        /\ mac = -1
        /\ LET ctx == poly1305_update([h |-> h, leftover |-> leftover],
                                      SubSeq(message, fed + 1, fed + n))
           IN  h' = ctx.h /\ leftover' = ctx.leftover
        /\ fed' = fed + n /\ UNCHANGED <<key, message, mac, verdict>>

Finish ==
    /\ mac = -1 /\ fed = Len(message)
    /\ mac' = poly1305_finish([h |-> h, leftover |-> leftover])
    /\ h' = Fresh.h /\ UNCHANGED <<key, message, fed, leftover, verdict>>

\* The receiver computes the tag in one call and compares it with the one that came.
Receive ==
    /\ mac # -1 /\ verdict = "none"
    /\ verdict' = IF poly1305_verify(poly1305_auth(message), mac) THEN "accepted" ELSE "refused"
    /\ UNCHANGED <<key, message, fed, h, leftover, mac>>

Next == Update \/ Finish \/ Receive
Spec == Init /\ [][Next]_vars

-----------------------------------------------------------------------------
\* Between two pieces the limbs leave room for the next block's sums: limb 1, the one that is
\* not masked last, stays below twice its width (poly1305_blocks).
TypeOK ==
    /\ fed \in 0 .. Len(message) /\ Len(leftover) < BlockBytes
    /\ \A i \in Limb : h[i] \in 0 .. (IF i = 1 THEN 2 ^ (LimbBits + 1) ELSE 2 ^ LimbBits) - 1
    /\ mac \in -1 .. 2 ^ BlockBits - 1

(* The polynomial the tag stands for, computed as one number modulo Prime. *)
Times[a \in 0 .. Prime - 1, b \in 0 .. Prime - 1] ==
    IF b = 0 THEN 0
    ELSE (((2 * Times[a, b \div 2]) % Prime) + (IF b % 2 = 1 THEN a ELSE 0)) % Prime
BlockNumber(n) ==
    LET bytes == SubSeq(message, (n - 1) * BlockBytes + 1, Min({n * BlockBytes, Len(message)}))
    IN  Number(bytes) + 2 ^ (ByteBits * Len(bytes))
Polynomial[n \in Nat] ==
    IF n = 0 THEN 0
    ELSE Times[(Polynomial[n - 1] + BlockNumber(n)) % Prime, Clamped(key.r)]
BlockCount == (Len(message) + BlockBytes - 1) \div BlockBytes

\* However the message was cut into calls, and wherever its length falls against the block, the
\* tag is the polynomial of its blocks at r, plus the pad (poly1305_update, poly1305_blocks and
\* poly1305_finish).
TagOfMessage ==
    mac # -1 =>
        mac = ((Polynomial[BlockCount] % 2 ^ BlockBits) + key.pad) % 2 ^ BlockBits

\* The receiver, which computes in one call what the sender may have computed in several,
\* accepts the tag (poly1305_auth and poly1305_verify).
AcceptsTheTag == verdict # "refused"
=============================================================================
