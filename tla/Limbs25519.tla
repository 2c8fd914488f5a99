------------------------------ MODULE Limbs25519 ------------------------------
(***************************************************************************)
(* The arithmetic of curve25519-donna.c modulo 2^255 - 19: a number is an   *)
(* array of signed limbs, 26 and 25 bits wide in turn, that additions let   *)
(* grow and the two freduce functions bring back.  The sizes are            *)
(* parameters: the code has Limbs = 10, LimbBits = 26 and Fold = 19.        *)
(***************************************************************************)
EXTENDS Integers, Eagerly

CONSTANTS Limbs,     \* how many limbs a number has
          LimbBits,  \* width of the even limbs; the odd ones are a bit less
          Fold       \* what 2^Bits is worth modulo the prime

LimbAssumption == /\ Limbs \in Nat \ {0} /\ Limbs % 2 = 0
                         /\ LimbBits \in Nat \ {0, 1} /\ Fold \in Nat \ {0}

Limb == 0 .. Limbs - 1
Modulus(i) == 2 ^ (LimbBits - (i % 2))
Offset(i) == (i * (2 * LimbBits - 1) + 1) \div 2
Bits == Offset(Limbs)
Prime == 2 ^ Bits - Fold

-----------------------------------------------------------------------------
fsum(x, y) == [i \in Limb |-> x[i] + y[i]]
\* The C function leaves in - output in its first argument: x - y here.
fdifference(x, y) == [i \in Limb |-> x[i] - y[i]]
fscalar_product(x, n) == [i \in Limb |-> n * x[i]]

\* Two odd limbs meet half a bit low, so their product counts twice.
Weight(i, j) == IF i % 2 = 1 /\ j % 2 = 1 THEN 2 ELSE 1
fproduct(x, y) ==
    Each(0 .. 2 * Limbs - 2, LAMBDA k :
        MapThenSumSet(LAMBDA i : Weight(i, k - i) * x[i] * y[k - i], {i \in Limb : k - i \in Limb}))

\* Mutated: one of the three shifted additions is missing.
freduce_degreeShort(t) ==
    [i \in Limb |-> IF i + Limbs \in DOMAIN t THEN t[i] + (Fold - 1) * t[i + Limbs] ELSE t[i]]
freduce_degree(t) ==
    [i \in Limb |-> IF i + Limbs \in DOMAIN t THEN t[i] + Fold * t[i + Limbs] ELSE t[i]]

\* One pass over the limbs: Excess(v, m) of each, m being its modulus, moves to
\* the next, and that of the last comes back to limb 0 folded.
Pass(x, Excess(_, _)) ==
    LET into[i \in 0 .. Limbs] ==
            IF i = 0 THEN 0 ELSE Excess(x[i - 1] + into[i - 1], Modulus(i - 1))
    IN  Each(Limb, LAMBDA i : x[i] + into[i] - into[i + 1] * Modulus(i)
                              + IF i = 0 THEN Fold * into[Limbs] ELSE 0)
\* The step that ends both reductions: limb 0 once more into limb 1.
First(x, Excess(_, _)) ==
    LET over == Excess(x[0], Modulus(0))
    IN  [x EXCEPT ![0] = @ - over * Modulus(0), ![1] = @ + over]

\* div_by_2_26 and div_by_2_25 round towards zero, unlike \div.
Div(v, m) == IF v < 0 THEN -((-v) \div m) ELSE v \div m
freduce_coefficients(t) == First(Pass(t, Div), Div)

fmul(x, y) == freduce_coefficients(freduce_degree(fproduct(x, y)))
fsquare(x) == fmul(x, x)

-----------------------------------------------------------------------------
fexpand(n) == [i \in Limb |-> (n \div 2 ^ Offset(i)) % Modulus(i)]

Borrow(v, m) == IF v < 0 THEN v \div m ELSE 0
Carry(v, m) == v \div m
\* s32_gte and s32_eq over the limbs: the number is Prime or more.
AtLeastPrime(x) == x[0] >= Modulus(0) - Fold /\ \A i \in Limb \ {0} : x[i] = Modulus(i) - 1
SubtractPrime(x) ==
    [i \in Limb |-> x[i] - (Modulus(i) - (IF i = 0 THEN Fold ELSE 1))]
Canonical(x) ==
    LET positive == First(Pass(Pass(x, Borrow), Borrow), Borrow)
        carried == Pass(Pass(positive, Carry), Carry)
    IN  IF AtLeastPrime(carried) THEN SubtractPrime(carried) ELSE carried
fcontract(x) ==
    LET limbs == Canonical(x) IN MapThenSumSet(LAMBDA i : limbs[i] * 2 ^ Offset(i), Limb)
=============================================================================
