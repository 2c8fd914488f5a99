------------------------------ MODULE LimbField ------------------------------
(***************************************************************************)
(* The limb arithmetic at work: a number in limbs that goes through the     *)
(* combinations of operations fmonty makes, each with operands as large as  *)
(* fmonty's.                                                                *)
(***************************************************************************)
EXTENDS Limbs25519

CONSTANTS Inputs,   \* the other operands
          Factors,  \* what a number is scaled by; the code has 121665
          MaxOps    \* bound: operations of one behaviour

VARIABLES x, ops
vars == <<x, ops>>

Init == ops = 0 /\ \E n \in Inputs : x = fexpand(n)
Operate(result) == ops < MaxOps /\ ops' = ops + 1 /\ x' = result
MultiplySums ==
    \E n \in Inputs : Operate(fmul(fsum(x, fexpand(n)), fdifference(x, fexpand(n))))
SquareDifference == \E n \in Inputs : Operate(fsquare(fdifference(x, fexpand(n))))
ScaleAndAdd ==
    \E f \in Factors, n \in Inputs :
        Operate(fmul(x, fsum(freduce_coefficients(fscalar_product(x, f)), fexpand(n))))
Next == MultiplySums \/ SquareDifference \/ ScaleAndAdd
Spec == Init /\ [][Next]_vars

-----------------------------------------------------------------------------
(* The same operations on a number modulo Prime. *)
Number == 0 .. Prime - 1
\* Multiplication by doubling, so that nothing passes 2 * Prime.
Times[a \in Number, b \in Number] ==
    IF b = 0 THEN 0
    ELSE (((2 * Times[a, b \div 2]) % Prime) + (IF b % 2 = 1 THEN a ELSE 0)) % Prime
Results[v \in Number] ==
    {Times[(v + n) % Prime, (v - n) % Prime] : n \in Inputs}
    \cup {Times[(v - n) % Prime, (v - n) % Prime] : n \in Inputs}
    \cup {Times[v, (Times[v, f] + n) % Prime] : f \in Factors, n \in Inputs}

\* Every operation leaves limbs below 2^LimbBits in magnitude, the width its comments promise
\* and the next product, whose operands may be sums of two such numbers, relies on
\* (freduce_coefficients, freduce_degree and fmul).
Reduced == ops \in 0 .. MaxOps /\ \A i \in Limb : x[i] \in -(2 ^ LimbBits - 1) .. 2 ^ LimbBits - 1

\* The limbs that fcontract ends with are those of a number below Prime, each within its own
\* width, so that packing them into bytes overlaps nothing (fcontract's borrows and carries).
PacksCleanly ==
    /\ \A i \in Limb : Canonical(x)[i] \in 0 .. Modulus(i) - 1
    /\ fcontract(x) < Prime

\* The limb arithmetic is arithmetic modulo Prime: what an operation on limbs contracts to is
\* what the same operation makes of the number its operand contracts to (fproduct,
\* freduce_degree, freduce_coefficients, fcontract).
StepsModPrime == fcontract(x') \in Results[fcontract(x)]
=============================================================================
