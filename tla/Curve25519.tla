------------------------------ MODULE Curve25519 ------------------------------
(***************************************************************************)
(* curve25519_donna and the key agreement built on it: each side multiplies *)
(* the base point by its secret, sends the result, and multiplies what it   *)
(* got by its secret again.  The multiplication is the Montgomery ladder of *)
(* cmult, one bit of the secret a step, over the limbs of Limbs25519.       *)
(***************************************************************************)
EXTENDS Limbs25519, Sequences, SequencesExt

CONSTANTS SecretBits,    \* the code has 256
          A24,           \* (A - 2) / 4 of the curve; the code has 121665
          BaseX, BaseY,  \* the base point; the code has x = 9
          Chain,         \* runs of squarings in crecip; the code has
                         \* <<5, 10, 20, 10, 50, 100, 50>>
          Secrets        \* what a side may have drawn

Number == 0 .. Prime - 1
A == 4 * A24 + 2
CurveAssumption ==
    /\ Fold = 19 /\ FoldLeft(+, 10, Chain) = Bits
    /\ (BaseY * BaseY) % Prime = (((BaseX * BaseX) % Prime) * (BaseX + A) + BaseX) % Prime
    /\ Secrets \subseteq 0 .. 2 ^ SecretBits - 1

Side == {"controller", "device"}
Other(s) == CHOOSE t \in Side : t # s
None == -1

VARIABLES secret,   \* what each side drew
          public,   \* each side's public key
          shared,   \* the key each side has computed with the other
          job,      \* the multiplication in progress: of which side, what
                    \* point, and how many bits of the secret are left; <<>>: none
          nq, nqpq  \* its two running points, as [x, z] in limbs
vars == <<secret, public, shared, job, nq, nqpq>>

-----------------------------------------------------------------------------
\* Q and Q' with their difference q: 2Q and Q + Q'.
fmonty(Q, Qprime, q) ==
    LET sum == fsum(Q.x, Q.z)
        difference == fdifference(Q.x, Q.z)
        xxprime == fmul(fsum(Qprime.x, Qprime.z), difference)
        zzprime == fmul(sum, fdifference(Qprime.x, Qprime.z))
        xx == fsquare(sum)
        zz == fsquare(difference)
        apart == fdifference(xx, zz)
        zzz == fsum(freduce_coefficients(fscalar_product(apart, A24)), xx)
    IN  <<[x |-> fmul(xx, zz), z |-> fmul(apart, zzz)],
          [x |-> fsquare(fsum(xxprime, zzprime)),
           z |-> fmul(fsquare(fdifference(xxprime, zzprime)), q)]>>

Squared(x, n) == FoldLeft(LAMBDA y, i : fsquare(y), x, [i \in 1 .. n |-> i])
\* z^(Prime - 2): known[n] is z^(2^n - 1), and each run of Chain makes a longer one.
crecip(z) ==
    LET z2 == fsquare(z)
        z9 == fmul(Squared(z2, 2), z)
        z11 == fmul(z9, z2)
        Longer(run, n) ==
            [top |-> run.top + n,
             known |-> run.known @@ (run.top + n :>
                           fmul(Squared(run.known[run.top], n), run.known[n]))]
        last == FoldLeft(Longer, [top |-> 5, known |-> 5 :> fmul(fsquare(z11), z9)], Chain)
    IN  fmul(Squared(last.known[last.top], 5), z11)

\* The low three bits and the top one are cleared, the next is set.
Clamped(s) == 2 ^ (SecretBits - 2) + (s % 2 ^ (SecretBits - 2)) - (s % 8)
Bit(n, i) == (n \div 2 ^ i) % 2

-----------------------------------------------------------------------------
Zero == fexpand(0)
Init == /\ secret \in [Side -> Secrets]
        /\ public = [s \in Side |-> None] /\ shared = [s \in Side |-> None]
        /\ job = <<>> /\ nq = [x |-> Zero, z |-> Zero] /\ nqpq = nq

Multiply(s, point) ==
    /\ job = <<>>
    /\ job' = [side |-> s, point |-> point, left |-> SecretBits]
    /\ nq' = [x |-> fexpand(1), z |-> fexpand(0)]
    /\ nqpq' = [x |-> fexpand(point), z |-> fexpand(1)]
    /\ UNCHANGED <<secret, public, shared>>
\* The key pair of a new configuration.
PublicKey(s) == public[s] = None /\ Multiply(s, BaseX)
\* The other side's public key has come.
SharedKey(s) ==
    /\ public[s] # None /\ public[Other(s)] # None /\ shared[s] = None
    /\ Multiply(s, public[Other(s)])

\* Both points change places before and after a bit that is set.
swap_conditional(a, b, bit) == IF bit = 1 THEN <<b, a>> ELSE <<a, b>>
\* Mutated: the points are not swapped back.
LadderStepSwapped ==
    /\ job # <<>> /\ job.left > 0
    /\ LET bit == Bit(Clamped(secret[job.side]), job.left - 1)
           before == swap_conditional(nq, nqpq, bit)
           after == fmonty(before[1], before[2], fexpand(job.point))
       IN  nq' = after[1] /\ nqpq' = after[2]
    /\ job' = [job EXCEPT !.left = @ - 1]
    /\ UNCHANGED <<secret, public, shared>>
LadderStep ==
    /\ job # <<>> /\ job.left > 0
    /\ LET bit == Bit(Clamped(secret[job.side]), job.left - 1)
           before == swap_conditional(nq, nqpq, bit)
           after == fmonty(before[1], before[2], fexpand(job.point))
           result == swap_conditional(after[1], after[2], bit)
       IN  nq' = result[1] /\ nqpq' = result[2]
    /\ job' = [job EXCEPT !.left = @ - 1]
    /\ UNCHANGED <<secret, public, shared>>

Finish ==
    /\ job # <<>> /\ job.left = 0
    /\ LET key == fcontract(fmul(nq.x, crecip(nq.z)))
       IN  IF public[job.side] = None
           THEN public' = [public EXCEPT ![job.side] = key] /\ UNCHANGED shared
           ELSE shared' = [shared EXCEPT ![job.side] = key] /\ UNCHANGED public
    /\ job' = <<>> /\ UNCHANGED <<secret, nq, nqpq>>

Next == LadderStep \/ Finish \/ \E s \in Side : PublicKey(s) \/ SharedKey(s)
Spec == Init /\ [][Next]_vars

-----------------------------------------------------------------------------
(* Multiples of the base point by the group law of the curve. *)
Power[b \in Number, e \in Nat] ==
    IF e = 0 THEN 1
    ELSE (Power[(b * b) % Prime, e \div 2] * (IF e % 2 = 1 THEN b ELSE 1)) % Prime
Infinity == <<>>
Point == Number \X Number \cup {Infinity}
Chord[slope \in Int, P \in Point, Q \in Point] ==
    LET x3 == (((slope * slope) % Prime) - A - P[1] - Q[1]) % Prime
    IN  <<x3, ((slope * ((P[1] - x3) % Prime)) - P[2]) % Prime>>
Plus[P \in Point, Q \in Point] ==
    CASE P = Infinity -> Q
      [] Q = Infinity -> P
      [] P # Infinity /\ Q # Infinity /\ P[1] = Q[1] /\ (P[2] + Q[2]) % Prime = 0 -> Infinity
      [] P # Infinity /\ P = Q /\ P[2] # 0 ->
            Chord[(((3 * ((P[1] * P[1]) % Prime) + 2 * A * P[1] + 1) % Prime)
                   * Power[(2 * P[2]) % Prime, Prime - 2]) % Prime, P, Q]
      [] OTHER ->
            Chord[(((Q[2] - P[2]) % Prime) * Power[(Q[1] - P[1]) % Prime, Prime - 2]) % Prime, P, Q]
Doubled[P \in Point] == Plus[P, P]
Multiple[n \in Nat] ==
    IF n = 0 THEN Infinity
    ELSE Plus[Doubled[Multiple[n \div 2]], IF n % 2 = 1 THEN <<BaseX, BaseY>> ELSE Infinity]

\* The running point r, a ratio of two numbers, is the point P.
Represents(r, P) ==
    LET x == fcontract(r.x) z == fcontract(r.z)
    IN  IF P = Infinity THEN x # 0 /\ z = 0 ELSE z # 0 /\ x = (z * P[1]) % Prime

TypeOK ==
    /\ secret \in [Side -> Secrets]
    /\ public \in [Side -> Number \cup {None}] /\ shared \in [Side -> Number \cup {None}]
    /\ job = <<>> \/ job \in [side : Side, point : Number, left : 0 .. SecretBits]
    /\ \A r \in {nq, nqpq} : DOMAIN r.x = Limb /\ DOMAIN r.z = Limb

\* At every bit the two running points are the multiples of the point by the bits of the secret
\* read so far and by one more, whatever swaps and reductions came before, zero included
\* (cmult, swap_conditional and fmonty).
LadderMultiplies ==
    job # <<>> =>
        LET read == Clamped(secret[job.side]) \div 2 ^ job.left
            base == IF public[job.side] = None THEN 1 ELSE Clamped(secret[Other(job.side)])
        IN  Represents(nq, Multiple[read * base]) /\ Represents(nqpq, Multiple[(read + 1) * base])

\* A public key is the coordinate of the base point's multiple by the secret, as the one number
\* below the prime that stands for it (curve25519_donna with crecip and fcontract).
PublicKeysAreMultiples ==
    \A s \in Side : public[s] # None =>
        LET P == Multiple[Clamped(secret[s])] IN public[s] = IF P = Infinity THEN 0 ELSE P[1]

\* The two sides compute one shared key, each from its own secret and the other's public key,
\* in whatever order they get to it (the CMD_PUBLICKEY_* exchange and curve25519_donna).
SharedKeysAgree ==
    (\A s \in Side : shared[s] # None) => \A s, t \in Side : shared[s] = shared[t]
=============================================================================
