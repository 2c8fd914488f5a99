----------------------------- MODULE MCProtocol -----------------------------
(***************************************************************************)
(* The parts of the protocol (ProtocolParts) together with its cryptography *)
(* at widths that TLC's integers hold.  Again one behaviour is about one    *)
(* part alone.                                                              *)
(***************************************************************************)
EXTENDS ProtocolParts

VARIABLES
    x, ops,
    secret, public, shared, job, nq, nqpq,
    macKey, message, fed, h, leftover, mac, verdict,
    key, nonce, buf, si, opening

fieldVars == <<x, ops>>
curveVars == <<secret, public, shared, job, nq, nqpq>>
macVars == <<macKey, message, fed, h, leftover, mac, verdict>>
cipherVars == <<key, nonce, buf, si, opening>>
cryptoVars == <<fieldVars, curveVars, macVars, cipherVars>>

\* Numbers modulo 2^30 - 3 in four limbs.
Field == INSTANCE LimbField WITH
    Limbs <- 4, LimbBits <- 8, Fold <- 3, Factors <- {1, 5}, MaxOps <- 3,
    Inputs <- {0, 1, 12345, 536870911, 1073741820, 1073741822}

\* A curve over 2^15 - 19 in two limbs.  2^5 - 1 squared five times makes the one longer run of
\* the inversion: 5 + 5 + 5 bits.
Curve == INSTANCE Curve25519 WITH
    Limbs <- 2, LimbBits <- 8, Fold <- 19, SecretBits <- 8, A24 <- 5, BaseX <- 9, BaseY <- 1215,
    Chain <- <<5>>, Secrets <- {0, 13, 93, 129, 250}

\* Numbers modulo 2^30 - 5 in five limbs of 6 bits, blocks of four bytes of 7 bits.  Messages of
\* up to two blocks and a byte, of lowest and highest bytes; as in the code, the top bits of the
\* last byte of the key and the low ones of another are cleared.
Mac == INSTANCE Poly1305 WITH
    LimbBits <- 6, BlockBytes <- 4, ByteBits <- 7, ClearedBits <- {7, 8, 24, 25, 26, 27},
    Keys <- [r : {2, 268435455, 123456789}, pad : {0, 268435455}],
    Messages <- {[i \in 1 .. n |-> IF i <= k THEN a ELSE b] :
                    n \in 0 .. 9, k \in 0 .. 9, a, b \in {0, 127}},
    key <- macKey

\* Words of 8 bits, which have bytes of 2, and two blocks and a bit of data.
Cipher == INSTANCE Salsa20 WITH
    WordBits <- 8, DoubleRounds <- 2, Sigma <- <<101, 110, 50, 116>>, Tau <- <<97, 49, 45, 107>>,
    Keys <- {<<1, 2, 3, 4, 250, 17, 99, 255>>, <<200, 0, 131, 7>>},
    Nonces <- {<<0, 0>>, <<255, 129>>}, Plain <- [i \in 1 .. 131 |-> i % 4],
    Pieces <- {1, 15, 64, 66}

ASSUME Field!LimbAssumption /\ Curve!LimbAssumption /\ Curve!CurveAssumption
ASSUME Mac!SizeAssumption /\ Cipher!CipherAssumption

FieldUnused == x = Unused /\ ops = Unused
CurveUnused ==
    /\ secret = Unused /\ public = Unused /\ shared = Unused
    /\ job = Unused /\ nq = Unused /\ nqpq = Unused
MacUnused ==
    /\ macKey = Unused /\ message = Unused /\ fed = Unused /\ h = Unused
    /\ leftover = Unused /\ mac = Unused /\ verdict = Unused
CipherUnused ==
    /\ key = Unused /\ nonce = Unused /\ buf = Unused /\ si = Unused /\ opening = Unused

ProtocolInit ==
    /\ part \in {"uuids", "config", "field", "curve", "mac", "cipher", "packets"} \cup Streams
    /\ PartsInit
    /\ IF part = "field" THEN Field!Init ELSE FieldUnused
    /\ IF part = "curve" THEN Curve!Init ELSE CurveUnused
    /\ IF part = "mac" THEN Mac!Init ELSE MacUnused
    /\ IF part = "cipher" THEN Cipher!Init ELSE CipherUnused

ProtocolNext ==
    \/ PartsNext /\ UNCHANGED cryptoVars
    \/ /\ part = "field" /\ Field!Next
       /\ UNCHANGED <<partsVars, curveVars, macVars, cipherVars>>
    \/ /\ part = "curve" /\ Curve!Next
       /\ UNCHANGED <<partsVars, fieldVars, macVars, cipherVars>>
    \/ /\ part = "mac" /\ Mac!Next
       /\ UNCHANGED <<partsVars, fieldVars, curveVars, cipherVars>>
    \/ /\ part = "cipher" /\ Cipher!Next
       /\ UNCHANGED <<partsVars, fieldVars, curveVars, macVars>>

\* Both programs of a stream are scheduled.
ProtocolSpec ==
    /\ ProtocolInit
    /\ [][ProtocolNext]_<<partsVars, cryptoVars>>
    /\ WF_streamVars(part = "streams" /\ Orderly!Device)
    /\ \A c \in Controllers : WF_streamVars(part = "streams" /\ Orderly!Step(c))

-----------------------------------------------------------------------------
\* Each part keeps to its types, and to the invariants its proofs rest on (ProtocolProofs).
PartsTypeOK ==
    /\ TypeOK
    /\ part = "streams" => Orderly!TypeOK /\ Orderly!SocketsHeld /\ Orderly!OrderlyInv
    /\ part = "killed streams" => Killed!TypeOK /\ Killed!SocketsHeld /\ Killed!PairedOnce
    /\ part = "packets" => Packets!TypeOK /\ Packets!SerialsInARow
    /\ part = "config" => Config!TypeOK /\ Config!ImageOfSaved
    /\ part = "curve" => Curve!TypeOK
    /\ part = "mac" => Mac!TypeOK
    /\ part = "cipher" => Cipher!TypeOK

\* Limb arithmetic is arithmetic modulo the prime (fsum, fdifference, fmul, fsquare).
LimbsCompute == [][part = "field" => Field!StepsModPrime]_fieldVars

\* Limbs stay within their widths, and what is packed in the end is the one number below the
\* prime (freduce_coefficients, fcontract); at each bit the ladder holds two neighbouring
\* multiples of its point, public keys are multiples of the base point, and both sides come to
\* one shared key (curve25519_donna).
KeysAgree ==
    /\ part = "field" => Field!Reduced /\ Field!PacksCleanly
    /\ part = "curve" =>
          Curve!LadderMultiplies /\ Curve!PublicKeysAreMultiples /\ Curve!SharedKeysAgree

\* A tag is the polynomial's value and accepted with its message alone, opening gives back what
\* was sealed, and a byte's stream depends on its position alone, in whatever pieces either is
\* done (poly1305_update, poly1305_verify, s20_crypt).
SealsOpen ==
    /\ part = "mac" => Mac!TagOfMessage /\ Mac!AcceptsTheTag
    /\ part = "cipher" =>
          Cipher!OpensWhatWasSealed /\ Cipher!StreamByPosition /\ Cipher!ColumnsAreTurnedRows
=============================================================================
