-------------------------------- MODULE Uuids --------------------------------
(***************************************************************************)
(* The uuids the ESP8266 build generates between two boots (uuuid2.c).  A   *)
(* uuid is the hardware address, which one device never changes, a second   *)
(* and a 32-bit fraction.  Until the network answered, every uuid gets a    *)
(* second of its own drawing, which may repeat; afterwards all uuids of a   *)
(* second share it.  It is the fraction that keeps them apart: it is drawn  *)
(* once and counted up from there, past the largest one back to 1, because  *)
(* 0 would have it drawn again.                                             *)
(***************************************************************************)
EXTENDS Integers, FiniteSets

CONSTANTS
    Fractions,      \* how many values a fraction has (2^32)
    Drawn,          \* the fractions a first drawing may give
    Guesses,        \* the seconds drawn while the time is not known
    LastSecond,     \* bound: the clock stops here
    MaxUuids        \* bound: how many are generated in one boot

ASSUME UuidAssumption ==
    /\ Fractions \in Nat \ {0, 1}
    /\ LastSecond \in Nat
    /\ MaxUuids \in 0 .. Fractions - 1
    /\ Guesses \subseteq Nat

\* system_get_time() and the random bytes add up to 0 once in 2^32 boots.
ASSUME DrawnAssumption == Drawn \subseteq 1 .. Fractions - 1

VARIABLES
    sec,            \* sec of uuuid2.c
    frac,           \* frac of uuuid2.c
    ntp_unix_timestamp,
    uuids,          \* the uuids generated since the boot
    count           \* how often uuuid2_gen was called

vars == <<sec, frac, ntp_unix_timestamp, uuids, count>>

TypeOK ==
    /\ sec \in Nat
    /\ frac \in 0 .. Fractions - 1
    /\ ntp_unix_timestamp \in 0 .. LastSecond
    /\ uuids \subseteq Nat \X (0 .. Fractions - 1)
    /\ count \in 0 .. MaxUuids

Init ==
    /\ sec = 0
    /\ frac = 0
    /\ ntp_unix_timestamp = 0
    /\ uuids = {}
    /\ count = 0

Seconds == IF ntp_unix_timestamp = 0 THEN Guesses ELSE {ntp_unix_timestamp}

\* Mutated: a fraction that wrapped round stays 0.
NextFractionsZero(f) == IF f = 0 THEN Drawn ELSE {(f + 1) % Fractions}

\* Mutated: counts past the last fraction.
NextFractionsWide(f) == IF f = 0 THEN Drawn ELSE {f + 1}

NextFractions(f) ==
    IF f = 0 THEN Drawn
    ELSE IF f + 1 = Fractions THEN {1} ELSE {f + 1}

uuuid2_gen ==
    /\ count < MaxUuids
    /\ sec' \in Seconds
    /\ frac' \in NextFractions(frac)
    /\ uuids' = uuids \cup {<<sec', frac'>>}
    /\ count' = count + 1
    /\ UNCHANGED ntp_unix_timestamp

\* The network's answer, and the seconds that are counted from there.
Clock ==
    /\ \/ ntp_unix_timestamp = 0 /\ ntp_unix_timestamp' \in 1 .. LastSecond
       \/ /\ ntp_unix_timestamp \in 1 .. LastSecond - 1
          /\ ntp_unix_timestamp' = ntp_unix_timestamp + 1
    /\ UNCHANGED <<sec, frac, uuids, count>>

Next == uuuid2_gen \/ Clock

Spec == Init /\ [][Next]_vars

-----------------------------------------------------------------------------

(* No uuid is given out twice in one boot, however the seconds fall:       *)
(* uuuid2_gen never comes back to a pair of second and fraction it already *)
(* used, wrapped round or not, until all fractions are spent.              *)
NeverTwice == Cardinality(uuids) = count

(* Why: the fractions in use run from the first one up to the last, round  *)
(* the end if need be, and are as many as there were calls.                *)
FractionsInARow ==
    \/ frac = 0 /\ uuids = {} /\ count = 0
    \/ \E first \in 1 .. Fractions - 1 :
         \/ /\ first <= frac /\ count = frac - first + 1
            /\ \A u \in uuids : u[2] \in first .. frac
         \/ /\ 1 <= frac /\ frac < first /\ count = Fractions - first + frac
            /\ \A u \in uuids : u[2] \in first .. Fractions - 1 \cup 1 .. frac
=============================================================================
