--------------------------- MODULE ProtocolProofs ---------------------------
(***************************************************************************)
(* That no uuid is generated twice in one boot and no session nonce is used *)
(* twice, for any range of fractions and serials; that controllers and      *)
(* device keep in step over their connections, for any number of both; and  *)
(* that a configuration is read as it was written, whichever settings are   *)
(* changed.                                                                 *)
(***************************************************************************)
EXTENDS ProtocolParts, FiniteSetTheorems, SequenceTheorems, WellFoundedInduction, TLAPS

-----------------------------------------------------------------------------
(* Uuids.                                                                  *)

\* The generator's fraction and second always have the values they may have.
THEOREM UuidTypes == Spec => []TypeOK
<1>1. Init => TypeOK
  BY UuidAssumption DEF Init, TypeOK
<1>2. TypeOK /\ [Next]_vars => TypeOK'
  <2> SUFFICES ASSUME TypeOK, [Next]_vars PROVE TypeOK'
    OBVIOUS
  <2> USE UuidAssumption, DrawnAssumption
  <2>1. CASE uuuid2_gen
    <3>1. sec' \in Nat
      BY <2>1 DEF TypeOK, uuuid2_gen, Seconds
    <3>2. frac' \in 0 .. Fractions - 1
      BY <2>1 DEF TypeOK, uuuid2_gen, NextFractions
    <3>3. uuids' \subseteq Nat \X (0 .. Fractions - 1)
      BY <2>1, <3>1, <3>2 DEF TypeOK, uuuid2_gen
    <3>4. ntp_unix_timestamp' \in 0 .. LastSecond /\ count' \in 0 .. MaxUuids
      BY <2>1 DEF TypeOK, uuuid2_gen
    <3> QED BY <3>1, <3>2, <3>3, <3>4 DEF TypeOK
  <2>2. CASE Clock
    BY <2>2 DEF TypeOK, Clock
  <2>3. CASE UNCHANGED vars
    BY <2>3 DEF TypeOK, vars
  <2> QED BY <2>1, <2>2, <2>3 DEF Next
<1> QED BY <1>1, <1>2, PTL DEF Spec

\* What is inductive: the fractions lie in a row, and the uuids are counted.
UuidInv == TypeOK /\ FractionsInARow /\ IsFiniteSet(uuids) /\ NeverTwice

LEMMA RowGrows ==
    ASSUME TypeOK, FractionsInARow, uuuid2_gen
    PROVE  FractionsInARow' /\ \A u \in uuids : u[2] # frac'
<1> USE UuidAssumption, DrawnAssumption
<1>1. CASE frac = 0
  <2>1. uuids = {} /\ count = 0
    BY <1>1 DEF FractionsInARow
  <2>2. frac' \in 1 .. Fractions - 1 /\ count' = 1
    BY <1>1, <2>1 DEF uuuid2_gen, NextFractions
  <2>3. \A u \in uuids' : u[2] = frac'
    BY <2>1 DEF uuuid2_gen
  <2>4. \A f \in 1 .. Fractions - 1 : f <= f /\ f - f + 1 = 1 /\ f \in f .. f
    OBVIOUS
  <2>5. FractionsInARow'
    BY <2>2, <2>3, <2>4 DEF FractionsInARow
  <2> QED BY <2>1, <2>5
<1>2. CASE frac # 0
  <2>1. PICK first \in 1 .. Fractions - 1 :
          \/ /\ first <= frac /\ count = frac - first + 1
             /\ \A u \in uuids : u[2] \in first .. frac
          \/ /\ 1 <= frac /\ frac < first /\ count = Fractions - first + frac
             /\ \A u \in uuids : u[2] \in first .. Fractions - 1 \cup 1 .. frac
    BY <1>2 DEF FractionsInARow
  <2>2. /\ count < Fractions - 1 /\ count' = count + 1
        /\ frac' = IF frac + 1 = Fractions THEN 1 ELSE frac + 1
        /\ frac \in 1 .. Fractions - 1
    BY <1>2 DEF uuuid2_gen, NextFractions, TypeOK
  <2>3. \A u \in uuids' : u \in uuids \/ u[2] = frac'
    BY DEF uuuid2_gen
  <2>4. CASE first <= frac /\ frac + 1 < Fractions
    <3>1. count = frac - first + 1 /\ \A u \in uuids : u[2] \in first .. frac
      BY <2>1, <2>4, <2>2
    <3>2. frac' = frac + 1 /\ first <= frac' /\ count' = frac' - first + 1
      BY <2>2, <2>4, <3>1
    <3>3. \A u \in uuids' : u[2] \in first .. frac'
      BY <2>2, <2>3, <3>1, <3>2
    <3>4. FractionsInARow'
      BY <3>2, <3>3 DEF FractionsInARow
    <3> QED BY <2>2, <3>1, <3>2, <3>4
  <2>5. CASE first <= frac /\ frac + 1 = Fractions
    <3>1. count = frac - first + 1 /\ \A u \in uuids : u[2] \in first .. frac
      BY <2>1, <2>5, <2>2
    <3>2. frac' = 1 /\ frac' < first /\ count' = Fractions - first + frac'
      BY <2>2, <2>5, <3>1
    <3>3. \A u \in uuids' : u[2] \in first .. Fractions - 1 \cup 1 .. frac'
      BY <2>2, <2>3, <2>5, <3>1, <3>2
    <3>4. FractionsInARow'
      BY <3>2, <3>3 DEF FractionsInARow
    <3> QED BY <2>2, <3>1, <3>2, <3>4
  <2>6. CASE ~(first <= frac)
    <3>1. /\ 1 <= frac /\ frac < first /\ count = Fractions - first + frac
          /\ \A u \in uuids : u[2] \in first .. Fractions - 1 \cup 1 .. frac
      BY <2>1, <2>6
    <3>2. /\ frac' = frac + 1 /\ frac' < first
          /\ count' = Fractions - first + frac'
      BY <2>2, <3>1
    <3>3. \A u \in uuids' : u[2] \in first .. Fractions - 1 \cup 1 .. frac'
      BY <2>2, <2>3, <3>1, <3>2
    <3>4. FractionsInARow'
      BY <2>2, <3>2, <3>3 DEF FractionsInARow
    <3> QED BY <2>2, <3>1, <3>2, <3>4
  <2> QED BY <2>2, <2>4, <2>5, <2>6
<1> QED BY <1>1, <1>2

\* uuuid2_gen never gives out a uuid it gave out before, whatever the number
\* of fractions, as long as they are not all spent.
THEOREM UuidsNeverTwice == Spec => []NeverTwice
<1>1. Init => UuidInv
  <2> SUFFICES ASSUME Init PROVE UuidInv
    OBVIOUS
  <2>1. TypeOK /\ FractionsInARow
    BY UuidAssumption DEF Init, TypeOK, FractionsInARow
  <2>2. IsFiniteSet(uuids) /\ Cardinality(uuids) = 0
    BY FS_EmptySet DEF Init
  <2> QED BY <2>1, <2>2 DEF Init, UuidInv, NeverTwice
<1>2. TypeOK' /\ UuidInv /\ [Next]_vars => UuidInv'
  <2> SUFFICES ASSUME TypeOK', UuidInv, [Next]_vars PROVE UuidInv'
    OBVIOUS
  <2>1. CASE uuuid2_gen
    <3>1. FractionsInARow' /\ \A u \in uuids : u[2] # frac'
      BY <2>1, RowGrows DEF UuidInv
    <3>2. <<sec', frac'>> \notin uuids
      BY <3>1
    <3>3. /\ IsFiniteSet(uuids \cup {<<sec', frac'>>})
          /\ Cardinality(uuids \cup {<<sec', frac'>>}) = Cardinality(uuids) + 1
      BY <3>2, FS_AddElement DEF UuidInv
    <3> QED BY <2>1, <3>1, <3>3 DEF UuidInv, NeverTwice, uuuid2_gen
  <2>2. CASE Clock
    BY <2>2 DEF UuidInv, FractionsInARow, NeverTwice, Clock
  <2>3. CASE UNCHANGED vars
    BY <2>3 DEF UuidInv, FractionsInARow, NeverTwice, vars
  <2> QED BY <2>1, <2>2, <2>3 DEF Next
<1>3. UuidInv => NeverTwice
  BY DEF UuidInv
<1> QED BY <1>1, <1>2, <1>3, UuidTypes, PTL DEF Spec

-----------------------------------------------------------------------------
(* Session nonces.                                                         *)

\* A sum that passes the range at most once.
LEMMA Wraps ==
    ASSUME NEW n \in Nat \ {0}, NEW a \in Nat, a < 2 * n
    PROVE  a % n = IF a < n THEN a ELSE a - n
<1>1. PICK q \in Int, r \in 0 .. n - 1 : r = a % n /\ a = n * q + r
  OBVIOUS
<1>2. q >= 2 => n * q >= 2 * n
  OBVIOUS
<1>3. q <= -1 => n * q <= -n
  OBVIOUS
<1>4. q \in {0, 1}
  BY <1>1, <1>2, <1>3
<1> QED BY <1>1, <1>4

\* Different serials make different nonces.
LEMMA NonceOfSerial ==
    ASSUME NEW s \in 0 .. SerialRange - 1, NEW t \in 0 .. SerialRange - 1,
           Packets!CalcNonce(s, Packets!PeerNonce) = Packets!CalcNonce(t, Packets!PeerNonce)
    PROVE  s = t
<1> DEFINE Low(i) == (SerialRange - 2 + i) % SerialRange
<1> USE SerialAssumption
<1>1. Low(s) = Low(t)
  <2>1. \A i : Packets!CalcNonce(i, Packets!PeerNonce).low = Low(i)
    BY DEF Packets!CalcNonce, Packets!PeerNonce
  <2> QED BY <2>1
<1>2. \A i \in 0 .. SerialRange - 1 :
        Low(i) = IF i < 2 THEN SerialRange - 2 + i ELSE i - 2
  <2> SUFFICES ASSUME NEW i \in 0 .. SerialRange - 1
               PROVE  Low(i) = IF i < 2 THEN SerialRange - 2 + i ELSE i - 2
    OBVIOUS
  <2>1. PICK a \in Nat : a = SerialRange - 2 + i
    OBVIOUS
  <2>2. a < 2 * SerialRange /\ SerialRange \in Nat \ {0}
    BY <2>1
  <2>3. a % SerialRange = IF a < SerialRange THEN a ELSE a - SerialRange
    BY <2>2, Wraps
  <2> QED BY <2>1, <2>3
<1> HIDE DEF Low
<1> QED BY <1>1, <1>2

\* The serial after s.
LEMMA NextSerial ==
    ASSUME NEW s \in 0 .. SerialRange - 1
    PROVE  (s + 1) % SerialRange = IF s + 1 = SerialRange THEN 0 ELSE s + 1
<1> USE SerialAssumption
<1>1. PICK a \in Nat : a = s + 1
  OBVIOUS
<1>2. a < 2 * SerialRange /\ SerialRange \in Nat \ {0}
  BY <1>1
<1>3. a % SerialRange = IF a < SerialRange THEN a ELSE a - SerialRange
  BY <1>2, Wraps
<1> QED BY <1>1, <1>3

\* Some fields in a row.
InARow(m) == \E S : m \in [fields : Seq(S)]

\* An encoded packet is not empty.
LEMMA EncodedSomething ==
    ASSUME NEW p, NEW s, NEW n, p.type \in Packets!PacketType
    PROVE  /\ [fields |-> Packets!Buffer(Packets!Fields(p, s), n)] # Packets!Nothing
           /\ InARow([fields |-> Packets!Buffer(Packets!Fields(p, s), n)])
<1> DEFINE H == Packets!HeadFields(p, s)  B == Packets!BodyFields(p, s)  F == H \o B
<1>1. \E a, b, c, d, e, f, g : H = <<a, b, c, d, e, f, g>>
  BY DEF Packets!HeadFields
<1>2. B = <<>> \/ (\E a : B = <<a>>) \/ (\E a, b : B = <<a, b>>)
  BY DEF Packets!BodyFields, Packets!PacketType
<1>3. \E S : H \in Seq(S) /\ B \in Seq(S) /\ Len(H) = 7
  <2>1. PICK a, b, c, d, e, f, g : H = <<a, b, c, d, e, f, g>>
    BY <1>1
  <2>2. PICK k, l : B = <<>> \/ B = <<k>> \/ B = <<k, l>>
    BY <1>2
  <2> DEFINE S == {a, b, c, d, e, f, g, k, l}
  <2>3. <<a, b, c, d, e, f, g>> \in Seq(S) /\ Len(<<a, b, c, d, e, f, g>>) = 7
    OBVIOUS
  <2>4. <<>> \in Seq(S) /\ <<k>> \in Seq(S) /\ <<k, l>> \in Seq(S)
    OBVIOUS
  <2> QED BY <2>1, <2>2, <2>3, <2>4
<1> HIDE DEF H, B
<1>4. PICK S : H \in Seq(S) /\ B \in Seq(S) /\ Len(H) = 7
  BY <1>3
<1>5. F \in Seq(S) /\ Len(F) # 0
  BY <1>4, ConcatProperties
<1>6. \A x : Append(F, x) # <<>>
  BY <1>5
<1>7. Packets!Fields(p, s) = F
  BY DEF Packets!Fields, H, B
<1> HIDE DEF F
<1>8. Packets!Buffer(F, n) # <<>>
  BY <1>5, <1>6 DEF Packets!Buffer
<1>9. \E T : Packets!Buffer(F, n) \in Seq(T)
  <2>1. PICK x : x = Packets!Field("NOOP", n - Packets!Width(F), 0)
    OBVIOUS
  <2>2. F \in Seq(S \cup {x}) /\ Append(F, x) \in Seq(S \cup {x})
    BY <1>5
  <2>3. Packets!Buffer(F, n) \in {F, Append(F, x)}
    BY <2>1 DEF Packets!Buffer
  <2> QED BY <2>2, <2>3
<1> QED BY <1>7, <1>8, <1>9 DEF Packets!Nothing, InARow

\* It is none the less with two of its fields exchanged.
LEMMA ReorderedSomething ==
    ASSUME InARow(msg), Packets!Reorder
    PROVE  msg' # Packets!Nothing /\ InARow(msg')
<1>1. PICK S : msg \in [fields : Seq(S)]
  BY DEF InARow
<1>2. PICK q : q = msg.fields /\ q \in Seq(S)
  BY <1>1
<1>3. PICK i \in 1 .. Len(q) - 1 :
        msg' = [fields |-> [q EXCEPT ![i] = q[i + 1], ![i + 1] = q[i]]]
  BY <1>2 DEF Packets!Reorder
<1>4. PICK w : w = [q EXCEPT ![i] = q[i + 1], ![i + 1] = q[i]]
  OBVIOUS
<1>5. w \in Seq(S) /\ Len(w) = Len(q) /\ Len(q) # 0
  <2>1. i \in 1 .. Len(q) /\ i + 1 \in 1 .. Len(q) /\ Len(q) # 0
    BY <1>2, <1>3
  <2>2. q[i] \in S /\ q[i + 1] \in S
    BY <1>2, <2>1
  <2> QED BY <1>2, <1>4, <2>1, <2>2
<1> QED BY <1>3, <1>4, <1>5 DEF Packets!Nothing, InARow

\* What is inductive: a packet is made once and encoded once, and the serials
\* spent lie in a row.
PacketInv ==
    /\ serial \in 0 .. SerialRange - 1 /\ made \in 0 .. MaxPackets
    /\ cp = Packets!Nothing \/ \E p \in Packets!Packet : cp = [fields |-> p]
    /\ InARow(msg) /\ Packets!SerialsInARow

LEMMA PacketTypes == \A p \in Packets!Packet : p.type \in Packets!PacketType
BY DEF Packets!Packet, Packets!PacketType

LEMMA NothingInARow == InARow(Packets!Nothing)
BY <<>> \in Seq({}) DEF InARow, Packets!Nothing

LEMMA PacketInit == ASSUME Packets!Init PROVE PacketInv
BY SerialAssumption, NothingInARow DEF Packets!Init, PacketInv, Packets!SerialsInARow

\* A sealed packet takes a serial that none of the nonces used was made from.
LEMMA SealsAnew ==
    ASSUME PacketInv, cp # Packets!Nothing, msg = Packets!Nothing, msg' # Packets!Nothing,
           UNCHANGED <<cp, made>>, serial' = (serial + 1) % SerialRange,
           used' = used \cup {Packets!CalcNonce(serial', Packets!PeerNonce)}
    PROVE  Packets!SerialsInARow' /\ serial' \in 0 .. SerialRange - 1
           /\ Packets!CalcNonce(serial', Packets!PeerNonce) \notin used
<1> DEFINE N(s) == Packets!CalcNonce(s, Packets!PeerNonce)
<1> USE SerialAssumption, SessionAssumption
<1>1. serial' = (IF serial + 1 = SerialRange THEN 0 ELSE serial + 1)
      /\ serial' \in 0 .. SerialRange - 1
  BY NextSerial DEF PacketInv
<1>2. N(serial)' = Packets!CalcNonce(serial', Packets!PeerNonce)
  BY DEF Packets!CalcNonce, Packets!PeerNonce
<1>3. \A s, t \in 0 .. SerialRange - 1 : N(s) = N(t) => s = t
  BY NonceOfSerial
<1>4. used' = used \cup {N(serial')}
  OBVIOUS
<1>5. CASE /\ FirstSerial <= serial /\ serial - FirstSerial <= made - 1
           /\ \A n \in used : \E s \in FirstSerial + 1 .. serial : n = N(s)
  <2>1. \A n \in used' : n = N(serial') \/ \E s \in FirstSerial + 1 .. serial : n = N(s)
    BY <1>4, <1>5
  <2> HIDE DEF N
  <2>2. N(serial') \notin used
    BY <1>1, <1>3, <1>5 DEF PacketInv
  <2>3. CASE serial + 1 = SerialRange
    <3>1. serial' = 0 /\ serial' + SerialRange - FirstSerial <= made'
      BY <1>1, <1>5, <2>3 DEF PacketInv
    <3>2. \A n \in used' : \E s \in FirstSerial + 1 .. SerialRange - 1 \cup 0 .. serial' : n = N(s)
      BY <2>1, <2>3, <3>1 DEF PacketInv
    <3> QED BY <1>1, <2>2, <3>1, <3>2 DEF Packets!SerialsInARow, N
  <2>4. CASE serial + 1 # SerialRange
    <3>1. serial' = serial + 1 /\ FirstSerial <= serial' /\ serial' - FirstSerial <= made'
      BY <1>1, <1>5, <2>4 DEF PacketInv
    <3>2. /\ serial' \in FirstSerial + 1 .. serial'
          /\ \A s \in FirstSerial + 1 .. serial : s \in FirstSerial + 1 .. serial'
      BY <1>1, <1>5, <3>1 DEF PacketInv
    <3>3. \A n \in used' : \E s \in FirstSerial + 1 .. serial' : n = N(s)
      BY <2>1, <3>2
    <3> QED BY <1>1, <2>2, <3>1, <3>3 DEF Packets!SerialsInARow, N
  <2> QED BY <2>3, <2>4
<1>6. CASE /\ serial <= FirstSerial /\ serial + SerialRange - FirstSerial <= made - 1
           /\ \A n \in used : \E s \in FirstSerial + 1 .. SerialRange - 1 \cup 0 .. serial :
                n = N(s)
  <2>1. \A n \in used' : \/ n = N(serial')
                        \/ \E s \in FirstSerial + 1 .. SerialRange - 1 \cup 0 .. serial : n = N(s)
    BY <1>4, <1>6
  <2> HIDE DEF N
  <2>2. serial < FirstSerial /\ serial' = serial + 1 /\ serial' <= FirstSerial
        /\ serial' + SerialRange - FirstSerial <= made'
    BY <1>1, <1>6 DEF PacketInv
  <2>3. N(serial') \notin used
    BY <1>1, <1>3, <1>6, <2>2 DEF PacketInv
  <2>4. \A n \in used' : \E s \in FirstSerial + 1 .. SerialRange - 1 \cup 0 .. serial' : n = N(s)
    BY <2>1, <2>2 DEF PacketInv
  <2> QED BY <1>1, <2>2, <2>3, <2>4 DEF Packets!SerialsInARow, N
<1> QED BY <1>5, <1>6 DEF PacketInv, Packets!SerialsInARow

LEMMA PacketStep ==
    ASSUME PacketInv, Packets!Next
    PROVE  PacketInv' /\ Packets!NonceIsNew
<1> USE SerialAssumption
<1>1. CASE Packets!Make
  <2>1. made' = made + 1 /\ made' \in 0 .. MaxPackets /\ UNCHANGED <<serial, msg, used>>
    BY <1>1 DEF Packets!Make, PacketInv
  <2>2. \E p \in Packets!Packet : cp' = [fields |-> p]
    BY <1>1 DEF Packets!Make
  <2>3. Packets!SerialsInARow'
    BY <2>1, <1>1 DEF PacketInv, Packets!SerialsInARow, Packets!Make
  <2>4. Packets!NonceIsNew
    BY <2>1 DEF Packets!NonceIsNew
  <2> QED BY <2>1, <2>2, <2>3, <2>4 DEF PacketInv
<1>2. CASE Packets!Encode
  <2>1. PICK p \in Packets!Packet : cp = [fields |-> p]
    BY <1>2 DEF Packets!Encode, PacketInv
  <2>2. cp.fields.type \in Packets!PacketType /\ cp.fields = p
    BY <2>1, PacketTypes
  <2>3. msg' # Packets!Nothing /\ InARow(msg')
    BY <1>2, <2>2, EncodedSomething DEF Packets!Encode
  <2>4. CASE cp.fields.type = "DATA"
    <3>1. /\ serial' = (serial + 1) % SerialRange
          /\ used' = used \cup {Packets!CalcNonce(serial', Packets!PeerNonce)}
      BY <1>2, <2>4 DEF Packets!Encode, Packets!SerialOf
    <3>2. /\ Packets!SerialsInARow' /\ serial' \in 0 .. SerialRange - 1
          /\ Packets!CalcNonce(serial', Packets!PeerNonce) \notin used
      BY <1>2, <2>3, <3>1, SealsAnew DEF Packets!Encode
    <3>3. UNCHANGED <<cp, made>>
      BY <1>2 DEF Packets!Encode
    <3> QED BY <2>3, <3>2, <3>3 DEF PacketInv, Packets!NonceIsNew
  <2>5. CASE cp.fields.type # "DATA"
    <3>1. UNCHANGED <<serial, used, cp, made>>
      BY <1>2, <2>5 DEF Packets!Encode
    <3>2. Packets!SerialsInARow'
      BY <1>2, <2>3, <3>1 DEF PacketInv, Packets!SerialsInARow, Packets!Encode
    <3> QED BY <2>3, <3>1, <3>2 DEF PacketInv, Packets!NonceIsNew
  <2> QED BY <2>4, <2>5
<1>3. CASE Packets!Reorder
  <2>1. msg # Packets!Nothing /\ UNCHANGED <<cp, serial, made, used>>
    BY <1>3 DEF Packets!Reorder
  <2>2. msg' # Packets!Nothing /\ InARow(msg')
    BY <1>3, ReorderedSomething DEF PacketInv
  <2>3. Packets!SerialsInARow'
    BY <2>1, <2>2 DEF PacketInv, Packets!SerialsInARow
  <2> QED BY <2>1, <2>2, <2>3 DEF PacketInv, Packets!NonceIsNew
<1>4. CASE Packets!Decode
  BY <1>4 DEF Packets!Decode, PacketInv, Packets!SerialsInARow, Packets!NonceIsNew
<1>5. CASE Packets!Delete
  <2>1. cp' = Packets!Nothing /\ msg' = Packets!Nothing /\ UNCHANGED <<serial, made, used>>
    BY <1>5 DEF Packets!Delete
  <2>2. Packets!SerialsInARow'
    BY <2>1 DEF PacketInv, Packets!SerialsInARow
  <2> QED BY <2>1, <2>2, NothingInARow DEF PacketInv, Packets!NonceIsNew
<1> QED BY <1>1, <1>2, <1>3, <1>4, <1>5 DEF Packets!Next

\* chatPacket_calcNonce never gives a session nonce out again before the
\* serials of a session are spent, whatever range they have, wherever they
\* start, and wherever they wrap round.
THEOREM NoncesAllDiffer == PartsSpec => NoncesDiffer
<1> DEFINE Inv == part = "packets" => PacketInv
<1>1. PartsInit => Inv
  BY PacketInit DEF PartsInit
<1>2. Inv /\ [PartsNext]_partsVars
        => Inv' /\ [part = "packets" => Packets!NonceIsNew]_packetVars
  <2> SUFFICES ASSUME Inv, [PartsNext]_partsVars
               PROVE  Inv' /\ [part = "packets" => Packets!NonceIsNew]_packetVars
    OBVIOUS
  <2>1. UNCHANGED part
    BY DEF PartsNext, partsVars
  <2>2. CASE part = "packets"
    <3>1. Packets!Next \/ UNCHANGED packetVars
      BY <2>2 DEF PartsNext, partsVars, Streams
    <3>2. CASE Packets!Next
      BY <2>1, <2>2, <3>2, PacketStep
    <3>3. CASE UNCHANGED packetVars
      BY <2>1, <2>2, <3>3 DEF packetVars, PacketInv, Packets!SerialsInARow
    <3> QED BY <3>1, <3>2, <3>3
  <2> QED BY <2>1, <2>2
<1> QED BY <1>1, <1>2, PTL DEF PartsSpec, NoncesDiffer

-----------------------------------------------------------------------------
(* Streams whose controllers are killed and whose connections are reset.   *)

\* What is on its way in a stream.
Vals(s) == {s[j] : j \in DOMAIN s}

LEMMA ValsOf ==
    ASSUME NEW S, NEW s \in Seq(S)
    PROVE  /\ Vals(<<>>) = {}
           /\ \A x \in S : Vals(Append(s, x)) = Vals(s) \cup {x}
           /\ s # <<>> => /\ Head(s) \in Vals(s) /\ Vals(Tail(s)) \subseteq Vals(s)
                         /\ Vals(s) \subseteq {Head(s)} \cup Vals(Tail(s))
<1>1. Vals(<<>>) = {}
  BY DEF Vals
<1>2. ASSUME NEW x \in S PROVE Vals(Append(s, x)) = Vals(s) \cup {x}
  BY AppendProperties DEF Vals
<1>3. ASSUME s # <<>>
      PROVE  /\ Head(s) \in Vals(s) /\ Vals(Tail(s)) \subseteq Vals(s)
             /\ Vals(s) \subseteq {Head(s)} \cup Vals(Tail(s))
  <2>1. /\ Len(s) \in Nat \ {0} /\ Head(s) = s[1]
        /\ Tail(s) \in Seq(S) /\ Len(Tail(s)) = Len(s) - 1
        /\ \A i \in 1 .. Len(Tail(s)) : Tail(s)[i] = s[i + 1]
    BY <1>3, HeadTailProperties
  <2>2. \A i \in 1 .. Len(Tail(s)) : i + 1 \in 1 .. Len(s)
    BY <2>1
  <2>3. ASSUME NEW i \in 1 .. Len(s), i # 1 PROVE s[i] \in Vals(Tail(s))
    <3>1. i - 1 \in 1 .. Len(Tail(s)) /\ Tail(s)[i - 1] = s[i]
      BY <2>1, <2>3
    <3>2. DOMAIN Tail(s) = 1 .. Len(Tail(s))
      BY <2>1
    <3>3. \A j \in DOMAIN Tail(s) : Tail(s)[j] \in Vals(Tail(s))
      BY DEF Vals
    <3> QED BY <3>1, <3>2, <3>3
  <2>4. Vals(s) \subseteq {Head(s)} \cup Vals(Tail(s))
    BY <2>1, <2>3 DEF Vals
  <2> QED BY <2>1, <2>2, <2>4 DEF Vals
<1> QED BY <1>1, <1>2, <1>3

\* What may become of connection k: nothing opens again, what is reset stays
\* so, and the streams carry what they carried, and besides it only R and A.
Follows(k, q, R, A) ==
    /\ q \in Killed!Connection /\ q.by = k.by
    /\ q.dOpen => k.dOpen
    /\ k.reset => q.reset
    /\ Vals(q.req) \subseteq Vals(k.req) \cup R
    /\ Vals(q.ans) \subseteq Vals(k.ans) \cup A

LEMMA FollowsSelf == \A k \in Killed!Connection : \A R, A : Follows(k, k, R, A)
BY DEF Follows

LEMMA FollowsOn ==
    ASSUME NEW k, NEW q, NEW r, NEW R, NEW A, NEW R2, NEW A2,
           Follows(k, q, R, A), Follows(q, r, R2, A2)
    PROVE  Follows(k, r, R \cup R2, A \cup A2)
BY DEF Follows

LEMMA ResetFollows ==
    ASSUME NEW k \in Killed!Connection
    PROVE  Follows(k, Killed!Reset(k), {}, {}) /\ Killed!Reset(k).reset
<1>1. Vals(<<>>) = {}
  BY DEF Vals
<1>2. Killed!Reset(k) \in Killed!Connection
  <2>1. <<>> \in Seq(Killed!Request) /\ <<>> \in Seq(Killed!Answer)
    BY EmptySeq
  <2> QED BY <2>1 DEF Killed!Reset, Killed!Connection
<1>3. Killed!Reset(k).by = k.by /\ Killed!Reset(k).dOpen = k.dOpen
  BY DEF Killed!Reset, Killed!Connection
<1>4. Killed!Reset(k).reset
  BY DEF Killed!Reset, Killed!Connection
<1>5. Killed!Reset(k).req = <<>>
  BY DEF Killed!Reset, Killed!Connection
<1>6. Killed!Reset(k).ans = <<>>
  BY DEF Killed!Reset, Killed!Connection
<1> QED BY <1>1, <1>2, <1>3, <1>4, <1>5, <1>6 DEF Follows

LEMMA CloseCFollows ==
    ASSUME NEW k \in Killed!Connection
    PROVE  Follows(k, Killed!CloseC(k), {}, {})
<1> DEFINE q == [k EXCEPT !.cOpen = FALSE]
<1>1. q \in Killed!Connection
  BY DEF Killed!Connection
<1>2. q.by = k.by /\ q.dOpen = k.dOpen /\ q.reset = k.reset /\ q.req = k.req /\ q.ans = k.ans
  BY DEF Killed!Connection
<1>3. Follows(k, q, {}, {})
  BY <1>1, <1>2 DEF Follows
<1> HIDE DEF q
<1>4. Follows(k, Killed!Reset(q), {}, {})
  BY <1>1, <1>3, ResetFollows, FollowsOn
<1> QED BY <1>3, <1>4 DEF Killed!CloseC, q

LEMMA CloseDFollows ==
    ASSUME NEW k \in Killed!Connection
    PROVE  Follows(k, Killed!CloseD(k), {}, {}) /\ ~Killed!CloseD(k).dOpen
<1> DEFINE q == [k EXCEPT !.dOpen = FALSE]
<1>1. q \in Killed!Connection
  BY DEF Killed!Connection
<1>2. q.by = k.by /\ ~q.dOpen /\ q.reset = k.reset /\ q.req = k.req /\ q.ans = k.ans
  BY DEF Killed!Connection
<1>3. Follows(k, q, {}, {})
  BY <1>1, <1>2 DEF Follows
<1> DEFINE r == [q EXCEPT !.lingers = k.cOpen /\ ~k.reset]
<1>4. r \in Killed!Connection
  BY <1>1 DEF Killed!Connection
<1>5. r.by = k.by /\ ~r.dOpen /\ r.reset = k.reset /\ r.req = k.req /\ r.ans = k.ans
  BY <1>1, <1>2 DEF Killed!Connection
<1>6. Follows(k, r, {}, {})
  BY <1>4, <1>5 DEF Follows
<1> HIDE DEF q, r
<1>7. Follows(k, Killed!Reset(q), {}, {}) /\ ~Killed!Reset(q).dOpen
  BY <1>1, <1>2, <1>3, ResetFollows, FollowsOn DEF Follows
<1> QED BY <1>5, <1>6, <1>7 DEF Killed!CloseD, q, r

LEMMA WriteAnsFollows ==
    ASSUME NEW k \in Killed!Connection, NEW m \in Killed!Answer
    PROVE  Follows(k, Killed!WriteAns(k, m), {}, {m})
<1> DEFINE q == [k EXCEPT !.ans = Append(@, m)]
<1>1. q \in Killed!Connection
  <2>1. k.ans \in Seq(Killed!Answer)
    BY DEF Killed!Connection
  <2>2. PICK s \in Seq(Killed!Answer) : s = Append(k.ans, m)
    BY <2>1, AppendProperties
  <2>3. [k EXCEPT !.ans = s] \in Killed!Connection
    BY DEF Killed!Connection
  <2> QED BY <2>2, <2>3
<1>2. q.by = k.by /\ q.dOpen = k.dOpen /\ q.reset = k.reset /\ q.req = k.req
  BY DEF Killed!Connection
<1>3. k.ans \in Seq(Killed!Answer) /\ q.ans = Append(k.ans, m)
  BY DEF Killed!Connection
<1>4. Vals(q.ans) = Vals(k.ans) \cup {m}
  BY <1>3, ValsOf
<1>5. Follows(k, q, {}, {m})
  BY <1>1, <1>2, <1>4 DEF Follows
<1> HIDE DEF q
<1>6. Follows(k, Killed!Reset(k), {}, {m}) /\ Follows(k, k, {}, {m})
  BY ResetFollows DEF Follows
<1> QED BY <1>5, <1>6 DEF Killed!WriteAns, q

LEMMA WriteReqFollows ==
    ASSUME NEW k \in Killed!Connection, NEW m \in Killed!Request
    PROVE  Follows(k, Killed!WriteReq(k, m), {m}, {})
<1> DEFINE q == [k EXCEPT !.req = Append(@, m)]
<1>1. q \in Killed!Connection
  <2>1. k.req \in Seq(Killed!Request)
    BY DEF Killed!Connection
  <2>2. PICK s \in Seq(Killed!Request) : s = Append(k.req, m)
    BY <2>1, AppendProperties
  <2>3. [k EXCEPT !.req = s] \in Killed!Connection
    BY DEF Killed!Connection
  <2> QED BY <2>2, <2>3
<1>2. q.by = k.by /\ q.dOpen = k.dOpen /\ q.reset = k.reset /\ q.ans = k.ans
  BY DEF Killed!Connection
<1>3. k.req \in Seq(Killed!Request) /\ q.req = Append(k.req, m)
  BY DEF Killed!Connection
<1>4. Vals(q.req) = Vals(k.req) \cup {m}
  BY <1>3, ValsOf
<1>5. Follows(k, q, {m}, {})
  BY <1>1, <1>2, <1>4 DEF Follows
<1> HIDE DEF q
<1>6. Follows(k, Killed!Reset(k), {m}, {})
  BY ResetFollows DEF Follows
<1> QED BY <1>5, <1>6 DEF Killed!WriteReq, q

\* The first request or answer is read.
LEMMA TakenFollows ==
    ASSUME NEW k \in Killed!Connection
    PROVE  /\ k.req # <<>> => Follows(k, [k EXCEPT !.req = Tail(@)], {}, {})
                              /\ Head(k.req) \in Vals(k.req) /\ Head(k.req) \in Killed!Request
           /\ k.ans # <<>> => Follows(k, [k EXCEPT !.ans = Tail(@)], {}, {})
                              /\ Head(k.ans) \in Vals(k.ans) /\ Head(k.ans) \in Killed!Answer
<1>1. k.req \in Seq(Killed!Request) /\ k.ans \in Seq(Killed!Answer)
  BY DEF Killed!Connection
<1>2. ASSUME k.req # <<>>
      PROVE  Follows(k, [k EXCEPT !.req = Tail(@)], {}, {})
             /\ Head(k.req) \in Vals(k.req) /\ Head(k.req) \in Killed!Request
  <2> DEFINE q == [k EXCEPT !.req = Tail(@)]
  <2>1. /\ Tail(k.req) \in Seq(Killed!Request) /\ Head(k.req) \in Killed!Request
        /\ Head(k.req) \in Vals(k.req) /\ Vals(Tail(k.req)) \subseteq Vals(k.req)
    BY <1>1, <1>2, ValsOf, HeadTailProperties
  <2>2. q \in Killed!Connection
    BY <2>1 DEF Killed!Connection
  <2>3. q.by = k.by /\ q.dOpen = k.dOpen /\ q.reset = k.reset /\ q.ans = k.ans
        /\ q.req = Tail(k.req)
    BY DEF Killed!Connection
  <2> QED BY <2>1, <2>2, <2>3 DEF Follows
<1>3. ASSUME k.ans # <<>>
      PROVE  Follows(k, [k EXCEPT !.ans = Tail(@)], {}, {})
             /\ Head(k.ans) \in Vals(k.ans) /\ Head(k.ans) \in Killed!Answer
  <2> DEFINE q == [k EXCEPT !.ans = Tail(@)]
  <2>1. /\ Tail(k.ans) \in Seq(Killed!Answer) /\ Head(k.ans) \in Killed!Answer
        /\ Head(k.ans) \in Vals(k.ans) /\ Vals(Tail(k.ans)) \subseteq Vals(k.ans)
    BY <1>1, <1>3, ValsOf, HeadTailProperties
  <2>2. q \in Killed!Connection
    BY <2>1 DEF Killed!Connection
  <2>3. q.by = k.by /\ q.dOpen = k.dOpen /\ q.reset = k.reset /\ q.req = k.req
        /\ q.ans = Tail(k.ans)
    BY DEF Killed!Connection
  <2> QED BY <2>1, <2>2, <2>3 DEF Follows
<1> QED BY <1>2, <1>3

\* The types, and that the sockets held are connections.
KilledTypes == Killed!TypeOK /\ Killed!SocketsHeld

\* A connection of a sequence is replaced.
LEMMA Replaced ==
    ASSUME NEW s \in Seq(Killed!Connection), NEW i \in DOMAIN s, NEW q \in Killed!Connection,
           NEW t, t = [s EXCEPT ![i] = q]
    PROVE  /\ t \in Seq(Killed!Connection) /\ Len(t) = Len(s) /\ DOMAIN t = DOMAIN s
           /\ t[i] = q /\ \A j \in DOMAIN s : j # i => t[j] = s[j]
<1>1. i \in 1 .. Len(s)
  OBVIOUS
<1>2. /\ t \in Seq(Killed!Connection) /\ Len(t) = Len(s)
      /\ \A j \in 1 .. Len(s) : t[j] = IF j = i THEN q ELSE s[j]
  BY <1>1, ExceptSeq
<1> QED BY <1>1, <1>2

\* What most steps do to the connections: each goes on, with requests of its
\* controller's at most.
AllFollow(cs) ==
    /\ cs \in Seq(Killed!Connection) /\ Len(cs) = Len(conn)
    /\ \A i \in DOMAIN conn : Follows(conn[i], cs[i], {ctl[conn[i].by].msg}, {})

LEMMA AllFollowSelf == ASSUME KilledTypes PROVE AllFollow(conn)
<1>1. \A i \in DOMAIN conn : conn[i] \in Killed!Connection
  BY DEF KilledTypes, Killed!TypeOK
<1> QED BY <1>1, FollowsSelf DEF AllFollow, KilledTypes, Killed!TypeOK

LEMMA OneFollows ==
    ASSUME KilledTypes, NEW i \in DOMAIN conn, NEW q,
           Follows(conn[i], q, {ctl[conn[i].by].msg}, {})
    PROVE  AllFollow([conn EXCEPT ![i] = q])
<1>1. conn \in Seq(Killed!Connection) /\ q \in Killed!Connection
  BY DEF KilledTypes, Killed!TypeOK, Follows
<1> DEFINE t == [conn EXCEPT ![i] = q]
<1>2. /\ t \in Seq(Killed!Connection) /\ Len(t) = Len(conn) /\ DOMAIN t = DOMAIN conn
      /\ t[i] = q /\ \A j \in DOMAIN conn : j # i => t[j] = conn[j]
  BY <1>1, Replaced
<1> HIDE DEF t
<1>3. \A j \in DOMAIN conn : Follows(conn[j], conn[j], {ctl[conn[j].by].msg}, {})
  BY AllFollowSelf DEF AllFollow
<1>4. AllFollow(t)
  BY <1>2, <1>3 DEF AllFollow
<1> QED BY <1>4 DEF t

LEMMA CloseSocketFollows ==
    ASSUME KilledTypes, NEW c \in Killables
    PROVE  AllFollow(Killed!CloseSocketOf(c, conn))
<1>1. CASE ctl[c].socket \in Killed!Conn
  <2> DEFINE i == ctl[c].socket
  <2>1. i \in DOMAIN conn /\ conn[i] \in Killed!Connection
    BY <1>1 DEF KilledTypes, Killed!TypeOK, Killed!SocketsHeld
  <2>2. Follows(conn[i], Killed!CloseC(conn[i]), {ctl[conn[i].by].msg}, {})
    BY <2>1, CloseCFollows DEF Follows
  <2> HIDE DEF i
  <2>3. AllFollow([conn EXCEPT ![i] = Killed!CloseC(conn[i])])
    BY <2>1, <2>2, OneFollows
  <2> QED BY <1>1, <2>3 DEF Killed!CloseSocketOf, i
<1>2. CASE ctl[c].socket \notin Killed!Conn
  BY <1>2, AllFollowSelf DEF Killed!CloseSocketOf
<1> QED BY <1>1, <1>2

LEMMA CloseQueueFollows ==
    ASSUME KilledTypes
    PROVE  /\ AllFollow(Killed!CloseQueue(conn))
           /\ \A i \in DOMAIN conn : i \in Killed!Waiting => Killed!CloseQueue(conn)[i].reset
<1> DEFINE q(i) == [conn[i] EXCEPT !.dOpen = FALSE]  cs == Killed!CloseQueue(conn)
           Held(i) == \E j \in DOMAIN queue : queue[j] = i
<1>1. conn \in Seq(Killed!Connection) /\ \A i \in DOMAIN conn : conn[i] \in Killed!Connection
  BY DEF KilledTypes, Killed!TypeOK
<1>2. ASSUME NEW i \in DOMAIN conn
      PROVE  Follows(conn[i], Killed!Reset(q(i)), {}, {}) /\ Killed!Reset(q(i)).reset
  <2>1. q(i) \in Killed!Connection /\ Follows(conn[i], q(i), {}, {})
    <3>1. q(i) \in Killed!Connection
      BY <1>1 DEF Killed!Connection
    <3>2. /\ q(i).by = conn[i].by /\ ~q(i).dOpen /\ q(i).reset = conn[i].reset
          /\ q(i).req = conn[i].req /\ q(i).ans = conn[i].ans
      BY <1>1 DEF Killed!Connection
    <3> HIDE DEF q
    <3> QED BY <3>1, <3>2 DEF Follows
  <2> HIDE DEF q
  <2> QED BY <2>1, ResetFollows, FollowsOn
<1>3. cs = [i \in DOMAIN conn |-> IF Held(i) THEN Killed!Reset(q(i)) ELSE conn[i]]
  BY DEF Killed!CloseQueue
<1> HIDE DEF cs, q, Held
<1>4. /\ \A i \in DOMAIN conn : Follows(conn[i], cs[i], {}, {})
      /\ \A i \in DOMAIN conn : Held(i) => cs[i].reset
  BY <1>1, <1>2, <1>3, FollowsSelf
<1>5. cs \in Seq(Killed!Connection) /\ Len(cs) = Len(conn)
  <2>1. Len(conn) \in Nat /\ DOMAIN conn = 1 .. Len(conn)
    BY <1>1
  <2>2. \A i \in 1 .. Len(conn) : cs[i] \in Killed!Connection
    BY <1>4, <2>1 DEF Follows
  <2>3. cs \in [1 .. Len(conn) -> Killed!Connection]
    BY <1>3, <2>1, <2>2
  <2> QED BY <2>1, <2>3
<1>6. \A i \in DOMAIN conn : Follows(conn[i], cs[i], {ctl[conn[i].by].msg}, {})
  BY <1>4 DEF Follows
<1>7. \A i \in DOMAIN conn : i \in Killed!Waiting => Held(i)
  BY DEF Killed!Waiting, Held
<1> QED BY <1>4, <1>5, <1>6, <1>7 DEF AllFollow, cs

\* After a step each connection went on, and new ones are empty.
ConnsGoOn ==
    /\ conn' \in Seq(Killed!Connection) /\ Len(conn) <= Len(conn') /\ Len(conn') <= MaxConn
    /\ \A i \in DOMAIN conn : Follows(conn[i], conn'[i], {ctl[conn[i].by].msg}, {})
    /\ \A i \in DOMAIN conn' \ DOMAIN conn :
         conn'[i].by \in Killables /\ conn'[i].req = <<>> /\ conn'[i].ans = <<>>

LEMMA GoOnWith ==
    ASSUME KilledTypes, AllFollow(conn')
    PROVE  ConnsGoOn /\ DOMAIN conn' = DOMAIN conn
<1>1. Len(conn) <= MaxConn /\ Len(conn) \in Nat /\ DOMAIN conn = 1 .. Len(conn)
  BY DEF KilledTypes, Killed!TypeOK
<1>2. /\ conn' \in Seq(Killed!Connection) /\ Len(conn') = Len(conn)
      /\ \A i \in DOMAIN conn : Follows(conn[i], conn'[i], {ctl[conn[i].by].msg}, {})
  BY DEF AllFollow
<1>3. DOMAIN conn' = DOMAIN conn
  BY <1>1, <1>2
<1> QED BY <1>1, <1>2, <1>3 DEF ConnsGoOn

LEMMA GoOnOpened ==
    ASSUME KilledTypes, NEW cs, AllFollow(cs), NEW c \in Killables, Len(conn) < MaxConn,
           conn' = Append(cs, Killed!Opened(c))
    PROVE  /\ ConnsGoOn /\ Len(conn') = Len(conn) + 1
           /\ conn'[Len(conn) + 1] = Killed!Opened(c)
           /\ Len(conn) + 1 \in Killed!Conn
<1> USE StreamsAssumption
<1>1. conn \in Seq(Killed!Connection) /\ Len(conn) \in Nat /\ DOMAIN conn = 1 .. Len(conn)
  BY DEF KilledTypes, Killed!TypeOK
<1>2. Killed!Opened(c) \in Killed!Connection
  <2>1. <<>> \in Seq(Killed!Request) /\ <<>> \in Seq(Killed!Answer)
    BY EmptySeq
  <2> QED BY <2>1 DEF Killed!Opened, Killed!Connection
<1>3. /\ conn' \in Seq(Killed!Connection) /\ Len(conn') = Len(conn) + 1
      /\ \A i \in 1 .. Len(conn) : conn'[i] = cs[i]
      /\ conn'[Len(conn) + 1] = Killed!Opened(c)
  <2>1. cs \in Seq(Killed!Connection) /\ Len(cs) = Len(conn)
    BY DEF AllFollow
  <2> QED BY <1>2, <2>1, AppendProperties
<1>4. \A i \in DOMAIN conn : Follows(conn[i], conn'[i], {ctl[conn[i].by].msg}, {})
  BY <1>1, <1>3 DEF AllFollow
<1>5. \A i \in DOMAIN conn' \ DOMAIN conn : i = Len(conn) + 1
  BY <1>1, <1>3
<1>6. /\ Killed!Opened(c).by = c /\ Killed!Opened(c).req = <<>>
      /\ Killed!Opened(c).ans = <<>>
  BY DEF Killed!Opened
<1>7. Len(conn) <= Len(conn') /\ Len(conn') <= MaxConn /\ Len(conn) + 1 \in Killed!Conn
  BY <1>1, <1>3 DEF Killed!Conn
<1>8. \A i \in DOMAIN conn' \ DOMAIN conn :
        conn'[i].by \in Killables /\ conn'[i].req = <<>> /\ conn'[i].ans = <<>>
  BY <1>3, <1>5, <1>6
<1> QED BY <1>3, <1>4, <1>7, <1>8 DEF ConnsGoOn

\* All that the types need of a step: nothing opens again, nothing changes
\* hands.
ConnsMove ==
    /\ conn' \in Seq(Killed!Connection) /\ Len(conn) <= Len(conn') /\ Len(conn') <= MaxConn
    /\ \A i \in DOMAIN conn : /\ conn'[i].by = conn[i].by
                              /\ conn'[i].dOpen => conn[i].dOpen
                              /\ conn[i].reset => conn'[i].reset

LEMMA GoOnMoves == ASSUME ConnsGoOn PROVE ConnsMove
BY DEF ConnsGoOn, ConnsMove, Follows

\* What SocketsHeld says of one controller.
Holds(c) ==
    /\ ctl[c].socket \in Killed!Conn =>
         ctl[c].socket \in DOMAIN conn /\ conn[ctl[c].socket].by = c
    /\ ctl[c].pc \in {"write", "read"} => ctl[c].socket # Killed!NoSocket /\ ctl[c].retry # 0

\* What a controller believes stays as it is.
SameMind ==
    \A c \in Killables : /\ ctl'[c].state = ctl[c].state /\ ctl'[c].msg = ctl[c].msg
                         /\ ctl[c].pc = "end" => ctl'[c].pc = "end"

\* What is open is held, or was reset.
OpenIsHeld ==
    \A i \in DOMAIN conn :
        conn[i].dOpen => conn[i].reset \/ i \in Killed!Waiting \cup {dev.accepted}

LEMMA OpenIsHeldSays == OpenIsHeld <=> Killed!OnlyDeadAreLeaked
BY DEF OpenIsHeld, Killed!OnlyDeadAreLeaked, Killed!DeviceOpen

\* The types after a step, from what it does to each variable.
SidesTyped ==
    /\ queue \in Seq(Killed!Conn) /\ \A j \in DOMAIN queue : queue[j] \in DOMAIN conn
    /\ dev \in Killed!Side
    /\ dev.accepted # Killed!NoSocket => dev.accepted \in DOMAIN conn

RunsTyped ==
    /\ ctl \in [Killables -> Killed!Run]
    /\ \A c \in Killables : Holds(c)

LEMMA TypesAre ==
    KilledTypes <=> /\ conn \in Seq(Killed!Connection) /\ Len(conn) <= MaxConn
                    /\ SidesTyped /\ RunsTyped
BY DEF KilledTypes, Killed!TypeOK, Killed!SocketsHeld, SidesTyped, RunsTyped, Holds

LEMMA GoOnTypes ==
    ASSUME KilledTypes, ConnsMove
    PROVE  /\ conn' \in Seq(Killed!Connection) /\ Len(conn') <= MaxConn
           /\ \A i \in DOMAIN conn : i \in DOMAIN conn' /\ conn'[i].by = conn[i].by
<1>1. conn \in Seq(Killed!Connection) /\ Len(conn) \in Nat /\ DOMAIN conn = 1 .. Len(conn)
  BY DEF KilledTypes, Killed!TypeOK
<1>2. /\ conn' \in Seq(Killed!Connection) /\ Len(conn) <= Len(conn') /\ Len(conn') <= MaxConn
      /\ \A i \in DOMAIN conn : conn'[i].by = conn[i].by
  BY DEF ConnsMove
<1>3. Len(conn') \in Nat /\ DOMAIN conn' = 1 .. Len(conn')
  BY <1>2
<1>4. \A i \in DOMAIN conn : i \in DOMAIN conn'
  BY <1>1, <1>2, <1>3
<1> QED BY <1>2, <1>4

\* One controller goes on.
LEMMA OneRuns ==
    ASSUME KilledTypes, ConnsMove, NEW c \in Killables,
           NEW r \in Killed!Run, ctl' = [ctl EXCEPT ![c] = r], Holds(c)'
    PROVE  RunsTyped' /\ ctl'[c] = r /\ \A d \in Killables : d # c => ctl'[d] = ctl[d]
<1>1. ctl \in [Killables -> Killed!Run] /\ \A d \in Killables : Holds(d)
  BY TypesAre DEF RunsTyped
<1>2. /\ ctl' \in [Killables -> Killed!Run]
      /\ ctl'[c] = r /\ \A d \in Killables : d # c => ctl'[d] = ctl[d]
  BY <1>1
<1>3. ASSUME NEW d \in Killables, d # c PROVE Holds(d)'
  <2>1. ctl'[d] = ctl[d] /\ Holds(d)
    BY <1>1, <1>2, <1>3
  <2>2. \A i \in DOMAIN conn : i \in DOMAIN conn' /\ conn'[i].by = conn[i].by
    BY GoOnTypes
  <2> QED BY <2>1, <2>2 DEF Holds, Killed!Conn
<1> QED BY <1>2, <1>3 DEF RunsTyped

LEMMA NobodyRuns ==
    ASSUME KilledTypes, ConnsMove, UNCHANGED ctl
    PROVE  RunsTyped' /\ SameMind
<1>1. ctl \in [Killables -> Killed!Run] /\ \A d \in Killables : Holds(d)
  BY TypesAre DEF RunsTyped
<1>2. ASSUME NEW d \in Killables PROVE Holds(d)'
  <2>2. \A i \in DOMAIN conn : i \in DOMAIN conn' /\ conn'[i].by = conn[i].by
    BY GoOnTypes
  <2> QED BY <1>1, <2>2 DEF Holds, Killed!Conn
<1> QED BY <1>1, <1>2 DEF RunsTyped, SameMind

LEMMA SidesKept ==
    ASSUME KilledTypes, ConnsMove, UNCHANGED <<queue, dev>>
    PROVE  SidesTyped' /\ Killed!Waiting' = Killed!Waiting
<1>1. SidesTyped
  BY TypesAre
<1>2. \A i \in DOMAIN conn : i \in DOMAIN conn'
  BY GoOnTypes
<1> QED BY <1>1, <1>2 DEF SidesTyped, Killed!Waiting

LEMMA StillHeld ==
    ASSUME KilledTypes, OpenIsHeld, ConnsMove,
           \A i \in DOMAIN conn : i \in Killed!Waiting \cup {dev.accepted}
                => \/ i \in Killed!Waiting' \cup {dev'.accepted}
                   \/ ~conn'[i].dOpen \/ conn'[i].reset,
           \A i \in DOMAIN conn' \ DOMAIN conn : i \in Killed!Waiting'
    PROVE  OpenIsHeld'
<1>1. \A i \in DOMAIN conn : conn'[i].dOpen => conn[i].dOpen
  BY DEF ConnsMove
<1>2. \A i \in DOMAIN conn : conn[i].reset => conn'[i].reset
  BY DEF ConnsMove
<1> QED BY <1>1, <1>2 DEF OpenIsHeld

\* Nobody is confirmed who was not, and nobody asks for more.
LEMMA MindsKept ==
    ASSUME KilledTypes, Killed!PairedOnce, ConnsGoOn, SameMind,
           dev'.state = dev.state \/ dev'.state = "PAIRED"
    PROVE  Killed!PairedOnce'
<1>1. \A i \in DOMAIN conn : conn[i] \in Killed!Connection
  BY DEF KilledTypes, Killed!TypeOK
<1>2. ASSUME NEW i \in DOMAIN conn', Killed!Grants(conn'[i])
      PROVE  i \in DOMAIN conn /\ conn'[i].by = conn[i].by /\ Killed!Grants(conn[i])
  <2>1. Vals(conn'[i].ans) # {}
    BY <1>2 DEF Killed!Grants, Vals
  <2>2. Vals(<<>>) = {}
    BY DEF Vals
  <2>3. i \in DOMAIN conn
    BY <2>1, <2>2 DEF ConnsGoOn
  <2>4. conn'[i].by = conn[i].by /\ Vals(conn'[i].ans) \subseteq Vals(conn[i].ans)
    BY <2>3 DEF ConnsGoOn, Follows
  <2>5. \E a \in Vals(conn'[i].ans) : a \in {"NONCE_ACK", "APP_MESSAGE_ACK"}
    BY <1>2 DEF Killed!Grants, Vals
  <2>6. Killed!Grants(conn[i])
    BY <2>4, <2>5 DEF Killed!Grants, Vals
  <2> QED BY <2>3, <2>4, <2>6
<1>3. \A c \in Killables : Killed!Confirmed(c)' => Killed!Confirmed(c)
  BY <1>2 DEF Killed!Confirmed, SameMind
<1>4. ASSUME NEW i \in DOMAIN conn'
      PROVE  Killed!Carries(conn'[i], ctl'[conn'[i].by].msg)
  <2>1. CASE i \in DOMAIN conn
    <3>1. /\ conn'[i].by = conn[i].by /\ conn[i].by \in Killables
          /\ Vals(conn'[i].req) \subseteq Vals(conn[i].req) \cup {ctl[conn[i].by].msg}
          /\ Vals(conn'[i].ans) \subseteq Vals(conn[i].ans)
      BY <1>1, <2>1 DEF ConnsGoOn, Follows, Killed!Connection
    <3> DEFINE m == ctl[conn[i].by].msg
    <3>2. /\ \A x \in Vals(conn[i].req) : x = "APP_MESSAGE" <=> m = "APP_MESSAGE"
          /\ m = "APP_MESSAGE" => \A x \in Vals(conn[i].ans) : x = "APP_MESSAGE_ACK"
      BY <2>1 DEF Killed!PairedOnce, Killed!Carries, Vals
    <3>3. ctl'[conn'[i].by].msg = m
      BY <3>1 DEF SameMind
    <3> HIDE DEF m
    <3>4. /\ \A x \in Vals(conn'[i].req) : x = "APP_MESSAGE" <=> m = "APP_MESSAGE"
          /\ m = "APP_MESSAGE" => \A x \in Vals(conn'[i].ans) : x = "APP_MESSAGE_ACK"
      BY <3>1, <3>2 DEF m
    <3> QED BY <3>3, <3>4 DEF Killed!Carries, Vals
  <2>2. CASE i \notin DOMAIN conn
    BY <2>2 DEF ConnsGoOn, Killed!Carries
  <2> QED BY <2>1, <2>2
<1> QED BY <1>3, <1>4 DEF Killed!PairedOnce, SameMind

KilledInv == KilledTypes /\ OpenIsHeld /\ Killed!PairedOnce

LEMMA InvNext ==
    ASSUME KilledTypes, ConnsMove, SidesTyped', RunsTyped', OpenIsHeld', Killed!PairedOnce'
    PROVE  KilledInv'
<1>1. conn' \in Seq(Killed!Connection) /\ Len(conn') <= MaxConn
  BY GoOnTypes
<1>2. KilledTypes'
  BY <1>1 DEF KilledTypes, Killed!TypeOK, Killed!SocketsHeld, SidesTyped, RunsTyped, Holds
<1> QED BY <1>2 DEF KilledInv

\* A controller goes on without changing its mind, the device rests.
LEMMA RunStep ==
    ASSUME KilledInv, ConnsGoOn, DOMAIN conn' = DOMAIN conn, UNCHANGED <<queue, dev>>,
           NEW c \in Killables, NEW r \in Killed!Run, ctl' = [ctl EXCEPT ![c] = r],
           r.state = ctl[c].state, r.msg = ctl[c].msg, ctl[c].pc # "end", Holds(c)'
    PROVE  KilledInv'
<1> USE GoOnMoves
<1>1. RunsTyped' /\ ctl'[c] = r /\ \A d \in Killables : d # c => ctl'[d] = ctl[d]
  BY OneRuns DEF KilledInv
<1>2. SameMind
  BY <1>1 DEF SameMind
<1>3. SidesTyped' /\ Killed!Waiting' = Killed!Waiting
  BY SidesKept DEF KilledInv
<1>4. OpenIsHeld'
  BY <1>3, StillHeld DEF KilledInv
<1>5. Killed!PairedOnce'
  BY <1>2, MindsKept DEF KilledInv
<1> QED BY <1>1, <1>3, <1>4, <1>5, InvNext DEF KilledInv

\* What the steps of a controller that leave its connection alone make of it.
LEMMA RunTypes ==
    ASSUME KilledInv, NEW c \in Killables
    PROVE  ctl[c] \in Killed!Run /\ Holds(c)
BY TypesAre DEF KilledInv, RunsTyped

LEMMA RunAlone ==
    ASSUME KilledInv, UNCHANGED <<conn, queue, dev>>,
           NEW c \in Killables, NEW r \in Killed!Run, ctl' = [ctl EXCEPT ![c] = r],
           r.state = ctl[c].state, r.msg = ctl[c].msg, ctl[c].pc # "end",
           r.socket = ctl[c].socket, r.pc \notin {"write", "read"}
    PROVE  KilledInv'
<1>1. ConnsGoOn /\ DOMAIN conn' = DOMAIN conn
  <2>1. AllFollow(conn')
    BY AllFollowSelf DEF KilledInv
  <2> QED BY <2>1, GoOnWith DEF KilledInv
<1>2. Holds(c) /\ ctl \in [Killables -> Killed!Run]
  BY TypesAre DEF KilledInv, RunsTyped
<1>3. ctl'[c] = r
  BY <1>2
<1>4. Holds(c)'
  BY <1>2, <1>3 DEF Holds
<1> QED BY <1>1, <1>4, RunStep

LEMMA AloneSteps ==
    ASSUME KilledInv, NEW c \in Killables,
           \/ Killed!Start(c) \/ Killed!WriteError(c) \/ Killed!ReadError(c) \/ Killed!Eof(c)
    PROVE  KilledInv'
<1>1. ctl[c] \in Killed!Run /\ Holds(c)
  BY RunTypes
<1>2. CASE Killed!Start(c)
  <2> DEFINE r == [ctl[c] EXCEPT !.pc = "connect"]
  <2>1. r \in Killed!Run /\ r.state = ctl[c].state /\ r.msg = ctl[c].msg
        /\ r.socket = ctl[c].socket /\ r.pc = "connect"
    BY <1>1 DEF Killed!Run
  <2>2. ctl' = [ctl EXCEPT ![c] = r]
    BY <1>2 DEF Killed!Start
  <2>3. ctl[c].pc = "start" /\ UNCHANGED <<conn, queue, dev>>
    BY <1>2 DEF Killed!Start
  <2> HIDE DEF r
  <2> QED BY <2>1, <2>2, <2>3, RunAlone
<1>3. CASE Killed!WriteError(c)
  <2> DEFINE r == [ctl[c] EXCEPT !.pc = "connect", !.retry = @ - 1]
  <2>1. ctl[c].pc = "write" /\ UNCHANGED <<conn, queue, dev>>
    BY <1>3 DEF Killed!WriteError
  <2>2. ctl[c].retry - 1 \in 0 .. 3
    BY <1>1, <2>1 DEF Holds, Killed!Run
  <2>3. r \in Killed!Run
    BY <1>1, <2>2 DEF Killed!Run
  <2>4. r.state = ctl[c].state /\ r.msg = ctl[c].msg
        /\ r.socket = ctl[c].socket /\ r.pc = "connect"
    BY <1>1 DEF Killed!Run
  <2>5. ctl' = [ctl EXCEPT ![c] = r]
    BY <1>3 DEF Killed!WriteError
  <2> HIDE DEF r
  <2> QED BY <2>1, <2>3, <2>4, <2>5, RunAlone
<1>4. CASE Killed!ReadError(c)
  <2> DEFINE r == [ctl[c] EXCEPT !.pc = "reconnect", !.retry = @ - 1]
  <2>1. ctl[c].pc = "read" /\ UNCHANGED <<conn, queue, dev>>
    BY <1>4 DEF Killed!ReadError
  <2>2. ctl[c].retry - 1 \in 0 .. 3
    BY <1>1, <2>1 DEF Holds, Killed!Run
  <2>3. r \in Killed!Run
    BY <1>1, <2>2 DEF Killed!Run
  <2>4. r.state = ctl[c].state /\ r.msg = ctl[c].msg
        /\ r.socket = ctl[c].socket /\ r.pc = "reconnect"
    BY <1>1 DEF Killed!Run
  <2>5. ctl' = [ctl EXCEPT ![c] = r]
    BY <1>4 DEF Killed!ReadError
  <2> HIDE DEF r
  <2> QED BY <2>1, <2>3, <2>4, <2>5, RunAlone
<1>5. CASE Killed!Eof(c)
  <2> DEFINE r == [ctl[c] EXCEPT !.pc = "exit", !.result = "ERROR"]
  <2>1. ctl[c].pc = "read" /\ UNCHANGED <<conn, queue, dev>>
    BY <1>5 DEF Killed!Eof
  <2>2. r \in Killed!Run
    BY <1>1 DEF Killed!Run
  <2>3. r.state = ctl[c].state /\ r.msg = ctl[c].msg
        /\ r.socket = ctl[c].socket /\ r.pc = "exit"
    BY <1>1 DEF Killed!Run
  <2>4. ctl' = [ctl EXCEPT ![c] = r]
    BY <1>5 DEF Killed!Eof
  <2> HIDE DEF r
  <2> QED BY <2>1, <2>2, <2>3, <2>4, RunAlone
<1> QED BY <1>2, <1>3, <1>4, <1>5

\* The connection a controller writes to is one of its own.
LEMMA OwnConn ==
    ASSUME KilledInv, NEW c \in Killables, ctl[c].pc \in {"write", "read"}, ~Killed!Failing(c)
    PROVE  /\ ctl[c].socket \in DOMAIN conn /\ ctl[c].socket \in Killed!Conn
           /\ conn[ctl[c].socket].by = c /\ conn[ctl[c].socket] \in Killed!Connection
<1>1. ctl[c] \in Killed!Run /\ Holds(c)
  BY RunTypes
<1>2. ctl[c].socket \in Killed!Conn
  BY <1>1 DEF Killed!Run, Holds, Killed!Failing
<1>3. \A i \in DOMAIN conn : conn[i] \in Killed!Connection
  BY DEF KilledInv, KilledTypes, Killed!TypeOK
<1> QED BY <1>1, <1>2, <1>3 DEF Holds

LEMMA WriteStep ==
    ASSUME KilledInv, NEW c \in Killables, Killed!Write(c)
    PROVE  KilledInv'
<1> DEFINE i == ctl[c].socket  q == Killed!WriteReq(conn[i], ctl[c].msg)
           r == [ctl[c] EXCEPT !.pc = "read", !.retry = 3]
<1>1. ctl[c] \in Killed!Run /\ Holds(c)
  BY RunTypes
<1>2. i \in DOMAIN conn /\ i \in Killed!Conn /\ conn[i].by = c /\ conn[i] \in Killed!Connection
  BY OwnConn DEF Killed!Write
<1>3. Follows(conn[i], q, {ctl[conn[i].by].msg}, {})
  BY <1>1, <1>2, WriteReqFollows DEF Killed!Run
<1>4. conn' = [conn EXCEPT ![i] = q]
  BY DEF Killed!Write
<1>5. r \in Killed!Run
  <2>1. 3 \in 0 .. 3
    OBVIOUS
  <2> QED BY <1>1, <2>1 DEF Killed!Run
<1>6. r.state = ctl[c].state /\ r.msg = ctl[c].msg
  BY <1>1 DEF Killed!Run
<1>7. r.socket = i /\ r.retry = 3
  BY <1>1 DEF Killed!Run
<1>8. ctl' = [ctl EXCEPT ![c] = r] /\ ctl[c].pc = "write" /\ UNCHANGED <<queue, dev>>
  BY DEF Killed!Write
<1> HIDE DEF q, r, i
<1>9. AllFollow(conn')
  BY <1>2, <1>3, <1>4, OneFollows DEF KilledInv
<1>10. ConnsGoOn /\ DOMAIN conn' = DOMAIN conn
  BY <1>9, GoOnWith DEF KilledInv
<1>11. Holds(c)'
  <2>1. ctl'[c] = r
    BY <1>8 DEF KilledInv, KilledTypes, Killed!TypeOK
  <2>2. i \in DOMAIN conn' /\ conn'[i].by = c
    BY <1>2, <1>10, GoOnMoves, GoOnTypes DEF KilledInv
  <2>3. i # Killed!NoSocket
    BY <1>2 DEF Killed!Conn, Killed!NoSocket
  <2> QED BY <2>1, <2>2, <2>3, <1>7 DEF Holds
<1> QED BY <1>5, <1>6, <1>8, <1>10, <1>11, RunStep

LEMMA CloseSteps ==
    ASSUME KilledInv, NEW c \in Killables, Killed!Exit(c) \/ Killed!Kill(c)
    PROVE  KilledInv'
<1> DEFINE r(pc) == [ctl[c] EXCEPT !.pc = pc, !.socket = Killed!NoSocket]
<1>1. ctl[c] \in Killed!Run /\ ctl[c].pc # "end"
  BY RunTypes DEF Killed!Exit, Killed!Kill
<1>2. PICK pc \in {"end", "killed"} : ctl' = [ctl EXCEPT ![c] = r(pc)]
  BY DEF Killed!Exit, Killed!Kill
<1>3. conn' = Killed!CloseSocketOf(c, conn) /\ UNCHANGED <<queue, dev>>
  BY DEF Killed!Exit, Killed!Kill
<1>4. r(pc) \in Killed!Run
  BY <1>1 DEF Killed!Run
<1>5. r(pc).state = ctl[c].state /\ r(pc).msg = ctl[c].msg
  BY <1>1 DEF Killed!Run
<1>6. r(pc).socket = Killed!NoSocket /\ r(pc).pc = pc
  BY <1>1 DEF Killed!Run
<1> HIDE DEF r
<1>7. AllFollow(conn')
  BY <1>3, CloseSocketFollows DEF KilledInv
<1>8. ConnsGoOn /\ DOMAIN conn' = DOMAIN conn
  BY <1>7, GoOnWith DEF KilledInv
<1>9. Holds(c)'
  <2>1. ctl'[c] = r(pc)
    BY <1>2 DEF KilledInv, KilledTypes, Killed!TypeOK
  <2> QED BY <2>1, <1>6 DEF Holds, Killed!Conn, Killed!NoSocket
<1> QED BY <1>1, <1>2, <1>3, <1>4, <1>5, <1>8, <1>9, RunStep

\* A connection is opened, or the socket is broken; after is what the call
\* makes of the controller besides.
LEMMA ConnectedStep ==
    ASSUME KilledInv, NEW c \in Killables, NEW after \in Killed!Run,
           Killed!Connected(c, after), after.state = ctl[c].state, after.msg = ctl[c].msg,
           after.retry # 0 \/ after.pc \notin {"write", "read"}, ctl[c].pc # "end"
    PROVE  KilledInv'
<1> DEFINE cs == Killed!CloseSocketOf(c, conn)  n == Len(conn) + 1
           r(s) == [after EXCEPT !.socket = s]
<1>1. AllFollow(cs)
  BY CloseSocketFollows DEF KilledInv
<1>2. ASSUME NEW s \in {Killed!Broken, Killed!NoSocket} \cup Killed!Conn
      PROVE  r(s) \in Killed!Run
  BY DEF Killed!Run
<1>3. ASSUME NEW s
      PROVE  /\ r(s).state = ctl[c].state /\ r(s).msg = ctl[c].msg /\ r(s).pc = after.pc
             /\ r(s).retry = after.retry
  BY DEF Killed!Run
<1>4. \A s : r(s).socket = s
  BY DEF Killed!Run
<1> HIDE DEF r
<1>5. CASE dev.socket = "port"
  <2>1. /\ Len(conn) < MaxConn /\ conn' = Append(cs, Killed!Opened(c))
        /\ queue' = Append(queue, n) /\ ctl' = [ctl EXCEPT ![c] = r(n)] /\ UNCHANGED dev
    BY <1>5 DEF Killed!Connected, r
  <2> HIDE DEF cs
  <2>2. /\ ConnsGoOn /\ Len(conn') = n /\ conn'[n] = Killed!Opened(c) /\ n \in Killed!Conn
    BY <1>1, <2>1, GoOnOpened DEF KilledInv
  <2>3. conn \in Seq(Killed!Connection) /\ Len(conn) \in Nat /\ DOMAIN conn = 1 .. Len(conn)
    BY DEF KilledInv, KilledTypes, Killed!TypeOK
  <2>4. n \in DOMAIN conn' /\ \A i \in DOMAIN conn' \ DOMAIN conn : i = n
    BY <2>2, <2>3 DEF ConnsGoOn
  <2>5. r(n) \in Killed!Run
    BY <1>2, <2>2
  <2>6. ctl'[c] = r(n)
    BY <2>1 DEF KilledInv, KilledTypes, Killed!TypeOK
  <2>7. n # Killed!NoSocket
    BY <2>3 DEF Killed!NoSocket
  <2>8. Holds(c)'
    <3>1. conn'[n].by = c
      BY <2>2 DEF Killed!Opened
    <3> QED BY <1>3, <1>4, <2>4, <2>6, <2>7, <3>1 DEF Holds
  <2>9. RunsTyped' /\ \A d \in Killables : d # c => ctl'[d] = ctl[d]
    BY <2>1, <2>2, <2>5, <2>8, GoOnMoves, OneRuns DEF KilledInv
  <2>10. SameMind
    BY <2>6, <2>9, <1>3 DEF SameMind
  <2>11. queue \in Seq(Killed!Conn) /\ SidesTyped
    BY TypesAre DEF KilledInv, SidesTyped
  <2>12. /\ queue' \in Seq(Killed!Conn) /\ Vals(queue') = Vals(queue) \cup {n}
         /\ \A j \in DOMAIN queue' : queue'[j] \in Vals(queue')
    <3>1. queue' \in Seq(Killed!Conn)
      BY <2>1, <2>2, <2>11, AppendProperties
    <3>2. Vals(queue') = Vals(queue) \cup {n}
      BY <2>1, <2>2, <2>11, ValsOf
    <3> QED BY <3>1, <3>2 DEF Vals
  <2>13. Vals(queue') = Killed!Waiting' /\ Vals(queue) = Killed!Waiting
    BY DEF Vals, Killed!Waiting
  <2>14. \A i \in DOMAIN conn : i \in DOMAIN conn'
    BY <2>2, GoOnMoves, GoOnTypes DEF KilledInv
  <2>15. \A j \in Vals(queue) : j \in DOMAIN conn
    BY <2>11 DEF SidesTyped, Vals
  <2>16. SidesTyped'
    BY <2>1, <2>4, <2>11, <2>12, <2>14, <2>15 DEF SidesTyped
  <2>17. OpenIsHeld'
    BY <2>1, <2>2, <2>4, <2>12, <2>13, GoOnMoves, StillHeld DEF KilledInv
  <2>18. Killed!PairedOnce'
    BY <2>1, <2>2, <2>10, MindsKept DEF KilledInv
  <2> QED BY <2>2, <2>9, <2>16, <2>17, <2>18, GoOnMoves, InvNext DEF KilledInv
<1>6. CASE dev.socket # "port"
  <2>1. /\ conn' = cs /\ UNCHANGED <<queue, dev>>
        /\ ctl' = [ctl EXCEPT ![c] = r(Killed!Broken)]
    BY <1>6 DEF Killed!Connected, r
  <2>2. ConnsGoOn /\ DOMAIN conn' = DOMAIN conn
    BY <1>1, <2>1, GoOnWith DEF KilledInv
  <2>3. r(Killed!Broken) \in Killed!Run
    BY <1>2
  <2>4. Holds(c)'
    <3>1. ctl'[c] = r(Killed!Broken)
      BY <2>1 DEF KilledInv, KilledTypes, Killed!TypeOK
    <3>2. Killed!Broken # Killed!NoSocket /\ Killed!Broken \notin Killed!Conn
      BY DEF Killed!Broken, Killed!NoSocket, Killed!Conn
    <3> QED BY <1>3, <1>4, <3>1, <3>2 DEF Holds
  <2> QED BY <1>3, <2>1, <2>2, <2>3, <2>4, RunStep
<1> QED BY <1>5, <1>6

LEMMA ConnectSteps ==
    ASSUME KilledInv, NEW c \in Killables, Killed!Connect(c) \/ Killed!Reconnect(c)
    PROVE  KilledInv'
<1>1. ctl[c] \in Killed!Run
  BY RunTypes
<1>2. 3 \in 0 .. 3 /\ 3 # 0
  OBVIOUS
<1> DEFINE a1 == [ctl[c] EXCEPT !.pc = "read", !.retry = 3]
           a2 == [ctl[c] EXCEPT !.pc = "write"]
           a3 == [ctl[c] EXCEPT !.pc = "read"]
           a4 == [ctl[c] EXCEPT !.pc = "exit", !.result = "ERROR_OK"]
<1>3. a1 \in Killed!Run /\ a1.state = ctl[c].state /\ a1.msg = ctl[c].msg /\ a1.retry # 0
  BY <1>1, <1>2 DEF Killed!Run
<1>4. a2 \in Killed!Run /\ a2.state = ctl[c].state /\ a2.msg = ctl[c].msg
      /\ a2.retry = ctl[c].retry
  BY <1>1 DEF Killed!Run
<1>5. a3 \in Killed!Run /\ a3.state = ctl[c].state /\ a3.msg = ctl[c].msg
      /\ a3.retry = ctl[c].retry
  BY <1>1 DEF Killed!Run
<1>6. a4 \in Killed!Run /\ a4.state = ctl[c].state /\ a4.msg = ctl[c].msg /\ a4.pc = "exit"
  BY <1>1 DEF Killed!Run
<1>7. CASE Killed!Connect(c)
  <2>1. ctl[c].pc = "connect"
    BY <1>7 DEF Killed!Connect
  <2>2. CASE ctl[c].retry = 0
    <3>1. Killed!Connected(c, a1)
      BY <1>7, <2>2 DEF Killed!Connect
    <3> HIDE DEF a1
    <3> QED BY <1>3, <2>1, <3>1, ConnectedStep
  <2>3. CASE ctl[c].retry # 0
    <3>1. Killed!Connected(c, a2)
      BY <1>7, <2>3 DEF Killed!Connect
    <3> HIDE DEF a2
    <3> QED BY <1>4, <2>1, <2>3, <3>1, ConnectedStep
  <2> QED BY <2>2, <2>3
<1>8. CASE Killed!Reconnect(c)
  <2>1. ctl[c].pc = "reconnect"
    BY <1>8 DEF Killed!Reconnect
  <2>2. CASE ctl[c].retry > 0
    <3>1. Killed!Connected(c, a3)
      BY <1>8, <2>2 DEF Killed!Reconnect
    <3>2. ctl[c].retry # 0
      BY <1>1, <2>2 DEF Killed!Run
    <3> HIDE DEF a3
    <3> QED BY <1>5, <2>1, <3>1, <3>2, ConnectedStep
  <2>3. CASE ~(ctl[c].retry > 0) /\ ctl[c].state # "PAIRED"
    <3>1. Killed!Connected(c, a1)
      BY <1>8, <2>3 DEF Killed!Reconnect
    <3> HIDE DEF a1
    <3> QED BY <1>3, <2>1, <3>1, ConnectedStep
  <2>4. CASE ~(ctl[c].retry > 0) /\ ctl[c].state = "PAIRED"
    <3>1. Killed!Connected(c, a4)
      BY <1>8, <2>4 DEF Killed!Reconnect
    <3> HIDE DEF a4
    <3> QED BY <1>6, <2>1, <3>1, ConnectedStep
  <2> QED BY <2>2, <2>3, <2>4
<1> QED BY <1>7, <1>8

\* The device does something, no controller does.
LEMMA SideStep ==
    ASSUME KilledInv, ConnsGoOn, DOMAIN conn' = DOMAIN conn, UNCHANGED ctl,
           SidesTyped', dev'.state = dev.state,
           \A i \in DOMAIN conn : i \in Killed!Waiting \cup {dev.accepted}
                => \/ i \in Killed!Waiting' \cup {dev'.accepted}
                   \/ ~conn'[i].dOpen \/ conn'[i].reset
    PROVE  KilledInv'
<1>1. ConnsMove
  BY GoOnMoves
<1>2. RunsTyped' /\ SameMind
  BY <1>1, NobodyRuns DEF KilledInv
<1>3. OpenIsHeld'
  BY <1>1, StillHeld DEF KilledInv
<1>4. Killed!PairedOnce'
  BY <1>2, MindsKept DEF KilledInv
<1> QED BY <1>1, <1>2, <1>3, <1>4, InvNext DEF KilledInv

LEMMA SideTypes == ASSUME KilledInv PROVE SidesTyped /\ dev \in Killed!Side
BY TypesAre DEF KilledInv, SidesTyped

LEMMA ListenStep == ASSUME KilledInv, Killed!DeviceListen PROVE KilledInv'
<1>1. SidesTyped /\ dev \in Killed!Side
  BY SideTypes
<1>2. UNCHANGED <<conn, queue, ctl>>
  BY DEF Killed!DeviceListen
<1>3. dev' \in Killed!Side /\ dev'.accepted = dev.accepted /\ dev'.state = dev.state
  BY <1>1 DEF Killed!DeviceListen, Killed!Side
<1>4. ConnsGoOn /\ DOMAIN conn' = DOMAIN conn
  BY <1>2, AllFollowSelf, GoOnWith DEF KilledInv
<1>5. SidesTyped' /\ Killed!Waiting' = Killed!Waiting
  BY <1>1, <1>2, <1>3 DEF SidesTyped, Killed!Waiting
<1> QED BY <1>2, <1>3, <1>4, <1>5, SideStep

LEMMA AcceptStep == ASSUME KilledInv, Killed!DeviceAccept PROVE KilledInv'
<1>1. SidesTyped /\ dev \in Killed!Side /\ queue \in Seq(Killed!Conn)
  BY SideTypes DEF SidesTyped
<1>2. /\ UNCHANGED <<conn, ctl>> /\ queue # <<>> /\ queue' = Tail(queue)
      /\ dev' = [dev EXCEPT !.accepted = Head(queue)] /\ dev.accepted = Killed!NoSocket
  BY DEF Killed!DeviceAccept
<1>3. /\ Head(queue) \in Killed!Conn /\ Tail(queue) \in Seq(Killed!Conn)
      /\ Head(queue) \in Vals(queue) /\ Vals(Tail(queue)) \subseteq Vals(queue)
      /\ Vals(queue) \subseteq {Head(queue)} \cup Vals(Tail(queue))
  BY <1>1, <1>2, HeadTailProperties, ValsOf
<1>4. dev' \in Killed!Side /\ dev'.accepted = Head(queue) /\ dev'.state = dev.state
  BY <1>1, <1>2, <1>3 DEF Killed!Side
<1>5. ConnsGoOn /\ DOMAIN conn' = DOMAIN conn
  BY <1>2, AllFollowSelf, GoOnWith DEF KilledInv
<1>6. /\ Vals(queue) = Killed!Waiting /\ Vals(queue') = Killed!Waiting'
      /\ \A j \in DOMAIN queue' : queue'[j] \in Vals(queue')
      /\ \A x \in Vals(queue) : x \in DOMAIN conn
  BY <1>1 DEF Vals, Killed!Waiting, SidesTyped
<1>7. SidesTyped'
  BY <1>2, <1>3, <1>4, <1>5, <1>6 DEF SidesTyped
<1>8. \A i \in DOMAIN conn : i # Killed!NoSocket
  BY DEF KilledInv, KilledTypes, Killed!TypeOK, Killed!NoSocket
<1>9. \A i \in DOMAIN conn : i \in Killed!Waiting \cup {dev.accepted}
          => i \in Killed!Waiting' \cup {dev'.accepted}
  BY <1>2, <1>3, <1>4, <1>6, <1>8
<1> QED BY <1>2, <1>4, <1>5, <1>7, <1>9, SideStep

LEMMA ReopenSteps ==
    ASSUME KilledInv, Killed!AcceptFails \/ Killed!ReadFails
    PROVE  KilledInv'
<1>1. SidesTyped /\ dev \in Killed!Side
  BY SideTypes
<1>2. /\ UNCHANGED ctl /\ queue' = <<>> /\ conn' = Killed!CloseQueue(conn)
      /\ dev' = [dev EXCEPT !.socket = "none", !.accepted = Killed!NoSocket]
      /\ dev.accepted = Killed!NoSocket \/ conn[dev.accepted].reset
  BY DEF Killed!AcceptFails, Killed!ReadFails, Killed!DeviceReopen
<1>3. dev' \in Killed!Side /\ dev'.accepted = Killed!NoSocket /\ dev'.state = dev.state
  BY <1>1, <1>2 DEF Killed!Side
<1>4. /\ ConnsGoOn /\ DOMAIN conn' = DOMAIN conn
      /\ \A i \in DOMAIN conn : i \in Killed!Waiting => conn'[i].reset
  BY <1>2, CloseQueueFollows, GoOnWith DEF KilledInv
<1>5. SidesTyped'
  <2>1. queue' \in Seq(Killed!Conn) /\ DOMAIN queue' = {}
    BY <1>2
  <2> QED BY <1>3, <2>1 DEF SidesTyped
<1>6. \A i \in DOMAIN conn : i # Killed!NoSocket
  BY DEF KilledInv, KilledTypes, Killed!TypeOK, Killed!NoSocket
<1>7. \A i \in DOMAIN conn : conn[i].reset => conn'[i].reset
  BY <1>4 DEF ConnsGoOn, Follows
<1>8. \A i \in DOMAIN conn : i \in Killed!Waiting \cup {dev.accepted} => conn'[i].reset
  BY <1>2, <1>4, <1>6, <1>7
<1> QED BY <1>2, <1>3, <1>4, <1>5, <1>8, SideStep

LEMMA LingerStep == ASSUME KilledInv, Killed!LingerEnds PROVE KilledInv'
<1>1. PICK i \in DOMAIN conn : conn' = [conn EXCEPT ![i].lingers = FALSE]
  BY DEF Killed!LingerEnds
<1> DEFINE q == [conn[i] EXCEPT !.lingers = FALSE]
<1>2. conn[i] \in Killed!Connection
  BY DEF KilledInv, KilledTypes, Killed!TypeOK
<1>3. q \in Killed!Connection
  BY <1>2 DEF Killed!Connection
<1>4. q.by = conn[i].by /\ q.dOpen = conn[i].dOpen /\ q.reset = conn[i].reset
      /\ q.req = conn[i].req /\ q.ans = conn[i].ans
  BY <1>2 DEF Killed!Connection
<1>5. Follows(conn[i], q, {ctl[conn[i].by].msg}, {}) /\ conn' = [conn EXCEPT ![i] = q]
  BY <1>1, <1>3, <1>4 DEF Follows
<1> HIDE DEF q
<1>6. ConnsGoOn /\ DOMAIN conn' = DOMAIN conn
  BY <1>5, OneFollows, GoOnWith DEF KilledInv
<1>7. UNCHANGED <<queue, dev, ctl>>
  BY DEF Killed!LingerEnds
<1>8. SidesTyped' /\ Killed!Waiting' = Killed!Waiting
  BY <1>6, <1>7, GoOnMoves, SidesKept DEF KilledInv
<1> QED BY <1>6, <1>7, <1>8, SideStep

LEMMA AnsweredFollows ==
    ASSUME NEW s, NEW k \in Killed!Connection
    PROVE  /\ Follows(k, Killed!AfterAnswer(s, k), {}, {})
           /\ s = "PAIRED" => ~Killed!AfterAnswer(s, k).dOpen
BY CloseDFollows, FollowsSelf DEF Killed!AfterAnswer

\* The connection the device serves.
LEMMA ServedConn ==
    ASSUME KilledInv, dev.accepted # Killed!NoSocket
    PROVE  dev.accepted \in DOMAIN conn /\ conn[dev.accepted] \in Killed!Connection
<1>1. dev.accepted \in DOMAIN conn
  BY SideTypes DEF SidesTyped
<1> QED BY <1>1 DEF KilledInv, KilledTypes, Killed!TypeOK

LEMMA DeviceEofStep == ASSUME KilledInv, Killed!DeviceEof PROVE KilledInv'
<1> DEFINE i == dev.accepted
<1>1. SidesTyped /\ dev \in Killed!Side
  BY SideTypes
<1>2. i \in DOMAIN conn /\ conn[i] \in Killed!Connection
  BY ServedConn DEF Killed!DeviceEof
<1>3. PICK blank \in BOOLEAN :
        conn' = [conn EXCEPT ![i] = Killed!AfterAnswer(dev.state,
                                      IF blank THEN Killed!Reset(conn[i]) ELSE conn[i])]
  BY DEF Killed!DeviceEof
<1> DEFINE q == IF blank THEN Killed!Reset(conn[i]) ELSE conn[i]
           p == Killed!AfterAnswer(dev.state, q)
<1>4. Follows(conn[i], q, {}, {}) /\ q \in Killed!Connection
  <2>1. Follows(conn[i], q, {}, {})
    BY <1>2, ResetFollows, FollowsSelf
  <2> QED BY <2>1 DEF Follows
<1>5. conn' = [conn EXCEPT ![i] = p]
  BY <1>3
<1> HIDE DEF q
<1>6. Follows(q, p, {}, {}) /\ (dev.state = "PAIRED" => ~p.dOpen)
  BY <1>4, AnsweredFollows
<1> HIDE DEF p
<1>7. Follows(conn[i], p, {ctl[conn[i].by].msg}, {})
  BY <1>4, <1>6 DEF Follows
<1>8. ConnsGoOn /\ DOMAIN conn' = DOMAIN conn
  BY <1>2, <1>5, <1>7, OneFollows, GoOnWith DEF KilledInv
<1>9. conn'[i] = p
  BY <1>2, <1>5 DEF KilledInv, KilledTypes, Killed!TypeOK
<1>10. UNCHANGED <<queue, ctl>>
       /\ dev' = [dev EXCEPT !.accepted = IF dev.state = "PAIRED" THEN Killed!NoSocket ELSE @]
  BY DEF Killed!DeviceEof
<1>11. /\ dev' \in Killed!Side /\ dev'.state = dev.state
       /\ dev'.accepted = IF dev.state = "PAIRED" THEN Killed!NoSocket ELSE dev.accepted
  BY <1>1, <1>10 DEF Killed!Side
<1>12. SidesTyped' /\ Killed!Waiting' = Killed!Waiting
  BY <1>1, <1>8, <1>10, <1>11 DEF SidesTyped, Killed!Waiting
<1>13. \A j \in DOMAIN conn : j \in Killed!Waiting \cup {dev.accepted}
          => j \in Killed!Waiting' \cup {dev'.accepted} \/ ~conn'[j].dOpen
  BY <1>6, <1>9, <1>11, <1>12
<1> QED BY <1>8, <1>10, <1>11, <1>12, <1>13, SideStep

LEMMA GrantsSays ==
    ASSUME NEW k
    PROVE  Killed!Grants(k) <=> \E a \in Vals(k.ans) : a \in {"NONCE_ACK", "APP_MESSAGE_ACK"}
BY DEF Killed!Grants, Vals

LEMMA CarriesSays ==
    ASSUME NEW k, NEW m
    PROVE  Killed!Carries(k, m) <=>
             /\ \A x \in Vals(k.req) : x = "APP_MESSAGE" <=> m = "APP_MESSAGE"
             /\ m = "APP_MESSAGE" => \A x \in Vals(k.ans) : x = "APP_MESSAGE_ACK"
BY DEF Killed!Carries, Vals

LEMMA HandleSays ==
    ASSUME NEW s \in Killed!State, NEW m \in Killed!Request,
           NEW h, h = Killed!Handle(s, m)
    PROVE  /\ h[1] \in Killed!State /\ h[2] \in Killed!Answer \cup {"none"}
           /\ s = "PAIRED" => h[1] = "PAIRED"
           /\ h[2] = "NONCE_ACK" => m = "NONCE_SEND" /\ s # "PAIRED" /\ h[1] = "PAIRED"
           /\ h[2] = "APP_MESSAGE_ACK" => m = "APP_MESSAGE"
           /\ h[2] \in {"PAIR_REQUEST_ACK", "FAIL"} => m = "PAIR_REQUEST"
BY DEF Killed!Handle, Killed!State, Killed!Request, Killed!Answer

\* One connection goes on with what R and A name.
LEMMA OneMoves ==
    ASSUME KilledInv, NEW i \in DOMAIN conn, NEW q, NEW R, NEW A,
           Follows(conn[i], q, R, A), conn' = [conn EXCEPT ![i] = q]
    PROVE  /\ ConnsMove /\ DOMAIN conn' = DOMAIN conn
           /\ conn'[i] = q /\ \A j \in DOMAIN conn : j # i => conn'[j] = conn[j]
<1>1. conn \in Seq(Killed!Connection) /\ q \in Killed!Connection /\ Len(conn) <= MaxConn
  BY DEF KilledInv, KilledTypes, Killed!TypeOK, Follows
<1>2. /\ conn' \in Seq(Killed!Connection) /\ Len(conn') = Len(conn) /\ DOMAIN conn' = DOMAIN conn
      /\ conn'[i] = q /\ \A j \in DOMAIN conn : j # i => conn'[j] = conn[j]
  BY <1>1, Replaced
<1>3. q.by = conn[i].by /\ (q.dOpen => conn[i].dOpen) /\ (conn[i].reset => q.reset)
  BY DEF Follows
<1>4. ASSUME NEW j \in DOMAIN conn
      PROVE  /\ conn'[j].by = conn[j].by
             /\ conn'[j].dOpen => conn[j].dOpen
             /\ conn[j].reset => conn'[j].reset
  BY <1>2, <1>3
<1>5. Len(conn') <= MaxConn /\ Len(conn) <= Len(conn')
  BY <1>1, <1>2
<1> QED BY <1>2, <1>4, <1>5 DEF ConnsMove

\* The device answers: the last NONCE_SEND confirms the one controller that
\* sent it when none was confirmed, and APP_MESSAGE is of one that was.
LEMMA DeviceReceiveStep == ASSUME KilledInv, Killed!DeviceReceive PROVE KilledInv'
<1> DEFINE i == dev.accepted  k == conn[i]  m == Head(k.req)  h == Killed!Handle(dev.state, m)
           q == [k EXCEPT !.req = Tail(@)]
           w == IF h[2] = "none" THEN q ELSE Killed!WriteAns(q, h[2])
           p == Killed!AfterAnswer(h[1], w)
           A == IF h[2] = "none" THEN {} ELSE {h[2]}
           c == k.by
<1>1. SidesTyped /\ dev \in Killed!Side
  BY SideTypes
<1>2. i \in DOMAIN conn /\ k \in Killed!Connection /\ k.req # <<>>
  BY ServedConn DEF Killed!DeviceReceive
<1>3. /\ conn' = [conn EXCEPT ![i] = p] /\ UNCHANGED <<queue, ctl>>
      /\ dev' = [dev EXCEPT !.state = h[1],
                            !.accepted = IF h[1] = "PAIRED" THEN Killed!NoSocket ELSE @]
  BY DEF Killed!DeviceReceive
<1>4. Follows(k, q, {}, {}) /\ m \in Vals(k.req) /\ m \in Killed!Request
  BY <1>2, TakenFollows
<1>5. dev.state \in Killed!State /\ c \in Killables
  BY <1>1, <1>2 DEF Killed!Side, Killed!Connection
<1>6. /\ h[1] \in Killed!State /\ h[2] \in Killed!Answer \cup {"none"}
      /\ dev.state = "PAIRED" => h[1] = "PAIRED"
      /\ h[2] = "NONCE_ACK" => m = "NONCE_SEND" /\ dev.state # "PAIRED" /\ h[1] = "PAIRED"
      /\ h[2] = "APP_MESSAGE_ACK" => m = "APP_MESSAGE"
      /\ h[2] \in {"PAIR_REQUEST_ACK", "FAIL"} => m = "PAIR_REQUEST"
  <2> HIDE DEF m, h
  <2>1. h = Killed!Handle(dev.state, m)
    BY DEF h
  <2> QED BY <1>4, <1>5, <2>1, HandleSays
<1>7. dev' \in Killed!Side /\ dev'.state = h[1]
      /\ dev'.accepted = IF h[1] = "PAIRED" THEN Killed!NoSocket ELSE i
  <2> HIDE DEF h
  <2> QED BY <1>1, <1>3, <1>6 DEF Killed!Side
<1> HIDE DEF h, q, m
<1>8. Follows(k, p, {}, A) /\ (h[1] = "PAIRED" => ~p.dOpen)
  <2>1. q \in Killed!Connection
    BY <1>4 DEF Follows
  <2>2. Follows(q, w, {}, A) /\ w \in Killed!Connection
    <3>1. CASE h[2] = "none"
      BY <2>1, <3>1, FollowsSelf
    <3>2. CASE h[2] # "none"
      BY <1>6, <2>1, <3>2, WriteAnsFollows DEF Follows
    <3> QED BY <3>1, <3>2
  <2> HIDE DEF w, A
  <2>3. Follows(w, p, {}, {}) /\ (h[1] = "PAIRED" => ~p.dOpen)
    BY <2>2, AnsweredFollows
  <2> QED BY <1>4, <2>2, <2>3 DEF Follows
<1> HIDE DEF p, k, i
<1>9. /\ ConnsMove /\ DOMAIN conn' = DOMAIN conn
      /\ conn'[i] = p /\ \A j \in DOMAIN conn : j # i => conn'[j] = conn[j]
  BY <1>2, <1>3, <1>8, OneMoves DEF k
<1>10. SidesTyped' /\ Killed!Waiting' = Killed!Waiting
  BY <1>1, <1>3, <1>7, <1>9, <1>2 DEF SidesTyped, Killed!Waiting
<1>11. RunsTyped'
  BY <1>3, <1>9, NobodyRuns DEF KilledInv
<1>12. OpenIsHeld'
  <2>1. \A j \in DOMAIN conn : j \in Killed!Waiting \cup {dev.accepted}
          => j \in Killed!Waiting' \cup {dev'.accepted} \/ ~conn'[j].dOpen
    BY <1>7, <1>8, <1>9, <1>10 DEF i
  <2> QED BY <2>1, <1>9, StillHeld DEF KilledInv
<1>13. Killed!PairedOnce'
  <2> HIDE DEF c
  <2>1. /\ p.by = c /\ Vals(p.req) \subseteq Vals(k.req)
        /\ Vals(p.ans) \subseteq Vals(k.ans) \cup A
    BY <1>8 DEF Follows, c
  <2>2. /\ \A x \in Vals(k.req) : x = "APP_MESSAGE" <=> ctl[c].msg = "APP_MESSAGE"
        /\ ctl[c].msg = "APP_MESSAGE" => \A x \in Vals(k.ans) : x = "APP_MESSAGE_ACK"
    <3>1. Killed!Carries(k, ctl[c].msg)
      BY <1>2 DEF KilledInv, Killed!PairedOnce, k, c
    <3> QED BY <3>1, CarriesSays
  <2>3. Killed!Grants(p) => Killed!Grants(k) \/ h[2] \in {"NONCE_ACK", "APP_MESSAGE_ACK"}
    BY <2>1, GrantsSays
  <2>4. ASSUME NEW d \in Killables, Killed!Confirmed(d)'
        PROVE  Killed!Confirmed(d) \/ (d = c /\ h[2] = "NONCE_ACK")
    <3>1. CASE ctl'[d].state = "PAIRED"
      BY <1>3, <3>1 DEF Killed!Confirmed
    <3>2. CASE ctl'[d].state # "PAIRED"
      <4>1. PICK j \in DOMAIN conn' : conn'[j].by = d /\ Killed!Grants(conn'[j])
        BY <2>4, <3>2 DEF Killed!Confirmed
      <4>2. CASE j # i
        BY <1>9, <4>1, <4>2 DEF Killed!Confirmed
      <4>3. CASE j = i /\ Killed!Grants(k)
        BY <1>2, <1>9, <2>1, <4>1, <4>3 DEF Killed!Confirmed, k, c
      <4>4. CASE j = i /\ h[2] = "NONCE_ACK"
        BY <1>9, <2>1, <4>1, <4>4
      <4>5. CASE j = i /\ h[2] = "APP_MESSAGE_ACK"
        <5>1. ctl[c].state = "PAIRED"
          BY <1>4, <1>5, <1>6, <2>2, <4>5 DEF KilledInv, Killed!PairedOnce
        <5>2. d = c
          BY <1>9, <2>1, <4>1, <4>5
        <5> QED BY <5>1, <5>2 DEF Killed!Confirmed
      <4> QED BY <1>9, <2>3, <4>1, <4>2, <4>3, <4>4, <4>5
    <3> QED BY <3>1, <3>2
  <2>5. h[2] = "NONCE_ACK" => \A d \in Killables : ~Killed!Confirmed(d)
    BY <1>6 DEF KilledInv, Killed!PairedOnce
  <2>6. \A d \in Killables : Killed!Confirmed(d)' => dev'.state = "PAIRED"
    BY <1>6, <1>7, <2>4 DEF KilledInv, Killed!PairedOnce
  <2>7. \A d, e \in Killables : Killed!Confirmed(d)' /\ Killed!Confirmed(e)' => d = e
    BY <2>4, <2>5 DEF KilledInv, Killed!PairedOnce
  <2>8. ASSUME NEW j \in DOMAIN conn' PROVE Killed!Carries(conn'[j], ctl'[conn'[j].by].msg)
    <3>1. CASE j # i
      BY <1>3, <1>9, <3>1 DEF KilledInv, Killed!PairedOnce
    <3>2. CASE j = i
      <4>1. \A x \in Vals(p.req) : x = "APP_MESSAGE" <=> ctl[c].msg = "APP_MESSAGE"
        BY <2>1, <2>2
      <4>2. ctl[c].msg = "APP_MESSAGE" => h[2] \in {"none", "APP_MESSAGE_ACK"}
        BY <1>4, <1>6, <2>2 DEF Killed!Answer
      <4>3. ctl[c].msg = "APP_MESSAGE" => \A x \in Vals(p.ans) : x = "APP_MESSAGE_ACK"
        BY <2>1, <2>2, <4>2
      <4>4. Killed!Carries(p, ctl[c].msg)
        BY <4>1, <4>3, CarriesSays
      <4> QED BY <1>3, <1>9, <2>1, <3>2, <4>4
    <3> QED BY <3>1, <3>2
  <2>9. \A d \in Killables :
          /\ ctl'[d].msg = "APP_MESSAGE" => ctl'[d].state = "PAIRED"
          /\ ctl'[d].state = "PAIRED" /\ ctl'[d].msg # "APP_MESSAGE" => ctl'[d].pc = "end"
    BY <1>3 DEF KilledInv, Killed!PairedOnce
  <2> QED BY <2>6, <2>7, <2>8, <2>9 DEF Killed!PairedOnce
<1> QED BY <1>9, <1>10, <1>11, <1>12, <1>13, InvNext DEF KilledInv

\* The controller takes an answer: it asks with a nonce, or is paired, which
\* the answer had confirmed.
LEMMA ReceiveStep == ASSUME KilledInv, NEW c \in Killables, Killed!Receive(c) PROVE KilledInv'
<1> DEFINE i == ctl[c].socket  k == conn[i]  m == Head(k.ans)
           q == [k EXCEPT !.ans = Tail(@)]  M == ctl[c].msg
<1>1. ctl[c] \in Killed!Run /\ ctl \in [Killables -> Killed!Run] /\ Holds(c)
  BY RunTypes, TypesAre DEF KilledInv, RunsTyped
<1>2. /\ i \in DOMAIN conn /\ i \in Killed!Conn /\ k.by = c /\ k \in Killed!Connection
      /\ k.ans # <<>> /\ ctl[c].pc = "read" /\ UNCHANGED <<queue, dev>>
  BY OwnConn DEF Killed!Receive
<1>3. Follows(k, q, {}, {}) /\ m \in Vals(k.ans) /\ m \in Killed!Answer
  BY <1>2, TakenFollows
<1>4. /\ \A x \in Vals(k.req) : x = "APP_MESSAGE" <=> M = "APP_MESSAGE"
      /\ M = "APP_MESSAGE" => \A x \in Vals(k.ans) : x = "APP_MESSAGE_ACK"
  <2>1. Killed!Carries(k, M)
    BY <1>2 DEF KilledInv, Killed!PairedOnce
  <2> QED BY <2>1, CarriesSays
<1>5. conn \in Seq(Killed!Connection)
  BY DEF KilledInv, KilledTypes, Killed!TypeOK
<1>6. \A p : [[conn EXCEPT ![i] = q] EXCEPT ![i] = p] = [conn EXCEPT ![i] = p]
  BY <1>5
<1>7. [conn EXCEPT ![i] = q][i] = q
  BY <1>2, <1>5
<1>8. CASE m = "PAIR_REQUEST_ACK"
  <2> DEFINE p == Killed!WriteReq(q, "NONCE_SEND")
             r == [ctl[c] EXCEPT !.state = "NONCE_SETUP", !.msg = "NONCE_SEND"]
  <2>1. r \in Killed!Run
    BY <1>1 DEF Killed!Run, Killed!State, Killed!Request
  <2>2. r.state = "NONCE_SETUP" /\ r.msg = "NONCE_SEND"
    BY <1>1 DEF Killed!Run
  <2>3. r.socket = i /\ r.pc = "read" /\ r.retry = ctl[c].retry
    BY <1>1, <1>2 DEF Killed!Run
  <2>4. ctl' = [ctl EXCEPT ![c] = r]
    BY <1>8 DEF Killed!Receive
  <2>5. conn' = [conn EXCEPT ![i] = p]
    <3>1. conn' = [[conn EXCEPT ![i] = q] EXCEPT ![i] =
                      Killed!WriteReq([conn EXCEPT ![i] = q][i], "NONCE_SEND")]
      BY <1>8 DEF Killed!Receive
    <3> HIDE DEF q
    <3> QED BY <3>1, <1>6, <1>7
  <2> HIDE DEF r, q, k, i, m
  <2>6. Follows(k, p, {"NONCE_SEND"}, {})
    <3>1. q \in Killed!Connection
      BY <1>3 DEF Follows
    <3>2. Follows(q, p, {"NONCE_SEND"}, {})
      BY <3>1, WriteReqFollows DEF Killed!Request
    <3> HIDE DEF p
    <3> QED BY <1>3, <3>2 DEF Follows
  <2> HIDE DEF p
  <2>7. /\ ConnsMove /\ DOMAIN conn' = DOMAIN conn
        /\ conn'[i] = p /\ \A j \in DOMAIN conn : j # i => conn'[j] = conn[j]
    BY <1>2, <2>5, <2>6, OneMoves DEF k
  <2>8. ctl'[c] = r
    BY <1>1, <2>4
  <2>9. p.by = c /\ Vals(p.req) \subseteq Vals(k.req) \cup {"NONCE_SEND"}
        /\ Vals(p.ans) \subseteq Vals(k.ans)
    BY <1>2, <2>6 DEF Follows
  <2>10. Holds(c)'
    BY <1>1, <1>2, <2>3, <2>7, <2>8, <2>9 DEF Holds, i
  <2>11. RunsTyped' /\ \A d \in Killables : d # c => ctl'[d] = ctl[d]
    BY <2>1, <2>4, <2>7, <2>10, OneRuns DEF KilledInv
  <2>12. SidesTyped' /\ Killed!Waiting' = Killed!Waiting
    BY <1>2, <2>7, SidesKept DEF KilledInv
  <2>13. OpenIsHeld'
    BY <1>2, <2>7, <2>12, StillHeld DEF KilledInv
  <2>14. M # "APP_MESSAGE"
    BY <1>3, <1>4, <1>8
  <2>15. Killed!PairedOnce'
    <3>1. Killed!Grants(p) => Killed!Grants(k)
      BY <2>9, GrantsSays
    <3>2. ASSUME NEW d \in Killables, Killed!Confirmed(d)' PROVE Killed!Confirmed(d)
      <4>1. CASE ctl'[d].state = "PAIRED"
        <5>1. d # c
          BY <2>2, <2>8, <4>1
        <5> QED BY <2>11, <4>1, <5>1 DEF Killed!Confirmed
      <4>2. CASE ctl'[d].state # "PAIRED"
        <5>1. PICK j \in DOMAIN conn' : conn'[j].by = d /\ Killed!Grants(conn'[j])
          BY <3>2, <4>2 DEF Killed!Confirmed
        <5>2. j \in DOMAIN conn /\ conn[j].by = d /\ Killed!Grants(conn[j])
          BY <1>2, <2>7, <2>9, <3>1, <5>1 DEF k
        <5> QED BY <5>2 DEF Killed!Confirmed
      <4> QED BY <4>1, <4>2
    <3>3. ASSUME NEW j \in DOMAIN conn' PROVE Killed!Carries(conn'[j], ctl'[conn'[j].by].msg)
      <4>1. j \in DOMAIN conn /\ conn[j].by \in Killables /\ conn'[j].by = conn[j].by
        <5>1. j \in DOMAIN conn
          BY <2>7, <3>3
        <5>2. conn[j] \in Killed!Connection
          BY <1>5, <5>1
        <5>3. conn[j].by \in Killables
          BY <5>2 DEF Killed!Connection
        <5>4. conn'[j].by = conn[j].by
          BY <2>7, <5>1 DEF ConnsMove
        <5> QED BY <5>1, <5>3, <5>4
      <4>2. Killed!Carries(conn[j], ctl[conn[j].by].msg)
        BY <4>1 DEF KilledInv, Killed!PairedOnce
      <4>3. CASE j # i /\ conn[j].by # c
        BY <2>7, <2>11, <4>1, <4>2, <4>3
      <4>4. CASE j # i /\ conn[j].by = c
        <5>1. /\ \A x \in Vals(conn[j].req) : x # "APP_MESSAGE"
          BY <2>14, <4>2, <4>4, CarriesSays
        <5>2. Killed!Carries(conn[j], "NONCE_SEND")
          BY <5>1, CarriesSays
        <5> QED BY <2>2, <2>7, <2>8, <4>1, <4>4, <5>2
      <4>5. CASE j = i
        <5>1. \A x \in Vals(p.req) : x # "APP_MESSAGE"
          BY <1>4, <2>9, <2>14
        <5>2. Killed!Carries(p, "NONCE_SEND")
          BY <5>1, CarriesSays
        <5> QED BY <2>2, <2>7, <2>8, <2>9, <4>5, <5>2
      <4> QED BY <4>3, <4>4, <4>5
    <3>4. ASSUME NEW d \in Killables
          PROVE  /\ ctl'[d].msg = "APP_MESSAGE" => ctl'[d].state = "PAIRED"
                 /\ ctl'[d].state = "PAIRED" /\ ctl'[d].msg # "APP_MESSAGE"
                      => ctl'[d].pc = "end"
      <4>1. CASE d = c
        BY <2>2, <2>8, <4>1
      <4>2. CASE d # c
        BY <2>11, <4>2 DEF KilledInv, Killed!PairedOnce
      <4> QED BY <4>1, <4>2
    <3> QED BY <1>2, <3>2, <3>3, <3>4 DEF KilledInv, Killed!PairedOnce
  <2> QED BY <2>7, <2>11, <2>12, <2>13, <2>15, InvNext DEF KilledInv
<1>9. CASE m \in {"NONCE_ACK", "APP_MESSAGE_ACK"}
  <2> DEFINE p == Killed!CloseC(q)
             r == [ctl[c] EXCEPT !.pc = "end", !.socket = Killed!NoSocket,
                                 !.state = "PAIRED", !.answered = TRUE, !.result = "ERROR_OK"]
  <2>1. r \in Killed!Run
    BY <1>1 DEF Killed!Run, Killed!State
  <2>2. r.state = "PAIRED" /\ r.pc = "end"
    BY <1>1 DEF Killed!Run
  <2>3. r.socket = Killed!NoSocket /\ r.msg = M
    BY <1>1 DEF Killed!Run
  <2>4. ctl' = [ctl EXCEPT ![c] = r]
    BY <1>9 DEF Killed!Receive
  <2>5. conn' = [conn EXCEPT ![i] = p]
    <3>1. conn' = [[conn EXCEPT ![i] = q] EXCEPT ![i] =
                      Killed!CloseC([conn EXCEPT ![i] = q][i])]
      BY <1>9 DEF Killed!Receive
    <3> HIDE DEF q
    <3> QED BY <3>1, <1>6, <1>7
  <2> HIDE DEF r, q, m
  <2>6. Follows(k, p, {}, {})
    <3>1. q \in Killed!Connection
      BY <1>3 DEF Follows
    <3>2. Follows(q, p, {}, {})
      BY <3>1, CloseCFollows
    <3> HIDE DEF p
    <3> QED BY <1>3, <3>2 DEF Follows
  <2> HIDE DEF p
  <2>7. Killed!Confirmed(c)
    <3>1. Killed!Grants(k)
      BY <1>3, <1>9, GrantsSays
    <3> QED BY <1>2, <3>1 DEF Killed!Confirmed
  <2>8. ConnsGoOn /\ ConnsMove /\ DOMAIN conn' = DOMAIN conn
        /\ \A j \in DOMAIN conn : Follows(conn[j], conn'[j], {ctl[conn[j].by].msg}, {})
    <3>1. Follows(k, p, {ctl[k.by].msg}, {})
      BY <2>6 DEF Follows
    <3>2. AllFollow(conn')
      BY <1>2, <2>5, <3>1, OneFollows DEF KilledInv
    <3> QED BY <3>2, GoOnWith, GoOnMoves DEF KilledInv, AllFollow
  <2> HIDE DEF k, i
  <2>9. ctl'[c] = r
    BY <1>1, <2>4
  <2>10. Holds(c)'
    BY <2>2, <2>3, <2>9 DEF Holds, Killed!Conn, Killed!NoSocket
  <2>11. RunsTyped' /\ \A d \in Killables : d # c => ctl'[d] = ctl[d]
    BY <2>1, <2>4, <2>8, <2>10, OneRuns DEF KilledInv
  <2>12. SidesTyped' /\ Killed!Waiting' = Killed!Waiting
    BY <1>2, <2>8, SidesKept DEF KilledInv
  <2>13. OpenIsHeld'
    BY <1>2, <2>8, <2>12, StillHeld DEF KilledInv
  <2>14. Killed!PairedOnce'
    <3>1. ASSUME NEW d \in Killables, Killed!Confirmed(d)' PROVE Killed!Confirmed(d)
      <4>1. CASE d = c
        BY <2>7, <4>1
      <4>2. CASE d # c /\ ctl'[d].state = "PAIRED"
        BY <2>11, <4>2 DEF Killed!Confirmed
      <4>3. CASE d # c /\ ctl'[d].state # "PAIRED"
        <5>1. PICK j \in DOMAIN conn' : conn'[j].by = d /\ Killed!Grants(conn'[j])
          BY <3>1, <4>3 DEF Killed!Confirmed
        <5>2. conn[j].by = d /\ Vals(conn'[j].ans) \subseteq Vals(conn[j].ans)
          BY <2>8, <5>1 DEF Follows
        <5>3. Killed!Grants(conn[j])
          BY <5>1, <5>2, GrantsSays
        <5> QED BY <2>8, <5>2, <5>3 DEF Killed!Confirmed
      <4> QED BY <4>1, <4>2, <4>3
    <3>2. \A d \in Killables : ctl'[d].msg = ctl[d].msg
      BY <2>3, <2>9, <2>11
    <3>3. ASSUME NEW j \in DOMAIN conn' PROVE Killed!Carries(conn'[j], ctl'[conn'[j].by].msg)
      <4>1. j \in DOMAIN conn /\ conn[j].by \in Killables /\ conn'[j].by = conn[j].by
        <5>1. j \in DOMAIN conn
          BY <2>8, <3>3
        <5>2. conn[j] \in Killed!Connection
          BY <1>5, <5>1
        <5>3. conn[j].by \in Killables
          BY <5>2 DEF Killed!Connection
        <5>4. conn'[j].by = conn[j].by
          BY <2>8, <5>1 DEF ConnsMove
        <5> QED BY <5>1, <5>3, <5>4
      <4>2. Killed!Carries(conn[j], ctl[conn[j].by].msg)
        BY <4>1 DEF KilledInv, Killed!PairedOnce
      <4> DEFINE n == ctl[conn[j].by].msg
      <4>3. /\ \A x \in Vals(conn[j].req) : x = "APP_MESSAGE" <=> n = "APP_MESSAGE"
            /\ n = "APP_MESSAGE" => \A x \in Vals(conn[j].ans) : x = "APP_MESSAGE_ACK"
        BY <4>2, CarriesSays
      <4>4. Vals(conn'[j].req) \subseteq Vals(conn[j].req) \cup {n}
            /\ Vals(conn'[j].ans) \subseteq Vals(conn[j].ans)
        BY <2>8, <4>1 DEF Follows
      <4>5. ctl'[conn'[j].by].msg = n
        BY <3>2, <4>1
      <4> HIDE DEF n
      <4>6. Killed!Carries(conn'[j], n)
        BY <4>3, <4>4, CarriesSays
      <4> QED BY <4>5, <4>6
    <3>4. ASSUME NEW d \in Killables
          PROVE  /\ ctl'[d].msg = "APP_MESSAGE" => ctl'[d].state = "PAIRED"
                 /\ ctl'[d].state = "PAIRED" /\ ctl'[d].msg # "APP_MESSAGE"
                      => ctl'[d].pc = "end"
      <4>1. CASE d = c
        BY <2>2, <2>9, <4>1
      <4>2. CASE d # c
        BY <2>11, <4>2 DEF KilledInv, Killed!PairedOnce
      <4> QED BY <4>1, <4>2
    <3> QED BY <1>2, <3>1, <3>3, <3>4 DEF KilledInv, Killed!PairedOnce
  <2> QED BY <2>8, <2>11, <2>12, <2>13, <2>14, InvNext DEF KilledInv
<1>10. CASE m = "FAIL"
  <2>1. conn' = [conn EXCEPT ![i] = q] /\ UNCHANGED ctl
    BY <1>10 DEF Killed!Receive
  <2> HIDE DEF q, m
  <2>2. Follows(k, q, {ctl[k.by].msg}, {})
    BY <1>3 DEF Follows
  <2>3. AllFollow(conn')
    BY <1>2, <2>1, <2>2, OneFollows DEF KilledInv
  <2> HIDE DEF k, i
  <2>4. ConnsGoOn /\ DOMAIN conn' = DOMAIN conn
    BY <2>3, GoOnWith DEF KilledInv
  <2>5. SidesTyped' /\ Killed!Waiting' = Killed!Waiting
    BY <1>2, <2>4, GoOnMoves, SidesKept DEF KilledInv
  <2> QED BY <1>2, <2>1, <2>4, <2>5, SideStep
<1> QED BY <1>3, <1>8, <1>9, <1>10 DEF Killed!Answer

LEMMA KilledInit == ASSUME Killed!Init PROVE KilledInv
<1>1. PICK known \in {{}} \cup {{c} : c \in Killables} :
        /\ dev = [socket |-> "none", accepted |-> Killed!NoSocket,
                  state |-> IF known = {} THEN "UNCONFIGURED" ELSE "PAIRED"]
        /\ ctl = [c \in Killables |->
                    [pc |-> "start", socket |-> Killed!NoSocket, retry |-> 3,
                     state |-> IF c \in known THEN "PAIRED" ELSE "UNCONFIGURED",
                     msg |-> IF c \in known THEN "APP_MESSAGE" ELSE "PAIR_REQUEST",
                     answered |-> FALSE, result |-> "none"]]
  BY DEF Killed!Init
<1>2. conn = <<>> /\ queue = <<>>
  BY DEF Killed!Init
<1>3. conn \in Seq(Killed!Connection) /\ Len(conn) = 0 /\ DOMAIN conn = {}
      /\ queue \in Seq(Killed!Conn) /\ DOMAIN queue = {}
  BY <1>2, EmptySeq
<1>4. dev \in Killed!Side /\ dev.accepted = Killed!NoSocket
  BY <1>1 DEF Killed!Side, Killed!State
<1>5. ASSUME NEW c \in Killables
      PROVE  /\ ctl[c] \in Killed!Run /\ ctl[c].socket = Killed!NoSocket /\ ctl[c].pc = "start"
             /\ ctl[c].state = (IF c \in known THEN "PAIRED" ELSE "UNCONFIGURED")
             /\ ctl[c].msg = (IF c \in known THEN "APP_MESSAGE" ELSE "PAIR_REQUEST")
  <2>1. 3 \in 0 .. 3
    OBVIOUS
  <2>2. PICK s \in Killed!State, m \in Killed!Request :
          /\ s = (IF c \in known THEN "PAIRED" ELSE "UNCONFIGURED")
          /\ m = (IF c \in known THEN "APP_MESSAGE" ELSE "PAIR_REQUEST")
    BY DEF Killed!State, Killed!Request
  <2>3. ctl[c] = [pc |-> "start", socket |-> Killed!NoSocket, retry |-> 3, state |-> s,
                  msg |-> m, answered |-> FALSE, result |-> "none"]
    BY <1>1, <2>2
  <2>4. ctl[c] \in Killed!Run
    BY <2>1, <2>3 DEF Killed!Run
  <2> QED BY <2>2, <2>3, <2>4
<1>6. RunsTyped
  <2>1. ctl \in [Killables -> Killed!Run]
    BY <1>1, <1>5
  <2>2. Killed!NoSocket \notin Killed!Conn
    BY DEF Killed!NoSocket, Killed!Conn
  <2> QED BY <1>5, <2>1, <2>2 DEF RunsTyped, Holds
<1>7. KilledTypes
  <2>1. MaxConn \in Nat
    BY StreamsAssumption
  <2> QED BY <1>3, <1>4, <1>6, <2>1, TypesAre DEF SidesTyped
<1>8. OpenIsHeld
  BY <1>3 DEF OpenIsHeld
<1>9. \A c \in Killables : Killed!Confirmed(c) <=> c \in known
  BY <1>3, <1>5 DEF Killed!Confirmed
<1>10. Killed!PairedOnce
  <2>1. \A c \in Killables : Killed!Confirmed(c) => dev.state = "PAIRED"
    BY <1>1, <1>9
  <2>2. \A c, d \in Killables : Killed!Confirmed(c) /\ Killed!Confirmed(d) => c = d
    BY <1>9
  <2> QED BY <1>3, <1>5, <2>1, <2>2 DEF Killed!PairedOnce
<1> QED BY <1>7, <1>8, <1>10 DEF KilledInv

LEMMA KilledStep == ASSUME KilledInv, Killed!Next PROVE KilledInv'
<1>1. CASE Killed!Device
  BY <1>1, ListenStep, AcceptStep, DeviceReceiveStep, DeviceEofStep, ReopenSteps
     DEF Killed!Device
<1>2. CASE Killed!LingerEnds
  BY <1>2, LingerStep
<1>3. ASSUME NEW c \in Killables, Killed!Step(c) \/ Killed!Kill(c) PROVE KilledInv'
  <2>1. CASE Killed!Start(c) \/ Killed!WriteError(c) \/ Killed!ReadError(c) \/ Killed!Eof(c)
    BY <2>1, AloneSteps
  <2>2. CASE Killed!Connect(c) \/ Killed!Reconnect(c)
    BY <2>2, ConnectSteps
  <2>3. CASE Killed!Write(c)
    BY <2>3, WriteStep
  <2>4. CASE Killed!Receive(c)
    BY <2>4, ReceiveStep
  <2>5. CASE Killed!Exit(c) \/ Killed!Kill(c)
    BY <2>5, CloseSteps
  <2> QED BY <1>3, <2>1, <2>2, <2>3, <2>4, <2>5 DEF Killed!Step
<1> QED BY <1>1, <1>2, <1>3 DEF Killed!Next

LEMMA KilledStutters == ASSUME KilledInv, UNCHANGED streamVars PROVE KilledInv'
BY DEF streamVars, KilledInv, KilledTypes, Killed!TypeOK, Killed!SocketsHeld, OpenIsHeld,
       Killed!Waiting, Killed!PairedOnce, Killed!Confirmed

LEMMA KilledSound == ASSUME KilledInv PROVE Killed!OnlyDeadAreLeaked /\ Killed!OnePairing
<1>1. Killed!OnlyDeadAreLeaked
  BY OpenIsHeldSays DEF KilledInv
<1>2. Killed!OnePairing
  BY DEF KilledInv, Killed!PairedOnce, Killed!Confirmed, Killed!OnePairing
<1> QED BY <1>1, <1>2

-----------------------------------------------------------------------------
(* Streams whose controllers are started after the device and not killed.  *)

\* The queue and the device.
SideInStep ==
    /\ queue \in Seq(Orderly!Conn) /\ \A j \in DOMAIN queue : queue[j] \in DOMAIN conn
    /\ dev \in Orderly!Side /\ dev.socket = "port"
    /\ dev.accepted # Orderly!NoSocket => dev.accepted \in DOMAIN conn /\ conn[dev.accepted].dOpen
    /\ \A i, j \in DOMAIN queue : queue[i] = queue[j] => i = j
    /\ \A j \in DOMAIN queue : conn[queue[j]].dOpen /\ queue[j] # dev.accepted
    /\ dev.state = "NONCE_SETUP" =>
         /\ dev.accepted # Orderly!NoSocket
         /\ \/ conn[dev.accepted].req = <<"NONCE_SEND">>
            \/ conn[dev.accepted].ans = <<"PAIR_REQUEST_ACK">>

ConnInStep(i) ==
    ~conn[i].reset /\ IF conn[i].dOpen THEN Orderly!Exchange(i) ELSE Orderly!Answered(conn[i])

RunInStep(c) ==
    LET r == ctl[c] IN
    /\ r.socket \in Orderly!Conn => r.socket \in DOMAIN conn /\ conn[r.socket].by = c
    /\ r.pc \in {"start", "connect", "write", "read", "exit", "end"}
    /\ r.retry = 3
    /\ r.pc \in {"start", "connect", "end"} => r.socket = Orderly!NoSocket
    /\ r.pc \in {"write", "read", "exit"} => r.socket \in DOMAIN conn
    /\ r.pc = "write" => conn[r.socket].dOpen
    /\ r.pc = "exit" => ~conn[r.socket].dOpen /\ conn[r.socket].ans = <<>>
    /\ r.pc \in {"start", "connect", "write"} => r.msg # "NONCE_SEND"
    /\ r.msg = "APP_MESSAGE" => dev.state = "PAIRED"
    /\ r.result = "ERROR_OK" => r.answered

InStep ==
    /\ conn \in Seq(Orderly!Connection) /\ Len(conn) <= MaxConn
    /\ ctl \in [Controllers -> Orderly!Run]
    /\ SideInStep
    /\ \A i \in DOMAIN conn : ConnInStep(i)
    /\ \A c \in Controllers : RunInStep(c)

LEMMA InStepSays ==
    InStep <=> Orderly!TypeOK /\ Orderly!SocketsHeld /\ Orderly!OrderlyInv
<1>1. ASSUME Orderly!TypeOK, Orderly!SocketsHeld, Orderly!OrderlyInv PROVE InStep
  <2>1. SideInStep
    BY <1>1 DEF Orderly!TypeOK, Orderly!SocketsHeld, Orderly!OrderlyInv, SideInStep
  <2>2. \A i \in DOMAIN conn : ConnInStep(i)
    BY <1>1 DEF Orderly!OrderlyInv, ConnInStep
  <2>3. \A c \in Controllers : RunInStep(c)
    BY <1>1 DEF Orderly!SocketsHeld, Orderly!OrderlyInv, RunInStep
  <2> QED BY <1>1, <2>1, <2>2, <2>3 DEF Orderly!TypeOK, InStep
<1>2. ASSUME InStep PROVE Orderly!TypeOK /\ Orderly!SocketsHeld /\ Orderly!OrderlyInv
  <2>1. Orderly!TypeOK
    BY <1>2 DEF InStep, SideInStep, Orderly!TypeOK
  <2>2. \A c \in Controllers :
          ctl[c].pc \in {"write", "read"} => ctl[c].socket # Orderly!NoSocket /\ ctl[c].retry # 0
    <3>1. conn \in Seq(Orderly!Connection) /\ 0 \notin DOMAIN conn
      BY <1>2 DEF InStep
    <3> QED BY <1>2, <3>1 DEF InStep, RunInStep, Orderly!NoSocket
  <2>3. Orderly!SocketsHeld
    BY <1>2, <2>2 DEF InStep, SideInStep, RunInStep, Orderly!SocketsHeld
  <2>4. Orderly!OrderlyInv
    BY <1>2 DEF InStep, SideInStep, ConnInStep, RunInStep, Orderly!OrderlyInv
  <2> QED BY <2>1, <2>3, <2>4
<1> QED BY <1>1, <1>2

\* A connection of c that was not reset and carries R and A.
Shape(q, c, R, A) ==
    q \in Orderly!Connection /\ ~q.reset /\ q.by = c /\ q.req = R /\ q.ans = A

LEMMA Asked ==
    ASSUME NEW k \in Orderly!Connection, NEW c, NEW m \in Orderly!Request,
           Shape(k, c, <<>>, <<>>), k.dOpen
    PROVE  LET q == Orderly!WriteReq(k, m)
           IN  Shape(q, c, <<m>>, <<>>) /\ q.dOpen /\ (q.cOpen <=> k.cOpen)
<1> DEFINE q == [k EXCEPT !.req = Append(@, m)]
<1>1. <<m>> \in Seq(Orderly!Request) /\ Append(<<>>, m) = <<m>>
  OBVIOUS
<1>2. q = [k EXCEPT !.req = <<m>>]
  BY <1>1 DEF Shape
<1>3. q \in Orderly!Connection
  BY <1>1, <1>2 DEF Orderly!Connection
<1>4. /\ q.by = k.by /\ q.dOpen = k.dOpen /\ q.reset = k.reset /\ q.ans = k.ans
      /\ q.cOpen = k.cOpen /\ q.req = <<m>>
  BY <1>2 DEF Orderly!Connection
<1> HIDE DEF q
<1>5. Orderly!WriteReq(k, m) = q
  BY DEF Orderly!WriteReq, q
<1> QED BY <1>3, <1>4, <1>5 DEF Shape

LEMMA TookAnswer ==
    ASSUME NEW k \in Orderly!Connection, NEW c, NEW m, Shape(k, c, <<>>, <<m>>)
    PROVE  LET q == [k EXCEPT !.ans = Tail(@)]
           IN  Shape(q, c, <<>>, <<>>) /\ (q.dOpen <=> k.dOpen) /\ (q.cOpen <=> k.cOpen)
<1>1. Tail(<<m>>) = <<>> /\ <<>> \in Seq(Orderly!Answer)
  OBVIOUS
<1> DEFINE q == [k EXCEPT !.ans = Tail(@)]
<1>2. q = [k EXCEPT !.ans = <<>>]
  BY <1>1 DEF Shape
<1>3. q \in Orderly!Connection
  BY <1>1, <1>2 DEF Orderly!Connection
<1>4. /\ q.by = k.by /\ q.dOpen = k.dOpen /\ q.reset = k.reset /\ q.req = k.req
      /\ q.cOpen = k.cOpen /\ q.ans = <<>>
  BY <1>2 DEF Orderly!Connection
<1> QED BY <1>3, <1>4 DEF Shape

LEMMA ControllerClosed ==
    ASSUME NEW k \in Orderly!Connection, NEW c, Shape(k, c, <<>>, <<>>)
    PROVE  Shape(Orderly!CloseC(k), c, <<>>, <<>>) /\ (Orderly!CloseC(k).dOpen <=> k.dOpen)
<1> DEFINE q == [k EXCEPT !.cOpen = FALSE]
<1>1. q \in Orderly!Connection
  BY DEF Orderly!Connection
<1>2. q.by = k.by /\ q.dOpen = k.dOpen /\ q.reset = k.reset /\ q.req = k.req /\ q.ans = k.ans
  BY DEF Orderly!Connection
<1> HIDE DEF q
<1>3. Orderly!CloseC(k) = q
  BY DEF Orderly!CloseC, Shape, q
<1> QED BY <1>1, <1>2, <1>3 DEF Shape

LEMMA DeviceAnswered ==
    ASSUME NEW k \in Orderly!Connection, NEW c, NEW m, NEW a \in Orderly!Answer,
           Shape(k, c, <<m>>, <<>>), k.cOpen, k.dOpen
    PROVE  LET w == Orderly!WriteAns([k EXCEPT !.req = Tail(@)], a)
           IN  /\ Shape(w, c, <<>>, <<a>>) /\ w.cOpen /\ w.dOpen
               /\ Shape(Orderly!CloseD(w), c, <<>>, <<a>>) /\ ~Orderly!CloseD(w).dOpen
<1>1. /\ Tail(<<m>>) = <<>> /\ <<>> \in Seq(Orderly!Request)
      /\ <<a>> \in Seq(Orderly!Answer) /\ Append(<<>>, a) = <<a>>
  OBVIOUS
<1> DEFINE q == [k EXCEPT !.req = Tail(@)]  w == [q EXCEPT !.ans = Append(@, a)]
           d == [w EXCEPT !.dOpen = FALSE]  l == [d EXCEPT !.lingers = w.cOpen /\ ~w.reset]
<1>2. q = [k EXCEPT !.req = <<>>]
  BY <1>1 DEF Shape
<1>3. q \in Orderly!Connection
  BY <1>1, <1>2 DEF Orderly!Connection
<1>4. /\ q.by = c /\ q.dOpen /\ ~q.reset /\ q.req = <<>> /\ q.cOpen /\ q.ans = <<>>
  BY <1>2 DEF Orderly!Connection, Shape
<1> HIDE DEF q
<1>5. w = [q EXCEPT !.ans = <<a>>]
  BY <1>1, <1>4
<1>6. w \in Orderly!Connection
  BY <1>1, <1>3, <1>5 DEF Orderly!Connection
<1>7. /\ w.by = c /\ w.dOpen /\ ~w.reset /\ w.req = <<>> /\ w.cOpen /\ w.ans = <<a>>
  BY <1>3, <1>4, <1>5 DEF Orderly!Connection
<1>8. Orderly!WriteAns(q, a) = w
  BY <1>4 DEF Orderly!WriteAns
<1> HIDE DEF w
<1>9. d \in Orderly!Connection
  BY <1>6 DEF Orderly!Connection
<1>10. /\ d.by = c /\ ~d.dOpen /\ ~d.reset /\ d.req = <<>> /\ d.ans = <<a>>
  BY <1>6, <1>7 DEF Orderly!Connection
<1>11. Orderly!CloseD(w) = l
  BY <1>7 DEF Orderly!CloseD
<1> HIDE DEF d
<1>12. l \in Orderly!Connection
  BY <1>6, <1>9 DEF Orderly!Connection
<1>13. /\ l.by = c /\ ~l.dOpen /\ ~l.reset /\ l.req = <<>> /\ l.ans = <<a>>
  BY <1>9, <1>10 DEF Orderly!Connection
<1> HIDE DEF l
<1> QED BY <1>6, <1>7, <1>8, <1>11, <1>12, <1>13 DEF Shape, q

LEMMA OneConn ==
    ASSUME InStep, NEW i \in DOMAIN conn, NEW q \in Orderly!Connection,
           conn' = [conn EXCEPT ![i] = q]
    PROVE  /\ conn' \in Seq(Orderly!Connection) /\ Len(conn') <= MaxConn
           /\ DOMAIN conn' = DOMAIN conn
           /\ conn'[i] = q /\ \A j \in DOMAIN conn : j # i => conn'[j] = conn[j]
<1>1. conn \in Seq(Orderly!Connection) /\ Len(conn) <= MaxConn /\ i \in 1 .. Len(conn)
  BY DEF InStep
<1>2. /\ conn' \in Seq(Orderly!Connection) /\ Len(conn') = Len(conn)
      /\ \A j \in 1 .. Len(conn) : conn'[j] = IF j = i THEN q ELSE conn[j]
  BY <1>1, ExceptSeq
<1> QED BY <1>1, <1>2

\* A connection nobody touches, and a controller that rests.
LEMMA ConnKept ==
    ASSUME NEW j, ConnInStep(j), conn'[j] = conn[j],
           conn[j].dOpen => ctl'[conn[j].by] = ctl[conn[j].by],
           dev'.accepted = j /\ dev'.state = "NONCE_SETUP"
             <=> dev.accepted = j /\ dev.state = "NONCE_SETUP"
    PROVE  ConnInStep(j)'
<1>1. CASE conn[j].dOpen
  <2>1. Orderly!Exchange(j)
    BY <1>1 DEF ConnInStep
  <2> DEFINE k == conn[j]  r == ctl[k.by]
  <2>2. /\ k.cOpen /\ r.socket = j
        /\ \/ r.pc = "write" /\ k.req = <<>> /\ k.ans = <<>>
           \/ /\ r.pc = "read" /\ k.req = <<r.msg>> /\ k.ans = <<>>
              /\ r.msg = "NONCE_SEND" <=> dev.accepted = j /\ dev.state = "NONCE_SETUP"
           \/ /\ r.pc = "read" /\ k.req = <<>> /\ k.ans = <<"PAIR_REQUEST_ACK">>
              /\ dev.accepted = j /\ dev.state = "NONCE_SETUP"
    BY <2>1 DEF Orderly!Exchange
  <2>3. conn'[j] = k /\ ctl'[k.by] = r
    BY <1>1
  <2> HIDE DEF k, r
  <2>4. Orderly!Exchange(j)'
    BY <2>2, <2>3 DEF Orderly!Exchange
  <2> QED BY <1>1, <2>4 DEF ConnInStep
<1>2. CASE ~conn[j].dOpen
  BY <1>2 DEF ConnInStep, Orderly!Answered
<1> QED BY <1>1, <1>2

LEMMA RunKept ==
    ASSUME InStep, NEW d \in Controllers, ctl'[d] = ctl[d], DOMAIN conn \subseteq DOMAIN conn',
           \A j \in DOMAIN conn : j = ctl[d].socket => conn'[j] = conn[j],
           dev.state = "PAIRED" => dev'.state = "PAIRED"
    PROVE  RunInStep(d)'
<1>1. RunInStep(d)
  BY DEF InStep
<1> QED BY <1>1 DEF RunInStep, Orderly!Conn, Orderly!NoSocket

\* The connection the device still has open is the one its controller is at.
LEMMA AtIt ==
    ASSUME InStep, NEW j \in DOMAIN conn, conn[j].dOpen
    PROVE  conn[j].cOpen /\ conn[j].by \in Controllers /\ ctl[conn[j].by].socket = j
<1>1. conn[j] \in Orderly!Connection /\ ConnInStep(j)
  BY DEF InStep
<1> QED BY <1>1 DEF ConnInStep, Orderly!Exchange, Orderly!Connection

LEMMA RunOf ==
    ASSUME InStep, NEW c \in Controllers
    PROVE  ctl[c] \in Orderly!Run /\ RunInStep(c)
BY DEF InStep

\* A controller goes on, and its connection may with it; the device rests.
LEMMA ControllerGoes ==
    ASSUME InStep, NEW c \in Controllers, NEW i \in DOMAIN conn, conn[i].by = c,
           ctl[c].socket = i, NEW q \in Orderly!Connection, q.by = c, q.dOpen <=> conn[i].dOpen,
           conn' = [conn EXCEPT ![i] = q],
           NEW r \in Orderly!Run, ctl' = [ctl EXCEPT ![c] = r], UNCHANGED <<queue, dev>>,
           ConnInStep(i)', RunInStep(c)',
           dev.accepted = i /\ dev.state = "NONCE_SETUP"
             => q.req = <<"NONCE_SEND">> \/ q.ans = <<"PAIR_REQUEST_ACK">>
    PROVE  InStep'
<1>1. /\ conn' \in Seq(Orderly!Connection) /\ Len(conn') <= MaxConn
      /\ DOMAIN conn' = DOMAIN conn
      /\ conn'[i] = q /\ \A j \in DOMAIN conn : j # i => conn'[j] = conn[j]
  BY OneConn
<1>2. /\ ctl' \in [Controllers -> Orderly!Run] /\ ctl'[c] = r
      /\ \A d \in Controllers : d # c => ctl'[d] = ctl[d]
  BY DEF InStep
<1>3. SideInStep'
  <2>1. SideInStep
    BY DEF InStep
  <2>2. \A j \in DOMAIN conn : conn'[j].dOpen <=> conn[j].dOpen
    BY <1>1
  <2>3. dev'.state = "NONCE_SETUP" =>
          /\ dev'.accepted # Orderly!NoSocket
          /\ \/ conn'[dev'.accepted].req = <<"NONCE_SEND">>
             \/ conn'[dev'.accepted].ans = <<"PAIR_REQUEST_ACK">>
    BY <1>1, <2>1 DEF SideInStep
  <2> QED BY <1>1, <2>1, <2>2, <2>3 DEF SideInStep
<1>4. ASSUME NEW j \in DOMAIN conn', j # i PROVE ConnInStep(j)'
  <2>1. ConnInStep(j) /\ conn'[j] = conn[j] /\ j \in DOMAIN conn
    BY <1>1, <1>4 DEF InStep
  <2>2. conn[j].dOpen => ctl'[conn[j].by] = ctl[conn[j].by]
    BY <1>2, <1>4, <2>1, AtIt
  <2>3. dev' = dev
    OBVIOUS
  <2> QED BY <2>1, <2>2, <2>3, ConnKept
<1>5. ASSUME NEW d \in Controllers, d # c PROVE RunInStep(d)'
  <2>1. ctl[d].socket # i
    <3>1. RunInStep(d) /\ conn \in Seq(Orderly!Connection) /\ Len(conn) <= MaxConn
      BY DEF InStep
    <3>2. i \in Orderly!Conn
      BY <3>1, StreamsAssumption DEF Orderly!Conn
    <3> QED BY <1>5, <3>1, <3>2 DEF RunInStep
  <2>2. ctl'[d] = ctl[d] /\ \A j \in DOMAIN conn : j = ctl[d].socket => conn'[j] = conn[j]
    BY <1>1, <1>2, <1>5, <2>1
  <2> QED BY <1>1, <2>2, RunKept
<1>6. \A j \in DOMAIN conn' : ConnInStep(j)'
  BY <1>4
<1>7. \A d \in Controllers : RunInStep(d)'
  BY <1>5
<1> QED BY <1>1, <1>2, <1>3, <1>6, <1>7 DEF InStep

\* What a controller that writes, reads or is about to exit has.
LEMMA AtConn ==
    ASSUME InStep, NEW c \in Controllers, ctl[c].pc \in {"write", "read", "exit"}
    PROVE  /\ ctl[c].socket \in DOMAIN conn /\ ctl[c].socket \in Orderly!Conn
           /\ conn[ctl[c].socket].by = c /\ conn[ctl[c].socket] \in Orderly!Connection
           /\ ConnInStep(ctl[c].socket) /\ ~Orderly!Failing(c)
<1> DEFINE i == ctl[c].socket
<1>1. RunInStep(c) /\ conn \in Seq(Orderly!Connection) /\ Len(conn) <= MaxConn
  BY DEF InStep
<1>2. i \in DOMAIN conn
  BY <1>1 DEF RunInStep
<1>3. i \in Orderly!Conn /\ i # Orderly!Broken
  BY <1>1, <1>2, StreamsAssumption DEF Orderly!Conn, Orderly!Broken
<1>4. conn[i].by = c /\ conn[i] \in Orderly!Connection
  BY <1>1, <1>2, <1>3 DEF RunInStep
<1>5. ConnInStep(i)
  BY <1>2 DEF InStep
<1>6. ~Orderly!Failing(c)
  BY <1>3, <1>5 DEF ConnInStep, Orderly!Failing
<1> QED BY <1>2, <1>3, <1>4, <1>5, <1>6

LEMMA OrderlyStart == ASSUME InStep, NEW c \in Controllers, Orderly!Start(c) PROVE InStep'
<1> DEFINE r == [ctl[c] EXCEPT !.pc = "connect"]
<1>1. ctl[c] \in Orderly!Run /\ RunInStep(c) /\ ctl[c].pc = "start"
  BY RunOf DEF Orderly!Start
<1>2. r \in Orderly!Run
  BY <1>1 DEF Orderly!Run
<1>3. /\ r.socket = ctl[c].socket /\ r.retry = ctl[c].retry /\ r.msg = ctl[c].msg
      /\ r.result = ctl[c].result /\ r.answered = ctl[c].answered /\ r.pc = "connect"
  BY <1>1 DEF Orderly!Run
<1>4. ctl' = [ctl EXCEPT ![c] = r] /\ UNCHANGED <<conn, queue, dev>>
  BY DEF Orderly!Start
<1> HIDE DEF r
<1>5. /\ ctl' \in [Controllers -> Orderly!Run] /\ ctl'[c] = r
      /\ \A d \in Controllers : d # c => ctl'[d] = ctl[d]
  BY <1>2, <1>4 DEF InStep
<1>6. RunInStep(c)'
  BY <1>1, <1>3, <1>4, <1>5 DEF RunInStep, Orderly!NoSocket
<1>7. ASSUME NEW d \in Controllers, d # c PROVE RunInStep(d)'
  BY <1>4, <1>5, <1>7, RunKept
<1>8. SideInStep'
  BY <1>4 DEF InStep, SideInStep
<1>9. ASSUME NEW j \in DOMAIN conn' PROVE ConnInStep(j)'
  <2>1. ConnInStep(j) /\ conn'[j] = conn[j] /\ j \in DOMAIN conn
    BY <1>4 DEF InStep
  <2>2. ctl[c].socket # j
    <3>1. conn \in Seq(Orderly!Connection)
      BY DEF InStep
    <3> QED BY <1>1, <2>1, <3>1 DEF RunInStep, Orderly!NoSocket
  <2>3. conn[j].dOpen => ctl'[conn[j].by] = ctl[conn[j].by]
    BY <1>5, <2>1, <2>2, AtIt
  <2> QED BY <1>4, <2>1, <2>3, ConnKept
<1>10. \A d \in Controllers : RunInStep(d)'
  BY <1>6, <1>7
<1> QED BY <1>4, <1>5, <1>8, <1>9, <1>10 DEF InStep

LEMMA OrderlyWrite == ASSUME InStep, NEW c \in Controllers, Orderly!Write(c) PROVE InStep'
<1>1. ctl[c] \in Orderly!Run /\ RunInStep(c) /\ ctl[c].pc = "write"
  BY RunOf DEF Orderly!Write
<1>2. PICK i \in DOMAIN conn : i = ctl[c].socket
  BY <1>1, AtConn
<1> DEFINE k == conn[i]  m == ctl[c].msg  q == Orderly!WriteReq(k, m)
           r == [ctl[c] EXCEPT !.pc = "read", !.retry = 3]
<1>3. i \in DOMAIN conn /\ k.by = c /\ k \in Orderly!Connection /\ ConnInStep(i)
  BY <1>1, <1>2, AtConn
<1>4. Shape(k, c, <<>>, <<>>) /\ k.dOpen /\ k.cOpen
  <2>1. k.dOpen /\ Orderly!Exchange(i) /\ ~k.reset
    BY <1>1, <1>2, <1>3 DEF RunInStep, ConnInStep
  <2> QED BY <1>1, <1>2, <1>3, <2>1 DEF Orderly!Exchange, Shape
<1>5. m \in Orderly!Request /\ m # "NONCE_SEND"
  BY <1>1, <1>2 DEF Orderly!Run, RunInStep
<1>6. Shape(q, c, <<m>>, <<>>) /\ q.dOpen /\ q.cOpen
  BY <1>2, <1>3, <1>4, <1>5, Asked
<1>7. r \in Orderly!Run
  <2>1. 3 \in 0 .. 3
    OBVIOUS
  <2> QED BY <1>1, <1>2, <2>1 DEF Orderly!Run
<1>8. /\ r.socket = i /\ r.retry = 3 /\ r.msg = m
      /\ r.result = ctl[c].result /\ r.answered = ctl[c].answered /\ r.pc = "read"
  BY <1>1, <1>2 DEF Orderly!Run
<1>9. /\ ctl' = [ctl EXCEPT ![c] = r] /\ UNCHANGED <<queue, dev>>
      /\ conn' = [conn EXCEPT ![i] = q]
  BY <1>2 DEF Orderly!Write
<1>10. ~(dev.accepted = i /\ dev.state = "NONCE_SETUP")
  <2>1. SideInStep
    BY <1>2 DEF InStep
  <2>2. k.req # <<"NONCE_SEND">> /\ k.ans # <<"PAIR_REQUEST_ACK">>
    BY <1>2, <1>4 DEF Shape
  <2> QED BY <1>2, <2>1, <2>2 DEF SideInStep
<1> HIDE DEF r, q, m
<1>11. ctl'[c] = r
  BY <1>2, <1>7, <1>9 DEF InStep
<1>12. conn'[i] = q /\ DOMAIN conn' = DOMAIN conn /\ q \in Orderly!Connection
  BY <1>2, <1>3, <1>6, <1>9, OneConn DEF Shape
<1>13. ConnInStep(i)'
  <2>1. conn'[i].by = c
    BY <1>2, <1>6, <1>12 DEF Shape
  <2>2. Orderly!Exchange(i)'
    BY <1>2, <1>5, <1>6, <1>8, <1>9, <1>10, <1>11, <1>12, <2>1 DEF Orderly!Exchange, Shape
  <2> QED BY <1>2, <1>6, <1>12, <2>2 DEF ConnInStep, Shape
<1>14. RunInStep(c)'
  <2>1. conn'[i].by = c /\ i \in DOMAIN conn'
    BY <1>2, <1>3, <1>6, <1>12 DEF Shape
  <2>2. m = "APP_MESSAGE" => dev'.state = "PAIRED"
    BY <1>1, <1>2, <1>9 DEF RunInStep, m
  <2> QED BY <1>1, <1>2, <1>8, <1>11, <2>1, <2>2 DEF RunInStep
<1>15. (q.dOpen <=> conn[i].dOpen) /\ q.by = c
  BY <1>2, <1>4, <1>6 DEF Shape
<1>16. conn[i].by = c /\ ctl[c].socket = i
  BY <1>2, <1>3
<1> QED BY <1>2, <1>3, <1>7, <1>9, <1>10, <1>12, <1>13, <1>14, <1>15, <1>16, ControllerGoes

LEMMA OrderlyEof == ASSUME InStep, NEW c \in Controllers, Orderly!Eof(c) PROVE InStep'
<1>1. ctl[c] \in Orderly!Run /\ RunInStep(c) /\ ctl[c].pc = "read"
  BY RunOf DEF Orderly!Eof
<1>2. PICK i \in DOMAIN conn : i = ctl[c].socket
  BY <1>1, AtConn
<1> DEFINE k == conn[i]  r == [ctl[c] EXCEPT !.pc = "exit", !.result = "ERROR"]
<1>3. i \in DOMAIN conn /\ k.by = c /\ k \in Orderly!Connection /\ ConnInStep(i)
  BY <1>1, <1>2, AtConn
<1>4. ~k.dOpen /\ k.ans = <<>>
  BY <1>2 DEF Orderly!Eof
<1>5. r \in Orderly!Run
  BY <1>1, <1>2 DEF Orderly!Run
<1>6. /\ r.socket = i /\ r.retry = ctl[c].retry /\ r.msg = ctl[c].msg
      /\ r.result = "ERROR" /\ r.pc = "exit"
  BY <1>1, <1>2 DEF Orderly!Run
<1>7. ctl' = [ctl EXCEPT ![c] = r] /\ UNCHANGED <<conn, queue, dev>>
  BY <1>2 DEF Orderly!Eof
<1> HIDE DEF r
<1>8. conn' = [conn EXCEPT ![i] = k]
  BY <1>2, <1>3, <1>7 DEF InStep
<1>9. ctl'[c] = r
  BY <1>2, <1>5, <1>7 DEF InStep
<1>10. ConnInStep(i)'
  BY <1>2, <1>3, <1>4, <1>7, ConnKept
<1>11. RunInStep(c)'
  BY <1>1, <1>2, <1>3, <1>4, <1>6, <1>7, <1>9 DEF RunInStep
<1>12. ~(dev.accepted = i /\ dev.state = "NONCE_SETUP")
  BY <1>2, <1>4 DEF InStep, SideInStep
<1>13. ctl[c].socket = i
  BY <1>2
<1> QED BY <1>2, <1>3, <1>5, <1>7, <1>8, <1>10, <1>11, <1>12, <1>13, ControllerGoes

LEMMA OrderlyExit == ASSUME InStep, NEW c \in Controllers, Orderly!Exit(c) PROVE InStep'
<1>1. ctl[c] \in Orderly!Run /\ RunInStep(c) /\ ctl[c].pc = "exit"
  BY RunOf DEF Orderly!Exit
<1>2. PICK i \in DOMAIN conn : i = ctl[c].socket
  BY <1>1, AtConn
<1> DEFINE k == conn[i]  q == Orderly!CloseC(k)
           r == [ctl[c] EXCEPT !.pc = "end", !.socket = Orderly!NoSocket]
<1>3. /\ i \in DOMAIN conn /\ k.by = c /\ k \in Orderly!Connection /\ ConnInStep(i)
      /\ i \in Orderly!Conn
  BY <1>1, <1>2, AtConn
<1>4. ~k.dOpen /\ Shape(k, c, <<>>, <<>>)
  BY <1>1, <1>2, <1>3 DEF RunInStep, ConnInStep, Orderly!Answered, Shape
<1>5. Shape(q, c, <<>>, <<>>) /\ ~q.dOpen
  BY <1>2, <1>3, <1>4, ControllerClosed
<1>6. r \in Orderly!Run
  BY <1>1, <1>2 DEF Orderly!Run
<1>7. /\ r.socket = Orderly!NoSocket /\ r.retry = ctl[c].retry /\ r.msg = ctl[c].msg
      /\ r.result = ctl[c].result /\ r.answered = ctl[c].answered /\ r.pc = "end"
  BY <1>1, <1>2 DEF Orderly!Run
<1>8. /\ ctl' = [ctl EXCEPT ![c] = r] /\ UNCHANGED <<queue, dev>>
      /\ conn' = [conn EXCEPT ![i] = q]
  BY <1>2, <1>3 DEF Orderly!Exit, Orderly!CloseSocketOf
<1> HIDE DEF r, q
<1>9. ctl'[c] = r
  BY <1>2, <1>6, <1>8 DEF InStep
<1>10. conn'[i] = q /\ q \in Orderly!Connection
  BY <1>2, <1>3, <1>5, <1>8, OneConn DEF Shape
<1>11. ConnInStep(i)'
  BY <1>2, <1>5, <1>10 DEF ConnInStep, Orderly!Answered, Shape
<1>12. RunInStep(c)'
  BY <1>1, <1>2, <1>7, <1>8, <1>9 DEF RunInStep, Orderly!NoSocket, Orderly!Conn
<1>13. ~(dev.accepted = i /\ dev.state = "NONCE_SETUP")
  BY <1>2, <1>4 DEF InStep, SideInStep
<1>14. ctl[c].socket = i /\ (q.dOpen <=> conn[i].dOpen) /\ q.by = c
  BY <1>2, <1>4, <1>5 DEF Shape
<1> QED BY <1>2, <1>3, <1>6, <1>8, <1>10, <1>11, <1>12, <1>13, <1>14, ControllerGoes

LEMMA OrderlyReceive == ASSUME InStep, NEW c \in Controllers, Orderly!Receive(c) PROVE InStep'
<1>1. /\ ctl[c] \in Orderly!Run /\ RunInStep(c) /\ ctl[c].pc = "read"
      /\ UNCHANGED <<queue, dev>>
  BY RunOf DEF Orderly!Receive
<1>2. PICK i \in DOMAIN conn : i = ctl[c].socket
  BY <1>1, AtConn
<1> DEFINE k == conn[i]  m == Head(k.ans)  t == [k EXCEPT !.ans = Tail(@)]
<1>3. k.by = c /\ k \in Orderly!Connection /\ ConnInStep(i) /\ k.ans # <<>>
  BY <1>1, <1>2, AtConn DEF Orderly!Receive
<1>4. conn \in Seq(Orderly!Connection) /\ ctl \in [Controllers -> Orderly!Run]
  BY DEF InStep
<1>5. /\ \A p : [[conn EXCEPT ![i] = t] EXCEPT ![i] = p] = [conn EXCEPT ![i] = p]
      /\ [conn EXCEPT ![i] = t][i] = t
  BY <1>4
<1>6. CASE k.dOpen
  <2>1. /\ k.req = <<>> /\ k.ans = <<"PAIR_REQUEST_ACK">> /\ k.cOpen /\ ~k.reset
        /\ dev.accepted = i /\ dev.state = "NONCE_SETUP"
    BY <1>1, <1>2, <1>3, <1>6 DEF ConnInStep, Orderly!Exchange
  <2>2. Shape(k, c, <<>>, <<"PAIR_REQUEST_ACK">>) /\ m = "PAIR_REQUEST_ACK"
    BY <1>3, <2>1 DEF Shape
  <2>3. Shape(t, c, <<>>, <<>>) /\ t.dOpen /\ t.cOpen /\ t \in Orderly!Connection
    <3> HIDE DEF k
    <3>1. Shape(t, c, <<>>, <<>>) /\ (t.dOpen <=> k.dOpen) /\ (t.cOpen <=> k.cOpen)
      BY <1>3, <2>2, TookAnswer
    <3> QED BY <1>6, <2>1, <3>1 DEF Shape
  <2> DEFINE q == Orderly!WriteReq(t, "NONCE_SEND")
             r == [ctl[c] EXCEPT !.state = "NONCE_SETUP", !.msg = "NONCE_SEND"]
  <2>4. ctl' = [ctl EXCEPT ![c] = r]
    BY <1>2, <2>2 DEF Orderly!Receive
  <2>5. conn' = [conn EXCEPT ![i] = q]
    <3>1. conn' = [[conn EXCEPT ![i] = t] EXCEPT ![i] =
                      Orderly!WriteReq([conn EXCEPT ![i] = t][i], "NONCE_SEND")]
      BY <1>2, <2>2 DEF Orderly!Receive
    <3> HIDE DEF t
    <3> QED BY <1>5, <3>1
  <2>6. r \in Orderly!Run
    BY <1>1 DEF Orderly!Run, Orderly!State, Orderly!Request
  <2>7. /\ r.socket = i /\ r.retry = ctl[c].retry /\ r.msg = "NONCE_SEND" /\ r.pc = "read"
        /\ r.result = ctl[c].result /\ r.answered = ctl[c].answered
    BY <1>1, <1>2 DEF Orderly!Run
  <2> HIDE DEF r, t, m
  <2>8. Shape(q, c, <<"NONCE_SEND">>, <<>>) /\ q.dOpen /\ q.cOpen
    BY <2>3, Asked DEF Orderly!Request
  <2> HIDE DEF q
  <2>9. ctl'[c] = r
    BY <1>4, <2>4
  <2>10. conn'[i] = q /\ DOMAIN conn' = DOMAIN conn /\ q \in Orderly!Connection
    BY <2>5, <2>8, OneConn DEF Shape
  <2>11. conn'[i].by = c /\ q.req = <<"NONCE_SEND">> /\ q.ans = <<>> /\ ~q.reset
    BY <2>8, <2>10 DEF Shape
  <2>12. ConnInStep(i)'
    <3>1. Orderly!Exchange(i)'
      BY <1>1, <2>1, <2>7, <2>8, <2>9, <2>10, <2>11 DEF Orderly!Exchange
    <3> QED BY <2>8, <2>10, <2>11, <3>1 DEF ConnInStep
  <2>13. RunInStep(c)'
    BY <1>1, <2>7, <2>9, <2>10, <2>11 DEF RunInStep
  <2> QED BY <1>1, <1>2, <1>3, <1>6, <2>4, <2>5, <2>6, <2>8, <2>10, <2>11, <2>12, <2>13,
             ControllerGoes
<1>7. CASE ~k.dOpen
  <2>1. PICK a \in Orderly!Answer \ {"PAIR_REQUEST_ACK"} : Shape(k, c, <<>>, <<a>>)
    BY <1>3, <1>7 DEF ConnInStep, Orderly!Answered, Shape
  <2>2. Shape(t, c, <<>>, <<>>) /\ ~t.dOpen /\ t \in Orderly!Connection
    <3> HIDE DEF k
    <3>1. Shape(t, c, <<>>, <<>>) /\ (t.dOpen <=> k.dOpen)
      BY <1>3, <2>1, TookAnswer
    <3> QED BY <1>7, <3>1 DEF Shape
  <2>3. m = a
    BY <2>1 DEF Shape
  <2>4. ~(dev.accepted = i /\ dev.state = "NONCE_SETUP")
    BY <1>7 DEF InStep, SideInStep
  <2>5. CASE m \in {"NONCE_ACK", "APP_MESSAGE_ACK"}
    <3> DEFINE q == Orderly!CloseC(t)
               r == [ctl[c] EXCEPT !.pc = "end", !.socket = Orderly!NoSocket,
                                   !.state = "PAIRED", !.answered = TRUE, !.result = "ERROR_OK"]
    <3>1. ctl' = [ctl EXCEPT ![c] = r]
      BY <1>2, <2>5 DEF Orderly!Receive
    <3>2. conn' = [conn EXCEPT ![i] = q]
      <4>1. conn' = [[conn EXCEPT ![i] = t] EXCEPT ![i] =
                        Orderly!CloseC([conn EXCEPT ![i] = t][i])]
        BY <1>2, <2>5 DEF Orderly!Receive
      <4> HIDE DEF t
      <4> QED BY <1>5, <4>1
    <3>3. r \in Orderly!Run
      BY <1>1 DEF Orderly!Run, Orderly!State
    <3>4. r.socket = Orderly!NoSocket /\ r.pc = "end" /\ r.answered
      BY <1>1 DEF Orderly!Run
    <3>5. r.retry = ctl[c].retry /\ r.msg = ctl[c].msg
      BY <1>1 DEF Orderly!Run
    <3> HIDE DEF r, t, m
    <3>6. Shape(q, c, <<>>, <<>>) /\ ~q.dOpen
      BY <2>2, ControllerClosed
    <3> HIDE DEF q
    <3>7. ctl'[c] = r
      BY <1>4, <3>1
    <3>8. conn'[i] = q /\ q \in Orderly!Connection /\ q.by = c
      BY <3>2, <3>6, OneConn DEF Shape
    <3>9. ConnInStep(i)'
      BY <3>6, <3>8 DEF ConnInStep, Orderly!Answered, Shape
    <3>10. RunInStep(c)'
      BY <1>1, <3>4, <3>5, <3>7 DEF RunInStep, Orderly!NoSocket, Orderly!Conn
    <3> QED BY <1>1, <1>2, <1>3, <1>7, <2>4, <3>1, <3>2, <3>3, <3>6, <3>8, <3>9, <3>10,
               ControllerGoes
  <2>6. CASE m = "FAIL"
    <3>1. conn' = [conn EXCEPT ![i] = t] /\ UNCHANGED ctl
      BY <1>2, <2>6 DEF Orderly!Receive
    <3> HIDE DEF t, m
    <3>2. conn'[i] = t /\ t.by = c /\ DOMAIN conn' = DOMAIN conn
      BY <2>2, <3>1, OneConn DEF Shape
    <3>3. ConnInStep(i)'
      BY <2>2, <3>2 DEF ConnInStep, Orderly!Answered, Shape
    <3>4. ctl' = [ctl EXCEPT ![c] = ctl[c]]
      BY <1>4, <3>1
    <3>5. RunInStep(c)'
      BY <1>1, <1>2, <3>1, <3>2 DEF RunInStep
    <3> QED BY <1>1, <1>2, <1>3, <1>7, <2>2, <2>4, <3>1, <3>2, <3>3, <3>4, <3>5,
               ControllerGoes
  <2> QED BY <2>3, <2>5, <2>6 DEF Orderly!Answer
<1> QED BY <1>6, <1>7


\* The device goes on, and one connection may with it.
LEMMA DeviceGoes ==
    ASSUME InStep, UNCHANGED ctl, NEW i \in DOMAIN conn, NEW q \in Orderly!Connection,
           conn' = [conn EXCEPT ![i] = q], q.by = conn[i].by, SideInStep', ConnInStep(i)',
           conn[i].dOpen => ctl[conn[i].by].pc = "read",
           ~conn[i].dOpen => ~q.dOpen /\ q.ans = conn[i].ans,
           \A j \in DOMAIN conn : j # i =>
             (dev'.accepted = j /\ dev'.state = "NONCE_SETUP"
                <=> dev.accepted = j /\ dev.state = "NONCE_SETUP"),
           dev.state = "PAIRED" => dev'.state = "PAIRED"
    PROVE  InStep'
<1>1. /\ conn' \in Seq(Orderly!Connection) /\ Len(conn') <= MaxConn
      /\ DOMAIN conn' = DOMAIN conn
      /\ conn'[i] = q /\ \A j \in DOMAIN conn : j # i => conn'[j] = conn[j]
  BY OneConn
<1>2. ASSUME NEW j \in DOMAIN conn', j # i PROVE ConnInStep(j)'
  <2>1. ConnInStep(j) /\ conn'[j] = conn[j] /\ j \in DOMAIN conn
    BY <1>1, <1>2 DEF InStep
  <2> QED BY <1>2, <2>1, ConnKept
<1>3. ASSUME NEW d \in Controllers PROVE RunInStep(d)'
  <2>1. CASE ctl[d].socket # i
    BY <1>1, <2>1, RunKept
  <2>2. CASE ctl[d].socket = i
    <3>1. RunInStep(d) /\ ctl[d].socket \in Orderly!Conn /\ i # Orderly!NoSocket
      <4>1. RunInStep(d) /\ conn \in Seq(Orderly!Connection) /\ Len(conn) <= MaxConn
        BY DEF InStep
      <4> QED BY <2>2, <4>1, StreamsAssumption DEF Orderly!Conn, Orderly!NoSocket
    <3>2. conn[i].by = d
      BY <2>2, <3>1 DEF RunInStep
    <3>3. ctl[d].pc \in {"read", "exit"} /\ (ctl[d].pc = "exit" => ~conn[i].dOpen)
      BY <2>2, <3>1, <3>2 DEF RunInStep
    <3> QED BY <1>1, <2>2, <3>1, <3>2, <3>3 DEF RunInStep
  <2> QED BY <2>1, <2>2
<1>4. \A j \in DOMAIN conn' : ConnInStep(j)'
  BY <1>2
<1>5. ctl' \in [Controllers -> Orderly!Run]
  BY DEF InStep
<1> QED BY <1>1, <1>3, <1>4, <1>5 DEF InStep

LEMMA OrderlyLinger == ASSUME InStep, Orderly!LingerEnds PROVE InStep'
<1>1. PICK i \in DOMAIN conn : /\ conn[i].lingers
                               /\ conn' = [conn EXCEPT ![i].lingers = FALSE]
  BY DEF Orderly!LingerEnds
<1>2. UNCHANGED <<queue, dev, ctl>>
  BY DEF Orderly!LingerEnds
<1> DEFINE k == conn[i]  q == [k EXCEPT !.lingers = FALSE]
<1>3. k \in Orderly!Connection /\ ConnInStep(i) /\ SideInStep
  BY DEF InStep
<1>4. q \in Orderly!Connection
  BY <1>3 DEF Orderly!Connection
<1>5. /\ q.by = k.by /\ q.dOpen = k.dOpen /\ q.reset = k.reset /\ q.req = k.req
      /\ q.ans = k.ans /\ q.cOpen = k.cOpen
  BY <1>3 DEF Orderly!Connection
<1>6. conn' = [conn EXCEPT ![i] = q]
  BY <1>1
<1> HIDE DEF q
<1>7. /\ conn' \in Seq(Orderly!Connection) /\ Len(conn') <= MaxConn
      /\ DOMAIN conn' = DOMAIN conn
      /\ conn'[i] = q /\ \A j \in DOMAIN conn : j # i => conn'[j] = conn[j]
  BY <1>4, <1>6, OneConn
<1>8. SideInStep'
  <2>1. \A j \in DOMAIN conn : /\ conn'[j].dOpen <=> conn[j].dOpen
                               /\ conn'[j].req = conn[j].req /\ conn'[j].ans = conn[j].ans
    BY <1>5, <1>7
  <2> QED BY <1>2, <1>3, <1>7, <2>1 DEF SideInStep
<1>9. ASSUME NEW j \in DOMAIN conn' PROVE ConnInStep(j)'
  <2>1. CASE j # i
    <3>1. ConnInStep(j) /\ conn'[j] = conn[j]
      BY <1>7, <1>9, <2>1 DEF InStep
    <3> QED BY <1>2, <3>1, ConnKept
  <2>2. CASE j = i
    <3>1. Orderly!Exchange(i) => Orderly!Exchange(i)'
      BY <1>2, <1>5, <1>7 DEF Orderly!Exchange
    <3>2. Orderly!Answered(k) => Orderly!Answered(q)
      BY <1>5 DEF Orderly!Answered
    <3> QED BY <1>3, <1>5, <1>7, <2>2, <3>1, <3>2 DEF ConnInStep
  <2> QED BY <2>1, <2>2
<1>10. ASSUME NEW d \in Controllers PROVE RunInStep(d)'
  <2>1. RunInStep(d)
    BY DEF InStep
  <2>2. \A j \in DOMAIN conn : /\ conn'[j].dOpen <=> conn[j].dOpen
                               /\ conn'[j].by = conn[j].by /\ conn'[j].ans = conn[j].ans
    BY <1>5, <1>7
  <2> QED BY <1>2, <1>7, <2>1, <2>2 DEF RunInStep
<1>11. ctl' \in [Controllers -> Orderly!Run]
  BY <1>2 DEF InStep
<1> QED BY <1>7, <1>8, <1>9, <1>10, <1>11 DEF InStep

LEMMA OrderlyAccept == ASSUME InStep, Orderly!DeviceAccept PROVE InStep'
<1>1. /\ dev.accepted = Orderly!NoSocket /\ queue # <<>> /\ queue' = Tail(queue)
      /\ dev' = [dev EXCEPT !.accepted = Head(queue)] /\ UNCHANGED <<conn, ctl>>
  BY DEF Orderly!DeviceAccept
<1>2. SideInStep /\ queue \in Seq(Orderly!Conn) /\ dev \in Orderly!Side
  BY DEF InStep, SideInStep
<1>3. /\ Head(queue) = queue[1] /\ 1 \in DOMAIN queue /\ Len(queue) \in Nat
      /\ queue' \in Seq(Orderly!Conn) /\ Len(queue') = Len(queue) - 1
      /\ \A j \in 1 .. Len(queue') : queue'[j] = queue[j + 1]
  BY <1>1, <1>2, HeadTailProperties
<1>4. DOMAIN queue' = 1 .. Len(queue') /\ DOMAIN queue = 1 .. Len(queue)
  BY <1>2, <1>3
<1>5. \A j \in DOMAIN queue' : j + 1 \in DOMAIN queue /\ queue'[j] = queue[j + 1] /\ j + 1 # 1
  BY <1>3, <1>4
<1>6. dev.state # "NONCE_SETUP"
  BY <1>1, <1>2 DEF SideInStep
<1>7. /\ dev' \in Orderly!Side /\ dev'.accepted = queue[1] /\ dev'.state = dev.state
      /\ dev'.socket = dev.socket
  <2>1. queue[1] \in Orderly!Conn
    BY <1>2, <1>3
  <2>2. dev' = [dev EXCEPT !.accepted = queue[1]]
    BY <1>1, <1>3
  <2> QED BY <1>2, <2>1, <2>2 DEF Orderly!Side
<1>8. queue[1] \in DOMAIN conn /\ conn[queue[1]].dOpen
  BY <1>2, <1>3 DEF SideInStep
<1>9. \A j \in DOMAIN queue' : queue'[j] # queue[1]
  BY <1>2, <1>3, <1>5 DEF SideInStep
<1>10. \A i, j \in DOMAIN queue' : queue'[i] = queue'[j] => i = j
  <2> SUFFICES ASSUME NEW i \in DOMAIN queue', NEW j \in DOMAIN queue', queue'[i] = queue'[j]
               PROVE  i = j
    OBVIOUS
  <2>1. i + 1 = j + 1
    BY <1>2, <1>5 DEF SideInStep
  <2>2. i \in Int /\ j \in Int
    BY <1>3, <1>4
  <2> QED BY <2>1, <2>2
<1>11. \A j \in DOMAIN queue' : queue'[j] \in DOMAIN conn /\ conn[queue'[j]].dOpen
  BY <1>2, <1>5 DEF SideInStep
<1>12. SideInStep'
  BY <1>1, <1>2, <1>3, <1>6, <1>7, <1>8, <1>9, <1>10, <1>11 DEF SideInStep
<1>13. ASSUME NEW j \in DOMAIN conn' PROVE ConnInStep(j)'
  <2>1. ConnInStep(j) /\ conn'[j] = conn[j]
    BY <1>1 DEF InStep
  <2> QED BY <1>1, <1>6, <1>7, <2>1, ConnKept
<1>14. ASSUME NEW d \in Controllers PROVE RunInStep(d)'
  BY <1>1, <1>7, RunKept
<1> QED BY <1>1, <1>12, <1>13, <1>14 DEF InStep

LEMMA HandleInTurn ==
    ASSUME NEW s \in Orderly!State, NEW m \in Orderly!Request,
           m = "NONCE_SEND" <=> s = "NONCE_SETUP", m = "APP_MESSAGE" => s = "PAIRED"
    PROVE  LET h == Orderly!Handle(s, m) IN
           \/ s = "UNCONFIGURED" /\ h[1] = "NONCE_SETUP" /\ h[2] = "PAIR_REQUEST_ACK"
           \/ h[1] = "PAIRED" /\ h[2] \in Orderly!Answer \ {"PAIR_REQUEST_ACK"}
BY DEF Orderly!Handle, Orderly!State, Orderly!Request, Orderly!Answer

LEMMA OrderlyDeviceReceive == ASSUME InStep, Orderly!DeviceReceive PROVE InStep'
<1>1. SideInStep /\ dev.accepted # Orderly!NoSocket
  BY DEF InStep, Orderly!DeviceReceive
<1>2. PICK i \in DOMAIN conn : i = dev.accepted
  BY <1>1 DEF SideInStep
<1> DEFINE k == conn[i]  c == k.by  m == ctl[c].msg  h == Orderly!Handle(dev.state, Head(k.req))
           w == Orderly!WriteAns([k EXCEPT !.req = Tail(@)], h[2])
<1>3. k \in Orderly!Connection /\ ConnInStep(i) /\ k.dOpen /\ c \in Controllers
  BY <1>1, <1>2, AtIt DEF InStep, SideInStep
<1>4. ctl[c] \in Orderly!Run /\ RunInStep(c)
  BY <1>3, RunOf
<1>5. /\ ~k.reset /\ k.cOpen /\ ctl[c].socket = i /\ ctl[c].pc = "read"
      /\ k.req = <<m>> /\ k.ans = <<>>
      /\ m = "NONCE_SEND" <=> dev.state = "NONCE_SETUP"
  <2>1. k.req # <<>> /\ ~k.reset
    BY <1>2 DEF Orderly!DeviceReceive
  <2> QED BY <1>2, <1>3, <2>1 DEF ConnInStep, Orderly!Exchange
<1>6. Shape(k, c, <<m>>, <<>>) /\ Head(k.req) = m
  BY <1>3, <1>5 DEF Shape
<1>7. /\ dev.state \in Orderly!State /\ m \in Orderly!Request
      /\ m = "APP_MESSAGE" => dev.state = "PAIRED"
  BY <1>1, <1>4 DEF SideInStep, RunInStep, Orderly!Side, Orderly!Run
<1>8. \/ dev.state = "UNCONFIGURED" /\ h[1] = "NONCE_SETUP" /\ h[2] = "PAIR_REQUEST_ACK"
      \/ h[1] = "PAIRED" /\ h[2] \in Orderly!Answer \ {"PAIR_REQUEST_ACK"}
  <2> HIDE DEF m
  <2> QED BY <1>5, <1>6, <1>7, HandleInTurn
<1>9. h[2] # "none" /\ h[2] \in Orderly!Answer
  BY <1>8 DEF Orderly!Answer
<1>10. /\ conn' = [conn EXCEPT ![i] = Orderly!AfterAnswer(h[1], w)]
       /\ dev' = [dev EXCEPT !.state = h[1],
                             !.accepted = IF h[1] = "PAIRED" THEN Orderly!NoSocket ELSE @]
       /\ UNCHANGED <<queue, ctl>>
  BY <1>2, <1>9 DEF Orderly!DeviceReceive
<1> HIDE DEF m, h
<1>11. /\ Shape(w, c, <<>>, <<h[2]>>) /\ w.cOpen /\ w.dOpen
       /\ Shape(Orderly!CloseD(w), c, <<>>, <<h[2]>>) /\ ~Orderly!CloseD(w).dOpen
  <2> HIDE DEF k, c
  <2> QED BY <1>3, <1>5, <1>6, <1>9, DeviceAnswered
<1> HIDE DEF w
<1>12. CASE dev.state = "UNCONFIGURED" /\ h[1] = "NONCE_SETUP" /\ h[2] = "PAIR_REQUEST_ACK"
  <2>1. conn' = [conn EXCEPT ![i] = w]
    BY <1>10, <1>12 DEF Orderly!AfterAnswer
  <2>2. dev' = [dev EXCEPT !.state = "NONCE_SETUP"]
    BY <1>1, <1>10, <1>12 DEF SideInStep, Orderly!Side
  <2>3. /\ dev' \in Orderly!Side /\ dev'.state = "NONCE_SETUP" /\ dev'.accepted = i
        /\ dev'.socket = dev.socket
    BY <1>1, <1>2, <2>2 DEF SideInStep, Orderly!Side, Orderly!State
  <2>4. w \in Orderly!Connection /\ w.by = c /\ w.req = <<>> /\ w.ans = <<"PAIR_REQUEST_ACK">>
        /\ ~w.reset
    BY <1>11, <1>12 DEF Shape
  <2>5. /\ DOMAIN conn' = DOMAIN conn
        /\ conn'[i] = w /\ \A j \in DOMAIN conn : j # i => conn'[j] = conn[j]
    BY <2>1, <2>4, OneConn
  <2>6. SideInStep'
    <3>1. \A j \in DOMAIN conn : conn'[j].dOpen <=> conn[j].dOpen
      BY <1>3, <1>11, <2>5
    <3> QED BY <1>1, <1>2, <1>10, <2>3, <2>4, <2>5, <3>1 DEF SideInStep
  <2>7. ConnInStep(i)'
    <3>1. Orderly!Exchange(i)'
      BY <1>5, <1>10, <1>11, <2>3, <2>4, <2>5 DEF Orderly!Exchange
    <3> QED BY <1>11, <2>4, <2>5, <3>1 DEF ConnInStep
  <2>8. \A j \in DOMAIN conn : j # i => dev'.accepted # j /\ dev.accepted # j
    BY <1>2, <2>3
  <2>9. dev.state # "PAIRED"
    BY <1>12
  <2>10. conn'[i].dOpen <=> conn[i].dOpen
    BY <1>3, <1>11, <2>5
  <2> HIDE DEF k
  <2>11. w.by = conn[i].by /\ ctl[conn[i].by].pc = "read" /\ conn[i].dOpen
    BY <1>3, <1>5, <2>4 DEF k
  <2> QED BY <1>10, <2>1, <2>4, <2>6, <2>7, <2>8, <2>9, <2>11, DeviceGoes
<1>13. CASE h[1] = "PAIRED" /\ h[2] \in Orderly!Answer \ {"PAIR_REQUEST_ACK"}
  <2> DEFINE d == Orderly!CloseD(w)
  <2>1. conn' = [conn EXCEPT ![i] = d]
    BY <1>10, <1>13 DEF Orderly!AfterAnswer
  <2>2. dev' = [dev EXCEPT !.state = "PAIRED", !.accepted = Orderly!NoSocket]
    BY <1>10, <1>13
  <2>3. /\ dev' \in Orderly!Side /\ dev'.state = "PAIRED"
        /\ dev'.accepted = Orderly!NoSocket /\ dev'.socket = dev.socket
    BY <1>1, <2>2 DEF SideInStep, Orderly!Side, Orderly!State
  <2> HIDE DEF d
  <2>4. d \in Orderly!Connection /\ d.by = c /\ d.req = <<>> /\ d.ans = <<h[2]>>
        /\ ~d.reset /\ ~d.dOpen
    BY <1>11 DEF Shape, d
  <2>5. /\ DOMAIN conn' = DOMAIN conn
        /\ conn'[i] = d /\ \A j \in DOMAIN conn : j # i => conn'[j] = conn[j]
    BY <2>1, <2>4, OneConn
  <2>6. SideInStep'
    <3>1. \A j \in DOMAIN queue : queue[j] # i /\ queue[j] # Orderly!NoSocket
      <4>1. conn \in Seq(Orderly!Connection) /\ 0 \notin DOMAIN conn
        BY DEF InStep
      <4> QED BY <1>1, <1>2, <4>1 DEF SideInStep, Orderly!NoSocket
    <3>2. \A j \in DOMAIN queue : conn'[queue[j]].dOpen
      BY <1>1, <2>5, <3>1 DEF SideInStep
    <3> QED BY <1>1, <1>10, <2>3, <2>5, <3>1, <3>2 DEF SideInStep
  <2>7. ConnInStep(i)'
    BY <1>13, <2>4, <2>5 DEF ConnInStep, Orderly!Answered
  <2>8. \A j \in DOMAIN conn : j # i => dev.accepted # j /\ dev'.state # "NONCE_SETUP"
    BY <1>2, <2>3
  <2> HIDE DEF k
  <2>9. d.by = conn[i].by /\ ctl[conn[i].by].pc = "read" /\ conn[i].dOpen
    BY <1>3, <1>5, <2>4 DEF k
  <2> QED BY <1>10, <2>1, <2>3, <2>4, <2>6, <2>7, <2>8, <2>9, DeviceGoes
<1> QED BY <1>8, <1>12, <1>13

LEMMA OrderlyInit == ASSUME Orderly!Init PROVE InStep
<1>1. PICK known \in {{}} \cup {{c} : c \in Controllers} :
        /\ dev = [socket |-> "port", accepted |-> Orderly!NoSocket,
                  state |-> IF known = {} THEN "UNCONFIGURED" ELSE "PAIRED"]
        /\ ctl = [c \in Controllers |->
                    [pc |-> "start", socket |-> Orderly!NoSocket, retry |-> 3,
                     state |-> IF c \in known THEN "PAIRED" ELSE "UNCONFIGURED",
                     msg |-> IF c \in known THEN "APP_MESSAGE" ELSE "PAIR_REQUEST",
                     answered |-> FALSE, result |-> "none"]]
  BY DEF Orderly!Init
<1>2. conn = <<>> /\ queue = <<>>
  BY DEF Orderly!Init
<1>3. conn \in Seq(Orderly!Connection) /\ Len(conn) = 0 /\ DOMAIN conn = {}
      /\ queue \in Seq(Orderly!Conn) /\ DOMAIN queue = {}
  BY <1>2, EmptySeq
<1>4. SideInStep
  BY <1>1, <1>3 DEF SideInStep, Orderly!Side, Orderly!State
<1>5. ASSUME NEW c \in Controllers PROVE ctl[c] \in Orderly!Run /\ RunInStep(c)
  <2>1. 3 \in 0 .. 3 /\ Orderly!NoSocket \notin Orderly!Conn
    BY DEF Orderly!NoSocket, Orderly!Conn
  <2>2. PICK s \in Orderly!State, m \in Orderly!Request :
          /\ s = (IF c \in known THEN "PAIRED" ELSE "UNCONFIGURED")
          /\ m = (IF c \in known THEN "APP_MESSAGE" ELSE "PAIR_REQUEST")
    BY DEF Orderly!State, Orderly!Request
  <2>3. ctl[c] = [pc |-> "start", socket |-> Orderly!NoSocket, retry |-> 3, state |-> s,
                  msg |-> m, answered |-> FALSE, result |-> "none"]
    BY <1>1, <2>2
  <2>4. ctl[c] \in Orderly!Run
    BY <2>1, <2>3 DEF Orderly!Run
  <2>5. m # "NONCE_SEND" /\ (m = "APP_MESSAGE" => dev.state = "PAIRED")
    BY <1>1, <2>2
  <2> QED BY <2>1, <2>3, <2>4, <2>5 DEF RunInStep
<1>6. ctl \in [Controllers -> Orderly!Run]
  BY <1>1, <1>5
<1>7. MaxConn \in Nat
  BY StreamsAssumption
<1> QED BY <1>3, <1>4, <1>5, <1>6, <1>7 DEF InStep

\* Nothing fails, so nothing is opened again.
LEMMA NothingFails ==
    ASSUME InStep
    PROVE  /\ ~Orderly!DeviceListen /\ ~Orderly!AcceptFails /\ ~Orderly!ReadFails
           /\ ~Orderly!DeviceEof
           /\ \A c \in Controllers : ~Orderly!WriteError(c) /\ ~Orderly!ReadError(c)
                                     /\ ~Orderly!Reconnect(c) /\ ~Orderly!Kill(c)
<1>1. SideInStep
  BY DEF InStep
<1>2. ~Orderly!DeviceListen /\ ~Orderly!AcceptFails
  BY <1>1 DEF SideInStep, Orderly!DeviceListen, Orderly!AcceptFails
<1>3. ASSUME dev.accepted # Orderly!NoSocket
      PROVE  ~conn[dev.accepted].reset /\ conn[dev.accepted].cOpen
  <2>1. dev.accepted \in DOMAIN conn /\ conn[dev.accepted].dOpen
    BY <1>1, <1>3 DEF SideInStep
  <2>2. ConnInStep(dev.accepted)
    BY <2>1 DEF InStep
  <2> QED BY <2>1, <2>2, AtIt DEF ConnInStep
<1>4. ~Orderly!ReadFails /\ ~Orderly!DeviceEof
  BY <1>3 DEF Orderly!ReadFails, Orderly!DeviceEof
<1>5. ASSUME NEW c \in Controllers
      PROVE  /\ ~Orderly!WriteError(c) /\ ~Orderly!ReadError(c)
             /\ ~Orderly!Reconnect(c) /\ ~Orderly!Kill(c)
  <2>1. ~Orderly!WriteError(c) /\ ~Orderly!ReadError(c)
    BY AtConn DEF Orderly!WriteError, Orderly!ReadError
  <2>2. ~Orderly!Reconnect(c)
    BY RunOf DEF RunInStep, Orderly!Reconnect
  <2> QED BY <2>1, <2>2 DEF Orderly!Kill
<1> QED BY <1>2, <1>4, <1>5

LEMMA OrderlyConnect == ASSUME InStep, NEW c \in Controllers, Orderly!Connect(c) PROVE InStep'
<1> DEFINE n == Len(conn) + 1  r == [ctl[c] EXCEPT !.pc = "write", !.socket = n]
           a == [ctl[c] EXCEPT !.pc = "write"]
<1>1. /\ ctl[c] \in Orderly!Run /\ RunInStep(c) /\ ctl[c].pc = "connect"
      /\ conn \in Seq(Orderly!Connection) /\ Len(conn) <= MaxConn /\ SideInStep
      /\ ctl \in [Controllers -> Orderly!Run]
  BY RunOf DEF Orderly!Connect, InStep
<1>2. ctl[c].socket = Orderly!NoSocket /\ ctl[c].retry = 3 /\ Orderly!NoSocket \notin Orderly!Conn
  BY <1>1 DEF RunInStep, Orderly!NoSocket, Orderly!Conn
<1>3. Orderly!Connected(c, a)
  BY <1>2 DEF Orderly!Connect
<1>4. /\ Len(conn) < MaxConn /\ conn' = Append(conn, Orderly!Opened(c))
      /\ queue' = Append(queue, n) /\ UNCHANGED dev
      /\ ctl' = [ctl EXCEPT ![c] = [a EXCEPT !.socket = n]]
  BY <1>1, <1>2, <1>3 DEF SideInStep, Orderly!Connected, Orderly!CloseSocketOf
<1>5. ctl' = [ctl EXCEPT ![c] = r]
  BY <1>4
<1>6. /\ n \in Nat /\ n \in Orderly!Conn /\ DOMAIN conn = 1 .. Len(conn) /\ Len(conn) \in Nat
      /\ n # Orderly!NoSocket
  BY <1>1, <1>4, StreamsAssumption DEF Orderly!Conn, Orderly!NoSocket
<1>7. Orderly!Opened(c) \in Orderly!Connection
  <2>1. <<>> \in Seq(Orderly!Request) /\ <<>> \in Seq(Orderly!Answer)
    BY EmptySeq
  <2> QED BY <2>1 DEF Orderly!Opened, Orderly!Connection
<1>8. /\ conn' \in Seq(Orderly!Connection) /\ Len(conn') = n /\ Len(conn') <= MaxConn
      /\ conn'[n] = Orderly!Opened(c) /\ \A j \in DOMAIN conn : conn'[j] = conn[j]
  <2>1. /\ conn' \in Seq(Orderly!Connection) /\ Len(conn') = n
        /\ conn'[n] = Orderly!Opened(c) /\ \A j \in 1 .. Len(conn) : conn'[j] = conn[j]
    BY <1>1, <1>4, <1>7, AppendProperties
  <2>2. Len(conn') <= MaxConn
    BY <1>4, <1>6, <2>1, StreamsAssumption
  <2> QED BY <1>6, <2>1, <2>2
<1>9. /\ DOMAIN conn' = DOMAIN conn \cup {n} /\ n \notin DOMAIN conn
  BY <1>6, <1>8
<1>10. /\ r \in Orderly!Run /\ r.socket = n /\ r.retry = 3 /\ r.msg = ctl[c].msg
       /\ r.result = ctl[c].result /\ r.answered = ctl[c].answered /\ r.pc = "write"
  <2>1. r \in Orderly!Run
    BY <1>1, <1>6 DEF Orderly!Run
  <2> QED BY <1>1, <1>2, <2>1 DEF Orderly!Run
<1> HIDE DEF r, a
<1>11. /\ ctl' \in [Controllers -> Orderly!Run] /\ ctl'[c] = r
       /\ \A d \in Controllers : d # c => ctl'[d] = ctl[d]
  BY <1>1, <1>5, <1>10
<1>12. /\ ~conn'[n].reset /\ conn'[n].by = c /\ conn'[n].req = <<>> /\ conn'[n].ans = <<>>
       /\ conn'[n].cOpen /\ conn'[n].dOpen
  BY <1>8 DEF Orderly!Opened
<1>13. SideInStep'
  <2>1. /\ queue' \in Seq(Orderly!Conn) /\ DOMAIN queue' = DOMAIN queue \cup {Len(queue) + 1}
        /\ queue'[Len(queue) + 1] = n /\ Len(queue) + 1 \notin DOMAIN queue
        /\ \A j \in DOMAIN queue : queue'[j] = queue[j]
    <3>1. queue \in Seq(Orderly!Conn) /\ Len(queue) \in Nat /\ DOMAIN queue = 1 .. Len(queue)
      BY <1>1 DEF SideInStep
    <3>2. /\ queue' \in Seq(Orderly!Conn) /\ Len(queue') = Len(queue) + 1
          /\ queue'[Len(queue) + 1] = n /\ \A j \in 1 .. Len(queue) : queue'[j] = queue[j]
      BY <1>4, <1>6, <3>1, AppendProperties
    <3>3. DOMAIN queue' = 1 .. Len(queue) + 1
      BY <3>1, <3>2
    <3> QED BY <3>1, <3>2, <3>3
  <2> HIDE DEF n
  <2>2. \A j \in DOMAIN queue : queue[j] # n /\ queue[j] # dev.accepted
    BY <1>1, <1>9 DEF SideInStep
  <2>3. dev.accepted # n
    BY <1>1, <1>6, <1>9 DEF SideInStep
  <2>4. \A i, j \in DOMAIN queue' : queue'[i] = queue'[j] => i = j
    BY <1>1, <2>1, <2>2 DEF SideInStep
  <2>5. \A j \in DOMAIN queue' :
          queue'[j] \in DOMAIN conn' /\ conn'[queue'[j]].dOpen /\ queue'[j] # dev.accepted
    BY <1>1, <1>8, <1>9, <1>12, <2>1, <2>2, <2>3 DEF SideInStep
  <2> QED BY <1>1, <1>4, <1>8, <1>9, <2>1, <2>4, <2>5 DEF SideInStep
<1>14. ASSUME NEW j \in DOMAIN conn' PROVE ConnInStep(j)'
  <2>1. CASE j \in DOMAIN conn
    <3>1. ConnInStep(j) /\ conn'[j] = conn[j]
      BY <1>8, <2>1 DEF InStep
    <3>2. ctl[c].socket # j
      BY <1>2, <1>6, <2>1 DEF Orderly!NoSocket
    <3>3. conn[j].dOpen => ctl'[conn[j].by] = ctl[conn[j].by]
      BY <1>11, <2>1, <3>2, AtIt
    <3> QED BY <1>4, <3>1, <3>3, ConnKept
  <2>2. CASE j \notin DOMAIN conn
    <3>1. j = n
      BY <1>9, <2>2
    <3>2. Orderly!Exchange(j)'
      BY <1>10, <1>11, <1>12, <3>1 DEF Orderly!Exchange
    <3> QED BY <1>12, <3>1, <3>2 DEF ConnInStep
  <2> QED BY <2>1, <2>2
<1>15. ASSUME NEW d \in Controllers PROVE RunInStep(d)'
  <2>1. CASE d = c
    BY <1>1, <1>4, <1>9, <1>10, <1>11, <1>12, <2>1 DEF RunInStep
  <2>2. CASE d # c
    BY <1>4, <1>8, <1>9, <1>11, <2>2, RunKept
  <2> QED BY <2>1, <2>2
<1> QED BY <1>8, <1>11, <1>13, <1>14, <1>15 DEF InStep

LEMMA OrderlyStep == ASSUME InStep, Orderly!Next PROVE InStep'
<1>1. CASE Orderly!Device
  BY <1>1, NothingFails, OrderlyAccept, OrderlyDeviceReceive DEF Orderly!Device
<1>2. CASE Orderly!LingerEnds
  BY <1>2, OrderlyLinger
<1>3. ASSUME NEW c \in Controllers, Orderly!Step(c) \/ Orderly!Kill(c) PROVE InStep'
  <2>1. \/ Orderly!Start(c) \/ Orderly!Connect(c) \/ Orderly!Write(c) \/ Orderly!Receive(c)
        \/ Orderly!Eof(c) \/ Orderly!Exit(c)
    BY <1>3, NothingFails DEF Orderly!Step
  <2> QED BY <2>1, OrderlyStart, OrderlyConnect, OrderlyWrite, OrderlyReceive, OrderlyEof,
             OrderlyExit
<1> QED BY <1>1, <1>2, <1>3 DEF Orderly!Next

LEMMA OrderlyStutters == ASSUME InStep, UNCHANGED streamVars PROVE InStep'
<1>1. SideInStep'
  BY DEF streamVars, InStep, SideInStep
<1>2. ASSUME NEW j \in DOMAIN conn' PROVE ConnInStep(j)'
  <2>1. ConnInStep(j) /\ conn'[j] = conn[j]
    BY DEF streamVars, InStep
  <2> QED BY <2>1, ConnKept DEF streamVars
<1>3. ASSUME NEW d \in Controllers PROVE RunInStep(d)'
  BY RunKept DEF streamVars
<1> QED BY <1>1, <1>2, <1>3 DEF streamVars, InStep

LEMMA OrderlySound == ASSUME InStep PROVE Orderly!OkMeansAnswered /\ Orderly!NoMutualWait
<1>1. Orderly!OkMeansAnswered
  BY DEF InStep, RunInStep, Orderly!OkMeansAnswered
<1>2. ASSUME NEW c \in Controllers, NEW i, i = ctl[c].socket, ctl[c].pc = "read",
             i \in Orderly!Conn, i = dev.accepted, ~conn[i].reset
      PROVE  conn[i].req # <<>> \/ conn[i].ans # <<>>
  <2>1. i \in DOMAIN conn /\ conn[i].by = c
    BY <1>2 DEF InStep, RunInStep
  <2>2. conn[i].dOpen
    BY <1>2, <2>1 DEF InStep, SideInStep, Orderly!NoSocket, Orderly!Conn
  <2>3. Orderly!Exchange(i)
    BY <2>1, <2>2 DEF InStep, ConnInStep
  <2>4. conn[i].req = <<ctl[c].msg>> \/ conn[i].ans = <<"PAIR_REQUEST_ACK">>
    BY <1>2, <2>1, <2>3 DEF Orderly!Exchange
  <2>5. <<ctl[c].msg>> # <<>> /\ <<"PAIR_REQUEST_ACK">> # <<>>
    OBVIOUS
  <2> QED BY <2>4, <2>5
<1>3. Orderly!NoMutualWait
  BY <1>2 DEF Orderly!NoMutualWait
<1> QED BY <1>1, <1>3

\* However many controllers call on one device, and over however many
\* connections: started after it, none waits for an answer nobody owes it and
\* none returns ERROR_OK unanswered; killed at any moment, and reset, they
\* leave only dead connections open, and at most one of them is paired.
THEOREM CallsAreSound == PartsSpec => []CallsSound
<1> DEFINE Inv == /\ part = "streams" => InStep
                  /\ part = "killed streams" => KilledInv
<1>1. PartsInit => Inv
  BY OrderlyInit, KilledInit DEF PartsInit
<1>2. Inv /\ [PartsNext]_partsVars => Inv'
  <2> SUFFICES ASSUME Inv, [PartsNext]_partsVars PROVE Inv'
    OBVIOUS
  <2>1. UNCHANGED part
    BY DEF PartsNext, partsVars
  <2>2. CASE part = "streams"
    <3>1. Orderly!Next \/ UNCHANGED streamVars
      BY <2>2 DEF PartsNext, partsVars
    <3>2. InStep'
      BY <2>2, <3>1, OrderlyStep, OrderlyStutters
    <3> QED BY <2>1, <2>2, <3>2
  <2>3. CASE part = "killed streams"
    <3>1. Killed!Next \/ UNCHANGED streamVars
      BY <2>3 DEF PartsNext, partsVars
    <3>2. KilledInv'
      BY <2>3, <3>1, KilledStep, KilledStutters
    <3> QED BY <2>1, <2>3, <3>2
  <2> QED BY <2>1, <2>2, <2>3
<1>3. Inv => CallsSound
  BY OrderlySound, KilledSound DEF CallsSound
<1> QED BY <1>1, <1>2, <1>3, PTL DEF PartsSpec

-----------------------------------------------------------------------------
(* The configuration that is written and read.                             *)

\* Tag and width of each field that cfConfigWrite writes, but the end mark.
Entries == Config!Writer \o Config!KeyWriter

EntrySet == {Config!Writer[i] : i \in 1 .. 39} \cup {Config!KeyWriter[i] : i \in 1 .. 2}

\* The two lists of the writer are sequences of such pairs.
LEMMA WriterIs ==
    /\ Config!Writer \in Seq(EntrySet) /\ Len(Config!Writer) = 39
    /\ Config!KeyWriter \in Seq(EntrySet) /\ Len(Config!KeyWriter) = 2
<1>1. Len(Config!Writer) = 39
  BY DEF Config!Writer
<1>1a. \A i \in 1 .. 39 : Config!Writer[i] \in EntrySet
  BY DEF EntrySet
<1>1c. DOMAIN Config!Writer = 1 .. 39 /\ Config!Writer = [i \in 1 .. 39 |-> Config!Writer[i]]
  BY DEF Config!Writer
<1>1b. Config!Writer \in Seq(EntrySet)
  BY <1>1, <1>1a, <1>1c
<1>2. Len(Config!KeyWriter) = 2
  BY DEF Config!KeyWriter
<1>2c. DOMAIN Config!KeyWriter = 1 .. 2 /\ Config!KeyWriter = [i \in 1 .. 2 |-> Config!KeyWriter[i]]
  BY DEF Config!KeyWriter
<1>2b. Config!KeyWriter \in Seq(EntrySet)
  BY <1>2, <1>2c DEF EntrySet
<1> QED  BY <1>1, <1>2, <1>1b, <1>2b

\* Two sequences, one after the other.
LEMMA Joined ==
    ASSUME NEW S, NEW w \in Seq(S), NEW k \in Seq(S)
    PROVE  /\ w \o k \in Seq(S) /\ Len(w \o k) = Len(w) + Len(k)
           /\ \A i \in 1 .. Len(w) : (w \o k)[i] = w[i]
           /\ \A i \in 1 .. Len(k) : (w \o k)[Len(w) + i] = k[i]
<1>1. w \o k \in Seq(S) BY ConcatProperties
<1>2. Len(w \o k) = Len(w) + Len(k) BY ConcatProperties
<1>3. \A i \in 1 .. Len(w) + Len(k) : (w \o k)[i] =
                     IF i <= Len(w) THEN w[i] ELSE k[i - Len(w)] BY ConcatProperties
<1>4. \A i \in 1 .. Len(w) : (w \o k)[i] = w[i]  BY <1>3
<1>5. \A i \in 1 .. Len(k) : (w \o k)[Len(w) + i] = k[i] 
  <2> SUFFICES ASSUME NEW i \in 1 .. Len(k) PROVE (w \o k)[Len(w) + i] = k[i]  OBVIOUS
  <2>1. /\ Len(w) + i \in 1 .. Len(w) + Len(k)
        /\ ~ (Len(w) + i <= Len(w)) /\ (Len(w) + i) - Len(w) = i
    OBVIOUS
  <2> QED  BY <1>3, <2>1
<1> QED BY <1>1, <1>2, <1>4, <1>5

\* The settings come first, the keys after them.
LEMMA EntriesAre ==
    /\ Entries \in Seq(EntrySet) /\ Len(Entries) = 41
    /\ \A i \in 1 .. 39 : Entries[i] = Config!Writer[i]
    /\ Entries[40] = <<"publickey", 32>> /\ Entries[41] = <<"privatekey", 32>>
<1>1. Config!KeyWriter[1] = <<"publickey", 32>> /\ Config!KeyWriter[2] = <<"privatekey", 32>>
  BY DEF Config!KeyWriter
<1>2. /\ Entries \in Seq(EntrySet) /\ Len(Entries) = 41
      /\ \A i \in 1 .. 39 : Entries[i] = Config!Writer[i]
      /\ \A i \in 1 .. 2 : Entries[39 + i] = Config!KeyWriter[i]
  <2> DEFINE w == Config!Writer
             k == Config!KeyWriter
  <2>1. w \in Seq(EntrySet) /\ k \in Seq(EntrySet)
    BY WriterIs
  <2>2. Len(w) = 39 /\ Len(k) = 2
    BY WriterIs
  <2> HIDE DEF w, k
  <2>3. w \o k \in Seq(EntrySet) /\ Len(w \o k) = Len(w) + Len(k)
    BY <2>1, Joined
  <2>4. \A i \in 1 .. Len(w) : (w \o k)[i] = w[i]
    BY <2>1, Joined
  <2>5. \A i \in 1 .. Len(k) : (w \o k)[Len(w) + i] = k[i]
    BY <2>1, Joined
  <2> DEFINE e == w \o k
  <2> HIDE DEF e
  <2>6. e \in Seq(EntrySet) /\ Len(e) = 41  BY <2>2, <2>3 DEF e
  <2>7. \A i \in 1 .. 39 : e[i] = w[i]  BY <2>2, <2>4 DEF e
  <2>8. \A i \in 1 .. 2 : e[39 + i] = k[i]  BY <2>2, <2>5 DEF e
  <2> QED  BY <2>6, <2>7, <2>8, Zenon DEF Entries, e, w, k
<1>3. Entries[40] = Config!KeyWriter[1] /\ Entries[41] = Config!KeyWriter[2]
  BY <1>2
<1> QED  BY <1>1, <1>2, <1>3

Tag(i) == Entries[i][1]
Tags(n) == {Tag(i) : i \in 1 .. n}

\* Writer and reader agree on the width of each field, or the reader has no case for its tag;
\* and each tag is written once.
LEMMA TagsFit ==
    ASSUME NEW i \in 1 .. 41
    PROVE  /\ Config!ReaderWidth(Tag(i)) \in {0, Entries[i][2]} /\ Tag(i) # "eof"
           /\ Tag(i) = "header" <=> i = 1
           /\ \A j \in 1 .. 41 : Tag(i) = Tag(j) => i = j
<1> USE DEF Tag
<1>1. \A k \in 1 .. 39 :
        Config!ReaderWidth(Config!Writer[k][1]) \in {0, Config!Writer[k][2]}
  BY DEF Config!Writer, Config!ReaderWidth, Config!Reader4, Config!Reader16, Config!Reader32,
         Config!Reader64, Config!Key
<1>2. Config!ReaderWidth("publickey") = 32 /\ Config!ReaderWidth("privatekey") = 32
  BY DEF Config!ReaderWidth, Config!Reader4, Config!Reader16, Config!Reader32, Config!Reader64,
         Config!Key
<1>3. \A k \in 1 .. 39 :
        /\ Config!Writer[k][1] \notin {"eof", "publickey", "privatekey"}
        /\ Config!Writer[k][1] = "header" <=> k = 1
  BY DEF Config!Writer
<1>4. \A k, j \in 1 .. 39 : Config!Writer[k][1] = Config!Writer[j][1] => k = j
  BY SMTT(60) DEF Config!Writer
<1>5. /\ Entries[40][1] = "publickey" /\ Entries[40][2] = 32
      /\ Entries[41][1] = "privatekey" /\ Entries[41][2] = 32
  BY EntriesAre
<1>6. \A k \in 1 .. 39 :
        /\ Entries[k][1] = Config!Writer[k][1] /\ Entries[k][2] = Config!Writer[k][2]
  BY EntriesAre
<1>7. \A k \in 1 .. 41 : k \in 1 .. 39 \/ k = 40 \/ k = 41
  OBVIOUS
<1>8. /\ Config!ReaderWidth(Entries[i][1]) \in {0, Entries[i][2]} /\ Entries[i][1] # "eof"
      /\ Entries[i][1] = "header" <=> i = 1
  <2>1. CASE i \in 1 .. 39  BY <1>1, <1>3, <1>6, <2>1
  <2>2. CASE i = 40  BY <1>2, <1>5, <2>2
  <2>3. CASE i = 41  BY <1>2, <1>5, <2>3
  <2> QED  BY <1>7, <2>1, <2>2, <2>3
<1>9. ASSUME NEW j \in 1 .. 41, Entries[i][1] = Entries[j][1] PROVE i = j
  <2>1. ASSUME NEW k \in 1 .. 39 PROVE Entries[k][1] \notin {"publickey", "privatekey"}
    <3>1. Config!Writer[k][1] \notin {"eof", "publickey", "privatekey"}  BY <1>3
    <3>2. Entries[k][1] = Config!Writer[k][1]  BY <1>6
    <3> QED  BY <3>1, <3>2
  <2>2. CASE i \in 1 .. 39
    <3>1. j \notin {40, 41}  BY <1>5, <1>9, <2>1, <2>2
    <3>2. j \in 1 .. 39  BY <1>7, <3>1
    <3>3. Config!Writer[i][1] = Config!Writer[j][1]  BY <1>6, <1>9, <2>2, <3>2
    <3> QED  BY <1>4, <2>2, <3>2, <3>3
  <2>3. CASE i = 40
    <3>1. j # 41  BY <1>5, <1>9, <2>3
    <3>2. j \notin 1 .. 39  BY <1>5, <1>9, <2>1, <2>3
    <3> QED  BY <1>7, <2>3, <3>1, <3>2
  <2>4. CASE i = 41
    <3>1. j # 40  BY <1>5, <1>9, <2>4
    <3>2. j \notin 1 .. 39  BY <1>5, <1>9, <2>1, <2>4
    <3> QED  BY <1>7, <2>4, <3>1, <3>2
  <2> QED  BY <1>7, <2>2, <2>3, <2>4
<1> QED  BY <1>8, <1>9

-----------------------------------------------------------------------------
(* The course of reading a configuration.                                  *)

EndMark == [tag |-> "eof", width |-> 0, val |-> FALSE]
FieldOf(i, c) == [tag |-> Tag(i), width |-> Entries[i][2], val |-> Tag(i) \in c]
FieldsOf(fields, c, m) == \A i \in 1 .. m : fields[i] = FieldOf(i, c)

\* What cfConfigWrite leaves, field by field.
LEMMA ImageIs ==
    ASSUME NEW c
    PROVE  /\ \E S : Config!Image(c) \in Seq(S)
           /\ Len(Config!Image(c)) = 42 /\ Config!Image(c)[42] = EndMark
           /\ \A i \in 1 .. 41 : Config!Image(c)[i] = FieldOf(i, c)
<1> DEFINE F(e) == [tag |-> e[1], width |-> e[2], val |-> e[1] \in c]
           S == {F(e) : e \in EntrySet} \cup {EndMark}
           cs == [i \in 1 .. 39 |-> F(Config!Writer[i])]
           ks == [i \in 1 .. 2 |-> F(Config!KeyWriter[i])]
<1>1. Config!ConfigString(c) = cs /\ Config!KeyString(c) = ks
  BY WriterIs DEF Config!ConfigString, Config!KeyString, Config!Encoded, Config!Field
<1>2. \A i \in 1 .. 39 : F(Config!Writer[i]) \in S
  BY DEF EntrySet
<1>3. \A i \in 1 .. 2 : F(Config!KeyWriter[i]) \in S
  BY DEF EntrySet
<1>4. EndMark \in S
  OBVIOUS
<1> HIDE DEF S, F
<1>5. cs \in Seq(S) /\ Len(cs) = 39 /\ ks \in Seq(S) /\ Len(ks) = 2
  BY <1>2, <1>3
<1>6. <<EndMark>> \in Seq(S) /\ Len(<<EndMark>>) = 1 /\ <<EndMark>>[1] = EndMark
  BY <1>4
<1>7. /\ cs \o ks \in Seq(S) /\ Len(cs \o ks) = 41
      /\ \A i \in 1 .. 39 : (cs \o ks)[i] = cs[i]
      /\ \A i \in 1 .. 2 : (cs \o ks)[39 + i] = ks[i]
  <2> HIDE DEF cs, ks
  <2>1. cs \in Seq(S) /\ ks \in Seq(S)  BY <1>5
  <2>2. Len(cs) = 39 /\ Len(ks) = 2  BY <1>5
  <2>3. cs \o ks \in Seq(S) /\ Len(cs \o ks) = Len(cs) + Len(ks)
    BY <2>1, Joined
  <2>4. \A i \in 1 .. Len(cs) : (cs \o ks)[i] = cs[i]
    BY <2>1, Joined
  <2>5. \A i \in 1 .. Len(ks) : (cs \o ks)[Len(cs) + i] = ks[i]
    BY <2>1, Joined
  <2>6. Len(cs \o ks) = 41  BY <2>2, <2>3
  <2>7. \A i \in 1 .. 39 : (cs \o ks)[i] = cs[i]  BY <2>2, <2>4
  <2>8. \A i \in 1 .. 2 : (cs \o ks)[39 + i] = ks[i]  BY <2>2, <2>5
  <2> QED  BY <2>3, <2>6, <2>7, <2>8, Zenon
<1>8. /\ (cs \o ks) \o <<EndMark>> \in Seq(S) /\ Len((cs \o ks) \o <<EndMark>>) = 42
      /\ \A i \in 1 .. 41 : ((cs \o ks) \o <<EndMark>>)[i] = (cs \o ks)[i]
      /\ ((cs \o ks) \o <<EndMark>>)[42] = EndMark
  <2> DEFINE s == cs \o ks
             e == <<EndMark>>
  <2>1. s \in Seq(S) /\ e \in Seq(S)  BY <1>6, <1>7
  <2>2. Len(s) = 41 /\ Len(e) = 1 /\ e[1] = EndMark  BY <1>6, <1>7
  <2> HIDE DEF s, e
  <2>3. s \o e \in Seq(S) /\ Len(s \o e) = Len(s) + Len(e)
    BY <2>1, Joined
  <2>4. \A i \in 1 .. Len(s) : (s \o e)[i] = s[i]
    BY <2>1, Joined
  <2>5. \A i \in 1 .. Len(e) : (s \o e)[Len(s) + i] = e[i]
    BY <2>1, Joined
  <2>6. Len(s \o e) = 42  BY <2>2, <2>3
  <2>7. \A i \in 1 .. 41 : (s \o e)[i] = s[i]  BY <2>2, <2>4
  <2>8. (s \o e)[42] = EndMark
    <3>1. 1 \in 1 .. Len(e) /\ Len(s) + 1 = 42  BY <2>2
    <3> QED  BY <2>2, <2>5, <3>1
  <2> QED  BY <2>3, <2>6, <2>7, <2>8, Zenon DEF s, e
<1>9. Config!Image(c) = (cs \o ks) \o <<EndMark>>
  BY <1>1 DEF Config!Image, EndMark
<1>10. \A i \in 1 .. 41 : (cs \o ks)[i] = FieldOf(i, c)
  <2> SUFFICES ASSUME NEW i \in 1 .. 41 PROVE (cs \o ks)[i] = FieldOf(i, c)
    OBVIOUS
  <2>1. CASE i \in 1 .. 39
    <3>1. (cs \o ks)[i] = F(Config!Writer[i])  BY <1>7, <2>1
    <3> QED  BY <3>1, <2>1, EntriesAre DEF F, FieldOf, Tag
  <2>2. CASE i \in {40, 41}
    <3>1. (cs \o ks)[39 + 1] = F(Config!KeyWriter[1]) /\ (cs \o ks)[39 + 2] = F(Config!KeyWriter[2])
      BY <1>7
    <3>2. Config!KeyWriter[1] = Entries[40] /\ Config!KeyWriter[2] = Entries[41]
      BY EntriesAre DEF Config!KeyWriter
    <3> QED  BY <3>1, <3>2, <2>2 DEF F, FieldOf, Tag
  <2> QED  BY <2>1, <2>2
<1> HIDE DEF cs, ks
<1> QED  BY <1>8, <1>9, <1>10

\* A set of numbers has a least one: what is wrong somewhere is wrong somewhere first.
LEMMA LeastOf ==
    ASSUME NEW T, T \in SUBSET Nat, T # {}
    PROVE  \E m \in T : \A k \in T : m <= k
<1> DEFINE Less == {ss \in Nat \X Nat : ss[1] < ss[2]}
<1>1. OpToRel(<, Nat) = Less
  BY Zenon DEF OpToRel
<1>2. \E m \in T : \A k \in T : ~ (<<k, m>> \in OpToRel(<, Nat))
  BY NatLessThanWellFounded, WFMin
<1>3. \E m \in T : \A k \in T : ~ (<<k, m>> \in Less)
  BY <1>1, <1>2, Zenon
<1>4. \A k, m \in T : k < m => <<k, m>> \in Less
  OBVIOUS
<1> HIDE DEF Less
<1>5. PICK m \in T : \A k \in T : ~ (<<k, m>> \in Less)
  BY <1>3
<1>6. \A k \in T : ~ (k < m)
  BY <1>4, <1>5
<1> QED  BY <1>6

\* f is the course of reading the first n fields into c.
IsCourse(f, c, fields, n) ==
    f = [k \in 0 .. n |-> IF k = 0 THEN [config |-> c, at |-> "reading"]
                          ELSE Config!TakeField(f[k - 1], fields[k])]

\* Were there fields without a course, the fewest of them would have one.
LEMMA CourseExists ==
    ASSUME NEW c, NEW fields, NEW n \in Nat
    PROVE  \E f : IsCourse(f, c, fields, n)
<1> DEFINE start == [config |-> c, at |-> "reading"]
           T == {k \in 0 .. n : ~ \E f : IsCourse(f, c, fields, k)}
<1> SUFFICES ASSUME T # {} PROVE FALSE
  OBVIOUS
<1>1. PICK m \in T : \A k \in T : m <= k
  <2>1. T \in SUBSET Nat  OBVIOUS
  <2> HIDE DEF T
  <2> QED  BY LeastOf, <2>1
<1>2. IsCourse([k \in 0 .. 0 |-> start], c, fields, 0)
  BY DEF IsCourse
<1>3. m # 0 /\ m - 1 \in 0 .. n /\ m - 1 \notin T
  BY <1>1, <1>2
<1>4. PICK f : IsCourse(f, c, fields, m - 1)
  BY <1>3
<1> DEFINE g == [k \in 0 .. m |-> IF k = m THEN Config!TakeField(f[m - 1], fields[m]) ELSE f[k]]
<1>5. IsCourse(g, c, fields, m)
  <2>1. \A k \in 0 .. m : g[k] = IF k = 0 THEN start ELSE Config!TakeField(g[k - 1], fields[k])
    <3>1. \A k \in 0 .. m - 1 :
            f[k] = IF k = 0 THEN start ELSE Config!TakeField(f[k - 1], fields[k])
      BY <1>4 DEF IsCourse
    <3> HIDE DEF start
    <3>2. \A k \in 0 .. m - 1 : g[k] = f[k]
      BY <1>3
    <3>3. g[m] = Config!TakeField(f[m - 1], fields[m])
      BY <1>3
    <3> HIDE DEF g
    <3> QED  BY <1>3, <3>1, <3>2, <3>3
  <2> QED  BY <2>1 DEF IsCourse
<1> QED  BY <1>1, <1>5

\* The reader's function is the course, and its result where the course ends.
LEMMA ParseIs ==
    ASSUME NEW c, NEW fields, Len(fields) \in Nat
    PROVE  \E f : IsCourse(f, c, fields, Len(fields)) /\ Config!Parse(c, fields) = f[Len(fields)]
<1> DEFINE f == CHOOSE st : IsCourse(st, c, fields, Len(fields))
<1>1. IsCourse(f, c, fields, Len(fields))
  BY CourseExists
<1>2. Config!Parse(c, fields) = f[Len(fields)]
  BY DEF Config!Parse, Config!Course, IsCourse
<1> QED  BY <1>1, <1>2

Reading(s) == [config |-> s, at |-> "reading"]

\* What a field with this tag and value makes of the configuration s.
Taken(s, tag, v) ==
    IF Config!ReaderWidth(tag) = 0 \/ tag = "header" THEN s
    ELSE IF v THEN s \cup {tag} ELSE s \ {tag}

\* One field, of the width the reader expects.
LEMMA Takes ==
    ASSUME NEW s, NEW tag, NEW w, NEW v \in BOOLEAN,
           tag # "eof", Config!ReaderWidth(tag) \in {0, w}, v => Config!ReaderWidth(tag) # 0
    PROVE  Config!TakeField(Reading(s), [tag |-> tag, width |-> w, val |-> v])
               = Reading(Taken(s, tag, v))
BY DEF Config!TakeField, Reading, Taken

LEMMA TakesEnd ==
    ASSUME NEW s, NEW f, f.tag = "eof"
    PROVE  Config!TakeField(Reading(s), f) = [config |-> s, at |-> "end"]
<1>1. Config!ReaderWidth("eof") = 0
  BY DEF Config!ReaderWidth, Config!Reader4, Config!Reader16, Config!Reader32, Config!Reader64,
         Config!Key
<1> QED  BY <1>1 DEF Config!TakeField, Reading

\* What is changed is written and read.
LEMMA ChangeableTags ==
    /\ \A t \in Changeable : Config!ReaderWidth(t) # 0 /\ t # "header" /\ t # "eof"
    /\ Changeable \subseteq Tags(41)
<1>1. ASSUME NEW t \in Changeable PROVE t \in Tags(41) /\ t # "header"
  <2>1. CASE t \in Config!Key
    <3>1. t = Tag(40) \/ t = Tag(41)  BY <2>1, EntriesAre DEF Config!Key, Tag
    <3> QED  BY <2>1, <3>1 DEF Tags, Config!Key
  <2>2. CASE t \in Config!Setting
    <3>1. PICK i \in DOMAIN Config!Writer : t = Config!Writer[i][1]
      BY <2>2 DEF Config!Setting
    <3>2. i \in 1 .. 39  BY <3>1, WriterIs
    <3>3. t = Tag(i)  BY <3>1, <3>2, EntriesAre DEF Tag
    <3> QED  BY <2>2, <3>2, <3>3 DEF Tags, Config!Setting
  <2> QED  BY <2>1, <2>2, SettingsAssumption DEF Config!ConfigAssumption
<1>2. ASSUME NEW t \in Changeable PROVE t # "eof"
  <2>1. PICK i \in 1 .. 41 : t = Tag(i)  BY <1>1 DEF Tags
  <2> QED  BY <2>1, TagsFit
<1> QED  BY <1>1, <1>2, SettingsAssumption

\* As far as the fields are those of c, c has been read: the first field where it has not would
\* have made c of c.
LEMMA ReadsAsWritten ==
    ASSUME NEW c, c \subseteq Changeable, NEW f, NEW fields, NEW n \in Nat,
           IsCourse(f, {}, fields, n),
           NEW m \in Nat, m <= 41, m <= n, FieldsOf(fields, c, m)
    PROVE  f[m] = Reading(c \cap Tags(m))
<1> USE DEF FieldsOf
<1> DEFINE T == {k \in 0 .. m : f[k] # Reading(c \cap Tags(k))}
<1> SUFFICES ASSUME T # {} PROVE FALSE
  <2>1. m \in 0 .. m  OBVIOUS
  <2> DEFINE R(k) == Reading(c \cap Tags(k))
  <2> HIDE DEF R
  <2> QED  BY <2>1, Zenon
<1>1. PICK k \in T : \A j \in T : k <= j
  <2>1. T \subseteq Nat  OBVIOUS
  <2> HIDE DEF T
  <2> QED  BY LeastOf, <2>1
<1>2. k \in 0 .. m /\ f[k] # Reading(c \cap Tags(k))
  BY <1>1
<1>3. f[0] = Reading({}) /\ Tags(0) = {}
  BY DEF IsCourse, Reading, Tags
<1>4. k # 0
  BY <1>2, <1>3
<1>5. k - 1 \in 0 .. m /\ k - 1 \notin T
  BY <1>1, <1>2, <1>4
<1>6. f[k - 1] = Reading(c \cap Tags(k - 1))
  BY <1>5
<1>7. f[k] = Config!TakeField(f[k - 1], FieldOf(k, c)) /\ k \in 1 .. 41
  BY <1>2, <1>4 DEF IsCourse
<1> DEFINE t == Tag(k)
<1>8. Tags(k) = Tags(k - 1) \cup {t}
  <2>1. 1 .. k = 1 .. k - 1 \cup {k}  BY <1>7
  <2> QED  BY <2>1 DEF Tags
<1>9. /\ Config!ReaderWidth(t) \in {0, Entries[k][2]} /\ t # "eof"
      /\ t \in c => Config!ReaderWidth(t) # 0 /\ t # "header"
  BY <1>7, TagsFit, ChangeableTags
<1>10. f[k] = Reading(Taken(c \cap Tags(k - 1), t, t \in c))
  <2>1. (t \in c) \in BOOLEAN  OBVIOUS
  <2> HIDE DEF t
  <2>2. Config!TakeField(Reading(c \cap Tags(k - 1)),
                         [tag |-> t, width |-> Entries[k][2], val |-> t \in c])
          = Reading(Taken(c \cap Tags(k - 1), t, t \in c))
    BY <1>9, <2>1, Takes
  <2> QED  BY <1>6, <1>7, <2>2 DEF FieldOf, t
<1>11. Taken(c \cap Tags(k - 1), t, t \in c) = c \cap Tags(k)
  <2> HIDE DEF t
  <2> QED  BY <1>8, <1>9 DEF Taken
<1> QED  BY <1>2, <1>10, <1>11

\* An empty file changes nothing.
LEMMA NothingRead == Config!Read({}, <<>>) = {{}}
<1>1. Len(<<>>) = 0 /\ Len(<<>>) \in Nat
  OBVIOUS
<1>2. PICK f : IsCourse(f, {}, <<>>, 0) /\ Config!Parse({}, <<>>) = f[0]
  BY <1>1, ParseIs
<1>3. Config!Parse({}, <<>>) = Reading({})
  BY <1>2 DEF IsCourse, Reading
<1> QED  BY <1>3 DEF Config!Read, Reading

\* One round of the loop.
LEMMA CourseStep ==
    ASSUME NEW f, NEW c, NEW fields, NEW n \in Nat, IsCourse(f, c, fields, n), NEW k \in Nat,
           1 <= k, k <= n
    PROVE  f[k] = Config!TakeField(f[k - 1], fields[k])
BY DEF IsCourse

\* A configuration that was written whole is read.
LEMMA ReadsWhole ==
    ASSUME NEW c, c \subseteq Changeable
    PROVE  Config!Read({}, Config!Image(c)) = {c}
<1> DEFINE fields == Config!Image(c)
<1>1. Len(fields) = 42 /\ Len(fields) \in Nat
  BY ImageIs
<1>2. fields[42] = EndMark /\ \A i \in 1 .. 41 : fields[i] = FieldOf(i, c)
  BY ImageIs
<1> HIDE DEF fields
<1>3. PICK f : IsCourse(f, {}, fields, 42) /\ Config!Parse({}, fields) = f[42]
  BY <1>1, ParseIs
<1>4. f[41] = Reading(c \cap Tags(41))
  <2>1. PICK m \in Nat, n \in Nat : m = 41 /\ n = 42  OBVIOUS
  <2>2. m <= 41 /\ m <= n  BY <2>1
  <2>3. FieldsOf(fields, c, m)  BY <1>2, <2>1 DEF FieldsOf
  <2>4. IsCourse(f, {}, fields, n)  BY <1>3, <2>1
  <2>5. f[m] = Reading(c \cap Tags(m))
    BY <2>2, <2>3, <2>4, ReadsAsWritten
  <2> QED  BY <2>1, <2>5
<1>5. f[42] = Config!TakeField(f[41], fields[42])
  BY <1>3 DEF IsCourse
<1>6. fields[42].tag = "eof"
  BY <1>2 DEF EndMark
<1>7. c \cap Tags(41) = c
  BY ChangeableTags
<1>8. f[42] = [config |-> c, at |-> "end"]
  BY <1>2, <1>4, <1>5, <1>6, <1>7, TakesEnd
<1> QED  BY <1>3, <1>8 DEF Config!Read, fields

\* Of a configuration that was cut short the reader makes one configuration, which agrees with
\* the one written on all fields before the cut.
\* The last field of n, if it is not the end mark, has its tag and any value that may be set.
EndsAt(fields, n) ==
    \E v \in BOOLEAN :
        /\ n = 42 => fields[n].tag = "eof"
        /\ n # 42 => /\ fields[n] = [tag |-> Tag(n), width |-> Entries[n][2], val |-> v]
                     /\ v => Tag(n) \in Changeable

LEMMA ReadsPart ==
    ASSUME NEW c, c \subseteq Changeable, NEW n \in Nat, 1 <= n, n <= 42,
           NEW fields, Len(fields) = n, FieldsOf(fields, c, n - 1),
           EndsAt(fields, n)
    PROVE  \E r : /\ Config!Read({}, fields) = {r} /\ r \subseteq Changeable
                 /\ \A i \in 1 .. n - 1 : Tag(i) \in r <=> Tag(i) \in c
<1>7. PICK f : IsCourse(f, {}, fields, n) /\ Config!Parse({}, fields) = f[n]
  BY ParseIs
<1> DEFINE s == c \cap Tags(n - 1)
<1>8. f[n - 1] = Reading(s)
  <2>1. PICK m \in Nat : m = n - 1  OBVIOUS
  <2>2. m <= 41 /\ m <= n  BY <2>1
  <2>3. FieldsOf(fields, c, m)  BY <2>1 DEF FieldsOf
  <2>4. IsCourse(f, {}, fields, n)  BY <1>7
  <2>5. f[m] = Reading(c \cap Tags(m))  BY <2>2, <2>3, <2>4, ReadsAsWritten
  <2> QED  BY <2>1, <2>5 DEF s
<1>9. f[n] = Config!TakeField(f[n - 1], fields[n])
  BY <1>7, CourseStep
<1>10. s \subseteq Changeable /\ \A i \in 1 .. n - 1 : Tag(i) \in s <=> Tag(i) \in c
  BY DEF Tags
<1> HIDE DEF s
<1>11. CASE n = 42
  <2>1. f[n] = [config |-> s, at |-> "end"]
    BY <1>8, <1>9, <1>11, TakesEnd DEF EndsAt
  <2>2. Config!Read({}, fields) = {s}
    BY <1>7, <2>1 DEF Config!Read
  <2> QED  BY <1>10, <2>2
<1>12. CASE n # 42
  <2> DEFINE t == Tag(n)
             w == Entries[n][2]
  <2>1. PICK v \in BOOLEAN :
           fields[n] = [tag |-> t, width |-> w, val |-> v] /\ (v => t \in Changeable)
    BY <1>12 DEF EndsAt
  <2> DEFINE r == Taken(s, t, v)
  <2>a. n \in 1 .. 41  BY <1>12
  <2>2. Config!ReaderWidth(t) \in {0, w} /\ t # "eof"
    BY <2>a, TagsFit
  <2>3. v => Config!ReaderWidth(t) # 0 /\ t \in Changeable
    BY <2>1, ChangeableTags
  <2>4. ASSUME NEW i \in 1 .. n - 1 PROVE Tag(i) # t
    <3>1. i \in 1 .. 41 /\ i # n  OBVIOUS
    <3>2. \A j \in 1 .. 41 : Tag(i) = Tag(j) => i = j  BY <3>1, TagsFit
    <3> QED  BY <2>a, <3>1, <3>2
  <2> HIDE DEF t, w
  <2>5. f[n] = Reading(r)
    BY <1>8, <1>9, <2>1, <2>2, <2>3, Takes
  <2>6. Config!Read({}, fields) = {r}
    BY <1>7, <2>5 DEF Config!Read, Reading
  <2>7. r \subseteq Changeable /\ \A i \in 1 .. n - 1 : Tag(i) \in r <=> Tag(i) \in c
    BY <1>10, <2>3, <2>4 DEF Taken
  <2> HIDE DEF r
  <2> QED  BY <2>6, <2>7
<1> QED  BY <1>11, <1>12

\* A write can be cut short in any of 42 fields.
LEMMA ImageDomain == ASSUME NEW c PROVE DOMAIN Config!Image(c) = 1 .. 42
<1> DEFINE img == Config!Image(c)
<1>1. Len(img) = 42  BY ImageIs
<1>2. PICK S : img \in Seq(S)  BY ImageIs
<1> HIDE DEF img
<1>3. DOMAIN img = 1 .. 42  BY <1>1, <1>2
<1> QED  BY <1>3 DEF img

TagsInOrder(fields, m) == \A i \in 1 .. m : fields[i].tag = Tag(i)

\* So it is for each thing a cut write may leave.
LEMMA ReadsCut ==
    ASSUME NEW c, c \subseteq Changeable, NEW n \in Nat, 1 <= n, n <= 42, NEW fields,
           fields \in Config!CutImages(c, n)
    PROVE  /\ Len(fields) = n
           /\ TagsInOrder(fields, n - 1)
           /\ \E r : /\ Config!Read({}, fields) = {r} /\ r \subseteq Changeable
                    /\ \A i \in 1 .. n - 1 : Tag(i) \in r <=> Tag(i) \in c
<1> DEFINE img == Config!Image(c)
<1>1. PICK v \in BOOLEAN :
        /\ v => img[n].tag \in Changeable
        /\ fields = [i \in 1 .. n |-> IF i = n THEN [img[i] EXCEPT !.val = v] ELSE img[i]]
  BY DEF Config!CutImages
<1>2. img[42] = EndMark /\ \A i \in 1 .. 41 : img[i] = FieldOf(i, c)
  BY ImageIs
<1> HIDE DEF img
<1> DEFINE G(i) == IF i = n THEN [img[i] EXCEPT !.val = v] ELSE img[i]
<1>3. Len(fields) = n /\ \A i \in 1 .. n : fields[i] = G(i)
  <2> HIDE DEF G
  <2>1. fields = [i \in 1 .. n |-> G(i)]
    BY <1>1, Zenon DEF G
  <2> QED  BY <2>1
<1>4. fields[n] = [img[n] EXCEPT !.val = v]
  <2>1. n \in 1 .. n  OBVIOUS
  <2>2. fields[n] = G(n)  BY <1>3, <2>1
  <2> QED  BY <2>2
<1>5. ASSUME NEW i \in 1 .. n - 1 PROVE fields[i] = FieldOf(i, c)
  <2>1. i \in 1 .. n /\ i # n /\ i \in 1 .. 41  OBVIOUS
  <2>2. fields[i] = G(i)  BY <1>3, <2>1
  <2>3. G(i) = img[i]  BY <2>1
  <2> QED  BY <1>2, <2>1, <2>2, <2>3
<1>6. n = 42 => fields[n].tag = "eof"
  BY <1>2, <1>4 DEF EndMark
<1>7. n # 42 => /\ fields[n] = [tag |-> Tag(n), width |-> Entries[n][2], val |-> v]
                /\ v => Tag(n) \in Changeable
  <2> SUFFICES ASSUME n # 42
               PROVE  /\ fields[n] = [tag |-> Tag(n), width |-> Entries[n][2], val |-> v]
                      /\ v => Tag(n) \in Changeable
    OBVIOUS
  <2>1. n \in 1 .. 41  OBVIOUS
  <2>2. img[n] = FieldOf(n, c)  BY <1>2, <2>1
  <2> QED  BY <1>1, <1>4, <2>2 DEF FieldOf
<1>8. TagsInOrder(fields, n - 1)
  <2> SUFFICES ASSUME NEW i \in 1 .. n - 1 PROVE fields[i].tag = Tag(i)
    BY DEF TagsInOrder
  <2>1. fields[i] = FieldOf(i, c)  BY <1>5
  <2> QED  BY <2>1 DEF FieldOf
<1>9. \E r : /\ Config!Read({}, fields) = {r} /\ r \subseteq Changeable
             /\ \A i \in 1 .. n - 1 : Tag(i) \in r <=> Tag(i) \in c
  <2>1. Len(fields) = n /\ FieldsOf(fields, c, n - 1)
    BY <1>3, <1>5 DEF FieldsOf
  <2>2. EndsAt(fields, n)
    BY <1>6, <1>7 DEF EndsAt
  <2> QED  BY <2>1, <2>2, ReadsPart
<1> QED  BY <1>3, <1>8, <1>9

\* A CONFIG_SET brings changes of what may be changed.
LEMMA ReadsSet ==
    ASSUME NEW c, c \subseteq Changeable, NEW a \in Changeable, NEW b \in Changeable,
           NEW va \in BOOLEAN, NEW vb \in BOOLEAN, NEW r,
           r \in Config!Read(c, << [tag |-> a, width |-> Config!ReaderWidth(a), val |-> va],
                                   [tag |-> b, width |-> Config!ReaderWidth(b), val |-> vb] >>)
    PROVE  r \subseteq Changeable
<1> DEFINE fields == << [tag |-> a, width |-> Config!ReaderWidth(a), val |-> va],
                        [tag |-> b, width |-> Config!ReaderWidth(b), val |-> vb] >>
<1>1. /\ Len(fields) = 2 /\ Len(fields) \in Nat
      /\ fields[1] = [tag |-> a, width |-> Config!ReaderWidth(a), val |-> va]
      /\ fields[2] = [tag |-> b, width |-> Config!ReaderWidth(b), val |-> vb]
  OBVIOUS
<1>2. r \in Config!Read(c, fields)
  OBVIOUS
<1> HIDE DEF fields
<1>3. PICK f : IsCourse(f, c, fields, 2) /\ Config!Parse(c, fields) = f[2]
  BY <1>1, ParseIs
<1>4. /\ f[0] = Reading(c)
      /\ f[1] = Config!TakeField(f[0], fields[1]) /\ f[2] = Config!TakeField(f[1], fields[2])
  BY <1>3 DEF IsCourse, Reading
<1>5. f[1] = Reading(Taken(c, a, va))
  BY <1>1, <1>4, ChangeableTags, Takes
<1>6. f[2] = Reading(Taken(Taken(c, a, va), b, vb))
  BY <1>1, <1>4, <1>5, ChangeableTags, Takes
<1>7. r = Taken(Taken(c, a, va), b, vb)
  BY <1>2, <1>3, <1>6 DEF Config!Read, Reading
<1> QED  BY <1>7 DEF Taken
\* The file or the flash holds what was saved last, whole or in part, and all that is ever set is
\* something that can be read again.
ConfigInv ==
    /\ config \subseteq Changeable /\ saved \subseteq Changeable
    /\ Config!ImageOfSaved
    /\ Config!KeysStayHome

LEMMA ConfigInit == ASSUME Config!Init PROVE ConfigInv
BY DEF Config!Init, ConfigInv, Config!ImageOfSaved, Config!KeysStayHome

\* What a cut write left is read as one configuration, which is the saved one before the cut.
LEMMA CutRead ==
    ASSUME ConfigInv, ~image.whole
    PROVE  \E r : /\ Config!Read({}, image.fields) = {r} /\ r \subseteq Changeable
                 /\ \A i \in 1 .. Len(image.fields) - 1 :
                        image.fields[i].tag \in r <=> image.fields[i].tag \in saved
<1>1. PICK n \in Nat : /\ 1 <= n /\ n <= 42
                       /\ \E fields \in Config!CutImages(saved, n) :
                             image = [fields |-> fields, whole |-> FALSE]
  <2>1. PICK n \in DOMAIN Config!Image(saved) : \E fields \in Config!CutImages(saved, n) :
           image = [fields |-> fields, whole |-> FALSE]
    BY DEF ConfigInv, Config!ImageOfSaved
  <2>2. n \in Nat /\ 1 <= n /\ n <= 42
    BY ImageDomain
  <2> QED  BY <2>1, <2>2
<1>2. 1 <= n /\ n <= 42
  BY <1>1
<1>3. image.fields \in Config!CutImages(saved, n)
  BY <1>1
<1>4. saved \subseteq Changeable
  BY DEF ConfigInv
<1> DEFINE fs == image.fields
<1>5. fs \in Config!CutImages(saved, n)
  BY <1>3
<1> HIDE DEF fs
<1>6. Len(fs) = n /\ \A i \in 1 .. n - 1 : fs[i].tag = Tag(i)
  <2>1. Len(fs) = n
    BY <1>2, <1>4, <1>5, ReadsCut
  <2>2. TagsInOrder(fs, n - 1)
    BY <1>2, <1>4, <1>5, ReadsCut
  <2> QED  BY <2>1, <2>2 DEF TagsInOrder
<1>7. PICK r : /\ Config!Read({}, fs) = {r} /\ r \subseteq Changeable
               /\ \A i \in 1 .. n - 1 : Tag(i) \in r <=> Tag(i) \in saved
  BY <1>2, <1>4, <1>5, ReadsCut
<1>8. \A i \in 1 .. Len(fs) - 1 : fs[i].tag \in r <=> fs[i].tag \in saved
  BY <1>6, <1>7
<1> QED  BY <1>7, <1>8 DEF fs

\* CONFIG_GET sends all settings and the header.
LEMMA AllTagsSent ==
    ASSUME NEW c
    PROVE  {f.tag : f \in Config!Range(Config!ConfigString(c))} = Config!Setting \cup {"header"}
<1> DEFINE w == Config!Writer
<1>1. Config!ConfigString(c) =
        [i \in DOMAIN w |-> [tag |-> w[i][1], width |-> w[i][2], val |-> w[i][1] \in c]]
  BY DEF Config!ConfigString, Config!Encoded, Config!Field
<1>2. w[1][1] = "header" /\ 1 \in DOMAIN w
  BY WriterIs DEF Config!Writer
<1>3. Config!Setting = {w[i][1] : i \in DOMAIN w} \ {"header"}
  BY DEF Config!Setting
<1> HIDE DEF w
<1>4. {f.tag : f \in Config!Range(Config!ConfigString(c))} = {w[i][1] : i \in DOMAIN w}
  BY <1>1 DEF Config!Range
<1> QED  BY <1>2, <1>3, <1>4

LEMMA ConfigStep == ASSUME ConfigInv, Config!Next PROVE ConfigInv'
<1> USE DEF ConfigInv
<1>1. CASE Config!SetFromStr
  <2>1. PICK a \in Changeable, b \in Changeable, va \in BOOLEAN, vb \in BOOLEAN :
          config' \in Config!Read(config,
              << [tag |-> a, width |-> Config!ReaderWidth(a), val |-> va],
                 [tag |-> b, width |-> Config!ReaderWidth(b), val |-> vb] >>)
    BY <1>1, Zenon DEF Config!SetFromStr
  <2>2. config' \subseteq Changeable
    <3> DEFINE r == config'
    <3>1. r \in Config!Read(config,
              << [tag |-> a, width |-> Config!ReaderWidth(a), val |-> va],
                 [tag |-> b, width |-> Config!ReaderWidth(b), val |-> vb] >>)
      BY <2>1
    <3>2. config \subseteq Changeable
      OBVIOUS
    <3> HIDE DEF r
    <3>3. r \subseteq Changeable
      BY <3>1, <3>2, ReadsSet
    <3> QED  BY <3>3 DEF r
  <2>3. image' = [fields |-> Config!Image(config'), whole |-> TRUE] /\ saved' = config'
    BY <1>1 DEF Config!SetFromStr
  <2>4. Config!ImageOfSaved'
    BY <2>3 DEF Config!ImageOfSaved
  <2>5. Config!KeysStayHome'
    BY <1>1 DEF Config!SetFromStr, Config!KeysStayHome
  <2> QED  BY <2>2, <2>3, <2>4, <2>5
<1>2. CASE Config!Assign
  <2>1. config' \subseteq Changeable
    BY <1>2 DEF Config!Assign
  <2>2. UNCHANGED <<image, saved, sent>>
    BY <1>2 DEF Config!Assign
  <2> QED  BY <2>1, <2>2 DEF Config!ImageOfSaved, Config!KeysStayHome
<1>3. CASE Config!Write
  <2>1. image' = [fields |-> Config!Image(config), whole |-> TRUE] /\ saved' = config
        /\ UNCHANGED <<config, sent>>
    BY <1>3 DEF Config!Write
  <2>2. Config!ImageOfSaved'
    BY <2>1 DEF Config!ImageOfSaved
  <2> QED  BY <2>1, <2>2 DEF Config!KeysStayHome
<1>4. CASE Config!CutWrite
  <2>1. /\ \E n \in DOMAIN Config!Image(config) : \E fields \in Config!CutImages(config, n) :
              image' = [fields |-> fields, whole |-> FALSE]
        /\ saved' = config /\ UNCHANGED <<config, sent>>
    BY <1>4 DEF Config!CutWrite
  <2>2. Config!ImageOfSaved'
    BY <2>1 DEF Config!ImageOfSaved
  <2> QED  BY <2>1, <2>2 DEF Config!KeysStayHome
<1>5. CASE Config!Restart
  <2>1. config' \in Config!Read({}, image.fields) /\ UNCHANGED <<image, saved, sent>>
    BY <1>5 DEF Config!Restart
  <2>2. config' \subseteq Changeable
    <3>1. CASE image = [fields |-> <<>>, whole |-> TRUE]
      BY <2>1, <3>1, NothingRead
    <3>2. CASE image = [fields |-> Config!Image(saved), whole |-> TRUE]
      <4>1. Config!Read({}, Config!Image(saved)) = {saved}
        BY ReadsWhole
      <4> QED  BY <2>1, <3>2, <4>1
    <3>3. CASE ~image.whole
      <4>1. PICK r : Config!Read({}, image.fields) = {r} /\ r \subseteq Changeable
        BY <3>3, CutRead
      <4> QED  BY <2>1, <4>1
    <3> QED  BY <3>1, <3>2, <3>3 DEF Config!ImageOfSaved
  <2> QED  BY <2>1, <2>2 DEF Config!ImageOfSaved, Config!KeysStayHome
<1>6. CASE Config!ConfigGet
  <2>1. sent' = {f.tag : f \in Config!Range(Config!ConfigString(config))}
        /\ UNCHANGED <<config, image, saved>>
    BY <1>6 DEF Config!ConfigGet
  <2>2. sent' = Config!Setting \cup {"header"}
    BY <2>1, AllTagsSent
  <2>3. Config!KeysStayHome'
    BY <2>2 DEF Config!KeysStayHome
  <2> QED  BY <2>1, <2>3 DEF Config!ImageOfSaved
<1> QED  BY <1>1, <1>2, <1>3, <1>4, <1>5, <1>6 DEF Config!Next

LEMMA ConfigSound ==
    ASSUME ConfigInv
    PROVE  Config!RestartRestores /\ Config!CutSparesTheRest /\ Config!KeysStayHome
<1> USE DEF ConfigInv
<1>1. Config!RestartRestores
  <2> SUFFICES ASSUME image.whole, image.fields # <<>> PROVE Config!Read({}, image.fields) = {saved}
    BY DEF Config!RestartRestores
  <2>1. image = [fields |-> Config!Image(saved), whole |-> TRUE]
    BY DEF Config!ImageOfSaved
  <2> QED  BY <2>1, ReadsWhole
<1>2. Config!CutSparesTheRest
  <2> SUFFICES ASSUME ~image.whole,
                      NEW c \in Config!Read({}, image.fields),
                      NEW s \in {image.fields[i].tag : i \in 1 .. Len(image.fields) - 1}
               PROVE  s \in c <=> s \in saved
    BY DEF Config!CutSparesTheRest
  <2>1. PICK r : /\ Config!Read({}, image.fields) = {r}
                 /\ \A i \in 1 .. Len(image.fields) - 1 :
                        image.fields[i].tag \in r <=> image.fields[i].tag \in saved
    BY CutRead
  <2> QED  BY <2>1
<1> QED  BY <1>1, <1>2

\* What was written is what is read after a restart, a write that is cut short costs no setting
\* before the cut, and no CONFIG_MESSAGE carries a key (cfConfigWrite, cfConfigRead, CONFIG_GET):
\* for any settings the reader has a case for and any number of changes.
THEOREM ConfigComesBack == PartsSpec => []ConfigSurvives
<1> DEFINE Inv == part = "config" => ConfigInv
<1>1. PartsInit => Inv
  BY ConfigInit DEF PartsInit
<1>2. Inv /\ [PartsNext]_partsVars => Inv'
  <2> SUFFICES ASSUME Inv, [PartsNext]_partsVars, part' = "config" PROVE ConfigInv'
    OBVIOUS
  <2>1. part = "config"
    BY DEF PartsNext, partsVars
  <2>2. CASE Config!Next
    BY <2>1, <2>2, ConfigStep
  <2>3. CASE UNCHANGED configVars
    BY <2>1, <2>3 DEF configVars, ConfigInv, Config!ImageOfSaved, Config!KeysStayHome
  <2> QED  BY <2>1, <2>2, <2>3 DEF PartsNext, partsVars, Streams
<1>3. Inv => ConfigSurvives
  BY ConfigSound DEF ConfigSurvives
<1> QED  BY <1>1, <1>2, <1>3, PTL DEF PartsSpec

=============================================================================
