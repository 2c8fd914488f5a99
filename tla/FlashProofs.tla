---------------------------- MODULE FlashProofs -----------------------------
(***************************************************************************)
(* Theorems about FlashConfig: the pairing in the sector belongs to the    *)
(* identity beside it, even where a load may fail; and where none fails,   *)
(* the sector implements two records that outlive a restart.               *)
(***************************************************************************)
EXTENDS FlashConfig, TLAPS

-----------------------------------------------------------------------------
(* Types *)

\* The configurations boot draws and CONFIG_SET leads to are configurations.
LEMMA DrawnType ==
    ASSUME NEW k \in Key PROVE Drawn(k) \in ConfigRecord
    BY FlashAssumption DEF ConfigRecord, Drawn

LEMMA SettableType ==
    ASSUME TypeOK, NEW c \in Settable
    PROVE  c \in ConfigRecord /\ c.hasPairs = config.hasPairs
    BY DEF Settable

\* Every action keeps the types.
LEMMA TypeStep == TypeOK /\ [Next]_vars => TypeOK'
<1> SUFFICES ASSUME TypeOK, [Next]_vars PROVE TypeOK'
    OBVIOUS
<1> USE DEF TypeOK
<1>1. CASE BootRead
  <2> USE <1>1 DEF BootRead
  <2>1. PICK k \in FreshKeys :
          \/ /\ flashConfig' = sector
             /\ config' = AfterRead(Parsed(sector, Drawn(k)))
          \/ /\ LoadFaults
             /\ flashConfig' = Blank
             /\ config' = AfterRead(Drawn(k))
    OBVIOUS
  <2>2. k \in Key
    BY DEF FreshKeys
  <2>3. Drawn(k) \in ConfigRecord
    BY <2>2, DrawnType
  <2>4. Parsed(sector, Drawn(k)) \in ConfigRecord
    BY <2>3 DEF Parsed, Image, Nothings
  <2>5. \A c \in ConfigRecord : AfterRead(c) \in ConfigRecord
    BY DEF AfterRead, ConfigRecord
  <2>6. config' \in ConfigRecord
    BY <2>1, <2>3, <2>4, <2>5
  <2>7. flashConfig' \in Image
    BY <2>1 DEF Blank, Image, Nothings
  <2> QED
    BY <2>6, <2>7 DEF PairState
<1>2. CASE BootWrite
    BY <1>2 DEF BootWrite, cfConfigWrite, ConfigImage, Save, Image
<1>3. CASE BootPair
  <2> DEFINE restored == [state |-> "paired",
                          bond |-> [sector.bond EXCEPT !.key = config.key]]
             known == [config EXCEPT !.hasPairs = TRUE]
  <2>1. known \in ConfigRecord
    BY DEF ConfigRecord
  <2>2. sector.bond # Nothing => restored \in PairState
    <3> SUFFICES ASSUME sector.bond # Nothing PROVE restored \in PairState
        OBVIOUS
    <3>1. sector.bond \in PairRecord
        BY DEF Image, Nothings
    <3>2. config.key \in Key
        BY DEF ConfigRecord
    <3>3. restored.bond \in PairRecord
        BY <3>1, <3>2 DEF PairRecord
    <3> QED
        BY <3>3 DEF PairState
  <2>3. flashConfig' \in Image /\ sector' \in Image /\ at' = "on" /\ forgotten' \in BOOLEAN
    BY <1>3 DEF BootPair, cfPairRead
  <2>4. pair' \in PairState /\ config' \in ConfigRecord
    BY <1>3, <2>1, <2>2 DEF BootPair, cfPairRead
  <2> QED
    BY <2>3, <2>4
<1>4. CASE PowerFail
    BY <1>4 DEF PowerFail
<1>5. ASSUME NEW p \in Peer, ExchangeKeys(p) PROVE TypeOK'
    BY <1>5 DEF ExchangeKeys, PairState, PairRecord, ConfigRecord
<1>6. CASE BecomePaired
  <2>1. pair.bond \in PairRecord /\ [pair EXCEPT !.state = "paired"] \in PairState
    BY <1>6 DEF BecomePaired, PairState, Unpaired
  <2> QED
    BY <1>6, <2>1 DEF BecomePaired, Save, Image, ConfigRecord
<1>7. ASSUME NEW c \in Settable, ConfigSet(c) PROVE TypeOK'
    BY <1>7, SettableType DEF ConfigSet, cfConfigWrite, ConfigImage, Save, Image
<1>8. CASE Unpair
    BY <1>8 DEF Unpair, PairState
<1>9. CASE InitReset
    BY <1>9 DEF InitReset, Save, Image, Blank, Nothings
<1>10. CASE SaveConfig
    BY <1>10 DEF SaveConfig, cfConfigWrite, ConfigImage, Save, Image
<1>11. CASE ReadConfig
    BY <1>11 DEF ReadConfig, Parsed, Image, Nothings
<1>12. ASSUME NEW d \in BOOLEAN, SetDebug(d) PROVE TypeOK'
    BY <1>12 DEF SetDebug, ConfigRecord
<1>13. CASE UNCHANGED vars
    BY <1>13 DEF vars
<1> QED
    BY <1>1, <1>2, <1>3, <1>4, <1>5, <1>6, <1>7, <1>8, <1>9, <1>10, <1>11, <1>12,
       <1>13 DEF Next, Boot, Packet, Shell

LEMMA TypeInit == Init => TypeOK
<1> SUFFICES ASSUME Init PROVE TypeOK
    OBVIOUS
<1>1. config \in ConfigRecord
    BY FlashAssumption DEF Init, ConfigRecord
<1> QED
    BY <1>1 DEF Init, TypeOK, Image, Blank, Nothings, PairState

\* Every variable has its type, whatever fails.
THEOREM FlashTypes == Spec => []TypeOK
    BY TypeInit, TypeStep, PTL DEF Spec

-----------------------------------------------------------------------------
(* Where no write fails and CONFIG_SET carries no keys *)

LEMMA InvInit == Init => FlashInv
    BY TypeInit DEF Init, FlashInv, CopyCoherent, ConfigCoherent, LivePairing,
                    PairingMatchesIdentity, Blank

\* Boot up to its write: the copy is what was loaded, or blank.
LEMMA BootReadInv ==
    ASSUME FlashInv, BootRead PROVE CopyCoherent' /\ ConfigCoherent' /\ LivePairing'
                                    /\ PairingMatchesIdentity'
<1> USE DEF FlashInv, TypeOK
<1>1. PICK k \in FreshKeys :
        \/ /\ flashConfig' = sector
           /\ config' = AfterRead(Parsed(sector, Drawn(k)))
        \/ /\ LoadFaults
           /\ flashConfig' = Blank
           /\ config' = AfterRead(Drawn(k))
    BY DEF BootRead
<1>2. at' = "save" /\ pair' = Unpaired /\ sector' = sector
    BY DEF BootRead
<1>3. \A c \in ConfigRecord : AfterRead(c).key = c.key /\ AfterRead(c).name = c.name
    BY DEF AfterRead, ConfigRecord
<1>4. sector.config # Nothing => sector.config \in ConfigRecord
    BY DEF Image, Nothings
<1>5. CopyCoherent'
    BY <1>1, <1>2 DEF CopyCoherent, Blank
<1>6. ConfigCoherent'
    BY <1>1, <1>2, <1>3, <1>4 DEF ConfigCoherent, Parsed, Blank
<1> QED
    BY <1>2, <1>5, <1>6 DEF LivePairing, PairingMatchesIdentity

LEMMA BootWriteInv ==
    ASSUME FlashInv, BootWrite, ~SaveFaults
    PROVE  CopyCoherent' /\ ConfigCoherent' /\ LivePairing' /\ PairingMatchesIdentity'
<1> USE DEF FlashInv, TypeOK
<1>1. /\ at = "save" /\ at' = "pair"
      /\ flashConfig' = [flashConfig EXCEPT !.config = config]
      /\ sector' = flashConfig'
      /\ UNCHANGED <<config, pair, forgotten>>
    BY DEF BootWrite, cfConfigWrite, ConfigImage, Save
<1>2. flashConfig'.config = config /\ flashConfig'.bond = flashConfig.bond
    BY <1>1 DEF Image
<1>3. config # Nothing
    BY NothingAssumption
<1>4. PairingMatchesIdentity'
    BY <1>1, <1>2, <1>3 DEF PairingMatchesIdentity, CopyCoherent, ConfigCoherent, Blank
<1> QED
    BY <1>1, <1>2, <1>3, <1>4 DEF CopyCoherent, ConfigCoherent, LivePairing

LEMMA BootPairInv ==
    ASSUME FlashInv, BootPair
    PROVE  CopyCoherent' /\ ConfigCoherent' /\ LivePairing' /\ PairingMatchesIdentity'
<1> USE DEF FlashInv, TypeOK
<1>1. at = "pair" /\ at' = "on" /\ sector' = sector /\ forgotten' = forgotten
    BY DEF BootPair, cfPairRead
<1>2. flashConfig = sector /\ sector.config # Nothing
    BY <1>1 DEF CopyCoherent, ConfigCoherent
<1>3. flashConfig' = sector
    BY <1>2 DEF BootPair, cfPairRead
<1>4. config'.key = config.key /\ config'.name = config.name
    BY DEF BootPair, cfPairRead, ConfigRecord
<1>5. \/ pair' = pair /\ (LoadFaults \/ sector.bond = Nothing)
      \/ /\ sector.bond # Nothing
         /\ pair' = [state |-> "paired", bond |-> [sector.bond EXCEPT !.key = config.key]]
    BY <1>2 DEF BootPair, cfPairRead
<1>6. sector.bond # Nothing =>
        sector.bond \in PairRecord /\ sector.bond.key = config.key
    BY <1>1 DEF PairingMatchesIdentity, ConfigCoherent, Image, Nothings
<1>7. sector.bond # Nothing => [sector.bond EXCEPT !.key = config.key] = sector.bond
    BY <1>6 DEF PairRecord
<1>8. pair = Unpaired
    BY <1>1 DEF LivePairing
<1>9. LivePairing'
    BY <1>1, <1>4, <1>5, <1>6, <1>7, <1>8 DEF LivePairing, Unpaired
<1> QED
    BY <1>1, <1>2, <1>3, <1>4, <1>9
    DEF CopyCoherent, ConfigCoherent, PairingMatchesIdentity

\* The handshake: the pairing is saved with the configuration that the copy
\* holds, which has the identity of the handshake.
LEMMA HandshakeInv ==
    ASSUME FlashInv, ~SaveFaults, BecomePaired \/ \E p \in Peer : ExchangeKeys(p)
    PROVE  CopyCoherent' /\ ConfigCoherent' /\ LivePairing' /\ PairingMatchesIdentity'
<1> USE DEF FlashInv, TypeOK
<1>1. ASSUME NEW p \in Peer, ExchangeKeys(p)
      PROVE  CopyCoherent' /\ ConfigCoherent' /\ LivePairing' /\ PairingMatchesIdentity'
  <2>1. pair.state = "unpaired" => pair.bond = Nothing
    BY DEF PairState, Unpaired
  <2>2. LivePairing'
    BY <1>1, <2>1 DEF ExchangeKeys, LivePairing
  <2> QED
    BY <1>1, <2>2 DEF ExchangeKeys, CopyCoherent, ConfigCoherent, PairingMatchesIdentity
<1>2. CASE BecomePaired
  <2>1. /\ at = "on" /\ at' = "on" /\ pair.state = "keyed"
        /\ pair' = [pair EXCEPT !.state = "paired"]
        /\ config' = [config EXCEPT !.hasPairs = TRUE]
        /\ flashConfig' = [flashConfig EXCEPT !.bond = pair.bond]
        /\ sector' = flashConfig'
    BY <1>2 DEF BecomePaired, Save
  <2>2. pair.bond \in PairRecord /\ pair'.state = "paired" /\ pair'.bond = pair.bond
    BY <2>1 DEF PairState, Unpaired
  <2>3. config'.key = config.key /\ config'.name = config.name
    BY <2>1 DEF ConfigRecord
  <2>4. sector'.config = sector.config /\ sector'.bond = pair.bond
    BY <2>1 DEF CopyCoherent, Image
  <2> QED
    BY <2>1, <2>2, <2>3, <2>4
    DEF CopyCoherent, ConfigCoherent, LivePairing, PairingMatchesIdentity
<1> QED
    BY <1>1, <1>2

\* The writers that go through cfConfigWrite while the device serves.
LEMMA ConfigWriteInv ==
    ASSUME FlashInv, ~SaveFaults, NEW c \in ConfigRecord, c.key = config.key,
           at = "on", cfConfigWrite(c), config' = c,
           UNCHANGED <<pair, at, forgotten>>
    PROVE  CopyCoherent' /\ ConfigCoherent' /\ LivePairing' /\ PairingMatchesIdentity'
<1> USE DEF FlashInv, TypeOK
<1>1. /\ flashConfig' = [flashConfig EXCEPT !.config = c]
      /\ sector' = flashConfig'
    BY DEF cfConfigWrite, ConfigImage, Save
<1>2. sector'.config = c /\ sector'.bond = sector.bond /\ c # Nothing
    BY <1>1, NothingAssumption DEF CopyCoherent, Image
<1> QED
    BY <1>1, <1>2 DEF CopyCoherent, ConfigCoherent, LivePairing, PairingMatchesIdentity

\* The shell's other commands.
LEMMA ShellInv ==
    ASSUME FlashInv, ~SaveFaults,
           Unpair \/ InitReset \/ ReadConfig \/ \E d \in BOOLEAN : SetDebug(d)
    PROVE  CopyCoherent' /\ ConfigCoherent' /\ LivePairing' /\ PairingMatchesIdentity'
<1> USE DEF FlashInv, TypeOK
<1>1. CASE Unpair
    BY <1>1 DEF Unpair, Unpaired, CopyCoherent, ConfigCoherent, LivePairing,
                PairingMatchesIdentity
<1>2. CASE InitReset
  <2>1. at' = "off" /\ sector' = [Blank EXCEPT !.config = config]
    BY <1>2 DEF InitReset, Save
  <2> QED
    BY <2>1 DEF CopyCoherent, ConfigCoherent, LivePairing, PairingMatchesIdentity, Blank
<1>3. CASE ReadConfig
  <2>1. /\ at = "on" /\ flashConfig' = sector /\ config' = sector.config
        /\ UNCHANGED <<sector, pair, at, forgotten>>
    BY <1>3 DEF ReadConfig, Parsed, ConfigCoherent
  <2> QED
    BY <2>1 DEF CopyCoherent, ConfigCoherent, LivePairing, PairingMatchesIdentity
<1>4. ASSUME NEW d \in BOOLEAN, SetDebug(d)
      PROVE  CopyCoherent' /\ ConfigCoherent' /\ LivePairing' /\ PairingMatchesIdentity'
    BY <1>4 DEF SetDebug, ConfigRecord, CopyCoherent, ConfigCoherent, LivePairing,
                PairingMatchesIdentity
<1> QED
    BY <1>1, <1>2, <1>3, <1>4

LEMMA InvStep ==
    ASSUME ~SaveFaults, ~Rekeys, FlashInv, [Next]_vars PROVE FlashInv'
<1>0. TypeOK'
    BY TypeStep DEF FlashInv
<1>1. CASE BootRead
    BY <1>0, <1>1, BootReadInv DEF FlashInv
<1>2. CASE BootWrite
    BY <1>0, <1>2, BootWriteInv DEF FlashInv
<1>3. CASE BootPair
    BY <1>0, <1>3, BootPairInv DEF FlashInv
<1>4. CASE BecomePaired \/ \E p \in Peer : ExchangeKeys(p)
    BY <1>0, <1>4, HandshakeInv DEF FlashInv
<1>5. ASSUME NEW c \in Settable, ConfigSet(c) PROVE FlashInv'
  <2>1. c \in ConfigRecord /\ c.key = config.key
    BY DEF Settable
  <2> QED
    BY <1>0, <1>5, <2>1, ConfigWriteInv DEF ConfigSet, FlashInv
<1>6. CASE SaveConfig
  <2>1. config \in ConfigRecord
    BY DEF FlashInv, TypeOK
  <2> QED
    BY <1>0, <1>6, <2>1, ConfigWriteInv DEF SaveConfig, FlashInv
<1>7. CASE Unpair \/ InitReset \/ ReadConfig \/ \E d \in BOOLEAN : SetDebug(d)
    BY <1>0, <1>7, ShellInv DEF FlashInv
<1>8. CASE PowerFail
    BY <1>0, <1>8 DEF PowerFail, FlashInv, CopyCoherent, ConfigCoherent, LivePairing,
                PairingMatchesIdentity
<1>9. CASE UNCHANGED vars
    BY <1>0, <1>9 DEF vars, FlashInv, CopyCoherent, ConfigCoherent, LivePairing,
                PairingMatchesIdentity
<1> QED
    BY <1>1, <1>2, <1>3, <1>4, <1>5, <1>6, <1>7, <1>8, <1>9 DEF Next, Boot, Packet, Shell

\* The invariant, for any keys, settings and controllers, with power failures
\* anywhere and loads that fail.
THEOREM FlashInvariance ==
    ASSUME ~SaveFaults, ~Rekeys PROVE Spec => []FlashInv
<1>1. FlashInv /\ [Next]_vars => FlashInv'
    BY InvStep
<1> QED
    BY <1>1, InvInit, PTL DEF Spec

\* The pairing in flash and the live one belong to the identity in flash.
THEOREM PairingBelongs ==
    ASSUME ~SaveFaults, ~Rekeys
    PROVE  Spec => [](PairingMatchesIdentity /\ SecretMatchesIdentity)
<1>1. FlashInv => PairingMatchesIdentity /\ SecretMatchesIdentity
    BY DEF FlashInv, ConfigCoherent, LivePairing, SecretMatchesIdentity
<1> QED
    BY <1>1, FlashInvariance, PTL

-----------------------------------------------------------------------------
(* Where CONFIG_SET may carry keys: the sector, its copy and the working     *)
(* configuration go on agreeing, whatever becomes of the pairing.            *)

\* A write of the working configuration, while the device serves.
LEMMA WrittenCoherent ==
    ASSUME TypeOK, ~SaveFaults, NEW c \in ConfigRecord, cfConfigWrite(c), config' = c, at' = "on"
    PROVE  CopyCoherent' /\ ConfigCoherent'
<1>1. /\ flashConfig' = [flashConfig EXCEPT !.config = c]
      /\ sector' = flashConfig'
    BY DEF cfConfigWrite, ConfigImage, Save
<1>2. sector'.config = c /\ c # Nothing
    BY <1>1, NothingAssumption DEF TypeOK, Image
<1> QED
    BY <1>1, <1>2 DEF CopyCoherent, ConfigCoherent

LEMMA CoherentStep ==
    ASSUME ~SaveFaults, TypeOK, CopyCoherent, ConfigCoherent, [Next]_vars
    PROVE  CopyCoherent' /\ ConfigCoherent'
<1> USE DEF TypeOK
<1>1. CASE BootRead
  <2>1. PICK k \in FreshKeys :
          \/ /\ flashConfig' = sector
             /\ config' = AfterRead(Parsed(sector, Drawn(k)))
          \/ /\ LoadFaults
             /\ flashConfig' = Blank
             /\ config' = AfterRead(Drawn(k))
    BY <1>1 DEF BootRead
  <2>2. at' = "save" /\ sector' = sector
    BY <1>1 DEF BootRead
  <2>3. ASSUME flashConfig' = sector, config' = AfterRead(Parsed(sector, Drawn(k))),
               sector.config # Nothing
        PROVE  config'.key = sector.config.key /\ config'.name = sector.config.name
    <3>1. config' = [sector.config EXCEPT !.debug = FALSE] /\ sector.config \in ConfigRecord
      BY <2>3 DEF AfterRead, Parsed, Image, Nothings
    <3> QED
      BY <3>1 DEF ConfigRecord
  <2> QED
    BY <2>1, <2>2, <2>3 DEF CopyCoherent, ConfigCoherent, Blank
<1>2. CASE BootWrite
  <2>1. /\ flashConfig' = [flashConfig EXCEPT !.config = config]
        /\ sector' = flashConfig' /\ config' = config /\ at' = "pair"
    BY <1>2 DEF BootWrite, cfConfigWrite, ConfigImage, Save
  <2>2. sector'.config = config /\ config # Nothing
    BY <2>1, NothingAssumption DEF Image
  <2> QED
    BY <2>1, <2>2 DEF CopyCoherent, ConfigCoherent
<1>3. CASE BootPair
  <2>1. /\ at = "pair" /\ at' = "on" /\ sector' = sector
        /\ flashConfig' \in {flashConfig, sector}
        /\ config' \in {config, [config EXCEPT !.hasPairs = TRUE]}
    BY <1>3 DEF BootPair, cfPairRead
  <2>2. config'.key = config.key /\ config'.name = config.name
    BY <2>1 DEF ConfigRecord
  <2> QED
    BY <2>1, <2>2 DEF CopyCoherent, ConfigCoherent
<1>4. CASE BecomePaired
  <2>1. /\ at = "on" /\ at' = "on"
        /\ config' = [config EXCEPT !.hasPairs = TRUE]
        /\ flashConfig' = [flashConfig EXCEPT !.bond = pair.bond]
        /\ sector' = flashConfig'
    BY <1>4 DEF BecomePaired, Save
  <2>2. config'.key = config.key /\ config'.name = config.name
    BY <2>1 DEF ConfigRecord
  <2>3. sector'.config = sector.config
    BY <2>1 DEF CopyCoherent, Image
  <2> QED
    BY <2>1, <2>2, <2>3 DEF CopyCoherent, ConfigCoherent
<1>5. ASSUME NEW c \in Settable, ConfigSet(c) PROVE CopyCoherent' /\ ConfigCoherent'
    BY <1>5, SettableType, WrittenCoherent DEF ConfigSet
<1>6. CASE SaveConfig
    BY <1>6, WrittenCoherent DEF SaveConfig
<1>7. CASE InitReset \/ PowerFail
    BY <1>7 DEF InitReset, PowerFail, CopyCoherent, ConfigCoherent
<1>8. CASE ReadConfig
  <2>1. at = "on" /\ at' = "on" /\ flashConfig' = sector /\ sector' = sector
        /\ config' = sector.config /\ sector.config # Nothing
    BY <1>8 DEF ReadConfig, Parsed, ConfigCoherent
  <2> QED
    BY <2>1 DEF CopyCoherent, ConfigCoherent
<1>9. ASSUME NEW d \in BOOLEAN, SetDebug(d) PROVE CopyCoherent' /\ ConfigCoherent'
    BY <1>9 DEF SetDebug, ConfigRecord, CopyCoherent, ConfigCoherent
<1>10. CASE Unpair \/ UNCHANGED vars \/ \E p \in Peer : ExchangeKeys(p)
    BY <1>10 DEF Unpair, ExchangeKeys, vars, CopyCoherent, ConfigCoherent
<1> QED
    BY <1>1, <1>2, <1>3, <1>4, <1>5, <1>6, <1>7, <1>8, <1>9, <1>10
    DEF Next, Boot, Packet, Shell

\* What a controller has set and was acknowledged is on disk, also where it has replaced the
\* keys and where loads fail (cfConfigSetFromStr, then cfConfigWrite).
THEOREM SettingsDurable ==
    ASSUME ~SaveFaults PROVE Spec => []SettingDurable
<1> DEFINE Coherent == TypeOK /\ CopyCoherent /\ ConfigCoherent
<1>1. Init => Coherent
    BY TypeInit DEF Init, CopyCoherent, ConfigCoherent
<1>2. Coherent /\ [Next]_vars => Coherent'
    BY TypeStep, CoherentStep
<1>3. Coherent => SettingDurable
    BY DEF ConfigCoherent, SettingDurable
<1> QED
    BY <1>1, <1>2, <1>3, PTL DEF Spec

-----------------------------------------------------------------------------
(* Where no load fails either *)

\* The cases of a step that can touch the sector.
LEMMA SectorStep ==
    ASSUME ~SaveFaults, ~LoadFaults, ~Rekeys, FlashInv, [Next]_vars
    PROVE  \/ UNCHANGED sector
           \/ /\ sector.config = Nothing /\ sector'.bond = sector.bond
              /\ sector.bond = Nothing /\ sector'.config \in ConfigRecord
           \/ /\ sector.config # Nothing /\ sector'.config \in ConfigRecord
              /\ sector'.config.key = sector.config.key
              /\ \/ sector'.bond = sector.bond
                 \/ sector'.bond = Nothing /\ sector'.config.name = sector.config.name
                 \/ /\ sector'.config = sector.config
                    /\ sector'.bond = pair.bond /\ pair.bond \in PairRecord
                    /\ pair.bond.key = sector.config.key
<1> USE DEF FlashInv, TypeOK
<1>1. CASE BootRead \/ BootPair \/ PowerFail \/ Unpair \/ ReadConfig
    BY <1>1 DEF BootRead, BootPair, cfPairRead, PowerFail, Unpair, ReadConfig
<1>2. CASE \/ \E p \in Peer : ExchangeKeys(p)
           \/ \E d \in BOOLEAN : SetDebug(d)
           \/ UNCHANGED vars
    BY <1>2 DEF ExchangeKeys, SetDebug, vars
<1>3. CASE BootWrite
  <2>1. /\ flashConfig = sector
        /\ sector' = [flashConfig EXCEPT !.config = config]
    BY <1>3 DEF BootWrite, cfConfigWrite, ConfigImage, Save, CopyCoherent
  <2>2. sector'.config = config /\ sector'.bond = sector.bond
    BY <2>1 DEF Image
  <2> QED
    BY <1>3, <2>1, <2>2 DEF BootWrite, ConfigCoherent, PairingMatchesIdentity
<1>4. CASE BecomePaired
  <2>1. /\ flashConfig = sector
        /\ sector' = [flashConfig EXCEPT !.bond = pair.bond]
        /\ sector.config # Nothing
    BY <1>4 DEF BecomePaired, Save, CopyCoherent, ConfigCoherent
  <2>2. sector'.config = sector.config /\ sector'.bond = pair.bond
    BY <2>1 DEF Image
  <2>3. pair.bond \in PairRecord
    BY <1>4 DEF BecomePaired, PairState, Unpaired
  <2>4. pair.bond.key = sector.config.key
    BY <1>4 DEF BecomePaired, ConfigCoherent, LivePairing
  <2>5. sector.config \in ConfigRecord
    BY <2>1 DEF Image, Nothings
  <2> QED
    BY <2>1, <2>2, <2>3, <2>4, <2>5
<1>5. ASSUME NEW c \in ConfigRecord, c.key = config.key, at = "on", cfConfigWrite(c)
      PROVE  /\ sector.config # Nothing /\ sector'.config \in ConfigRecord
             /\ sector'.config.key = sector.config.key
             /\ sector'.bond = sector.bond
  <2>1. /\ flashConfig = sector /\ sector.config # Nothing /\ sector.config.key = config.key
        /\ sector' = [flashConfig EXCEPT !.config = c]
    BY <1>5 DEF cfConfigWrite, ConfigImage, Save, CopyCoherent, ConfigCoherent
  <2> QED
    BY <1>5, <2>1 DEF Image
<1>6. ASSUME NEW c \in Settable, ConfigSet(c)
      PROVE  /\ sector.config # Nothing /\ sector'.config \in ConfigRecord
             /\ sector'.config.key = sector.config.key
             /\ sector'.bond = sector.bond
    BY <1>5, <1>6 DEF ConfigSet, Settable
<1>7. CASE SaveConfig
    BY <1>5, <1>7 DEF SaveConfig
<1>8. CASE InitReset
  <2>1. /\ sector.config # Nothing /\ sector.config.key = config.key
        /\ sector.config.name = config.name
        /\ sector' = [Blank EXCEPT !.config = config]
    BY <1>8 DEF InitReset, Save, ConfigCoherent
  <2>2. sector'.config = config /\ sector'.bond = Nothing
    BY <2>1 DEF Blank
  <2> QED
    BY <2>1, <2>2
<1> QED
    BY <1>1, <1>2, <1>3, <1>4, <1>6, <1>7, <1>8 DEF Next, Boot, Packet, Shell

\* A device that serves has the pairing it saved.
THEOREM PairingComesBack ==
    ASSUME ~SaveFaults, ~LoadFaults, ~Rekeys PROVE Spec => []PairingRestored
<1>1. FlashInv => PairingRestored
  <2> SUFFICES ASSUME FlashInv, at = "on", sector.bond # Nothing, ~forgotten
               PROVE  pair.bond = sector.bond
    BY DEF PairingRestored
  <2> QED
    BY DEF FlashInv, LivePairing
<1> QED
    BY <1>1, FlashInvariance, PTL

\* A write of the working configuration, which may fail.
LEMMA WrittenKnown ==
    ASSUME TypeOK, IdentityKnown, at # "off", NEW c \in ConfigRecord, c.key = config.key,
           cfConfigWrite(c), config' = c
    PROVE  IdentityKnown' /\ KeepsIdentity
<1>1. /\ flashConfig' = [flashConfig EXCEPT !.config = c]
      /\ sector' \in {flashConfig', sector}
    BY DEF cfConfigWrite, ConfigImage, Save
<1>2. flashConfig'.config = c /\ c # Nothing
    BY <1>1, NothingAssumption DEF TypeOK, Image
<1> QED
    BY <1>1, <1>2 DEF IdentityKnown, KeepsIdentity

\* A step that leaves the sector and the identity, with a copy as it was or
\* as the sector.
LEMMA StillKnown ==
    ASSUME IdentityKnown, sector' = sector, flashConfig' \in {flashConfig, sector},
           config'.key = config.key, at # "off"
    PROVE  IdentityKnown' /\ KeepsIdentity
    BY DEF IdentityKnown, KeepsIdentity

LEMMA KnownStep ==
    ASSUME ~LoadFaults, ~Rekeys, TypeOK, IdentityKnown, [Next]_vars
    PROVE  IdentityKnown' /\ [KeepsIdentity]_vars
<1> USE DEF TypeOK
<1>1. CASE BootRead
  <2>1. PICK k \in FreshKeys :
          flashConfig' = sector /\ config' = AfterRead(Parsed(sector, Drawn(k)))
    BY <1>1 DEF BootRead
  <2>2. sector.config # Nothing => config'.key = sector.config.key
    <3>1. sector.config # Nothing => config' = [sector.config EXCEPT !.debug = FALSE]
                                     /\ sector.config \in ConfigRecord
      BY <2>1 DEF AfterRead, Parsed, Image, Nothings
    <3> QED
      BY <3>1 DEF ConfigRecord
  <2> QED
    BY <1>1, <2>1, <2>2 DEF BootRead, IdentityKnown, KeepsIdentity
<1>2. CASE BootWrite \/ SaveConfig
    BY <1>2, WrittenKnown DEF BootWrite, SaveConfig
<1>3. CASE BootPair
  <2>1. /\ at = "pair" /\ sector' = sector
        /\ flashConfig' \in {flashConfig, sector}
        /\ config' \in {config, [config EXCEPT !.hasPairs = TRUE]}
    BY <1>3 DEF BootPair, cfPairRead
  <2>2. config'.key = config.key
    BY <2>1 DEF ConfigRecord
  <2> QED
    BY <2>1, <2>2, StillKnown
<1>4. CASE BecomePaired
  <2>1. /\ at = "on" /\ at' = "on"
        /\ config' = [config EXCEPT !.hasPairs = TRUE]
        /\ flashConfig' = [flashConfig EXCEPT !.bond = pair.bond]
        /\ sector' \in {flashConfig', sector}
    BY <1>4 DEF BecomePaired, Save
  <2>2. config'.key = config.key
    BY <2>1 DEF ConfigRecord
  <2>3. flashConfig'.config = flashConfig.config
    BY <2>1 DEF Image
  <2> QED
    BY <2>1, <2>2, <2>3 DEF IdentityKnown, KeepsIdentity
<1>5. ASSUME NEW c \in Settable, ConfigSet(c) PROVE IdentityKnown' /\ [KeepsIdentity]_vars
  <2>1. c \in ConfigRecord /\ c.key = config.key
    BY DEF Settable
  <2> QED
    BY <1>5, <2>1, WrittenKnown DEF ConfigSet
<1>6. CASE InitReset
  <2>1. /\ at = "on" /\ at' = "off"
        /\ flashConfig' = [Blank EXCEPT !.config = config]
        /\ sector' \in {flashConfig', sector}
    BY <1>6 DEF InitReset, Save
  <2>2. flashConfig'.config = config /\ config # Nothing
    BY <2>1, NothingAssumption DEF Blank
  <2> QED
    BY <2>1, <2>2 DEF IdentityKnown, KeepsIdentity
<1>7. CASE PowerFail
    BY <1>7 DEF PowerFail, IdentityKnown, KeepsIdentity
<1>8. CASE ReadConfig
  <2>1. at = "on" /\ sector' = sector /\ flashConfig' = sector /\ config' = Parsed(sector, config)
    BY <1>8 DEF ReadConfig
  <2>2. config'.key = config.key
    BY <2>1 DEF Parsed, IdentityKnown
  <2> QED
    BY <2>1, <2>2, StillKnown
<1>9. ASSUME NEW d \in BOOLEAN, SetDebug(d) PROVE IdentityKnown' /\ [KeepsIdentity]_vars
    BY <1>9, StillKnown DEF SetDebug, ConfigRecord
<1>10. CASE Unpair \/ \E p \in Peer : ExchangeKeys(p)
    BY <1>10, StillKnown DEF Unpair, ExchangeKeys
<1>11. CASE UNCHANGED vars
    BY <1>11 DEF vars, IdentityKnown
<1> QED
    BY <1>1, <1>2, <1>3, <1>4, <1>5, <1>6, <1>7, <1>8, <1>9, <1>10, <1>11
    DEF Next, Boot, Packet, Shell

\* The identity in flash stands, through every power failure and command, although nobody looks
\* whether a save succeeded (user_init_stage2, cfConfigWrite).
THEOREM IdentityStays ==
    ASSUME ~LoadFaults, ~Rekeys PROVE Spec => IdentityStands
<1>1. Init => TypeOK /\ IdentityKnown
    BY TypeInit DEF Init, IdentityKnown
<1>2. TypeOK /\ IdentityKnown /\ [Next]_vars
        => (TypeOK /\ IdentityKnown)' /\ [KeepsIdentity]_vars
    BY TypeStep, KnownStep
<1> QED
    BY <1>1, <1>2, PTL DEF Spec, IdentityStands

\* Writing the configuration keeps the pairing that is in the copy.
LEMMA WriteKeepsBond ==
    ASSUME TypeOK, ~SaveFaults, flashConfig = sector, NEW c, cfConfigWrite(c)
    PROVE  sector'.bond = sector.bond
    BY DEF TypeOK, Image, cfConfigWrite, ConfigImage, Save

LEMMA BondStep ==
    ASSUME ~SaveFaults, ~LoadFaults, TypeOK, CopyCoherent, [Next]_vars
    PROVE  sector'.bond = sector.bond \/ InitReset \/ BecomePaired
<1>1. CASE BootWrite
    BY <1>1, WriteKeepsBond DEF BootWrite, CopyCoherent
<1>2. ASSUME NEW c \in Settable, ConfigSet(c) PROVE sector'.bond = sector.bond
    BY <1>2, WriteKeepsBond DEF ConfigSet, CopyCoherent
<1>3. CASE SaveConfig
    BY <1>3, WriteKeepsBond DEF SaveConfig, CopyCoherent
<1>4. CASE \/ BootRead \/ BootPair \/ PowerFail \/ Unpair \/ ReadConfig
           \/ \E p \in Peer : ExchangeKeys(p)
           \/ \E d \in BOOLEAN : SetDebug(d)
           \/ UNCHANGED vars
    BY <1>4 DEF BootRead, BootPair, cfPairRead, PowerFail, Unpair, ReadConfig, ExchangeKeys,
                SetDebug, vars
<1> QED
    BY <1>1, <1>2, <1>3, <1>4 DEF Next, Boot, Packet, Shell

\* A saved pairing is removed by init alone and replaced by a new pairing alone, also where
\* CONFIG_SET replaces the keys (cfConfigWrite, cfPairWrite).
THEOREM SavedPairingStays ==
    ASSUME ~SaveFaults, ~LoadFaults PROVE Spec => SavedPairingStands
<1> DEFINE Coherent == TypeOK /\ CopyCoherent /\ ConfigCoherent
<1>1. Init => Coherent
    BY TypeInit DEF Init, CopyCoherent, ConfigCoherent
<1>2. Coherent /\ [Next]_vars =>
        /\ Coherent'
        /\ [sector.bond # Nothing /\ sector'.bond # sector.bond => InitReset \/ BecomePaired]_vars
    BY TypeStep, CoherentStep, BondStep
<1> QED
    BY <1>1, <1>2, PTL DEF Spec, SavedPairingStands

\* A step of the device is a step of two durable records, or nothing.
LEMMA MemoryStep ==
    ASSUME ~SaveFaults, ~LoadFaults, ~Rekeys, FlashInv, [Next]_vars
    PROVE  [Memory!Next]_<<IF sector.config = Nothing THEN Nothing ELSE sector.config.key,
                          IF sector.config = Nothing THEN Nothing ELSE sector.config.name,
                          sector.bond>>
<1> USE DEF FlashInv, TypeOK
<1>1. CASE UNCHANGED sector
    BY <1>1
<1>2. CASE /\ sector.config = Nothing /\ sector'.bond = sector.bond
           /\ sector'.config \in ConfigRecord
  <2>1. Memory!Provision(sector'.config.key, sector'.config.name)
    BY <1>2, NothingAssumption DEF Memory!Provision, ConfigRecord
  <2> QED
    BY <1>2, <2>1 DEF Memory!Next, ConfigRecord
<1>3. CASE /\ sector.config # Nothing /\ sector'.config \in ConfigRecord
           /\ sector'.config.key = sector.config.key
  <2>1. CASE sector'.bond = sector.bond
    <3>1. sector.config \in ConfigRecord /\ sector.config.key # Nothing
        BY <1>3, NothingAssumption DEF Image, Nothings, ConfigRecord
    <3>2. sector'.config # Nothing
        BY <1>3, NothingAssumption
    <3>3. Memory!SetName(sector'.config.name)
        BY <1>3, <2>1, <3>1, <3>2 DEF Memory!SetName
    <3> QED
        BY <1>3, <3>3 DEF Memory!Next, ConfigRecord
  <2>2. CASE sector'.bond = Nothing /\ sector'.config.name = sector.config.name
    <3>1. Memory!Forget
        BY <1>3, <2>2, NothingAssumption DEF Memory!Forget
    <3> QED
        BY <3>1 DEF Memory!Next
  <2>3. CASE /\ sector'.config = sector.config
             /\ sector'.bond = pair.bond /\ pair.bond \in PairRecord
             /\ pair.bond.key = sector.config.key
    <3>1. sector.config.key # Nothing
        BY <1>3, NothingAssumption DEF Image, Nothings, ConfigRecord
    <3>2. sector'.bond = [peer |-> pair.bond.peer, key |-> sector.config.key]
        BY <2>3 DEF PairRecord
    <3>3. Memory!Bond(pair.bond.peer)
        BY <1>3, <2>3, <3>1, <3>2 DEF Memory!Bond
    <3> QED
        BY <2>3, <3>3 DEF Memory!Next, PairRecord
  <2> QED
    BY <1>3, <2>1, <2>2, <2>3, SectorStep
<1> QED
    BY <1>1, <1>2, <1>3, SectorStep

LEMMA MemoryInit == Init => Memory!Init
    BY DEF Init, Blank, Memory!Init

\* Through boot, shell, handshakes and power failures, the sector is two
\* records that outlive them.
THEOREM FlashRefinement ==
    ASSUME ~SaveFaults, ~LoadFaults, ~Rekeys PROVE Spec => ImplementsDeviceMemory
<1>1. FlashInv /\ [Next]_vars =>
        [Memory!Next]_<<IF sector.config = Nothing THEN Nothing ELSE sector.config.key,
                        IF sector.config = Nothing THEN Nothing ELSE sector.config.name,
                        sector.bond>>
    BY MemoryStep
<1> QED
    BY <1>1, MemoryInit, FlashInvariance, PTL
    DEF Spec, ImplementsDeviceMemory, Memory!Spec

=============================================================================
