---------------------------- MODULE FlashConfig -----------------------------
(***************************************************************************)
(* The ESP8266 device keeps its configuration and its pairing in one flash *)
(* sector.  The sector is always read and written whole, through a copy in *)
(* RAM (flashConfig): the configuration is encoded at its start, the       *)
(* pairing in its second half.  Boot reads the configuration, writes it    *)
(* back, and then reads the pairing; packets and shell commands change     *)
(* either part later.  Power may fail at any moment.                       *)
(***************************************************************************)

CONSTANTS
    Key,            \* identities (key pairs) a device may draw
    Name,           \* values of a setting, for all the fields of chatFabricConfig
    Default,        \* the one cfConfigInit gives it
    Peer,           \* controllers
    Nothing,        \* no record at this place of the sector
    LoadFaults,     \* system_param_load may return FALSE
    SaveFaults,     \* system_param_save_with_protect may return FALSE
    Rekeys          \* CONFIG_SET may carry the key tags

ASSUME FlashAssumption ==
    /\ Default \in Name
    /\ LoadFaults \in BOOLEAN
    /\ SaveFaults \in BOOLEAN
    /\ Rekeys \in BOOLEAN

VARIABLES
    sector,         \* the flash sector
    flashConfig,    \* its copy in RAM
    config,         \* chatFabricConfig
    pair,           \* pair[0], the live pairing
    at,             \* where the program is: a step of boot, or serving
    forgotten       \* unpair was the last thing done to a pairing (history)

vars == <<sector, flashConfig, config, pair, at, forgotten>>

-----------------------------------------------------------------------------
(* State *)

\* What cfConfigWrite encodes, of the fields the model tells apart.
ConfigRecord == [key : Key, name : Name, debug : BOOLEAN, hasPairs : BOOLEAN]

\* What cfPairWrite encodes.  key is not part of the record: it is the
\* identity under which the peer knows the device.
PairRecord == [peer : Peer, key : Key]

Nothings == {Nothing}

\* An erased record is no record.
ASSUME NothingAssumption ==
    Nothing \notin Key \cup ConfigRecord \cup PairRecord

Image == [config : ConfigRecord \cup Nothings, bond : PairRecord \cup Nothings]

Blank == [config |-> Nothing, bond |-> Nothing]

Unpaired == [state |-> "unpaired", bond |-> Nothing]

\* A pairing in memory: none, past the exchange of keys, or complete.
\* bond.key is the key that its shared secret was computed with.
PairState ==
    {Unpaired} \cup [state : {"keyed", "paired"}, bond : PairRecord]

TypeOK ==
    /\ sector \in Image
    /\ flashConfig \in Image
    /\ config \in ConfigRecord
    /\ pair \in PairState
    /\ at \in {"off", "save", "pair", "on"}
    /\ forgotten \in BOOLEAN

Init ==
    /\ sector = Blank
    /\ flashConfig = Blank
    /\ config \in [key : Key, name : {Default}, debug : {FALSE}, hasPairs : {FALSE}]
    /\ pair = Unpaired
    /\ at = "off"
    /\ forgotten = FALSE

-----------------------------------------------------------------------------
(* The sector and its copy *)

\* system_param_save_with_protect writes the new image or leaves the old one.
Save(image) ==
    \/ sector' = image
    \/ SaveFaults /\ UNCHANGED sector

\* Mutated: only the configuration's half of the copy survives the write.
ForgetfulConfigImage(c) == [config |-> c, bond |-> Nothing]

\* cfConfigWrite: the configuration over the start of the copy, the copy to
\* the sector.
ConfigImage(c) == [flashConfig EXCEPT !.config = c]

cfConfigWrite(c) ==
    /\ flashConfig' = ConfigImage(c)
    /\ Save(ConfigImage(c))

\* cfConfigRead from an image: without a header the configuration stays as it
\* is.
Parsed(image, c) == IF image.config = Nothing THEN c ELSE image.config

-----------------------------------------------------------------------------
(* Boot *)

\* An identity no record of the sector was made under.
FreshKeys ==
    {k \in Key : /\ sector.config # Nothing => sector.config.key # k
                 /\ sector.bond # Nothing => sector.bond.key # k}

\* cfConfigInit: a key pair is drawn, every field has its default.
Drawn(k) == [key |-> k, name |-> Default, debug |-> TRUE, hasPairs |-> FALSE]

\* espCfConfigInit, after it has read the configuration, turns debug off.
\* The setting a controller has made stays.
AfterRead(c) == [c EXCEPT !.debug = FALSE]

\* Mutated: the configuration drawn at boot wins over the one in flash.
BootAmnesia ==
    /\ at = "off"
    /\ \E k \in FreshKeys :
        /\ flashConfig' = sector
        /\ config' = AfterRead(Drawn(k))
    /\ at' = "save"
    /\ pair' = Unpaired
    /\ UNCHANGED <<sector, forgotten>>

\* Mutated: a load that fails is noticed after the copy has been filled.
BootReadStale ==
    /\ at = "off"
    /\ \E k \in FreshKeys :
        /\ flashConfig' = sector
        /\ \/ config' = AfterRead(Parsed(sector, Drawn(k)))
           \/ LoadFaults /\ config' = AfterRead(Drawn(k))
    /\ at' = "save"
    /\ pair' = Unpaired
    /\ UNCHANGED <<sector, forgotten>>

\* chatFabricInit clears everything; espCfConfigInit draws an identity, and
\* reads the configuration over it if there is one.
BootRead ==
    /\ at = "off"
    /\ \E k \in FreshKeys :
        \/ /\ flashConfig' = sector
           /\ config' = AfterRead(Parsed(sector, Drawn(k)))
        \/ /\ LoadFaults
           /\ flashConfig' = Blank
           /\ config' = AfterRead(Drawn(k))
    /\ at' = "save"
    /\ pair' = Unpaired
    /\ UNCHANGED <<sector, forgotten>>

\* user_init_stage2 writes the configuration back at once.
BootWrite ==
    /\ at = "save"
    /\ cfConfigWrite(config)
    /\ at' = "pair"
    /\ UNCHANGED <<config, pair, forgotten>>

\* cfPairRead: the sector is loaded again; a record makes the device PAIRED,
\* with a shared secret computed from the key in config and the peer's.
cfPairRead ==
    /\ flashConfig' = sector
    /\ IF sector.config = Nothing \/ sector.bond = Nothing
       THEN UNCHANGED <<config, pair>>
       ELSE /\ pair' = [state |-> "paired",
                        bond |-> [sector.bond EXCEPT !.key = config.key]]
            /\ config' = [config EXCEPT !.hasPairs = TRUE]

\* user_init_stage2: cfPairInit, and cfPairRead if the copy has a pairing.
BootPair ==
    /\ at = "pair"
    /\ \/ /\ flashConfig.bond = Nothing
          /\ UNCHANGED <<flashConfig, config, pair>>
       \/ /\ flashConfig.bond # Nothing
          /\ cfPairRead
       \/ /\ flashConfig.bond # Nothing
          /\ LoadFaults
          /\ UNCHANGED <<flashConfig, config, pair>>
    /\ at' = "on"
    /\ UNCHANGED <<sector, forgotten>>

\* Power fails, or system_restart.
PowerFail ==
    /\ at # "off"
    /\ at' = "off"
    /\ UNCHANGED <<sector, flashConfig, config, pair, forgotten>>

-----------------------------------------------------------------------------
(* Packets *)

\* stateMachine up to PUBLICKEY_SEND: the keys are exchanged and the shared
\* secret computed.  A device in any later state refuses.
ExchangeKeys(p) ==
    /\ at = "on"
    /\ pair.state = "unpaired"
    /\ pair' = [state |-> "keyed", bond |-> [peer |-> p, key |-> config.key]]
    /\ UNCHANGED <<sector, flashConfig, config, at, forgotten>>

\* Mutated: the pairing is saved from a cleared copy.
BecomePairedClean ==
    /\ at = "on"
    /\ pair.state = "keyed"
    /\ pair' = [pair EXCEPT !.state = "paired"]
    /\ config' = [config EXCEPT !.hasPairs = TRUE]
    /\ flashConfig' = [config |-> Nothing, bond |-> pair.bond]
    /\ Save(flashConfig')
    /\ forgotten' = FALSE
    /\ UNCHANGED at

\* stateMachine at NONCE_SEND: the device is PAIRED, and cfPairWrite saves the
\* whole copy, with the configuration that was last written to it.
BecomePaired ==
    /\ at = "on"
    /\ pair.state = "keyed"
    /\ pair' = [pair EXCEPT !.state = "paired"]
    /\ config' = [config EXCEPT !.hasPairs = TRUE]
    /\ flashConfig' = [flashConfig EXCEPT !.bond = pair.bond]
    /\ Save(flashConfig')
    /\ forgotten' = FALSE
    /\ UNCHANGED at

\* Mutated: the setting is acknowledged, and left for saveconfig to save.
ConfigSetLazy(c) ==
    /\ at = "on"
    /\ config' = c
    /\ UNCHANGED <<sector, flashConfig, pair, at, forgotten>>

\* CONFIG_SET: parsed over config, then cfConfigWrite.
ConfigSet(c) ==
    /\ at = "on"
    /\ config' = c
    /\ cfConfigWrite(c)
    /\ UNCHANGED <<pair, at, forgotten>>

\* The configurations a CONFIG_SET can lead to: each tag is optional, and
\* AP password and debug apart, which boot overwrites, every field is kept.
Settable ==
    {c \in ConfigRecord :
        /\ c.hasPairs = config.hasPairs
        /\ ~Rekeys => c.key = config.key}

-----------------------------------------------------------------------------
(* Shell commands that touch the sector or what is kept in it *)

\* unpair: cfPairInit on the live pairing, and nothing else.
Unpair ==
    /\ at = "on"
    /\ pair' = Unpaired
    /\ forgotten' = TRUE
    /\ UNCHANGED <<sector, flashConfig, config, at>>

\* init: clears the copy, writes the current configuration into it, restarts.
InitReset ==
    /\ at = "on"
    /\ flashConfig' = [Blank EXCEPT !.config = config]
    /\ Save(flashConfig')
    /\ at' = "off"
    /\ UNCHANGED <<config, pair, forgotten>>

SaveConfig ==
    /\ at = "on"
    /\ cfConfigWrite(config)
    /\ UNCHANGED <<config, pair, at, forgotten>>

\* readconfig: the whole copy is loaded again, the pairing's half with it.
\* A load that fails does nothing.
ReadConfig ==
    /\ at = "on"
    /\ flashConfig' = sector
    /\ config' = Parsed(sector, config)
    /\ UNCHANGED <<sector, pair, at, forgotten>>

\* debugon and debugoff.
SetDebug(d) ==
    /\ at = "on"
    /\ config' = [config EXCEPT !.debug = d]
    /\ UNCHANGED <<sector, flashConfig, pair, at, forgotten>>

-----------------------------------------------------------------------------

Boot == BootRead \/ BootWrite \/ BootPair

Packet ==
    \/ \E p \in Peer : ExchangeKeys(p)
    \/ BecomePaired
    \/ \E c \in Settable : ConfigSet(c)

Shell ==
    \/ Unpair
    \/ InitReset
    \/ SaveConfig
    \/ ReadConfig
    \/ \E d \in BOOLEAN : SetDebug(d)

Next == PowerFail \/ Boot \/ Packet \/ Shell

Spec == Init /\ [][Next]_vars

-----------------------------------------------------------------------------
(* Properties *)

\* The pairing in the sector was made under the identity beside it: after any
\* power failure, cfPairRead computes the secret that the controller has.
\* (cfPairWrite at cfPairConfig.c:131 writes the configuration of an earlier
\* cfConfigWrite together with the pairing of now.)
PairingMatchesIdentity ==
    sector.bond # Nothing =>
        /\ sector.config # Nothing
        /\ sector.bond.key = sector.config.key

\* The live pairing's secret belongs to the identity that would be restored
\* with it, handshakes under way included (readconfig at shell.c:290 replaces
\* the keys under a live pairing).
SecretMatchesIdentity ==
    at = "on" /\ pair.state # "unpaired" => pair.bond.key = sector.config.key

\* Once a device has an identity on disk it keeps it, through init, readconfig,
\* pairing, and power failures anywhere in boot, which draws a new one first.
KeepsIdentity ==
    sector.config # Nothing =>
        /\ sector'.config # Nothing
        /\ sector'.config.key = sector.config.key

IdentityStands == [][KeepsIdentity]_vars

\* A saved pairing is removed by init alone and replaced by a new pairing
\* alone, not by the other writers of the same sector (user_main.c:591,
\* CONFIG_SET, saveconfig).
SavedPairingStands ==
    [][sector.bond # Nothing /\ sector'.bond # sector.bond =>
        InitReset \/ BecomePaired]_vars

\* While the device serves, the setting it works with is the one that a
\* restart would restore: what CONFIG_SET acknowledged is on disk, and no
\* other writer of the sector brings an older one back.
SettingDurable ==
    at = "on" => sector.config # Nothing /\ sector.config.name = config.name

\* A device that serves has the pairing of its sector, unless unpair has been
\* given or a handshake is under way.
PairingRestored ==
    at = "on" /\ sector.bond # Nothing /\ ~forgotten => pair.bond = sector.bond

\* Why the properties above hold where no write fails and CONFIG_SET carries
\* no keys: the copy, the sector and the working configuration agree
\* from boot's write on, and before it the copy is the sector's or blank.
CopyCoherent ==
    /\ at \in {"pair", "on"} => flashConfig = sector
    /\ at = "save" => flashConfig = sector \/ (LoadFaults /\ flashConfig = Blank)

ConfigCoherent ==
    /\ at \in {"pair", "on"} =>
        /\ sector.config # Nothing
        /\ sector.config.key = config.key
        /\ sector.config.name = config.name
    /\ at = "save" /\ flashConfig.config # Nothing =>
        /\ flashConfig.config.key = config.key
        /\ flashConfig.config.name = config.name

LivePairing ==
    /\ at \in {"save", "pair"} => pair = Unpaired
    /\ at = "on" /\ pair.state # "unpaired" => pair.bond.key = config.key
    /\ at = "on" /\ ~LoadFaults /\ ~forgotten =>
        sector.bond = IF pair.state = "keyed" THEN Nothing ELSE pair.bond

\* The inductive invariant: after any power failure, and after a failed load,
\* what boot and the shell put together belongs together.
FlashInv ==
    TypeOK /\ CopyCoherent /\ ConfigCoherent /\ LivePairing /\ PairingMatchesIdentity

\* Inductive where saves may fail and no load does: the identity the device
\* works with is that of the copy and of the sector, as far as they have one,
\* and what the sector has the copy has.
IdentityKnown ==
    at # "off" =>
        /\ sector.config # Nothing =>
              flashConfig.config # Nothing /\ sector.config.key = config.key
        /\ flashConfig.config # Nothing => flashConfig.config.key = config.key

\* The sector implements two records that outlive a restart.
Memory == INSTANCE DeviceMemory WITH
    identity <- IF sector.config = Nothing THEN Nothing ELSE sector.config.key,
    name <- IF sector.config = Nothing THEN Nothing ELSE sector.config.name,
    bond <- sector.bond

ImplementsDeviceMemory == Memory!Spec

\* What the shell's help says of unpair, "clear all chatFabric paining info"
\* (shell.c:207): a device told to unpair is not paired again without a
\* handshake.
UnpairForgets == forgotten => pair.state # "paired"

=============================================================================
