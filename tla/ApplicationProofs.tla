------------------------- MODULE ApplicationProofs -------------------------
(***************************************************************************)
(* What the proofs about the memory, the network and the controls say of   *)
(* the application of the ESP8266 that MCApplication puts together.  Each  *)
(* part steps as its module does, and the proofs of that module, taken as  *)
(* instances of their own, are about the same steps.                       *)
(***************************************************************************)
EXTENDS MCApplication, FlashProofs

\* The modules with the proofs, with the constants of MCApplication's instances.
Loading == INSTANCE FlashProofs WITH
    LoadFaults <- TRUE, sector <- flash, flashConfig <- copy, config <- memory,
    pair <- bond, at <- boot, forgotten <- unpaired
Saving == INSTANCE FlashProofs WITH
    SaveFaults <- TRUE, sector <- flash, flashConfig <- copy, config <- memory,
    pair <- bond, at <- boot, forgotten <- unpaired
Keying == INSTANCE FlashProofs WITH
    Rekeys <- TRUE, sector <- flash, flashConfig <- copy, config <- memory,
    pair <- bond, at <- boot, forgotten <- unpaired
Wireless == INSTANCE StationProofs WITH config <- netConfig
Patiently == INSTANCE OutletsProofs WITH
    Board <- "ESP8266",
    Patient <- TRUE, Repeats <- FALSE, Reboots <- FALSE, Shell <- FALSE, Noise <- TRUE
OnHost == INSTANCE OutletsProofs WITH
    Board <- "POSIX", MaxRuns <- MaxRuns - 1,
    Patient <- TRUE, Repeats <- FALSE, Reboots <- FALSE, Shell <- FALSE, Noise <- TRUE
Rudely == INSTANCE OutletsProofs WITH
    Board <- "ESP8266", Values <- Values \ {0}, MaxRuns <- MaxRuns - 1,
    Patient <- FALSE, Repeats <- TRUE, Reboots <- TRUE, Shell <- TRUE, Noise <- FALSE

-----------------------------------------------------------------------------
(* The instances of the proofs are those of the model.                      *)

LEMMA SameNetwork ==
    /\ Network!Init <=> Wireless!Init
    /\ Network!Next <=> Wireless!Next
    /\ Network!StationAssumption <=> Wireless!StationAssumption
    /\ Network!StationInv <=> Wireless!StationInv
    /\ Network!TypeOK <=> Wireless!TypeOK
    /\ Network!AnnouncesItself <=> Wireless!AnnouncesItself
    /\ Network!AskedIsAwaited <=> Wireless!AskedIsAwaited
    /\ Network!ClockNeverSlow <=> Wireless!ClockNeverSlow
  BY DEF Network!Init, Network!ModeOf, Network!DhcpClient, Network!Next, Network!Associate,
         Network!Happen, Network!Lease, Network!Dissociate, Network!Join, Network!Answer,
         Network!IsStation, Network!Announced, Network!Heard, Network!Connected,
         Network!Disconnected, Network!espCfWiFi_ntp20Init, Network!GotIp,
         Network!StationJoined, Network!TryAgain, Network!espCfWiFi_ntp20Check,
         Network!statusLoop, Network!NextTick, Network!Advances, Network!clock_loop,
         Network!Handle, Network!clockVars, Network!radioVars, Network!timeVars,
         Network!StationAssumption, Network!StationInv, Network!TypeOK, Network!Event,
         Network!Ip, Network!NewsComes, Network!ToldOf, Network!UpToDate,
         Network!AskedIsAwaited, Network!ClockInStep, Network!AnnouncesItself,
         Network!ClockNeverSlow, Wireless!Init, Wireless!ModeOf, Wireless!DhcpClient,
         Wireless!Next, Wireless!Associate, Wireless!Happen, Wireless!Lease,
         Wireless!Dissociate, Wireless!Join, Wireless!Answer, Wireless!IsStation,
         Wireless!Announced, Wireless!Heard, Wireless!Connected, Wireless!Disconnected,
         Wireless!espCfWiFi_ntp20Init, Wireless!GotIp, Wireless!StationJoined,
         Wireless!TryAgain, Wireless!espCfWiFi_ntp20Check, Wireless!statusLoop,
         Wireless!NextTick, Wireless!Advances, Wireless!clock_loop, Wireless!Handle,
         Wireless!clockVars, Wireless!radioVars, Wireless!timeVars, Wireless!StationAssumption,
         Wireless!StationInv, Wireless!TypeOK, Wireless!Event, Wireless!Ip, Wireless!NewsComes,
         Wireless!ToldOf, Wireless!UpToDate, Wireless!AskedIsAwaited, Wireless!ClockInStep,
         Wireless!AnnouncesItself, Wireless!ClockNeverSlow

LEMMA SameOrderly ==
    /\ Orderly!Init <=> Patiently!Init
    /\ Orderly!Next <=> Patiently!Next
    /\ Orderly!OutletsAssumption <=> Patiently!OutletsAssumption
    /\ Orderly!OutletsInv <=> Patiently!OutletsInv
    /\ Orderly!PinsFollow <=> Patiently!PinsFollow
    /\ Orderly!GaugesAreMeasured <=> Patiently!GaugesAreMeasured
    /\ Orderly!ShownIsTrue <=> Patiently!ShownIsTrue
    /\ Orderly!PoolSuffices <=> Patiently!PoolSuffices
  BY DEF Orderly!Init, Orderly!Esp, Orderly!Idle, Orderly!NoView, Orderly!Controlers,
         Orderly!Controls, Orderly!BootPins, Orderly!Next, Orderly!OfType, Orderly!Shown,
         Orderly!Commands, Orderly!GPIO_OUTPUT_SET, Orderly!Request, Orderly!StartRun,
         Orderly!Waits, Orderly!GetList, Orderly!GetAnswer, Orderly!GiveUp, Orderly!Free,
         Orderly!FirstFree, Orderly!Receive, Orderly!StateMachine, Orderly!NoCommand,
         Orderly!Read, Orderly!Answer, Orderly!Settable, Orderly!Drive, Orderly!Handled,
         Orderly!CallBack, Orderly!Delete, Orderly!Serve, Orderly!Reboot, Orderly!ShellGpio,
         Orderly!Lose, Orderly!Stray, Orderly!deviceVars, Orderly!controllerVars,
         Orderly!Cardinality, Orderly!OutletsAssumption, Orderly!OutletsInv, Orderly!TypeOK,
         Orderly!Command, Orderly!View, Orderly!RequestType, Orderly!ServingType,
         Orderly!AnswerType, Orderly!PinsFollow, Orderly!GaugesAreMeasured, Orderly!ShownIsTrue,
         Orderly!PoolSuffices, Orderly!PoolClean, Orderly!Live, Orderly!Asked,
         Orderly!OneUnderWay, Orderly!ViewInStep, Patiently!Init, Patiently!Esp, Patiently!Idle,
         Patiently!NoView, Patiently!Controlers, Patiently!Controls, Patiently!BootPins,
         Patiently!Next, Patiently!OfType, Patiently!Shown, Patiently!Commands,
         Patiently!GPIO_OUTPUT_SET, Patiently!Request, Patiently!StartRun, Patiently!Waits,
         Patiently!GetList, Patiently!GetAnswer, Patiently!GiveUp, Patiently!Free,
         Patiently!FirstFree, Patiently!Receive, Patiently!StateMachine, Patiently!NoCommand,
         Patiently!Read, Patiently!Answer, Patiently!Settable, Patiently!Drive,
         Patiently!Handled, Patiently!CallBack, Patiently!Delete, Patiently!Serve,
         Patiently!Reboot, Patiently!ShellGpio, Patiently!Lose, Patiently!Stray,
         Patiently!deviceVars, Patiently!controllerVars, Patiently!Cardinality,
         Patiently!OutletsAssumption, Patiently!OutletsInv, Patiently!TypeOK, Patiently!Command,
         Patiently!View, Patiently!RequestType, Patiently!ServingType, Patiently!AnswerType,
         Patiently!PinsFollow, Patiently!GaugesAreMeasured, Patiently!ShownIsTrue,
         Patiently!PoolSuffices, Patiently!PoolClean, Patiently!Live, Patiently!Asked,
         Patiently!OneUnderWay, Patiently!ViewInStep

LEMMA SameHost ==
    /\ Host!Init <=> OnHost!Init
    /\ Host!Next <=> OnHost!Next
    /\ Host!OutletsAssumption <=> OnHost!OutletsAssumption
    /\ Host!OutletsInv <=> OnHost!OutletsInv
    /\ Host!PinsFollow <=> OnHost!PinsFollow
    /\ Host!GaugesAreMeasured <=> OnHost!GaugesAreMeasured
    /\ Host!ShownIsTrue <=> OnHost!ShownIsTrue
    /\ Host!PoolSuffices <=> OnHost!PoolSuffices
  BY DEF Host!Init, Host!Esp, Host!Idle, Host!NoView, Host!Controlers, Host!Controls,
         Host!BootPins, Host!Next, Host!OfType, Host!Shown, Host!Commands, Host!GPIO_OUTPUT_SET,
         Host!Request, Host!StartRun, Host!Waits, Host!GetList, Host!GetAnswer, Host!GiveUp,
         Host!Free, Host!FirstFree, Host!Receive, Host!StateMachine, Host!NoCommand, Host!Read,
         Host!Answer, Host!Settable, Host!Drive, Host!Handled, Host!CallBack, Host!Delete,
         Host!Serve, Host!Reboot, Host!ShellGpio, Host!Lose, Host!Stray, Host!deviceVars,
         Host!controllerVars, Host!Cardinality, Host!OutletsAssumption, Host!OutletsInv,
         Host!TypeOK, Host!Command, Host!View, Host!RequestType, Host!ServingType,
         Host!AnswerType, Host!PinsFollow, Host!GaugesAreMeasured, Host!ShownIsTrue,
         Host!PoolSuffices, Host!PoolClean, Host!Live, Host!Asked, Host!OneUnderWay,
         Host!ViewInStep, OnHost!Init, OnHost!Esp, OnHost!Idle, OnHost!NoView,
         OnHost!Controlers, OnHost!Controls, OnHost!BootPins, OnHost!Next, OnHost!OfType,
         OnHost!Shown, OnHost!Commands, OnHost!GPIO_OUTPUT_SET, OnHost!Request, OnHost!StartRun,
         OnHost!Waits, OnHost!GetList, OnHost!GetAnswer, OnHost!GiveUp, OnHost!Free,
         OnHost!FirstFree, OnHost!Receive, OnHost!StateMachine, OnHost!NoCommand, OnHost!Read,
         OnHost!Answer, OnHost!Settable, OnHost!Drive, OnHost!Handled, OnHost!CallBack,
         OnHost!Delete, OnHost!Serve, OnHost!Reboot, OnHost!ShellGpio, OnHost!Lose,
         OnHost!Stray, OnHost!deviceVars, OnHost!controllerVars, OnHost!Cardinality,
         OnHost!OutletsAssumption, OnHost!OutletsInv, OnHost!TypeOK, OnHost!Command,
         OnHost!View, OnHost!RequestType, OnHost!ServingType, OnHost!AnswerType,
         OnHost!PinsFollow, OnHost!GaugesAreMeasured, OnHost!ShownIsTrue, OnHost!PoolSuffices,
         OnHost!PoolClean, OnHost!Live, OnHost!Asked, OnHost!OneUnderWay, OnHost!ViewInStep

LEMMA SameDisturbed ==
    /\ Disturbed!Init <=> Rudely!Init
    /\ Disturbed!Next <=> Rudely!Next
    /\ Disturbed!OutletsAssumption <=> Rudely!OutletsAssumption
    /\ Disturbed!OutletsInv <=> Rudely!OutletsInv
    /\ Disturbed!PinsFollow <=> Rudely!PinsFollow
    /\ Disturbed!GaugesAreMeasured <=> Rudely!GaugesAreMeasured
    /\ Disturbed!ShownIsTrue <=> Rudely!ShownIsTrue
    /\ Disturbed!PoolSuffices <=> Rudely!PoolSuffices
  BY DEF Disturbed!Init, Disturbed!Esp, Disturbed!Idle, Disturbed!NoView, Disturbed!Controlers,
         Disturbed!Controls, Disturbed!BootPins, Disturbed!Next, Disturbed!OfType,
         Disturbed!Shown, Disturbed!Commands, Disturbed!GPIO_OUTPUT_SET, Disturbed!Request,
         Disturbed!StartRun, Disturbed!Waits, Disturbed!GetList, Disturbed!GetAnswer,
         Disturbed!GiveUp, Disturbed!Free, Disturbed!FirstFree, Disturbed!Receive,
         Disturbed!StateMachine, Disturbed!NoCommand, Disturbed!Read, Disturbed!Answer,
         Disturbed!Settable, Disturbed!Drive, Disturbed!Handled, Disturbed!CallBack,
         Disturbed!Delete, Disturbed!Serve, Disturbed!Reboot, Disturbed!ShellGpio,
         Disturbed!Lose, Disturbed!Stray, Disturbed!deviceVars, Disturbed!controllerVars,
         Disturbed!Cardinality, Disturbed!OutletsAssumption, Disturbed!OutletsInv,
         Disturbed!TypeOK, Disturbed!Command, Disturbed!View, Disturbed!RequestType,
         Disturbed!ServingType, Disturbed!AnswerType, Disturbed!PinsFollow,
         Disturbed!GaugesAreMeasured, Disturbed!ShownIsTrue, Disturbed!PoolSuffices,
         Disturbed!PoolClean, Disturbed!Live, Disturbed!Asked, Disturbed!OneUnderWay,
         Disturbed!ViewInStep, Rudely!Init, Rudely!Esp, Rudely!Idle, Rudely!NoView,
         Rudely!Controlers, Rudely!Controls, Rudely!BootPins, Rudely!Next, Rudely!OfType,
         Rudely!Shown, Rudely!Commands, Rudely!GPIO_OUTPUT_SET, Rudely!Request, Rudely!StartRun,
         Rudely!Waits, Rudely!GetList, Rudely!GetAnswer, Rudely!GiveUp, Rudely!Free,
         Rudely!FirstFree, Rudely!Receive, Rudely!StateMachine, Rudely!NoCommand, Rudely!Read,
         Rudely!Answer, Rudely!Settable, Rudely!Drive, Rudely!Handled, Rudely!CallBack,
         Rudely!Delete, Rudely!Serve, Rudely!Reboot, Rudely!ShellGpio, Rudely!Lose,
         Rudely!Stray, Rudely!deviceVars, Rudely!controllerVars, Rudely!Cardinality,
         Rudely!OutletsAssumption, Rudely!OutletsInv, Rudely!TypeOK, Rudely!Command,
         Rudely!View, Rudely!RequestType, Rudely!ServingType, Rudely!AnswerType,
         Rudely!PinsFollow, Rudely!GaugesAreMeasured, Rudely!ShownIsTrue, Rudely!PoolSuffices,
         Rudely!PoolClean, Rudely!Live, Rudely!Asked, Rudely!OneUnderWay, Rudely!ViewInStep

LEMMA SameLoading ==
    /\ LoadFailing!Init <=> Loading!Init
    /\ LoadFailing!Next <=> Loading!Next
    /\ LoadFailing!TypeOK <=> Loading!TypeOK
    /\ LoadFailing!FlashInv <=> Loading!FlashInv
    /\ LoadFailing!CopyCoherent <=> Loading!CopyCoherent
    /\ LoadFailing!ConfigCoherent <=> Loading!ConfigCoherent
    /\ LoadFailing!IdentityKnown <=> Loading!IdentityKnown
    /\ LoadFailing!SecretMatchesIdentity <=> Loading!SecretMatchesIdentity
    /\ LoadFailing!SettingDurable <=> Loading!SettingDurable
    /\ LoadFailing!KeepsIdentity <=> Loading!KeepsIdentity
  BY DEF LoadFailing!Init, LoadFailing!Blank, LoadFailing!Unpaired, LoadFailing!Next,
         LoadFailing!Save, LoadFailing!ConfigImage, LoadFailing!cfConfigWrite,
         LoadFailing!Parsed, LoadFailing!FreshKeys, LoadFailing!Drawn, LoadFailing!AfterRead,
         LoadFailing!BootRead, LoadFailing!BootWrite, LoadFailing!cfPairRead,
         LoadFailing!BootPair, LoadFailing!PowerFail, LoadFailing!ExchangeKeys,
         LoadFailing!BecomePaired, LoadFailing!ConfigSet, LoadFailing!Settable,
         LoadFailing!ConfigRecord, LoadFailing!Unpair, LoadFailing!InitReset,
         LoadFailing!SaveConfig, LoadFailing!ReadConfig, LoadFailing!SetDebug, LoadFailing!Boot,
         LoadFailing!Packet, LoadFailing!Shell, LoadFailing!TypeOK, LoadFailing!Image,
         LoadFailing!PairRecord, LoadFailing!Nothings, LoadFailing!PairState,
         LoadFailing!FlashInv, LoadFailing!CopyCoherent, LoadFailing!ConfigCoherent,
         LoadFailing!LivePairing, LoadFailing!PairingMatchesIdentity,
         LoadFailing!SecretMatchesIdentity, LoadFailing!SettingDurable,
         LoadFailing!IdentityKnown, LoadFailing!KeepsIdentity, Loading!Init, Loading!Blank,
         Loading!Unpaired, Loading!Next, Loading!Save, Loading!ConfigImage,
         Loading!cfConfigWrite, Loading!Parsed, Loading!FreshKeys, Loading!Drawn,
         Loading!AfterRead, Loading!BootRead, Loading!BootWrite, Loading!cfPairRead,
         Loading!BootPair, Loading!PowerFail, Loading!ExchangeKeys, Loading!BecomePaired,
         Loading!ConfigSet, Loading!Settable, Loading!ConfigRecord, Loading!Unpair,
         Loading!InitReset, Loading!SaveConfig, Loading!ReadConfig, Loading!SetDebug,
         Loading!Boot, Loading!Packet, Loading!Shell, Loading!TypeOK, Loading!Image,
         Loading!PairRecord, Loading!Nothings, Loading!PairState, Loading!FlashInv,
         Loading!CopyCoherent, Loading!ConfigCoherent, Loading!LivePairing,
         Loading!PairingMatchesIdentity, Loading!SecretMatchesIdentity, Loading!SettingDurable,
         Loading!IdentityKnown, Loading!KeepsIdentity

LEMMA SameSaving ==
    /\ SaveFailing!Init <=> Saving!Init
    /\ SaveFailing!Next <=> Saving!Next
    /\ SaveFailing!TypeOK <=> Saving!TypeOK
    /\ SaveFailing!FlashInv <=> Saving!FlashInv
    /\ SaveFailing!CopyCoherent <=> Saving!CopyCoherent
    /\ SaveFailing!ConfigCoherent <=> Saving!ConfigCoherent
    /\ SaveFailing!IdentityKnown <=> Saving!IdentityKnown
    /\ SaveFailing!SecretMatchesIdentity <=> Saving!SecretMatchesIdentity
    /\ SaveFailing!SettingDurable <=> Saving!SettingDurable
    /\ SaveFailing!KeepsIdentity <=> Saving!KeepsIdentity
  BY DEF SaveFailing!Init, SaveFailing!Blank, SaveFailing!Unpaired, SaveFailing!Next,
         SaveFailing!Save, SaveFailing!ConfigImage, SaveFailing!cfConfigWrite,
         SaveFailing!Parsed, SaveFailing!FreshKeys, SaveFailing!Drawn, SaveFailing!AfterRead,
         SaveFailing!BootRead, SaveFailing!BootWrite, SaveFailing!cfPairRead,
         SaveFailing!BootPair, SaveFailing!PowerFail, SaveFailing!ExchangeKeys,
         SaveFailing!BecomePaired, SaveFailing!ConfigSet, SaveFailing!Settable,
         SaveFailing!ConfigRecord, SaveFailing!Unpair, SaveFailing!InitReset,
         SaveFailing!SaveConfig, SaveFailing!ReadConfig, SaveFailing!SetDebug, SaveFailing!Boot,
         SaveFailing!Packet, SaveFailing!Shell, SaveFailing!TypeOK, SaveFailing!Image,
         SaveFailing!PairRecord, SaveFailing!Nothings, SaveFailing!PairState,
         SaveFailing!FlashInv, SaveFailing!CopyCoherent, SaveFailing!ConfigCoherent,
         SaveFailing!LivePairing, SaveFailing!PairingMatchesIdentity,
         SaveFailing!SecretMatchesIdentity, SaveFailing!SettingDurable,
         SaveFailing!IdentityKnown, SaveFailing!KeepsIdentity, Saving!Init, Saving!Blank,
         Saving!Unpaired, Saving!Next, Saving!Save, Saving!ConfigImage, Saving!cfConfigWrite,
         Saving!Parsed, Saving!FreshKeys, Saving!Drawn, Saving!AfterRead, Saving!BootRead,
         Saving!BootWrite, Saving!cfPairRead, Saving!BootPair, Saving!PowerFail,
         Saving!ExchangeKeys, Saving!BecomePaired, Saving!ConfigSet, Saving!Settable,
         Saving!ConfigRecord, Saving!Unpair, Saving!InitReset, Saving!SaveConfig,
         Saving!ReadConfig, Saving!SetDebug, Saving!Boot, Saving!Packet, Saving!Shell,
         Saving!TypeOK, Saving!Image, Saving!PairRecord, Saving!Nothings, Saving!PairState,
         Saving!FlashInv, Saving!CopyCoherent, Saving!ConfigCoherent, Saving!LivePairing,
         Saving!PairingMatchesIdentity, Saving!SecretMatchesIdentity, Saving!SettingDurable,
         Saving!IdentityKnown, Saving!KeepsIdentity

LEMMA SameKeying ==
    /\ Rekeying!Init <=> Keying!Init
    /\ Rekeying!Next <=> Keying!Next
    /\ Rekeying!TypeOK <=> Keying!TypeOK
    /\ Rekeying!FlashInv <=> Keying!FlashInv
    /\ Rekeying!CopyCoherent <=> Keying!CopyCoherent
    /\ Rekeying!ConfigCoherent <=> Keying!ConfigCoherent
    /\ Rekeying!IdentityKnown <=> Keying!IdentityKnown
    /\ Rekeying!SecretMatchesIdentity <=> Keying!SecretMatchesIdentity
    /\ Rekeying!SettingDurable <=> Keying!SettingDurable
    /\ Rekeying!KeepsIdentity <=> Keying!KeepsIdentity
  BY DEF Rekeying!Init, Rekeying!Blank, Rekeying!Unpaired, Rekeying!Next, Rekeying!Save,
         Rekeying!ConfigImage, Rekeying!cfConfigWrite, Rekeying!Parsed, Rekeying!FreshKeys,
         Rekeying!Drawn, Rekeying!AfterRead, Rekeying!BootRead, Rekeying!BootWrite,
         Rekeying!cfPairRead, Rekeying!BootPair, Rekeying!PowerFail, Rekeying!ExchangeKeys,
         Rekeying!BecomePaired, Rekeying!ConfigSet, Rekeying!Settable, Rekeying!ConfigRecord,
         Rekeying!Unpair, Rekeying!InitReset, Rekeying!SaveConfig, Rekeying!ReadConfig,
         Rekeying!SetDebug, Rekeying!Boot, Rekeying!Packet, Rekeying!Shell, Rekeying!TypeOK,
         Rekeying!Image, Rekeying!PairRecord, Rekeying!Nothings, Rekeying!PairState,
         Rekeying!FlashInv, Rekeying!CopyCoherent, Rekeying!ConfigCoherent,
         Rekeying!LivePairing, Rekeying!PairingMatchesIdentity, Rekeying!SecretMatchesIdentity,
         Rekeying!SettingDurable, Rekeying!IdentityKnown, Rekeying!KeepsIdentity, Keying!Init,
         Keying!Blank, Keying!Unpaired, Keying!Next, Keying!Save, Keying!ConfigImage,
         Keying!cfConfigWrite, Keying!Parsed, Keying!FreshKeys, Keying!Drawn, Keying!AfterRead,
         Keying!BootRead, Keying!BootWrite, Keying!cfPairRead, Keying!BootPair,
         Keying!PowerFail, Keying!ExchangeKeys, Keying!BecomePaired, Keying!ConfigSet,
         Keying!Settable, Keying!ConfigRecord, Keying!Unpair, Keying!InitReset,
         Keying!SaveConfig, Keying!ReadConfig, Keying!SetDebug, Keying!Boot, Keying!Packet,
         Keying!Shell, Keying!TypeOK, Keying!Image, Keying!PairRecord, Keying!Nothings,
         Keying!PairState, Keying!FlashInv, Keying!CopyCoherent, Keying!ConfigCoherent,
         Keying!LivePairing, Keying!PairingMatchesIdentity, Keying!SecretMatchesIdentity,
         Keying!SettingDurable, Keying!IdentityKnown, Keying!KeepsIdentity

\* The constants fit the modules of the memories.
LEMMA MemoryConstants ==
    /\ Default \in Name /\ {TRUE, LoadFaults, SaveFaults, Rekeys} \subseteq BOOLEAN
    /\ Nothing \notin Key \cup Loading!ConfigRecord \cup Loading!PairRecord
    /\ Nothing \notin Key \cup Saving!ConfigRecord \cup Saving!PairRecord
    /\ Nothing \notin Key \cup Keying!ConfigRecord \cup Keying!PairRecord
  BY FlashAssumption, NothingAssumption
     DEF ConfigRecord, PairRecord, Loading!ConfigRecord, Loading!PairRecord,
         Saving!ConfigRecord, Saving!PairRecord, Keying!ConfigRecord, Keying!PairRecord

\* The constants fit the modules of the controls.
LEMMA ControlsConstants ==
    /\ Patiently!OutletsAssumption /\ OnHost!OutletsAssumption /\ Rudely!OutletsAssumption
<1>1. Orderly!OutletsAssumption /\ MaxRuns > 0  BY ControlsAssumption
<1> QED  BY <1>1
         DEF Orderly!OutletsAssumption, Patiently!OutletsAssumption, OnHost!OutletsAssumption,
             Rudely!OutletsAssumption

-----------------------------------------------------------------------------
(* The parts start and step as their modules do.                            *)

LEMMA PartsStart ==
    ASSUME AppInit
    PROVE  /\ Init
           /\ part = "load faults" => Loading!Init
           /\ part = "save faults" => Saving!Init
           /\ part = "rekeys" => Keying!Init
           /\ part = "network" => Wireless!Init
           /\ part = "controls" => Patiently!Init
           /\ part = "host controls" => OnHost!Init
           /\ part = "disturbed controls" => Rudely!Init
<1>1. LoadFailing!Init <=> SaveFailing!Init
  BY DEF LoadFailing!Init, LoadFailing!Blank, LoadFailing!Unpaired,
         SaveFailing!Init, SaveFailing!Blank, SaveFailing!Unpaired
<1>2. LoadFailing!Init <=> Rekeying!Init
  BY DEF LoadFailing!Init, LoadFailing!Blank, LoadFailing!Unpaired,
         Rekeying!Init, Rekeying!Blank, Rekeying!Unpaired
<1>3. part \in Faulty => Loading!Init /\ Saving!Init /\ Keying!Init
  BY <1>1, <1>2, SameLoading, SameSaving, SameKeying DEF AppInit
<1>4. part = "network" => Wireless!Init  BY SameNetwork DEF AppInit
<1>5. CASE part = "controls"
  <2>1. Orderly!Init  BY <1>5 DEF AppInit
  <2> QED  BY <1>5, <2>1, SameOrderly DEF AppInit
<1>6. CASE part = "host controls"
  <2>1. Host!Init  BY <1>6 DEF AppInit
  <2> QED  BY <1>6, <2>1, SameHost DEF AppInit
<1>7. CASE part = "disturbed controls"
  <2>1. Disturbed!Init  BY <1>7 DEF AppInit
  <2> QED  BY <1>7, <2>1, SameDisturbed DEF AppInit
<1> QED  BY <1>3, <1>4, <1>5, <1>6, <1>7 DEF AppInit, Faulty

LEMMA PartsStep ==
    ASSUME [AppNext]_appVars
    PROVE  /\ part' = part
           /\ [Next]_vars
           /\ part = "load faults" => [Loading!Next]_faultyVars
           /\ part = "save faults" => [Saving!Next]_faultyVars
           /\ part = "rekeys" => [Keying!Next]_faultyVars
           /\ part \notin Faulty => UNCHANGED faultyVars
           /\ part = "network" => [Wireless!Next]_stationVars
           /\ part = "controls" => [Patiently!Next]_outletsVars
           /\ part = "host controls" => [OnHost!Next]_outletsVars
           /\ part = "disturbed controls" => [Rudely!Next]_outletsVars
<1>1. part' = part  BY DEF AppNext, appVars
<1>2. [Next]_vars  BY DEF AppNext, appVars
<1>3. part \notin Faulty => UNCHANGED faultyVars  BY DEF AppNext, appVars, Faulty
<1>4. /\ part = "load faults" => [Loading!Next]_faultyVars
      /\ part = "save faults" => [Saving!Next]_faultyVars
      /\ part = "rekeys" => [Keying!Next]_faultyVars
  BY SameLoading, SameSaving, SameKeying DEF AppNext, appVars
<1>5. part = "network" => [Wireless!Next]_stationVars
  BY SameNetwork DEF AppNext, appVars
<1>6. /\ part = "controls" => [Patiently!Next]_outletsVars
      /\ part = "host controls" => [OnHost!Next]_outletsVars
      /\ part = "disturbed controls" => [Rudely!Next]_outletsVars
  BY SameOrderly, SameHost, SameDisturbed DEF AppNext, appVars
<1> QED  BY <1>1, <1>2, <1>3, <1>4, <1>5, <1>6

\* The one memory without faults is FlashConfig's, whatever part the behaviour is about.
LEMMA MemoryIsFlash == AppSpec => Spec
<1>1. AppInit => Init  BY DEF AppInit
<1>2. [AppNext]_appVars => [Next]_vars  BY PartsStep
<1>3. AppSpec => AppInit /\ [][AppNext]_appVars  BY PTL DEF AppSpec
<1> QED  BY <1>1, <1>2, <1>3, PTL DEF Spec

-----------------------------------------------------------------------------
(* The invariants of the parts, together.                                   *)

AppInv ==
    /\ part = "load faults" => Loading!FlashInv
    /\ part = "save faults" => Saving!TypeOK /\ Saving!IdentityKnown
    /\ part = "rekeys" => Keying!TypeOK /\ Keying!CopyCoherent /\ Keying!ConfigCoherent
    /\ part = "network" => Wireless!StationInv
    /\ part = "controls" => Patiently!OutletsInv
    /\ part = "host controls" => OnHost!OutletsInv
    /\ part = "disturbed controls" => Rudely!OutletsInv

\* The faults of a memory are one at a time.
OneFault == ~LoadFaults /\ ~SaveFaults /\ ~Rekeys

LEMMA AppStarts ==
    ASSUME AppInit
    PROVE  AppInv
<1>1. part = "load faults" => Loading!FlashInv  BY PartsStart, Loading!InvInit, MemoryConstants
<1>2. part = "save faults" => Saving!TypeOK /\ Saving!IdentityKnown
  BY PartsStart, Saving!TypeInit, MemoryConstants DEF Saving!Init, Saving!IdentityKnown
<1>3. part = "rekeys" => Keying!TypeOK /\ Keying!CopyCoherent /\ Keying!ConfigCoherent
  BY PartsStart, Keying!TypeInit, MemoryConstants DEF Keying!Init, Keying!CopyCoherent, Keying!ConfigCoherent
<1>4. part = "network" => Wireless!StationInv
  BY PartsStart, Wireless!StationStarts, NetworkAssumption, SameNetwork
<1>5. /\ part = "controls" => Patiently!OutletsInv
      /\ part = "host controls" => OnHost!OutletsInv
      /\ part = "disturbed controls" => Rudely!OutletsInv
  BY PartsStart, ControlsConstants, Patiently!OutletsStart, OnHost!OutletsStart,
     Rudely!OutletsStart
<1> QED  BY <1>1, <1>2, <1>3, <1>4, <1>5 DEF AppInv

LEMMA AppSteps ==
    ASSUME OneFault, AppInv, [AppNext]_appVars
    PROVE  AppInv'
<1> USE PartsStep DEF AppInv, OneFault
<1>1. CASE part = "load faults"
  <2>1. [Loading!Next]_(Loading!vars)  BY <1>1 DEF Loading!vars, faultyVars
  <2>2. Loading!FlashInv'  BY <1>1, <2>1, Loading!InvStep, MemoryConstants
  <2> QED  BY <1>1, <2>2
<1>2. CASE part = "save faults"
  <2>1. [Saving!Next]_(Saving!vars)  BY <1>2 DEF Saving!vars, faultyVars
  <2>2. Saving!TypeOK'  BY <1>2, <2>1, Saving!TypeStep, MemoryConstants
  <2>3. Saving!IdentityKnown'  BY <1>2, <2>1, Saving!KnownStep, MemoryConstants
  <2> QED  BY <1>2, <2>2, <2>3
<1>3. CASE part = "rekeys"
  <2>1. [Keying!Next]_(Keying!vars)  BY <1>3 DEF Keying!vars, faultyVars
  <2>2. Keying!TypeOK'  BY <1>3, <2>1, Keying!TypeStep, MemoryConstants
  <2>3. Keying!CopyCoherent' /\ Keying!ConfigCoherent'
    BY <1>3, <2>1, Keying!CoherentStep, MemoryConstants
  <2> QED  BY <1>3, <2>2, <2>3
<1>4. CASE part = "network"
  <2>1. [Wireless!Next]_(Wireless!vars)  BY <1>4 DEF Wireless!vars, stationVars
  <2>2. Wireless!StationInv'
    BY <1>4, <2>1, Wireless!StationStep, NetworkAssumption, SameNetwork
  <2> QED  BY <1>4, <2>2
<1>5. CASE part = "controls"
  <2>1. [Patiently!Next]_(Patiently!vars)  BY <1>5 DEF Patiently!vars, outletsVars
  <2>2. Patiently!OutletsInv'  BY <1>5, <2>1, Patiently!OutletsStep, ControlsConstants
  <2> QED  BY <1>5, <2>2
<1>6. CASE part = "host controls"
  <2>1. [OnHost!Next]_(OnHost!vars)  BY <1>6 DEF OnHost!vars, outletsVars
  <2>2. OnHost!OutletsInv'  BY <1>6, <2>1, OnHost!OutletsStep, ControlsConstants
  <2> QED  BY <1>6, <2>2
<1>7. CASE part = "disturbed controls"
  <2>1. [Rudely!Next]_(Rudely!vars)  BY <1>7 DEF Rudely!vars, outletsVars
  <2>2. Rudely!OutletsInv'  BY <1>7, <2>1, Rudely!OutletsStep, ControlsConstants
  <2> QED  BY <1>7, <2>2
<1> QED  BY <1>1, <1>2, <1>3, <1>4, <1>5, <1>6, <1>7

LEMMA AppInvariance ==
    ASSUME OneFault
    PROVE  AppSpec => []AppInv
<1>1. AppInit => AppInv  BY AppStarts
<1>2. AppInv /\ [AppNext]_appVars => AppInv'  BY AppSteps
<1>3. AppSpec => AppInit /\ [][AppNext]_appVars  BY PTL DEF AppSpec
<1> QED  BY <1>1, <1>2, <1>3, PTL

-----------------------------------------------------------------------------

\* Every part keeps to its types and to the invariant its properties rest on.
THEOREM PartsTypesCorrect ==
    ASSUME OneFault
    PROVE  AppSpec => []PartsTypeOK
<1>1. AppInv => PartsTypeOK
  <2>1. Loading!FlashInv => Loading!TypeOK  BY DEF Loading!FlashInv
  <2> QED  BY <2>1, SameLoading, SameSaving, SameKeying, SameNetwork, SameOrderly, SameHost,
              SameDisturbed DEF AppInv, PartsTypeOK
<1> QED  BY <1>1, AppInvariance, PTL

\* A load that fails brings together nothing that does not belong together, and a CONFIG_SET
\* that replaces the keys leaves the settings durable (cfConfigRead, cfConfigSetFromStr).
THEOREM FaultsContainedCorrect ==
    ASSUME OneFault
    PROVE  AppSpec => []FaultsContained
<1>1. Loading!FlashInv => Loading!SecretMatchesIdentity
  BY DEF Loading!FlashInv, Loading!ConfigCoherent, Loading!LivePairing,
         Loading!SecretMatchesIdentity
<1>2. Keying!ConfigCoherent => Keying!SettingDurable
  BY DEF Keying!ConfigCoherent, Keying!SettingDurable
<1>3. AppInv => FaultsContained
  BY <1>1, <1>2, SameLoading, SameKeying DEF AppInv, FaultsContained
<1> QED  BY <1>3, AppInvariance, PTL

\* A saved pairing goes by init and by a new pairing alone, and a save that fails never leaves
\* another identity in flash (cfConfigWrite, cfPairWrite, user_init_stage2).
THEOREM SavedStandsCorrect ==
    ASSUME OneFault
    PROVE  AppSpec => SavedStands
<1>1. AppSpec => SavedPairingStands  BY MemoryIsFlash, SavedPairingStays DEF OneFault
<1>2. AppInv /\ [AppNext]_appVars
        => [part = "save faults" => SaveFailing!KeepsIdentity]_faultyVars
  <2>1. SUFFICES ASSUME AppInv, [AppNext]_appVars, part = "save faults"
                 PROVE  [Saving!KeepsIdentity]_faultyVars
    BY SameSaving
  <2>2. [Saving!Next]_(Saving!vars)  BY <2>1, PartsStep DEF Saving!vars, faultyVars
  <2>3. ~LoadFaults /\ ~Rekeys /\ Saving!TypeOK /\ Saving!IdentityKnown
    BY <2>1 DEF AppInv, OneFault
  <2>4. [Saving!KeepsIdentity]_(Saving!vars)  BY <2>2, <2>3, Saving!KnownStep, MemoryConstants
  <2> QED  BY <2>4 DEF Saving!vars, faultyVars
<1>3. AppSpec => [][AppNext]_appVars  BY PTL DEF AppSpec
<1> QED  BY <1>1, <1>2, <1>3, AppInvariance, PTL DEF SavedStands

\* The device announces the address it has, looks for the time while it asks for it, and its
\* clock does not fall behind (wifi_handle_event_cb, espCfWiFi_ntp20Check, clock_loop).
THEOREM NetworkFollowedCorrect ==
    ASSUME OneFault
    PROVE  AppSpec => []NetworkFollowed
<1>1. AppInv => NetworkFollowed
  BY Wireless!StationFollows, NetworkAssumption, SameNetwork DEF AppInv, NetworkFollowed
<1> QED  BY <1>1, AppInvariance, PTL

\* Outlets are on when their controls say so, a finished run shows how they are, nobody sets a
\* gauge, and each call finds its packets in the pool (deviceCallBack, controllerCallBack,
\* chatPacket_init0 and chatPacket_delete).
THEOREM ControlsTrueCorrect ==
    ASSUME OneFault
    PROVE  AppSpec => []ControlsTrue
<1>1. Values \subseteq {0, 1} /\ PoolSize >= 2  BY ControlsAssumption
<1>2. Patiently!OutletsInv =>
        Patiently!PinsFollow /\ Patiently!ShownIsTrue /\ Patiently!PoolSuffices
  BY <1>1, ControlsConstants, Patiently!OutletsShow DEF Patiently!OutletsInv
<1>3. OnHost!OutletsInv => OnHost!ShownIsTrue
  BY ControlsConstants, OnHost!OutletsShow
<1>4. Rudely!OutletsInv => Rudely!GaugesAreMeasured /\ Rudely!PoolSuffices
  BY <1>1, ControlsConstants, Rudely!OutletsShow DEF Rudely!OutletsInv, Rudely!Esp
<1>5. AppInv => ControlsTrue
  BY <1>2, <1>3, <1>4, SameOrderly, SameHost, SameDisturbed DEF AppInv, ControlsTrue
<1> QED  BY <1>5, AppInvariance, PTL
=============================================================================
