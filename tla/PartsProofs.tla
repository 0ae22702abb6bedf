---------------------------- MODULE PartsProofs ----------------------------
(***************************************************************************)
(* The parts of the app side by side (MCParts): what each does beside the  *)
(* others it does alone, so that what is proved of the parts holds of      *)
(* them together.                                                          *)
(***************************************************************************)
EXTENDS MCParts, ReceiveProofs, DeviceProofs

\* One part steps and the others stand still.
LEMMA PartsStepIsLocal ==
  ASSUME [PartsNext]_partsVars
  PROVE  /\ [ReceiveNext]_receiveVars /\ [ChatListNext]_chatListVars /\ [HistoryNext]_historyVars
         /\ [ConnectionNext]_connectionVars /\ [AccountDbNext]_accountDbVars
         /\ [PushTokensNext]_pushTokenVars /\ [EngineLoopNext]_engineLoopVars
         /\ [ReactionsNext]_reactionVars /\ [PushAlertNext]_pushAlertVars
         /\ [DemoBotNext]_botVars /\ [SealingNext]_sealingVars /\ [IdentityNext]_identityVars
         /\ [PeerKeysNext]_peerKeyVars /\ [FrameReaderNext]_frameVars
<1>1. CASE UNCHANGED partsVars
  BY <1>1 DEF partsVars
<1>2. CASE PartsNext
  BY <1>2 DEF PartsNext, OthersStill
<1> QED BY <1>1, <1>2

LEMMA PartsRunParts ==
  PartsSpec => /\ ReceiveSpec /\ ScreensSpec /\ ConnectionSpec /\ AccountsSpec
               /\ RegistrationSpec /\ DemoBotSpec /\ CiphersSpec
<1>1. PartsInit => /\ ReceiveInit /\ ChatListInit /\ HistoryInit /\ ConnectionInit
                   /\ AccountDbInit /\ PushTokensInit /\ EngineLoopInit /\ ReactionsInit
                   /\ PushAlertInit /\ DemoBotInit /\ SealingInit /\ IdentityInit /\ PeerKeysInit
  BY DEF PartsInit
<1> QED BY <1>1, PartsStepIsLocal, PTL
        DEF PartsSpec, ReceiveSpec, ScreensSpec, ChatListSpec, HistorySpec, ReactionsSpec,
            PushAlertSpec, ConnectionSpec, AccountsSpec, AccountDbSpec, EngineLoopSpec,
            RegistrationSpec, IdentitySpec, PushTokensSpec, DemoBotSpec, CiphersSpec, SealingSpec,
            PeerKeysSpec

\* Whatever the parts of the app do, all of this holds of them together: no message is
\* skipped or lost with its key, the screens show what is stored, the connection and the
\* accounts' databases are as their callers take them to be, the device is registered,
\* what is sealed is opened, and the demo chats are founded once (chat/,
\* chat-transport/, chat-mls-core/, db/).
THEOREM PartsAreSafe ==
  PartsSpec =>
    /\ [](CursorCovers /\ ConsumedIsKept /\ SeenIsTrue)
    /\ [](OpenIsUsable /\ ClosedIsQuiet /\ OneAccountAtATime)
    /\ [](DeviceIsRegistered /\ SealedIsOpened /\ LobbyIsSound)
BY PartsRunParts, CursorNeverSkips, ConsumedRowsAreKept, SeenHolds, OpenStateIsUsable,
   ClosedStateIsQuiet, AccountsAreApart, InstallIsRegistered, CiphersAgree, LobbyHolds, PTL

LEMMA ComponentsRun ==
  PartsSpec => /\ ReceiveSpec /\ ConnectionSpec /\ DemoBotSpec
               /\ ChatListSpec /\ HistorySpec /\ ReactionsSpec /\ PushAlertSpec
               /\ AccountDbSpec /\ EngineLoopSpec /\ IdentitySpec /\ PushTokensSpec
               /\ SealingSpec /\ PeerKeysSpec
BY PartsRunParts, PTL DEF ScreensSpec, AccountsSpec, RegistrationSpec, CiphersSpec

PartIsOne == part \in Parts

LEMMA PartStays == PartsSpec => []PartIsOne
<1>1. PartsInit => PartIsOne
  BY DEF PartsInit, PartIsOne
<1>2. PartIsOne /\ [PartsNext]_partsVars => PartIsOne'
  BY DEF PartIsOne, PartsNext, partsVars
<1> QED BY <1>1, <1>2, PTL DEF PartsSpec

TypesButReader == part # "reader" => TypesOK

\* Every variable of the part that steps has its type, for any values of the constants.
\* The frame reader is left out: how many entries a header announces is folded from bytes.
THEOREM PartsTypesHold == PartsSpec => [](part # "reader" => TypesOK)
<1>1. /\ PartIsOne /\ ReceiveTypeOK /\ ConnectionTypeOK /\ DemoBotTypeOK
      /\ ChatListTypeOK /\ HistoryTypeOK /\ ReactionsTypeOK /\ PushAlertTypeOK
      /\ AccountDbTypeOK /\ EngineLoopTypeOK /\ IdentityTypeOK /\ PushTokensTypeOK
      /\ SealingTypeOK /\ PeerKeysTypeOK
      => TypesButReader
  BY DEF PartIsOne, Parts, TypesOK, TypesButReader
<1>2. PartsSpec => []TypesButReader
  BY <1>1, PartStays, ComponentsRun, ReceiveTypesHold, ConnectionTypesHold, DemoBotTypesHold,
     ChatListTypesHold, HistoryTypesHold, ReactionTypesHold, PushAlertTypesHold,
     DatabaseTypesHold, EngineTypesHold, IdentityTypesHold, PushTokensTypesHold,
     SealingTypesHold, PeerTypesHold, PTL
<1> QED BY <1>2, PTL DEF TypesButReader

=============================================================================
