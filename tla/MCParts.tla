------------------------------ MODULE MCParts ------------------------------
(***************************************************************************)
(* The components of the app, and the demo concierge, that share no state. *)
(* `part` is chosen at the start and names the only component that steps,  *)
(* so the state space is their spaces side by side.                        *)
(***************************************************************************)
EXTENDS Receive, Connection, Accounts, Registration,
        FrameReader, DemoBot, Ciphers, Screens, TLC

CONSTANTS u1, u2, c1, c2, w1

VARIABLE part

MCEpochOf  == <<1, 1, 2>>
MCChatOf   == w1 :> c1
MCMaxRows  == c1 :> 2 @@ c2 :> 1
MCAttempts == {<<"publish", 1>>, <<"register", 1>>, <<"register", 2>>}
LOCAL Message(c, e, n, s, rx) ==
  [chat |-> c, epoch |-> e, by |-> u1, gen |-> n, serial |-> s, rx |-> rx]
MCPushed ==
  {Message(2, 1, 0, 1, FALSE), Message(2, 1, 1, 2, TRUE), Message(1, 2, 0, 1, FALSE)}
MCEditions == <<{}, {"phone", "tablet"}>>
MCInbound ==
  <<[version |-> 2, own |-> FALSE, mine |-> TRUE, frame |-> BuildFrame(2, "msg", TRUE)],
    [version |-> 2, own |-> FALSE, mine |-> TRUE, frame |-> [v |-> 2, ts |-> "number", kind |-> "edit"]],
    [version |-> 1, own |-> FALSE, mine |-> TRUE, frame |-> BuildFrame(1, "rx", FALSE)]>>

\* Values of the maps that are read: of two entries, and of one.
LOCAL Value(kind, size, wide) == [kind |-> kind, size |-> size, wide |-> wide]
MCFew ==
  {Value("const", 192, 0), Value("int", 5, 0), Value("neg", 0, 2), Value("int", 0, 8),
   Value("str", 1, 0), Value("str", 1, 1), Value("str", 0, 0), Value("bin", 1, 1),
   Value("array", 1, 0)}
MCSingles ==
  {Value("const", n, 0) : n \in {192, 194, 195}} \cup {Value("array", n, 0) : n \in {0, 1}}
    \cup {Value("int", 5, w) : w \in {0, 1, 2, 4, 8}}
    \cup {Value("neg", 0, w) : w \in {0, 1, 2, 4, 8}}
    \cup {Value("float", 0, w) : w \in {4, 8}}
    \cup {Value("str", n, w) : n \in {0, 2}, w \in {0, 1, 2, 4}}
    \cup {Value("bin", n, w) : n \in {0, 2}, w \in {1, 2, 4}}

Parts == {"receive", "list", "history", "connection", "database", "tokens", "engine",
          "reactions", "reader", "alerts", "concierge", "sealing", "identity", "peers"}

PartsInit ==
  /\ part \in Parts
  /\ ReceiveInit /\ ChatListInit /\ HistoryInit /\ ConnectionInit /\ AccountDbInit /\ PushTokensInit
  /\ EngineLoopInit /\ ReactionsInit /\ PushAlertInit /\ DemoBotInit
  /\ SealingInit /\ holder = u1
  /\ IdentityInit /\ (part # "identity" => platform = "ios") /\ PeerKeysInit
  /\ IF part = "reader" THEN SomeFrame ELSE entries = <<>> /\ bytes = <<>> /\ whole = FALSE
  /\ AtStart

\* Only the part's own variables may change.
OthersStill(p) ==
  /\ p # "receive" => UNCHANGED receiveVars
  /\ p # "list" => UNCHANGED chatListVars
  /\ p # "history" => UNCHANGED historyVars
  /\ p # "connection" => UNCHANGED connectionVars
  /\ p # "database" => UNCHANGED accountDbVars
  /\ p # "tokens" => UNCHANGED pushTokenVars
  /\ p # "engine" => UNCHANGED engineLoopVars
  /\ p # "reactions" => UNCHANGED reactionVars
  /\ p # "reader" => UNCHANGED frameVars
  /\ p # "alerts" => UNCHANGED pushAlertVars
  /\ p # "concierge" => UNCHANGED botVars
  /\ p # "sealing" => UNCHANGED sealingVars
  /\ p # "identity" => UNCHANGED identityVars
  /\ p # "peers" => UNCHANGED peerKeyVars

PartsNext ==
  /\ UNCHANGED part
  /\ \/ part = "receive" /\ ReceiveNext /\ OthersStill("receive")
     \/ part = "list" /\ ChatListNext /\ OthersStill("list")
     \/ part = "history" /\ HistoryNext /\ OthersStill("history")
     \/ part = "connection" /\ ConnectionNext /\ OthersStill("connection")
     \/ part = "database" /\ AccountDbNext /\ OthersStill("database")
     \/ part = "tokens" /\ PushTokensNext /\ OthersStill("tokens")
     \/ part = "engine" /\ EngineLoopNext /\ OthersStill("engine")
     \/ part = "reactions" /\ ReactionsNext /\ OthersStill("reactions")
     \/ part = "reader" /\ FrameReaderNext /\ OthersStill("reader")
     \/ part = "alerts" /\ PushAlertNext /\ OthersStill("alerts")
     \/ part = "concierge" /\ DemoBotNext /\ OthersStill("concierge")
     \/ part = "sealing" /\ SealingNext /\ OthersStill("sealing")
     \/ part = "identity" /\ IdentityNext /\ OthersStill("identity")
     \/ part = "peers" /\ PeerKeysNext /\ OthersStill("peers")

partsVars ==
  <<part, receiveVars, chatListVars, historyVars, connectionVars, accountDbVars, pushTokenVars,
    engineLoopVars, reactionVars, frameVars, pushAlertVars, botVars, sealingVars, identityVars,
    peerKeyVars>>

\* ReceiveFairness, of its actions where the receiving device is the part that steps.
PartsFairness ==
  /\ WF_receiveVars(part = "receive" /\ Heal)
  /\ \A p \in Passes : WF_receiveVars(part = "receive" /\ Locally(p))
  /\ SF_receiveVars(part = "receive" /\ Asks) /\ SF_receiveVars(part = "receive" /\ Serves)

PartsSpec == PartsInit /\ [][PartsNext]_partsVars /\ PartsFairness

\* The part's variables have their types; those of the others never change.
TypesOK ==
  CASE part = "receive"    -> ReceiveTypeOK
    [] part = "list"       -> ChatListTypeOK
    [] part = "history"    -> HistoryTypeOK
    [] part = "connection" -> ConnectionTypeOK
    [] part = "database"   -> AccountDbTypeOK
    [] part = "tokens"     -> PushTokensTypeOK
    [] part = "engine"     -> EngineLoopTypeOK
    [] part = "reactions"  -> ReactionsTypeOK
    [] part = "reader"     -> FrameReaderTypeOK
    [] part = "alerts"     -> PushAlertTypeOK
    [] part = "concierge"  -> DemoBotTypeOK
    [] part = "sealing"    -> SealingTypeOK
    [] part = "identity"   -> IdentityTypeOK
    [] part = "peers"      -> PeerKeysTypeOK

\* EventuallyCaughtUp where the receiving device steps: as long as it keeps
\* reconnecting, it reads all there is.
ReceiveCatchesUp == part = "receive" => EventuallyCaughtUp

=============================================================================
