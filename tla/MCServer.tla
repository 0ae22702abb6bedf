------------------------------ MODULE MCServer ------------------------------
(***************************************************************************)
(* The components of the server side by side: a chat's object with its     *)
(* storage (ChatDO), the chats' rows and their creation, a user's          *)
(* subscriptions, the push fan-out of a flush and the push adapters,       *)
(* typing and read signals, the edge's sessions, and accounts with what    *)
(* hangs on them.                                                          *)
(* `component` is chosen at the start and names the only one that steps.   *)
(***************************************************************************)
EXTENDS MCChatDO, ChatDirectory, Subscriptions, Pushes, Signals, Sessions, Social

CONSTANTS carol, c1, c2

MCPersons == {alice, bob, carol}
MCAsked   == {<<"direct", {alice}>>, <<"direct", {bob}>>, <<"group", {bob, carol}>>}
MCAuthors == <<alice, bob>>
MCMarks ==
  {[kind |-> "like", post |-> alice, by |-> bob], [kind |-> "comment", post |-> alice, by |-> alice],
   [kind |-> "comment", post |-> alice, by |-> bob]}
MCFollows == {[by |-> bob, of |-> alice], [by |-> alice, of |-> alice]}

VARIABLE component

Components ==
  {"chat", "directory", "subscriptions", "fanout", "typing", "reading", "sessions",
   "social", "reports", "adapters"}

ServerInit ==
  /\ component \in Components
  /\ Init /\ DirectoryInit /\ SubscriptionInit /\ SessionsInit /\ SocialInit
  /\ PushAdaptersInit
  /\ PushFanoutInit /\ (component # "fanout" => room = {})
  /\ SignalsInit /\ (component # "reading" => roster = Peers)

\* Only the component's own variables may change.
OthersStill(c) ==
  /\ c # "chat" => UNCHANGED vars
  /\ c # "directory" => UNCHANGED directoryVars
  /\ c # "subscriptions" => UNCHANGED subscriptionVars
  /\ c # "fanout" => UNCHANGED pushFanoutVars
  /\ c \notin {"typing", "reading"} => UNCHANGED signalVars
  /\ c # "sessions" => UNCHANGED sessionVars
  /\ c \notin {"social", "reports"} => UNCHANGED socialVars
  /\ c # "adapters" => UNCHANGED pushAdapterVars

ServerNext ==
  /\ UNCHANGED component
  /\ \/ component = "chat" /\ Next /\ OthersStill("chat")
     \/ component = "directory" /\ DirectoryNext /\ OthersStill("directory")
     \/ component = "subscriptions" /\ SubscriptionNext /\ OthersStill("subscriptions")
     \/ component = "fanout" /\ PushFanoutNext /\ OthersStill("fanout")
     \/ component = "typing" /\ TypingNext /\ OthersStill("typing")
     \/ component = "reading" /\ ReadingNext /\ OthersStill("reading")
     \/ component = "sessions" /\ SessionsNext /\ OthersStill("sessions")
     \/ component = "social" /\ SocialNext /\ OthersStill("social")
     \/ component = "reports" /\ ReportsNext /\ OthersStill("reports")
     \/ component = "adapters" /\ PushAdaptersNext /\ OthersStill("adapters")

serverVars ==
  <<component, vars, directoryVars, subscriptionVars, pushFanoutVars, signalVars, sessionVars,
    socialVars, pushAdapterVars>>

ServerSpec == ServerInit /\ [][ServerNext]_serverVars

\* The component's variables have their types; those of the others never change.
TypesOK ==
  CASE component = "chat"          -> TypeOK
    [] component = "directory"     -> DirectoryTypeOK
    [] component = "subscriptions" -> SubscriptionTypeOK
    [] component = "fanout"        -> PushFanoutTypeOK
    [] component \in {"typing", "reading"} -> SignalsTypeOK
    [] component = "sessions"      -> SessionsTypeOK
    [] component \in {"social", "reports"} -> SocialTypeOK
    [] component = "adapters"      -> PushAdaptersTypeOK

=============================================================================
