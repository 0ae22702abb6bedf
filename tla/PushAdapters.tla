---------------------------- MODULE PushAdapters ----------------------------
(***************************************************************************)
(* The last hop of a push: what one container of the queue's consumer asks *)
(* the two notification services, over the HTTP/2 client, the logins and   *)
(* the token rows its dispatches share, and which rows it deletes for the  *)
(* answers (chat-push apns.ts, fcm.ts, lambda.ts; api/routers/user.ts      *)
(* push.register and push.unregister). Who is pushed to is the subject of  *)
(* module PushFanout.                                                      *)
(***************************************************************************)
EXTENDS Naturals

CONSTANTS
  ApnsTokens, FcmTokens, \* push tokens, of one device each
  Dispatches,            \* bound: events being dispatched at the same time
  MaxClients,            \* bound: HTTP/2 clients made
  MaxBlips,              \* bound: errors of the services and of the network
  MaxMoves               \* bound: uninstalls, reinstalls and calls of the apps

ASSUME PushAdaptersAssumption ==
  /\ ApnsTokens \cap FcmTokens = {}
  /\ MaxClients \in Nat \ {0} /\ MaxBlips \in Nat /\ MaxMoves \in Nat

Tokens == ApnsTokens \cup FcmTokens
Services == {"apns", "fcm"}
ServiceOf(t) == IF t \in ApnsTokens THEN "apns" ELSE "fcm"

VARIABLES
  tokenRow,              \* tokenRow[t]: none, active, or off (disabledAt is set)
  working,               \* tokens their service takes: the app is there and has no newer one
  claimed,                \* tokens whose app has registered them and not unregistered them since
  job,                   \* job[d]: a dispatch
  login,                 \* services whose login is cached
  client,                \* cachedClient, 0 for none
  up,                    \* clients that are not closed
  closing,               \* closed clients whose close event has not been handled
  clients, blips, moves, \* counters of the bounds
  reborn,                \* history: tokens registered again after an answer that named them dead
  oversized              \* history: FCM tokens an event too large for FCM was sent to

pushAdapterVars == <<tokenRow, working, claimed, job, login, client, up, closing, clients, blips,
                     moves, reborn, oversized>>

apps    == <<working, claimed, moves>>
session == <<client, up, closing, clients>>

\* due: services not logged in to yet; left: tokens to ask for; asked: requests out and the
\* client they went over; dead: tokens whose answer says they are gone.
NoJob == [pc |-> "none", large |-> FALSE, due |-> {}, left |-> {}, asked |-> {}, dead |-> {}]

PushAdaptersInit ==
  /\ tokenRow = [t \in Tokens |-> "active"] /\ working = Tokens /\ claimed = Tokens
  /\ job = [d \in Dispatches |-> NoJob] /\ login = {}
  /\ client = 0 /\ up = {} /\ closing = {} /\ clients = 0 /\ blips = 0 /\ moves = 0
  /\ reborn = {} /\ oversized = {}

Blip == blips < MaxBlips /\ blips' = blips + 1
Move == moves < MaxMoves /\ moves' = moves + 1
Turns(d, r) == job' = [job EXCEPT ![d] = r]

-----------------------------------------------------------------------------
\* dispatch(), sendApns(), sendFcm()

\* buildPayload(): the ciphertext rides along, whatever size a service allows.
OverLimit == BOOLEAN

\* The active tokens of the recipients.
LoadTokens(d) ==
  /\ job[d].pc = "none"
  /\ LET found == {t \in Tokens : tokenRow[t] = "active"}
     IN  /\ found # {}
         /\ \E large \in OverLimit :
              Turns(d, [pc |-> "sending", large |-> large, due |-> {ServiceOf(t) : t \in found},
                        left |-> found, asked |-> {}, dead |-> {}])
  /\ UNCHANGED <<tokenRow, apps, login, session, blips, reborn, oversized>>

\* getJwt(), getAuth(): a cached login is used.
LogIn(d, s) ==
  /\ job[d].pc = "sending" /\ s \in job[d].due
  /\ login' = login \cup {s} /\ Turns(d, [job[d] EXCEPT !.due = @ \ {s}])
  /\ UNCHANGED <<tokenRow, apps, session, blips, reborn, oversized>>

\* One that throws fails the whole dispatch: what the other service is still being asked
\* goes on, and its answers are dropped.
LogInFails(d, s) ==
  /\ Blip /\ job[d].pc = "sending" /\ s \in job[d].due \ login /\ Turns(d, NoJob)
  /\ UNCHANGED <<tokenRow, apps, login, session, reborn, oversized>>

\* Google answers without an access token: no device is asked.
NoAccessToken(d) ==
  /\ Blip /\ job[d].pc = "sending" /\ "fcm" \in job[d].due
  /\ Turns(d, [job[d] EXCEPT !.due = @ \ {"fcm"}, !.left = @ \ FcmTokens])
  /\ UNCHANGED <<tokenRow, apps, login, session, reborn, oversized>>

LoginExpires ==
  /\ \E s \in login : login' = login \ {s}
  /\ UNCHANGED <<tokenRow, apps, job, session, blips, reborn, oversized>>

\* getClient(): the cached client unless it is closed.
Reusable == client \in up
Post(d, t) ==
  /\ job[d].pc = "sending" /\ t \in job[d].left /\ ServiceOf(t) \notin job[d].due
  /\ IF ServiceOf(t) = "fcm" THEN
       /\ Turns(d, [job[d] EXCEPT !.left = @ \ {t}, !.asked = @ \cup {<<t, 0>>}])
       /\ UNCHANGED session
     ELSE IF Reusable THEN
       /\ Turns(d, [job[d] EXCEPT !.left = @ \ {t}, !.asked = @ \cup {<<t, client>>}])
       /\ UNCHANGED session
     ELSE
       /\ clients < MaxClients /\ clients' = clients + 1 /\ client' = clients + 1
       /\ up' = up \cup {clients + 1} /\ UNCHANGED closing
       /\ Turns(d, [job[d] EXCEPT !.left = @ \ {t}, !.asked = @ \cup {<<t, clients + 1>>}])
  /\ UNCHANGED <<tokenRow, apps, login, blips, reborn, oversized>>

ClientCloses(c) ==
  /\ Blip /\ c \in up /\ up' = up \ {c} /\ closing' = closing \cup {c}
  /\ UNCHANGED <<tokenRow, apps, job, login, client, clients, reborn, oversized>>

\* The "close" and "error" handlers: only the client that is still the cached one is dropped.
DroppedAny(c) == 0                      \* a mutant: whichever client is cached is dropped
Dropped(c) == IF client = c THEN 0 ELSE client
CloseHandled(c) ==
  /\ c \in closing /\ closing' = closing \ {c} /\ client' = Dropped(c)
  /\ UNCHANGED <<tokenRow, apps, job, login, up, clients, blips, reborn, oversized>>

\* What the services answer. A token that works may still be refused, for a size, a rate
\* or a login; one that does not is named gone.
Answers(t, large) ==
  IF large THEN IF t \in ApnsTokens THEN {"413"} ELSE {"400 INVALID_ARGUMENT"}
  ELSE IF t \in working THEN {"200"}
  ELSE IF t \in ApnsTokens THEN {"410", "400 BadDeviceToken"}
  ELSE {"404", "400 UNREGISTERED", "400 INVALID_ARGUMENT"}
Errors == {"403", "429", "503", "0"}

\* sendOne() of either service
DeadUnless200(answer) == answer # "200"   \* a mutant: whatever is not taken is dead
Dead(answer) ==
  answer \in {"410", "400 BadDeviceToken", "404", "400 UNREGISTERED", "400 INVALID_ARGUMENT"}

Hears(d, r, answer) ==
  Turns(d, [job[d] EXCEPT !.asked = @ \ {r}, !.dead = IF Dead(answer) THEN @ \cup {r[1]} ELSE @])

Answered(d) ==
  /\ \E r \in job[d].asked : \E answer \in Answers(r[1], job[d].large) :
       /\ r[2] \in up \cup {0}
       /\ Hears(d, r, answer)
       /\ oversized' = IF answer = "400 INVALID_ARGUMENT" /\ job[d].large
                       THEN oversized \cup {r[1]} ELSE oversized
  /\ UNCHANGED <<tokenRow, apps, login, session, blips, reborn>>

\* An error of the service; a request whose client is closed hears nothing else.
Refused(d) ==
  /\ \E r \in job[d].asked, answer \in Errors :
       /\ IF r[2] \in up \cup {0} THEN Blip ELSE answer = "0" /\ UNCHANGED blips
       /\ Hears(d, r, answer)
  /\ UNCHANGED <<tokenRow, apps, login, session, reborn, oversized>>

\* Every request has been answered: the rows are deleted, by their ids.
DeleteRows(d) ==
  /\ job[d].pc = "sending" /\ job[d].left = {} /\ job[d].asked = {}
  /\ tokenRow' = [t \in Tokens |-> IF t \in job[d].dead THEN "none" ELSE tokenRow[t]]
  /\ Turns(d, NoJob)
  /\ UNCHANGED <<apps, login, session, blips, reborn, oversized>>

\* The function's time is up: the container goes, and the batch is handed out again.
TimesOut ==
  /\ Blip /\ \E d \in Dispatches : job[d].pc = "sending"
  /\ job' = [d \in Dispatches |-> NoJob]
  /\ login' = {} /\ client' = 0 /\ up' = {} /\ closing' = {}
  /\ UNCHANGED <<tokenRow, apps, clients, reborn, oversized>>

-----------------------------------------------------------------------------
\* The apps

\* push.register: the upsert on the token keeps its row's id, and so do its deletions.
Register(t) ==
  /\ Move /\ t \in working /\ t \notin claimed
  /\ tokenRow' = [tokenRow EXCEPT ![t] = "active"] /\ claimed' = claimed \cup {t}
  /\ reborn' = IF \E d \in Dispatches : t \in job[d].dead THEN reborn \cup {t} ELSE reborn
  /\ UNCHANGED <<working, job, login, session, blips, oversized>>

\* push.unregister: a tombstone, so that only registering again revives the row.
Unregister(t) ==
  /\ Move /\ t \in claimed /\ claimed' = claimed \ {t}
  /\ tokenRow' = [tokenRow EXCEPT ![t] = IF @ = "none" THEN "none" ELSE "off"]
  /\ UNCHANGED <<working, job, login, session, blips, reborn, oversized>>

\* The app goes, or comes back and is given the same token.
Uninstall(t) ==
  /\ Move /\ t \in working /\ working' = working \ {t} /\ claimed' = claimed \ {t}
  /\ UNCHANGED <<tokenRow, job, login, session, blips, reborn, oversized>>

Reinstall(t) ==
  /\ Move /\ t \notin working /\ working' = working \cup {t}
  /\ UNCHANGED <<tokenRow, claimed, job, login, session, blips, reborn, oversized>>

-----------------------------------------------------------------------------
PushAdaptersNext ==
  \/ \E d \in Dispatches :
       \/ LoadTokens(d) \/ NoAccessToken(d) \/ Answered(d) \/ Refused(d) \/ DeleteRows(d)
       \/ \E s \in Services : LogIn(d, s) \/ LogInFails(d, s)
       \/ \E t \in Tokens : Post(d, t)
  \/ LoginExpires \/ TimesOut
  \/ \E c \in 1 .. MaxClients : ClientCloses(c) \/ CloseHandled(c)
  \/ \E t \in Tokens : Register(t) \/ Unregister(t) \/ Uninstall(t) \/ Reinstall(t)

PushAdaptersSpec == PushAdaptersInit /\ [][PushAdaptersNext]_pushAdapterVars

-----------------------------------------------------------------------------
\* Properties

PushAdaptersTypeOK ==
  /\ tokenRow \in [Tokens -> {"none", "active", "off"}]
  /\ working \cup claimed \cup reborn \cup oversized \subseteq Tokens
  /\ login \subseteq Services /\ client \in 0 .. clients /\ up \cup closing \subseteq 1 .. clients
  /\ \A d \in Dispatches : /\ job[d].left \cup job[d].dead \subseteq Tokens
                           /\ \A r \in job[d].asked : r[1] \in Tokens /\ r[2] \in 0 .. clients

\* An installed app that has registered keeps its row, whatever the services and the
\* network answer. Except: an event that is too large for FCM counts as a dead token, and
\* a row deleted for an old answer may have been registered again meanwhile.
OnlyDeadRowsGo ==
  \A t \in working \cap claimed : tokenRow[t] = "active" \/ t \in reborn \cup oversized

\* The container has one open HTTP/2 client at most, the cached one (apns.ts:72-89).
OneClient == up \subseteq {client}

=============================================================================
