------------------------------ MODULE ChatList ------------------------------
(***************************************************************************)
(* The list of chats in the app's memory (chat/store.ts bootstrap(),       *)
(* refresh(), upsertChat(), removeChat() and reset()), the requests that   *)
(* fill it (chat.list, chat.get and chat.leave of routers/chat.ts), who    *)
(* starts them (provider.tsx, create-chat.ts, info.tsx), the wake-up that  *)
(* follows an addition (mls/groups.ts, chat-ws-push.ts, chat-ws index.ts,  *)
(* user-inbox.ts) and the rows a list leaves in the account's local        *)
(* database (store-provider.tsx).                                          *)
(*                                                                         *)
(* Fetches run side by side, and neither the sign-out nor a later request  *)
(* stops one. Each change of a chat's rows is a revision of it. The order  *)
(* in which chats are shown is left out.                                   *)
(***************************************************************************)
EXTENDS Naturals, FiniteSets

CONSTANTS
  Viewers,        \* the accounts that sign in on this device
  Conversations,  \* the chats, numbered in the order of createdAt
  EveryonesChats, \* those all accounts are in at the start
  ListLimit,      \* the `limit` of chat.list
  Fetches,        \* bound: requests under way at one time
  MaxAsked,       \* bound: requests of the app
  MaxEdits,       \* bound: changes of rows by others
  MaxVisits,      \* bound: sign-ins
  NoViewer        \* session is null

ASSUME ChatListAssumption ==
  /\ Conversations \subseteq Nat \ {0} /\ EveryonesChats \subseteq Conversations
  /\ Fetches \subseteq Nat /\ NoViewer \notin Viewers
  /\ ListLimit \in Nat \ {0} /\ MaxAsked \in Nat /\ MaxEdits \in Nat /\ MaxVisits \in Nat

VARIABLES
  viewer,       \* the account that is signed in
  revision,     \* revision[c]: how often the chat and its member rows have changed
  joined,       \* joined[c][u]: the revision that inserted u's member row, 0 without one
  woken,        \* the accounts for which a wake-up is under way
  bootstrapStatus,
  record,       \* record[c]: `chats`, the revision that is shown and for whom it was read
  places,       \* places[c]: how often c stands in chatOrder
  request,      \* request[k]: a request, its answer and the rest of its caller
  mirrored,     \* mirrored[u]: the chats in the account's local database
  asked, edits, visits,    \* counters of the bounds
  heard,        \* history: the newest revision of c that came in since the sign-in, 0 for
                \* none and for a chat that a list was cut before
  stale,        \* history: chats of which an older answer came in after a newer one
  missed,       \* history: chats the account was in when a wake-up or a list was lost
  crossed,      \* history: an answer came in after the sign-out of its account
  misled,      \* history: accounts whose database has got the list of another
  been          \* history: been[c]: who has ever been a member

chatListVars == <<viewer, revision, joined, woken, bootstrapStatus, record, places, request,
                  mirrored, asked, edits, visits, heard, stale, missed, crossed, misled, been>>
rowsOfChats  == <<revision, joined, woken, been>>
storeOfChats == <<bootstrapStatus, record, places, heard, stale, crossed>>
counters     == <<asked, edits, visits>>

Mine(u)  == {c \in Conversations : joined[c][u] # 0}
NoRecord == [of |-> NoViewer, at |-> 0]

\* pc: none; sent; read (executed by the server, its answer on the way); due (mirrored
\* to the local database). `got` and `hid` are the chats of the answer and those past
\* its limit, `at` the revisions that were read.
NoRequest == [pc |-> "none", kind |-> "refresh", chat |-> 0, by |-> NoViewer, got |-> {},
              hid |-> {}, at |-> [c \in Conversations |-> 0]]

ChatListInit ==
  /\ viewer = NoViewer /\ revision = [c \in Conversations |-> 1]
  /\ joined = [c \in Conversations |->
                 [u \in Viewers |-> IF c \in EveryonesChats THEN 1 ELSE 0]]
  /\ been = [c \in Conversations |-> IF c \in EveryonesChats THEN Viewers ELSE {}]
  /\ woken = {} /\ bootstrapStatus = "idle"
  /\ record = [c \in Conversations |-> NoRecord] /\ places = [c \in Conversations |-> 0]
  /\ request = [k \in Fetches |-> NoRequest] /\ mirrored = [u \in Viewers |-> {}]
  /\ asked = 0 /\ edits = 0 /\ visits = 0
  /\ heard = [c \in Conversations |-> 0] /\ stale = {} /\ missed = {} /\ crossed = FALSE
  /\ misled = {}

-----------------------------------------------------------------------------
\* The app asks

\* The token is the one of the account that is signed in then.
Fetch(u, kind, c) ==
  /\ asked < MaxAsked /\ asked' = asked + 1
  /\ \E k \in Fetches :
       /\ request[k].pc = "none" /\ \A j \in Fetches : j < k => request[j].pc # "none"
       /\ request' = [request EXCEPT ![k] =
            [NoRequest EXCEPT !.pc = "sent", !.kind = kind, !.chat = c, !.by = u]]

\* bootstrap(): nothing when a list was loaded or is being loaded.
Bootstrap(u) ==
  IF bootstrapStatus \in {"loading", "ready"} THEN UNCHANGED <<bootstrapStatus, request, asked>>
  ELSE bootstrapStatus' = "loading" /\ Fetch(u, "bootstrap", 0)

SignsIn(u) ==
  /\ viewer = NoViewer /\ visits < MaxVisits /\ visits' = visits + 1
  /\ viewer' = u /\ Bootstrap(u)
  /\ UNCHANGED <<rowsOfChats, record, places, mirrored, edits, heard, stale, missed, crossed,
                 misled>>

\* The effect runs again when the local database is attached.
BootstrapsAgain ==
  /\ viewer # NoViewer /\ bootstrapStatus = "error" /\ Bootstrap(viewer)
  /\ UNCHANGED <<viewer, rowsOfChats, record, places, mirrored, edits, visits, heard, stale,
                 missed, crossed, misled>>

\* reset(): the requests go on.
ResetNothing == [c \in Conversations |-> record[c]]      \* a mutant: the chats are kept
ResetChats   == [c \in Conversations |-> NoRecord]

SignsOut ==
  /\ viewer # NoViewer /\ viewer' = NoViewer
  /\ bootstrapStatus' = "idle"
  /\ record' = ResetChats /\ places' = [c \in Conversations |-> 0]
  /\ heard' = [c \in Conversations |-> 0] /\ stale' = {} /\ missed' = {} /\ crossed' = FALSE
  /\ UNCHANGED <<rowsOfChats, request, mirrored, counters, misled>>

Fetching(kind, c) ==
  /\ viewer # NoViewer /\ Fetch(viewer, kind, c)
  /\ UNCHANGED <<viewer, rowsOfChats, storeOfChats, mirrored, edits, visits, missed, misled>>

\* The socket is open.
SocketOpened == Fetching("refresh", 0)

\* refreshChat() and onLeave() of the chat's info screen.
RefreshChat(c) == record[c] # NoRecord /\ Fetching("get", c)
Leave(c)       == record[c] # NoRecord /\ Fetching("leave", c)

-----------------------------------------------------------------------------
\* The server's rows

Edit == edits < MaxEdits /\ edits' = edits + 1

\* What publishWelcomes() asks for: /internal/notify goes on to u's inbox. It is under
\* way from the row on, up to the refresh.
Notified(u) == woken \cup {u}

\* addMembers(), or create() by the account itself.
Joins(c, u) ==
  /\ Edit /\ joined[c][u] = 0
  /\ revision' = [revision EXCEPT ![c] = @ + 1]
  /\ joined' = [joined EXCEPT ![c][u] = revision'[c]]
  /\ woken' = Notified(u) /\ been' = [been EXCEPT ![c] = @ \cup {u}]
  /\ UNCHANGED <<viewer, storeOfChats, request, mirrored, asked, visits, missed, misled>>

\* removeMembers(): nobody is told.
PutOut(c, u) ==
  /\ Edit /\ joined[c][u] # 0
  /\ revision' = [revision EXCEPT ![c] = @ + 1] /\ joined' = [joined EXCEPT ![c][u] = 0]
  /\ UNCHANGED <<viewer, woken, been, storeOfChats, request, mirrored, asked, visits, missed,
                 misled>>

\* Any other change of what chat.list tells of it.
Rewrites(c) ==
  /\ Edit /\ revision' = [revision EXCEPT ![c] = @ + 1]
  /\ UNCHANGED <<viewer, joined, woken, been, storeOfChats, request, mirrored, asked, visits,
                 missed, misled>>

\* The inbox sends the frame to the account's sockets: this device has one when the
\* account is signed in here.
HasSocket(u) == u = viewer

\* onMlsWelcome()
Welcomed(u) ==
  /\ u \in woken /\ woken' = woken \ {u}
  /\ IF HasSocket(u) THEN Fetch(u, "refresh", 0) ELSE UNCHANGED <<request, asked>>
  /\ UNCHANGED <<viewer, revision, joined, been, storeOfChats, mirrored, edits, visits, missed,
                 misled>>

\* A step before it throws, a call fails, or the socket is closed.
WakeUpLost(u) ==
  /\ u \in woken /\ woken' = woken \ {u}
  /\ missed' = IF u = viewer THEN missed \cup Mine(u) ELSE missed
  /\ UNCHANGED <<viewer, revision, joined, been, storeOfChats, request, mirrored, counters,
                 misled>>

-----------------------------------------------------------------------------
\* The server answers

Newest(S) == {c \in S : Cardinality({d \in S : d > c}) < ListLimit}

\* chat.list: the newest chats with a member row of the caller.
ListRead(k) ==
  LET mine == Mine(request[k].by)
  IN  /\ request[k].pc = "sent" /\ request[k].kind \in {"bootstrap", "refresh"}
      /\ request' = [request EXCEPT ![k] = [@ EXCEPT !.pc = "read", !.got = Newest(mine),
                       !.hid = mine \ Newest(mine), !.at = revision]]
      /\ UNCHANGED <<viewer, rowsOfChats, storeOfChats, mirrored, counters, missed, misled>>

\* chat.get: NOT_FOUND without a member row of the caller; refreshChat() catches it.
GetRead(k) ==
  LET c == request[k].chat
  IN  /\ request[k].pc = "sent" /\ request[k].kind = "get"
      /\ request' = [request EXCEPT ![k] =
           IF c \in Mine(request[k].by) THEN [@ EXCEPT !.pc = "read", !.got = {c}, !.at = revision]
           ELSE NoRequest]
      /\ UNCHANGED <<viewer, rowsOfChats, storeOfChats, mirrored, counters, missed, misled>>

\* chat.leave: leaving twice is fine.
LeaveDone(k) ==
  LET c == request[k].chat
      u == request[k].by
  IN  /\ request[k].pc = "sent" /\ request[k].kind = "leave"
      /\ revision' = IF joined[c][u] = 0 THEN revision ELSE [revision EXCEPT ![c] = @ + 1]
      /\ joined' = [joined EXCEPT ![c][u] = 0]
      /\ request' = [request EXCEPT ![k] = [@ EXCEPT !.pc = "read", !.at = revision']]
      /\ UNCHANGED <<viewer, woken, been, storeOfChats, mirrored, counters, missed, misled>>

\* The request or its answer is lost.
RequestFails(k) ==
  /\ request[k].pc \in {"sent", "read"}
  /\ bootstrapStatus' = IF request[k].kind = "bootstrap" THEN "error" ELSE bootstrapStatus
  /\ missed' = IF request[k].kind \in {"bootstrap", "refresh"} /\ request[k].by = viewer
               THEN missed \cup Mine(viewer) ELSE missed
  /\ request' = [request EXCEPT ![k] = NoRequest]
  /\ UNCHANGED <<viewer, rowsOfChats, record, places, heard, stale, crossed, mirrored, counters,
                 misled>>

-----------------------------------------------------------------------------
\* The app goes on

\* mirrorChatsToLocalDb(): into the database of the account that is signed in by now,
\* for which it waits. A failure is caught.
MirrorList(k) ==
  /\ request[k].pc = "read" /\ request[k].kind \in {"bootstrap", "refresh"}
  /\ viewer # NoViewer
  /\ \/ /\ mirrored' = [mirrored EXCEPT ![viewer] = @ \cup request[k].got]
        /\ misled' = IF request[k].by = viewer THEN misled ELSE misled \cup {viewer}
     \/ UNCHANGED <<mirrored, misled>>
  /\ request' = [request EXCEPT ![k].pc = "due"]
  /\ UNCHANGED <<viewer, rowsOfChats, storeOfChats, counters, missed>>

\* What is known of the chats an answer is about, once it has come in.
Hears(k, about) ==
  LET a == request[k]
  IN  /\ heard' = [c \in Conversations |->
                     IF c \in a.hid /\ c \in about THEN 0
                     ELSE IF c \in about /\ a.at[c] > heard[c] THEN a.at[c] ELSE heard[c]]
      /\ stale' = {c \in Conversations :
                     IF c \in about THEN a.at[c] < heard[c] ELSE c \in stale}
      /\ missed' = (missed \ {c \in a.got : a.at[c] = revision[c]}) \cup a.hid
      /\ crossed' = (crossed \/ a.by # viewer)
      /\ request' = [request EXCEPT ![k] = NoRequest]
      /\ UNCHANGED <<viewer, rowsOfChats, mirrored, counters, misled>>

AsRead(k, c) == [of |-> request[k].by, at |-> request[k].at[c]]

\* The map and the order are those of the answer.
Bootstrapped(k) ==
  /\ request[k].pc = "due" /\ request[k].kind = "bootstrap"
  /\ record' = [c \in Conversations |-> IF c \in request[k].got THEN AsRead(k, c) ELSE NoRecord]
  /\ places' = [c \in Conversations |-> IF c \in request[k].got THEN 1 ELSE 0]
  /\ bootstrapStatus' = "ready" /\ Hears(k, Conversations)

\* Merged; nothing is taken away.
PlacedAgain(c) == places[c] + 1                  \* a mutant: chats are added again
Placed(c) == IF places[c] = 0 THEN 1 ELSE places[c]

Refreshed(k) ==
  /\ request[k].pc = "due" /\ request[k].kind = "refresh"
  /\ record' = [c \in Conversations |-> IF c \in request[k].got THEN AsRead(k, c) ELSE record[c]]
  /\ places' = [c \in Conversations |->
                  IF c \in request[k].got THEN Placed(c) ELSE places[c]]
  /\ bootstrapStatus' = "ready" /\ Hears(k, request[k].got)

\* upsertChat()
Upserted(k) ==
  LET c == request[k].chat
  IN  /\ request[k].pc = "read" /\ request[k].kind = "get"
      /\ record' = [record EXCEPT ![c] = AsRead(k, c)]
      /\ places' = [places EXCEPT ![c] = Placed(c)]
      /\ UNCHANGED bootstrapStatus /\ Hears(k, {c})

\* removeChat()
Removed(k) ==
  LET c == request[k].chat
  IN  /\ request[k].pc = "read" /\ request[k].kind = "leave"
      /\ record' = [record EXCEPT ![c] = NoRecord] /\ places' = [places EXCEPT ![c] = 0]
      /\ UNCHANGED bootstrapStatus /\ Hears(k, {c})

-----------------------------------------------------------------------------
RequestStep(k) ==
  \/ ListRead(k) \/ GetRead(k) \/ LeaveDone(k) \/ RequestFails(k) \/ MirrorList(k)
  \/ Bootstrapped(k) \/ Refreshed(k) \/ Upserted(k) \/ Removed(k)

ChatListNext ==
  \/ \E u \in Viewers : SignsIn(u) \/ Welcomed(u) \/ WakeUpLost(u)
  \/ SignsOut \/ BootstrapsAgain \/ SocketOpened
  \/ \E c \in Conversations :
       \/ RefreshChat(c) \/ Leave(c) \/ Rewrites(c)
       \/ \E u \in Viewers : Joins(c, u) \/ PutOut(c, u)
  \/ \E k \in Fetches : RequestStep(k)

ChatListSpec == ChatListInit /\ [][ChatListNext]_chatListVars

-----------------------------------------------------------------------------
\* Properties

FetchRecord ==
  [pc : {"none", "sent", "read", "due"}, kind : {"bootstrap", "refresh", "get", "leave"},
   chat : Conversations \cup {0}, by : Viewers \cup {NoViewer},
   got : SUBSET Conversations, hid : SUBSET Conversations, at : [Conversations -> Nat]]

ChatListTypeOK ==
  /\ viewer \in Viewers \cup {NoViewer} /\ woken \cup misled \subseteq Viewers
  /\ bootstrapStatus \in {"idle", "loading", "ready", "error"}
  /\ revision \in [Conversations -> Nat] /\ joined \in [Conversations -> [Viewers -> Nat]]
  /\ record \in [Conversations -> [of : Viewers \cup {NoViewer}, at : Nat]]
  /\ places \in [Conversations -> Nat] /\ heard \in [Conversations -> Nat]
  /\ request \in [Fetches -> FetchRecord]
  /\ mirrored \in [Viewers -> SUBSET Conversations] /\ been \in [Conversations -> SUBSET Viewers]
  /\ stale \cup missed \subseteq Conversations /\ crossed \in BOOLEAN

\* useChats(), and what the list's screen makes of it.
ShownChats == {c \in Conversations : places[c] # 0 /\ record[c] # NoRecord}
ScreenSays ==
  IF ShownChats # {} THEN "chats"
  ELSE IF bootstrapStatus = "loading" THEN "Loading chats"
  ELSE IF bootstrapStatus = "error" THEN "Couldn't load chats" ELSE "No chats yet"

UnderWay == {k \in Fetches : request[k].pc # "none"}

\* What the list shows, the account may see and the order has once; an answer that
\* outlives its session is the only way around it: it comes in after reset()
\* (store.ts:224-260, 647-660).
ListIsOwn ==
  \A c \in Conversations :
    /\ places[c] = (IF record[c] = NoRecord THEN 0 ELSE 1)
    /\ record[c] # NoRecord => record[c].of = viewer \/ crossed

\* Of a chat that is still as the newest answer about it had it, the list shows just
\* that, and nothing when the account is not in it: unless an older answer came in
\* after that one (the refresh that was read before a leave, say, after it).
ListIsTrue ==
  \A c \in Conversations \ stale :
    viewer # NoViewer /\ heard[c] = revision[c] /\ ~crossed =>
      record[c] = IF c \in Mine(viewer) THEN [of |-> viewer, at |-> revision[c]] ELSE NoRecord

\* When nothing is under way, every chat the account is in is shown, unless a wake-up
\* or a list was lost, the list was cut at its limit, or answers came in out of order.
ListIsWhole ==
  viewer # NoViewer /\ UnderWay = {} /\ viewer \notin woken /\ ~crossed =>
    Mine(viewer) \ (missed \cup stale) \subseteq ShownChats

\* Nobody waits for a list that does not come: the spinner is that of a request.  And
\* nobody who has not seen a list come in is told that there are no chats.
LoadingEnds ==
  /\ bootstrapStatus = "loading" =>
       \E k \in UnderWay : request[k].kind = "bootstrap" /\ request[k].by = viewer
  /\ viewer # NoViewer /\ ScreenSays = "No chats yet" => bootstrapStatus = "ready"

\* The local database has rows of the account's own chats, unless the list of another
\* account was mirrored after a switch (store-provider.tsx:47-68).
MirrorIsOwn ==
  \A u \in Viewers \ misled : \A c \in mirrored[u] : u \in been[c]

ListIsSound == ListIsOwn /\ ListIsTrue /\ ListIsWhole /\ LoadingEnds /\ MirrorIsOwn

=============================================================================
