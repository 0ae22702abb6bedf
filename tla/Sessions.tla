------------------------------- MODULE Sessions -------------------------------
(***************************************************************************)
(* The edge cache of verified sessions (chat-ws/src/auth.ts                *)
(* verifySession(), index.ts handleSessionPurge(), api lib/auth.ts,        *)
(* lib/chat-ws-push.ts purgeSessionCache(), lib/chat-internal.ts           *)
(* handleVerifySession()), for one bearer token.                           *)
(*                                                                         *)
(* Verifications of several connects run side by side. The KV store serves *)
(* an entry from other locations for a while after it was deleted, and may *)
(* miss or fail at any call. Times are ticks of one clock.                 *)
(***************************************************************************)
EXTENDS Naturals

CONSTANTS
  Verifies,   \* bound: connects under way at once
  CacheTtl,   \* cacheTtl()
  ExpiresIn,  \* session.expiresIn
  UpdateAge,  \* session.updateAge
  MaxNow      \* bound of the clock

ASSUME SessionsAssumption ==
  CacheTtl \in Nat /\ ExpiresIn \in Nat \ {0} /\ UpdateAge \in Nat /\ MaxNow \in Nat

VARIABLES
  instant,    \* the clock
  sessionRow, \* the Session row: [live, exp]; a row past its exp is as good as none
  ended,      \* history: when the row was deleted, NoTime while it is there
  edge,       \* edge[i]: the KV entry under the token's hash as location i serves it
  verify,     \* verify[v]: a run of verifySession()
  purging,    \* session.delete.after: a purge request is under way
  admission   \* history: the latest admission of one who began after the end

sessionVars == <<instant, sessionRow, ended, edge, verify, purging, admission>>

NoTime == MaxNow + 1
Locations == {"here", "elsewhere"}   \* where a purge is executed, and anywhere else
\* `asked` and `put` are history: when the origin answered, when the put was executed.
NoEntry  == [exp |-> 0, until |-> 0, asked |-> 0, put |-> 0]
\* pc: none; reads (KV get under way), asks (the origin), puts (KV put).
NoVerify == [pc |-> "none", began |-> 0, withKv |-> TRUE, exp |-> 0, asked |-> 0]
NoAdmission == [began |-> 0, at |-> 0, asked |-> 0, put |-> 0, hit |-> FALSE]

\* When someone who began at that time is admitted.
Admitted(began, rec) ==
  admission' = IF began > ended \/ began >= sessionRow.exp THEN rec ELSE admission

SessionsInit ==
  /\ instant = 0 /\ sessionRow = [live |-> TRUE, exp |-> ExpiresIn] /\ ended = NoTime
  /\ edge = [i \in Locations |-> NoEntry]
  /\ verify = [v \in Verifies |-> NoVerify] /\ purging = FALSE /\ admission = NoAdmission

\* auth.api.getSession: the row is there and not past its end.
IsLive == sessionRow.live /\ instant < sessionRow.exp

-----------------------------------------------------------------------------
\* verifySession()

\* The first statement after the kill-switch reads the clock; without the cache the
\* origin is asked at once.
BeginVerify(v) ==
  /\ verify[v].pc = "none" /\ \A w \in Verifies : w < v => verify[w].pc # "none"
  /\ \E withKv \in BOOLEAN :
       verify' = [verify EXCEPT ![v] =
                    [NoVerify EXCEPT !.pc = IF withKv THEN "reads" ELSE "asks",
                                     !.began = instant, !.withKv = withKv]]
  /\ UNCHANGED <<instant, sessionRow, ended, edge, purging, admission>>

\* What KV serves has not outlived its expirationTtl.
Served(i) == instant < edge[i].until
HitUnguarded(v, i) == Served(i)                \* a mutant: exp is not looked at
Hit(v, i) == Served(i) /\ edge[i].exp > verify[v].began

ReadHit(v) ==
  /\ verify[v].pc = "reads"
  /\ \E i \in Locations :
       /\ Hit(v, i)
       /\ Admitted(verify[v].began,
                   [began |-> verify[v].began, at |-> instant, asked |-> edge[i].asked,
                    put |-> edge[i].put, hit |-> TRUE])
  /\ verify' = [verify EXCEPT ![v] = NoVerify]
  /\ UNCHANGED <<instant, sessionRow, ended, edge, purging>>

\* No entry at this location, one past its exp, or an error.
ReadMiss(v) ==
  /\ verify[v].pc = "reads"
  /\ verify' = [verify EXCEPT ![v].pc = "asks"]
  /\ UNCHANGED <<instant, sessionRow, ended, edge, purging, admission>>

\* The origin answers; getSession puts off the end of a session that has not been
\* refreshed for a while, and tells the new one. An origin of an older version, or a
\* connect without the cache, leaves nothing to store.
Refreshed == IF instant + ExpiresIn >= sessionRow.exp + UpdateAge
             THEN [sessionRow EXCEPT !.exp = instant + ExpiresIn] ELSE sessionRow

Admit(v) == Admitted(verify[v].began,
                     [began |-> verify[v].began, at |-> instant, asked |-> instant,
                      put |-> 0, hit |-> FALSE])

Origin(v) ==
  /\ verify[v].pc = "asks" /\ IsLive
  /\ sessionRow' = Refreshed
  /\ \/ /\ verify[v].withKv
        /\ verify' = [verify EXCEPT ![v] = [@ EXCEPT !.pc = "puts", !.exp = sessionRow'.exp,
                                                     !.asked = instant]]
        /\ UNCHANGED admission
     \/ Admit(v) /\ verify' = [verify EXCEPT ![v] = NoVerify]
  /\ UNCHANGED <<instant, ended, edge, purging>>

\* 401, or no answer: a negative is never stored.
OriginRefuses(v) ==
  /\ verify[v].pc = "asks"
  /\ verify' = [verify EXCEPT ![v] = NoVerify]
  /\ UNCHANGED <<instant, sessionRow, ended, edge, purging, admission>>

\* The put is executed, or fails; the connect goes on. Every location has it.
EntryOf(v) == [exp |-> verify[v].exp, until |-> instant + CacheTtl, asked |-> verify[v].asked,
              put |-> instant]
Put(v) ==
  /\ verify[v].pc = "puts"
  /\ \/ edge' = [i \in Locations |-> EntryOf(v)]
     \/ UNCHANGED edge
  /\ Admit(v) /\ verify' = [verify EXCEPT ![v] = NoVerify]
  /\ UNCHANGED <<instant, sessionRow, ended, purging>>

-----------------------------------------------------------------------------
\* The end of a session

\* Sign-out and revocation delete the row and then run the hook; deleteSelf deletes
\* it by a cascade that no hook sees.
EndSession ==
  /\ sessionRow.live
  /\ sessionRow' = [sessionRow EXCEPT !.live = FALSE] /\ ended' = instant
  /\ purging' \in BOOLEAN
  /\ UNCHANGED <<instant, edge, verify, admission>>

\* handleSessionPurge(): deleted here, still served elsewhere.
Purge ==
  /\ purging /\ purging' = FALSE
  /\ edge' = [edge EXCEPT !["here"] = NoEntry]
  /\ UNCHANGED <<instant, sessionRow, ended, verify, admission>>

\* purgeSessionCache(): the call, or the delete, fails; nobody calls again.
PurgeFails ==
  /\ purging /\ purging' = FALSE
  /\ UNCHANGED <<instant, sessionRow, ended, edge, verify, admission>>

Spreads ==
  /\ edge["here"] = NoEntry /\ edge["elsewhere"] # NoEntry
  /\ edge' = [edge EXCEPT !["elsewhere"] = NoEntry]
  /\ UNCHANGED <<instant, sessionRow, ended, verify, purging, admission>>

Clock ==
  /\ instant < MaxNow /\ instant' = instant + 1
  /\ UNCHANGED <<sessionRow, ended, edge, verify, purging, admission>>

SessionsNext ==
  \/ \E v \in Verifies : BeginVerify(v) \/ ReadHit(v) \/ ReadMiss(v) \/ Origin(v)
                          \/ OriginRefuses(v) \/ Put(v)
  \/ EndSession \/ Purge \/ PurgeFails \/ Spreads \/ Clock

SessionsSpec == SessionsInit /\ [][SessionsNext]_sessionVars

-----------------------------------------------------------------------------
\* Properties

SessionsTypeOK ==
  /\ instant \in 0 .. MaxNow /\ ended \in 0 .. NoTime
  /\ sessionRow.live \in BOOLEAN /\ sessionRow.exp \in 0 .. MaxNow + ExpiresIn
  /\ \A i \in Locations : edge[i].exp \in 0 .. MaxNow + ExpiresIn
                            /\ edge[i].until \in 0 .. MaxNow + CacheTtl
  /\ \A v \in Verifies : verify[v].pc \in {"none", "reads", "asks", "puts"}
  /\ purging \in BOOLEAN

\* Nobody who begins to connect after his session was deleted is admitted, unless by
\* an entry that a verification before the deletion wrote, and then at most CacheTtl
\* after the entry was written: being admitted does not renew it. The entry itself may
\* be written after the deletion and after the purge, which then removes nothing: the
\* lag is bounded by the TTL and the time of that put (auth.ts:5-7, 119-159).
RevokedIsBounded ==
  ended < admission.began =>
    admission.hit /\ admission.asked <= ended /\ admission.at <= admission.put + CacheTtl

\* Nobody is admitted, by the cache or the origin, when he began to connect after the
\* end of the session (auth.ts:117-124): refreshing only puts the end off.
ExpiredIsRefused == admission # NoAdmission => admission.began < sessionRow.exp

SessionsAreHonoured == RevokedIsBounded /\ ExpiredIsRefused

=============================================================================
