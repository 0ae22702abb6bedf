----------------------------- MODULE ServerProofs -----------------------------
(***************************************************************************)
(* Theorems about the components behind the edge, for every value of the   *)
(* constants.  The components share no state; each section gives the       *)
(* inductive invariant, the lemmas it needs and its theorems:              *)
(*   Sessions        SessionInv, the edge's cache of sessions              *)
(*   ChatDirectory   DirectoryInv, the chats' rows and the calls that      *)
(*                   make them                                             *)
(*   Subscriptions   SubscriptionInv, the lists of the user inboxes        *)
(*   PushFanout      FanoutInv, whom a push event is sent for              *)
(*   PushAdapters    AdaptersInv, the token rows and the HTTP/2 client     *)
(*   Signals         SignalsInv, typing and read signals, and ScreenInv,   *)
(*                   what is shown of them                                 *)
(*   Social          AccountInv, CountInv, ReferInv and ReportInv          *)
(* and the last section what holds of all of them together (MCServer).     *)
(***************************************************************************)
EXTENDS MCServer, ChatDOProofs, RanksProofs, FiniteSetTheorems, TLAPS

-----------------------------------------------------------------------------
\* Sessions

Entry == [exp : Nat, until : Nat, asked : Nat, put : Nat]
VerifyRun ==
  [pc : {"none", "reads", "asks", "puts"}, began : Nat, withKv : BOOLEAN, exp : Nat, asked : Nat]

SessionTypes ==
  /\ instant \in 0 .. MaxNow /\ ended \in Nat
  /\ sessionRow \in [live : BOOLEAN, exp : Nat]
  /\ edge \in [Locations -> Entry]
  /\ verify \in [Verifies -> VerifyRun]
  /\ purging \in BOOLEAN
  /\ admission \in [began : Nat, at : Nat, asked : Nat, put : Nat, hit : BOOLEAN]

\* What a run has in hand at the time t: it began in the past, and what it is about to
\* put was true of the session, which had not ended, after it began.
RunIsSound(run, t, row, end) ==
  /\ run.began <= t
  /\ run.pc = "puts" =>
       /\ run.began <= run.asked /\ run.asked <= end /\ run.asked <= t
       /\ run.exp <= row.exp /\ run.began < row.exp

\* An entry was true of the session when the origin told it, before the end.
EntryIsSound(e, t, row, end) ==
  e.exp <= row.exp /\ e.asked <= end /\ e.asked <= t /\ e.until <= e.put + CacheTtl

SessionInv ==
  /\ SessionTypes
  /\ sessionRow.live => ended = NoTime
  /\ admission.began <= instant
  /\ \A v \in Verifies : RunIsSound(verify[v], instant, sessionRow, ended)
  /\ \A i \in Locations : EntryIsSound(edge[i], instant, sessionRow, ended)
  /\ SessionsAreHonoured

LEMMA NoTimeIsLater == NoTime \in Nat /\ \A t \in 0 .. MaxNow : t < NoTime
  BY SessionsAssumption DEF NoTime

LEMMA SessionStarts == SessionsInit => SessionInv
<1> SUFFICES ASSUME SessionsInit PROVE SessionInv
  OBVIOUS
<1>1. /\ NoEntry \in Entry /\ EntryIsSound(NoEntry, 0, [live |-> TRUE, exp |-> ExpiresIn], NoTime)
      /\ NoVerify \in VerifyRun /\ RunIsSound(NoVerify, 0, [live |-> TRUE, exp |-> ExpiresIn], NoTime)
      /\ NoAdmission \in [began : Nat, at : Nat, asked : Nat, put : Nat, hit : BOOLEAN]
      /\ NoAdmission.began = 0
  BY SessionsAssumption, NoTimeIsLater DEF NoEntry, Entry, EntryIsSound, NoVerify, VerifyRun,
     RunIsSound, NoAdmission
<1>2. SessionTypes
  <2>1. instant \in 0 .. MaxNow /\ ended \in Nat /\ ExpiresIn \in Nat
    BY SessionsAssumption, NoTimeIsLater DEF SessionsInit
  <2>2. sessionRow \in [live : BOOLEAN, exp : Nat] /\ purging \in BOOLEAN
    BY <2>1 DEF SessionsInit
  <2> QED BY <1>1, <2>1, <2>2 DEF SessionsInit, SessionTypes
<1>3. \A v \in Verifies : RunIsSound(verify[v], instant, sessionRow, ended)
  BY <1>1 DEF SessionsInit
<1>4. \A i \in Locations : EntryIsSound(edge[i], instant, sessionRow, ended)
  BY <1>1 DEF SessionsInit
<1>5. admission.began <= instant /\ ~(ended < admission.began) /\ admission = NoAdmission
  BY <1>1, NoTimeIsLater DEF SessionsInit
<1>6. SessionsAreHonoured
  BY <1>5 DEF SessionsAreHonoured, RevokedIsBounded, ExpiredIsRefused
<1> QED BY <1>2, <1>3, <1>4, <1>5, <1>6 DEF SessionsInit, SessionInv

\* Who is admitted while the session is there began before its end.
LEMMA AdmittedInTime ==
  ASSUME NEW began, NEW rec, began <= ended, began < sessionRow.exp, began \in Nat,
         ended \in Nat, sessionRow.exp \in Nat, Admitted(began, rec)
  PROVE  UNCHANGED admission
  BY DEF Admitted

\* A longer session takes nothing from what runs and entries rest on.
LEMMA LongerIsSound ==
  ASSUME NEW row \in [live : BOOLEAN, exp : Nat], NEW new \in [live : BOOLEAN, exp : Nat],
         row.exp <= new.exp, NEW t, NEW end
  PROVE  /\ \A run \in VerifyRun : RunIsSound(run, t, row, end) => RunIsSound(run, t, new, end)
         /\ \A e \in Entry : EntryIsSound(e, t, row, end) => EntryIsSound(e, t, new, end)
  BY DEF RunIsSound, EntryIsSound, VerifyRun, Entry

\* A step of one run that leaves the session and its entries alone.
LEMMA RunMoves ==
  ASSUME SessionInv, NEW v \in Verifies, NEW run \in VerifyRun, verify' = [verify EXCEPT ![v] = run],
         UNCHANGED <<instant, sessionRow, ended, edge, purging, admission>>,
         RunIsSound(run, instant, sessionRow, ended)
  PROVE  SessionInv'
<1>1. SessionTypes'
  BY DEF SessionInv, SessionTypes
<1>2. \A w \in Verifies : RunIsSound(verify'[w], instant', sessionRow', ended')
  BY DEF SessionInv, SessionTypes
<1>3. SessionsAreHonoured'
  BY DEF SessionInv, SessionsAreHonoured, RevokedIsBounded, ExpiredIsRefused
<1> QED BY <1>1, <1>2, <1>3 DEF SessionInv

LEMMA SessionStep == SessionInv /\ [SessionsNext]_sessionVars => SessionInv'
<1> SUFFICES ASSUME SessionInv, [SessionsNext]_sessionVars PROVE SessionInv'
  OBVIOUS
<1>0. /\ instant \in 0 .. MaxNow /\ instant \in Nat /\ ended \in Nat /\ sessionRow.exp \in Nat
      /\ sessionRow \in [live : BOOLEAN, exp : Nat]
      /\ edge \in [Locations -> Entry]
      /\ verify \in [Verifies -> VerifyRun] /\ admission.began \in Nat
      /\ CacheTtl \in Nat /\ ExpiresIn \in Nat /\ UpdateAge \in Nat
  BY SessionsAssumption DEF SessionInv, SessionTypes
<1>1. /\ \A v \in Verifies : RunIsSound(verify[v], instant, sessionRow, ended)
      /\ \A i \in Locations : EntryIsSound(edge[i], instant, sessionRow, ended)
      /\ sessionRow.live => ended = NoTime
  BY DEF SessionInv
<1>2. NoVerify \in VerifyRun /\ RunIsSound(NoVerify, instant, sessionRow, ended)
  BY <1>0 DEF NoVerify, VerifyRun, RunIsSound
<1>3. ASSUME NEW v \in Verifies, BeginVerify(v) PROVE SessionInv'
  <2>1. PICK withKv \in BOOLEAN :
          verify' = [verify EXCEPT ![v] =
                       [NoVerify EXCEPT !.pc = IF withKv THEN "reads" ELSE "asks",
                                        !.began = instant, !.withKv = withKv]]
    BY <1>3 DEF BeginVerify
  <2>2. PICK run : run = [NoVerify EXCEPT !.pc = IF withKv THEN "reads" ELSE "asks",
                                          !.began = instant, !.withKv = withKv]
    OBVIOUS
  <2>3. run \in VerifyRun /\ run.pc # "puts" /\ run.began = instant
    BY <1>0, <2>2 DEF NoVerify, VerifyRun
  <2>4. RunIsSound(run, instant, sessionRow, ended)
    BY <1>0, <2>3 DEF RunIsSound
  <2> QED BY <1>3, <2>1, <2>2, <2>3, <2>4, RunMoves DEF BeginVerify
<1>4. ASSUME NEW v \in Verifies, ReadHit(v) PROVE SessionInv'
  <2>1. PICK i \in Locations :
          /\ Hit(v, i)
          /\ Admitted(verify[v].began,
                      [began |-> verify[v].began, at |-> instant, asked |-> edge[i].asked,
                       put |-> edge[i].put, hit |-> TRUE])
    BY <1>4 DEF ReadHit
  <2>2. PICK rec : rec = [began |-> verify[v].began, at |-> instant, asked |-> edge[i].asked,
                          put |-> edge[i].put, hit |-> TRUE]
    OBVIOUS
  <2>3. edge[i] \in Entry /\ verify[v] \in VerifyRun
    BY <1>0
  <2>4. /\ rec \in [began : Nat, at : Nat, asked : Nat, put : Nat, hit : BOOLEAN]
        /\ rec.hit /\ rec.asked <= ended /\ rec.at <= rec.put + CacheTtl
        /\ rec.began <= instant /\ rec.began < sessionRow.exp
    <3>1. instant < edge[i].until /\ edge[i].exp > verify[v].began
      BY <2>1 DEF Hit, Served
    <3>2. EntryIsSound(edge[i], instant, sessionRow, ended) /\ verify[v].began <= instant
      BY <1>1, <2>1 DEF RunIsSound
    <3> QED BY <1>0, <2>2, <2>3, <3>1, <3>2 DEF EntryIsSound, Entry, VerifyRun
  <2>5. admission' = rec \/ admission' = admission
    BY <2>1, <2>2 DEF Admitted
  <2>6. /\ UNCHANGED <<instant, sessionRow, ended, edge, purging>>
        /\ verify' = [verify EXCEPT ![v] = NoVerify]
    BY <1>4 DEF ReadHit
  <2>7. SessionTypes'
    BY <1>2, <2>4, <2>5, <2>6 DEF SessionInv, SessionTypes
  <2>8. SessionsAreHonoured'
    BY <2>4, <2>5, <2>6 DEF SessionInv, SessionsAreHonoured, RevokedIsBounded, ExpiredIsRefused
  <2>9. \A w \in Verifies : RunIsSound(verify'[w], instant, sessionRow, ended)
    BY <1>0, <1>1, <1>2, <2>6
  <2> QED BY <1>1, <2>4, <2>5, <2>6, <2>7, <2>8, <2>9 DEF SessionInv
<1>5. ASSUME NEW v \in Verifies, ReadMiss(v) PROVE SessionInv'
  <2>1. PICK run : run = [verify[v] EXCEPT !.pc = "asks"]
    OBVIOUS
  <2>2. run \in VerifyRun /\ run.pc # "puts" /\ run.began = verify[v].began
    BY <1>0, <2>1 DEF VerifyRun
  <2>3. RunIsSound(run, instant, sessionRow, ended)
    BY <1>1, <2>2 DEF RunIsSound
  <2>4. verify' = [verify EXCEPT ![v] = run]
    BY <1>0, <1>5, <2>1 DEF ReadMiss
  <2> QED BY <1>5, <2>2, <2>3, <2>4, RunMoves DEF ReadMiss
<1>6. ASSUME NEW v \in Verifies, Origin(v) PROVE SessionInv'
  <2>1. /\ sessionRow.live /\ instant < sessionRow.exp /\ sessionRow' = Refreshed
        /\ UNCHANGED <<instant, ended, edge, purging>>
    BY <1>6 DEF Origin, IsLive
  <2>2. /\ sessionRow' \in [live : BOOLEAN, exp : Nat] /\ sessionRow'.live = sessionRow.live
        /\ sessionRow.exp <= sessionRow'.exp
    <3>1. CASE instant + ExpiresIn >= sessionRow.exp + UpdateAge
      <4>1. sessionRow' = [sessionRow EXCEPT !.exp = instant + ExpiresIn]
        BY <2>1, <3>1 DEF Refreshed
      <4>2. instant + ExpiresIn \in Nat /\ sessionRow.exp <= instant + ExpiresIn
        BY <1>0, <3>1
      <4> QED BY <1>0, <4>1, <4>2
    <3>2. CASE ~(instant + ExpiresIn >= sessionRow.exp + UpdateAge)
      <4>1. sessionRow' = sessionRow
        BY <2>1, <3>2 DEF Refreshed
      <4> QED BY <1>0, <4>1
    <3> QED BY <3>1, <3>2
  <2>3. verify[v] \in VerifyRun /\ verify[v].began <= instant /\ instant < ended
    BY <1>0, <1>1, <2>1, NoTimeIsLater DEF RunIsSound
  <2>4. \A i \in Locations : EntryIsSound(edge[i], instant, sessionRow', ended)
    BY <1>0, <1>1, <2>2, LongerIsSound
  <2>5. PICK run \in VerifyRun : /\ verify' = [verify EXCEPT ![v] = run]
                                 /\ RunIsSound(run, instant, sessionRow', ended)
                                 /\ UNCHANGED admission
    <3>1. CASE /\ verify' = [verify EXCEPT ![v] = [@ EXCEPT !.pc = "puts", !.exp = sessionRow'.exp,
                                                             !.asked = instant]]
               /\ UNCHANGED admission
      <4>1. PICK run : run = [verify[v] EXCEPT !.pc = "puts", !.exp = sessionRow'.exp,
                                               !.asked = instant]
        OBVIOUS
      <4>2. /\ run \in VerifyRun /\ run.began = verify[v].began /\ run.asked = instant
            /\ run.exp = sessionRow'.exp /\ verify[v].began \in Nat /\ sessionRow'.exp \in Nat
        BY <1>0, <2>2, <2>3, <4>1 DEF VerifyRun
      <4>3. RunIsSound(run, instant, sessionRow', ended)
        BY <1>0, <2>1, <2>2, <2>3, <4>2 DEF RunIsSound
      <4>4. verify' = [verify EXCEPT ![v] = run]
        BY <3>1, <4>1
      <4> QED BY <3>1, <4>2, <4>3, <4>4
    <3>2. CASE Admit(v) /\ verify' = [verify EXCEPT ![v] = NoVerify]
      <4>1. UNCHANGED admission
        BY <1>0, <2>1, <2>3, <3>2, AdmittedInTime DEF Admit, VerifyRun
      <4>2. RunIsSound(NoVerify, instant, sessionRow', ended)
        BY <1>0 DEF RunIsSound, NoVerify
      <4> QED BY <1>2, <3>2, <4>1, <4>2
    <3> QED BY <1>6, <3>1, <3>2 DEF Origin
  <2>6. \A w \in Verifies : RunIsSound(verify'[w], instant, sessionRow', ended)
    BY <1>0, <1>1, <2>2, <2>5, LongerIsSound
  <2>7. SessionTypes'
    BY <1>0, <2>1, <2>2, <2>5 DEF SessionInv, SessionTypes
  <2>8. SessionsAreHonoured'
    BY <1>0, <2>1, <2>2, <2>5 DEF SessionInv, SessionsAreHonoured, RevokedIsBounded, ExpiredIsRefused
  <2> QED BY <1>1, <2>1, <2>2, <2>4, <2>5, <2>6, <2>7, <2>8 DEF SessionInv
<1>7. ASSUME NEW v \in Verifies, OriginRefuses(v) PROVE SessionInv'
  BY <1>2, <1>7, RunMoves DEF OriginRefuses
<1>8. ASSUME NEW v \in Verifies, Put(v) PROVE SessionInv'
  <2>1. /\ verify[v].pc = "puts" /\ UNCHANGED <<instant, sessionRow, ended, purging>>
        /\ Admit(v) /\ verify' = [verify EXCEPT ![v] = NoVerify]
        /\ edge' = [i \in Locations |-> EntryOf(v)] \/ UNCHANGED edge
    BY <1>8 DEF Put
  <2>2. /\ verify[v] \in VerifyRun /\ verify[v].began <= verify[v].asked
        /\ verify[v].asked <= ended /\ verify[v].asked <= instant
        /\ verify[v].exp <= sessionRow.exp /\ verify[v].began < sessionRow.exp
    BY <1>0, <1>1, <2>1 DEF RunIsSound
  <2>3. UNCHANGED admission
    BY <1>0, <2>1, <2>2, AdmittedInTime DEF Admit, VerifyRun
  <2>4. PICK e : e = EntryOf(v)
    OBVIOUS
  <2>5. e \in Entry /\ EntryIsSound(e, instant, sessionRow, ended)
    BY <1>0, <2>2, <2>4 DEF EntryOf, Entry, EntryIsSound, VerifyRun
  <2>6. edge' \in [Locations -> Entry]
        /\ \A i \in Locations : EntryIsSound(edge'[i], instant, sessionRow, ended)
    BY <1>0, <1>1, <2>1, <2>4, <2>5
  <2>7. \A w \in Verifies : RunIsSound(verify'[w], instant, sessionRow, ended)
    BY <1>0, <1>1, <1>2, <2>1
  <2>8. SessionTypes'
    BY <1>0, <1>2, <2>1, <2>3, <2>6 DEF SessionInv, SessionTypes
  <2>9. SessionsAreHonoured'
    BY <2>1, <2>3 DEF SessionInv, SessionsAreHonoured, RevokedIsBounded, ExpiredIsRefused
  <2> QED BY <1>1, <2>1, <2>3, <2>6, <2>7, <2>8, <2>9 DEF SessionInv
<1>9. CASE EndSession
  <2>1. /\ sessionRow.live /\ sessionRow' = [sessionRow EXCEPT !.live = FALSE]
        /\ ended' = instant /\ purging' \in BOOLEAN /\ UNCHANGED <<instant, edge, verify, admission>>
    BY <1>9 DEF EndSession
  <2>2. /\ sessionRow' \in [live : BOOLEAN, exp : Nat] /\ sessionRow'.live = FALSE
        /\ sessionRow'.exp = sessionRow.exp
    BY <1>0, <2>1
  <2>3. SessionTypes'
    BY <1>0, <2>1, <2>2 DEF SessionInv, SessionTypes
  <2>4. ASSUME NEW w \in Verifies PROVE RunIsSound(verify[w], instant, sessionRow', instant)
    BY <1>1, <2>2 DEF RunIsSound
  <2>5. ASSUME NEW i \in Locations PROVE EntryIsSound(edge[i], instant, sessionRow', instant)
    BY <1>1, <2>2 DEF EntryIsSound
  <2>6. admission.began <= instant
    BY DEF SessionInv
  <2>7. SessionsAreHonoured'
    BY <1>0, <2>1, <2>2, <2>6 DEF SessionInv, SessionsAreHonoured, RevokedIsBounded, ExpiredIsRefused
  <2> QED BY <2>1, <2>2, <2>3, <2>4, <2>5, <2>6, <2>7 DEF SessionInv
<1>10. CASE Purge \/ PurgeFails \/ Spreads
  <2>1. /\ UNCHANGED <<instant, sessionRow, ended, verify, admission>> /\ purging' \in BOOLEAN
        /\ edge' = edge \/ \E i \in Locations : edge' = [edge EXCEPT ![i] = NoEntry]
    BY <1>10 DEF Purge, PurgeFails, Spreads, Locations, SessionInv, SessionTypes
  <2>2. NoEntry \in Entry /\ EntryIsSound(NoEntry, instant, sessionRow, ended)
    BY <1>0 DEF NoEntry, Entry, EntryIsSound
  <2>3. /\ edge' \in [Locations -> Entry]
        /\ \A i \in Locations : EntryIsSound(edge'[i], instant, sessionRow, ended)
    BY <1>0, <1>1, <2>1, <2>2
  <2>4. SessionTypes'
    BY <2>1, <2>3 DEF SessionInv, SessionTypes
  <2>5. SessionsAreHonoured'
    BY <2>1 DEF SessionInv, SessionsAreHonoured, RevokedIsBounded, ExpiredIsRefused
  <2> QED BY <2>1, <2>3, <2>4, <2>5 DEF SessionInv
<1>11. CASE Clock \/ UNCHANGED sessionVars
  <2>1. /\ instant' \in 0 .. MaxNow /\ instant <= instant'
        /\ UNCHANGED <<sessionRow, ended, edge, verify, purging, admission>>
    BY <1>0, <1>11, SessionsAssumption DEF Clock, sessionVars
  <2>2. SessionTypes'
    BY <2>1 DEF SessionInv, SessionTypes
  <2>3. ASSUME NEW w \in Verifies PROVE RunIsSound(verify[w], instant', sessionRow, ended)
    <3>1. verify[w] \in VerifyRun /\ RunIsSound(verify[w], instant, sessionRow, ended)
      BY <1>0, <1>1
    <3> QED BY <1>0, <2>1, <3>1 DEF RunIsSound, VerifyRun
  <2>4. ASSUME NEW i \in Locations PROVE EntryIsSound(edge[i], instant', sessionRow, ended)
    <3>1. edge[i] \in Entry /\ EntryIsSound(edge[i], instant, sessionRow, ended)
      BY <1>0, <1>1
    <3> QED BY <1>0, <2>1, <3>1 DEF EntryIsSound, Entry
  <2>5. admission.began <= instant'
    BY <1>0, <2>1 DEF SessionInv
  <2>6. SessionsAreHonoured'
    BY <2>1 DEF SessionInv, SessionsAreHonoured, RevokedIsBounded, ExpiredIsRefused
  <2> QED BY <1>1, <2>1, <2>2, <2>3, <2>4, <2>5, <2>6 DEF SessionInv
<1> QED BY <1>3, <1>4, <1>5, <1>6, <1>7, <1>8, <1>9, <1>10, <1>11 DEF SessionsNext

\* A session that ended admits nobody who begins afterwards, but by an entry that a
\* verification from before put, and no longer than the entry's TTL; a session that ran
\* out admits nobody, refreshed or not (auth.ts verifySession(), purgeSessionCache()).
THEOREM SessionsHonoured == SessionsSpec => []SessionsAreHonoured
<1>1. SessionInv => SessionsAreHonoured
  BY DEF SessionInv
<1> QED BY <1>1, SessionStarts, SessionStep, PTL DEF SessionsSpec

\* The times are within the bound of the clock.
TimesInBound ==
  /\ ended <= NoTime /\ sessionRow.exp <= MaxNow + ExpiresIn
  /\ \A i \in Locations : edge[i].put <= MaxNow

LEMMA TimesStay == SessionInv /\ TimesInBound /\ [SessionsNext]_sessionVars => TimesInBound'
<1> SUFFICES ASSUME SessionInv, TimesInBound, [SessionsNext]_sessionVars PROVE TimesInBound'
  OBVIOUS
<1>0. /\ instant \in 0 .. MaxNow /\ sessionRow \in [live : BOOLEAN, exp : Nat]
      /\ edge \in [Locations -> Entry] /\ MaxNow \in Nat /\ ExpiresIn \in Nat
  BY SessionsAssumption DEF SessionInv, SessionTypes
<1>1. ended' <= NoTime
  <2>1. ended' \in {ended, instant}
    BY DEF SessionsNext, sessionVars, BeginVerify, ReadHit, ReadMiss, Origin, OriginRefuses, Put,
           EndSession, Purge, PurgeFails, Spreads, Clock
  <2> QED BY <1>0, <2>1 DEF TimesInBound, NoTime
<1>2. sessionRow'.exp <= MaxNow + ExpiresIn
  <2>1. sessionRow' \in {sessionRow, Refreshed, [sessionRow EXCEPT !.live = FALSE]}
    BY DEF SessionsNext, sessionVars, BeginVerify, ReadHit, ReadMiss, Origin, OriginRefuses, Put,
           EndSession, Purge, PurgeFails, Spreads, Clock
  <2>2. Refreshed.exp \in {sessionRow.exp, instant + ExpiresIn}
    BY <1>0 DEF Refreshed
  <2>3. [sessionRow EXCEPT !.live = FALSE].exp = sessionRow.exp
    BY <1>0
  <2>4. sessionRow'.exp \in {sessionRow.exp, instant + ExpiresIn}
    BY <2>1, <2>2, <2>3
  <2> QED BY <1>0, <2>4 DEF TimesInBound
<1>3. \A i \in Locations : edge'[i].put <= MaxNow
  <2>1. NoEntry.put = 0 /\ \A v \in Verifies : EntryOf(v).put = instant
    BY DEF NoEntry, EntryOf
  <2>2. \A i \in Locations : \/ edge'[i] \in {edge[i], NoEntry}
                             \/ \E v \in Verifies : edge'[i] = EntryOf(v)
    BY <1>0 DEF SessionsNext, sessionVars, BeginVerify, ReadHit, ReadMiss, Origin, OriginRefuses,
                Put, EndSession, Purge, PurgeFails, Spreads, Clock
  <2> QED BY <1>0, <2>1, <2>2 DEF TimesInBound
<1> QED BY <1>1, <1>2, <1>3 DEF TimesInBound

LEMMA SessionTypesHold == SessionsSpec => []SessionsTypeOK
<1>1. SessionInv /\ TimesInBound => SessionsTypeOK
  <2> SUFFICES ASSUME SessionInv, TimesInBound PROVE SessionsTypeOK
    OBVIOUS
  <2>1. SessionTypes
    BY DEF SessionInv
  <2>2. /\ ended \in 0 .. NoTime /\ sessionRow.live \in BOOLEAN
        /\ sessionRow.exp \in 0 .. MaxNow + ExpiresIn
    BY <2>1, SessionsAssumption DEF SessionTypes, TimesInBound, NoTime
  <2>3. ASSUME NEW i \in Locations
        PROVE  edge[i].exp \in 0 .. MaxNow + ExpiresIn /\ edge[i].until \in 0 .. MaxNow + CacheTtl
    <3>1. edge[i] \in Entry /\ EntryIsSound(edge[i], instant, sessionRow, ended)
      BY <2>1 DEF SessionInv, SessionTypes
    <3>2. edge[i].put <= MaxNow /\ sessionRow.exp <= MaxNow + ExpiresIn
      BY DEF TimesInBound
    <3>3. sessionRow.exp \in Nat
      BY <2>1 DEF SessionTypes
    <3> QED BY <3>1, <3>2, <3>3, SessionsAssumption DEF EntryIsSound, Entry
  <2>4. \A v \in Verifies : verify[v].pc \in {"none", "reads", "asks", "puts"}
    BY <2>1 DEF SessionTypes, VerifyRun
  <2> QED BY <2>1, <2>2, <2>3, <2>4 DEF SessionTypes, SessionsTypeOK
<1>2. SessionsInit => TimesInBound
  BY SessionsAssumption DEF SessionsInit, TimesInBound, NoTime, NoEntry
<1> QED BY <1>1, <1>2, SessionStarts, SessionStep, TimesStay, PTL DEF SessionsSpec

-----------------------------------------------------------------------------
\* ChatDirectory

ChatRow == [kind : {"direct", "group"}, members : SUBSET Persons, by : Callers, group : Nat]

StartPcs == {"idle", "asked", "allowed", "absent", "found", "created", "grouped", "linking",
             "linked", "done"}
InHand   == {"found", "created", "grouped", "linking", "linked", "done"}
HasGroup == {"grouped", "linking", "linked"}

StartCall ==
  [pc : StartPcs, kind : {"direct", "group"}, peers : SUBSET Persons, chat : Nat, group : Nat,
   provisioned : BOOLEAN]

DirectoryTypes ==
  /\ chats \in Seq(ChatRow) /\ groups \in Seq(SUBSET Persons)
  /\ start \in [Callers -> StartCall]
  /\ createRaced \in BOOLEAN /\ blockRaced \in BOOLEAN /\ linkRaced \in BOOLEAN
  /\ grown \in BOOLEAN

\* The chats that somebody has linked and is about to invite to.
Inviting == {start[v].chat : v \in {w \in Callers : At(w, "linked")}}

\* Those of S are in the chat's group, are about to be, or are known not to be.
Covered(c, S) ==
  chats[c].group # 0 =>
    \/ S \subseteq groups[chats[c].group]
    \/ c \in Inviting \/ c \in uninvited \/ linkRaced \/ grown

\* What the call s of u rests on before it has a chat ...
AskIsSound(u, s) ==
  /\ s.pc # "idle" /\ s.kind = "direct" => \E w \in Persons : w # u /\ s.peers = {w}
  /\ s.pc \in PastCheck => blockRaced \/ \A v \in s.peers : ~Blocked(u, v)
  /\ s.pc = "absent" /\ s.kind = "direct" =>
       \/ createRaced \/ grown
       \/ \A c \in DOMAIN chats :
            chats[c].kind = "direct" => ~(s.peers \cup {u} \subseteq chats[c].members)

\* ... when it has one ...
HandIsSound(u, s) ==
  s.pc \in InHand =>
    /\ s.chat \in DOMAIN chats /\ chats[s.chat].kind = s.kind
    /\ grown \/ chats[s.chat].members \subseteq s.peers \cup {u}
    /\ Covered(s.chat, s.peers \cup {u})

\* ... and when it links a group to it.
GroupIsSound(u, s) ==
  /\ s.pc \in HasGroup => s.group \in DOMAIN groups /\ u \in groups[s.group]
  /\ s.pc = "linking" => chats[s.chat].group = 0 \/ linkRaced
  /\ s.pc = "linked" =>
       chats[s.chat].group # 0 /\ (chats[s.chat].group = s.group \/ linkRaced)
  /\ s.pc = "done" /\ s.provisioned => chats[s.chat].group # 0

CallIsSound(u, s) == AskIsSound(u, s) /\ HandIsSound(u, s) /\ GroupIsSound(u, s)

\* Two calls that have the same chat in hand are about the same people.
Agree(u, s, v, t) ==
  s.pc \in InHand /\ t.pc \in InHand /\ s.chat = t.chat =>
    grown \/ s.peers \cup {u} = t.peers \cup {v}

RowIsSound(c) ==
  /\ chats[c].group \in 0 .. Len(groups)
  /\ Covered(c, chats[c].members)
  /\ chats[c].kind = "direct" => grown \/ \E a, b \in Persons : chats[c].members \subseteq {a, b}

\* Two direct chats have at most one person in common.
Apart(c, d) ==
  c # d /\ chats[c].kind = "direct" /\ chats[d].kind = "direct" =>
    \/ createRaced \/ grown
    \/ \A a, b \in chats[c].members \cap chats[d].members : a = b

DirectoryInv ==
  /\ DirectoryTypes
  /\ \A u \in Callers : CallIsSound(u, start[u])
  /\ \A u, v \in Callers : Agree(u, start[u], v, start[v])
  /\ \A c \in DOMAIN chats : RowIsSound(c)
  /\ \A c, d \in DOMAIN chats : Apart(c, d)
  /\ \A x, y : <<x, y>> \in blocks => x # y
  /\ NoChatAcrossBlock

LEMMA DirectoryStarts == DirectoryInit => DirectoryInv
<1> SUFFICES ASSUME DirectoryInit PROVE DirectoryInv
  OBVIOUS
<1>1. chats = << >> /\ groups = << >> /\ DOMAIN << >> = {} /\ blocks = {}
  BY DEF DirectoryInit
<1>2. NoStart \in StartCall /\ NoStart.pc = "idle"
  BY DEF NoStart, StartCall, StartPcs
<1>3. \A u \in Callers : start[u] = NoStart
  BY DEF DirectoryInit
<1>4. DirectoryTypes
  <2>1. chats \in Seq(ChatRow) /\ groups \in Seq(SUBSET Persons)
    BY <1>1
  <2>2. start \in [Callers -> StartCall]
    BY <1>2 DEF DirectoryInit
  <2> QED BY <2>1, <2>2 DEF DirectoryInit, DirectoryTypes
<1>5. \A u \in Callers : CallIsSound(u, start[u])
  BY <1>2, <1>3 DEF CallIsSound, AskIsSound, HandIsSound, GroupIsSound, InHand, HasGroup, PastCheck
<1>6. \A u, v \in Callers : Agree(u, start[u], v, start[v])
  BY <1>2, <1>3 DEF Agree, InHand
<1> QED BY <1>1, <1>4, <1>5, <1>6 DEF DirectoryInv, NoChatAcrossBlock

\* A step of one call that changes nothing else.
LEMMA CallMoves ==
  ASSUME DirectoryInv, NEW u \in Callers, NEW s \in StartCall, start' = [start EXCEPT ![u] = s],
         UNCHANGED <<chats, groups, blocks, past>>, start[u].pc # "linked", s.pc # "linked",
         CallIsSound(u, s), \A v \in Callers \ {u} : Agree(u, s, v, start[v])
  PROVE  DirectoryInv'
<1>0. start \in [Callers -> StartCall]
  BY DEF DirectoryInv, DirectoryTypes
<1>1. Inviting' = Inviting
  BY <1>0 DEF Inviting, At
<1>2. /\ \A c, S : Covered(c, S)' <=> Covered(c, S)
      /\ UNCHANGED <<chats, groups, blocks, met, createRaced, blockRaced, linkRaced, grown, uninvited>>
  BY <1>1 DEF Covered, past
<1>3. /\ start'[u] = s /\ \A v \in Callers \ {u} : start'[v] = start[v]
  BY <1>0
<1>4. ASSUME NEW v \in Callers PROVE CallIsSound(v, start[v])'
  <2>1. CASE v = u
    BY <1>2, <1>3, <2>1 DEF CallIsSound, AskIsSound, HandIsSound, GroupIsSound, Blocked
  <2>2. CASE v # u
    <3>1. CallIsSound(v, start[v])
      BY DEF DirectoryInv
    <3> QED BY <1>2, <1>3, <2>2, <3>1 DEF CallIsSound, AskIsSound, HandIsSound, GroupIsSound, Blocked
  <2> QED BY <2>1, <2>2
<1>5. ASSUME NEW v \in Callers, NEW w \in Callers PROVE Agree(v, start[v], w, start[w])'
  <2>1. Agree(v, start[v], w, start[w])
    BY DEF DirectoryInv
  <2> QED BY <1>2, <1>3, <2>1 DEF Agree
<1>6. ASSUME NEW c \in DOMAIN chats' PROVE RowIsSound(c)'
  BY <1>2 DEF DirectoryInv, RowIsSound
<1>7. ASSUME NEW c \in DOMAIN chats', NEW d \in DOMAIN chats' PROVE Apart(c, d)'
  BY <1>2 DEF DirectoryInv, Apart
<1>8. DirectoryTypes' /\ NoChatAcrossBlock'
  BY <1>0, <1>2 DEF DirectoryInv, DirectoryTypes, NoChatAcrossBlock
<1> QED BY <1>2, <1>4, <1>5, <1>6, <1>7, <1>8 DEF DirectoryInv

LEMMA StartTypes ==
  ASSUME DirectoryInv, NEW u \in Callers
  PROVE  /\ start[u] \in StartCall /\ start[u].pc \in StartPcs /\ start[u].kind \in {"direct", "group"}
         /\ start[u].peers \subseteq Persons /\ start[u].chat \in Nat /\ start[u].group \in Nat
         /\ u \in Persons /\ AskIsSound(u, start[u]) /\ HandIsSound(u, start[u])
         /\ GroupIsSound(u, start[u])
         /\ NoStart \in StartCall /\ NoStart.pc = "idle" /\ NoStart.chat = 0 /\ NoStart.group = 0
         /\ NoStart.provisioned = FALSE
<1>1. start[u] \in StartCall /\ NoStart \in StartCall /\ u \in Persons
  BY DirectoryAssumption DEF DirectoryInv, DirectoryTypes, StartCall, NoStart, StartPcs
<1>2. CallIsSound(u, start[u])
  BY DEF DirectoryInv
<1> QED BY <1>1, <1>2 DEF StartCall, NoStart, CallIsSound

LEMMA OneIsOther ==
  ASSUME NEW S, IsFiniteSet(S), Cardinality(S) = 1
  PROVE  \E w : S = {w}
  BY FS_Singleton

LEMMA NewChatKeeps ==
  ASSUME DirectoryInv, NEW u \in Callers, NEW ask \in Asked, NewChat(u, ask[1], ask[2])
  PROVE  DirectoryInv'
<1>1. /\ At(u, "idle") /\ u \notin ask[2] /\ (ask[1] = "direct" => Cardinality(ask[2]) = 1)
      /\ Go(u, [NoStart EXCEPT !.pc = "asked", !.kind = ask[1], !.peers = ask[2]])
      /\ UNCHANGED <<chats, groups, blocks, past>>
  BY DEF NewChat
<1>2. ask[1] \in {"direct", "group"} /\ ask[2] \in SUBSET Persons /\ IsFiniteSet(ask[2])
  BY DirectoryAssumption
<1>3. ask[1] = "direct" => \E w \in Persons : w # u /\ ask[2] = {w}
  BY <1>1, <1>2, OneIsOther
<1>4. PICK s : s = [NoStart EXCEPT !.pc = "asked", !.kind = ask[1], !.peers = ask[2]]
  OBVIOUS
<1>5. s \in StartCall /\ s.pc = "asked" /\ s.kind = ask[1] /\ s.peers = ask[2]
  BY <1>2, <1>4 DEF NoStart, StartCall, StartPcs
<1>6. CallIsSound(u, s) /\ \A v \in Callers : Agree(u, s, v, start[v])
  BY <1>3, <1>5
  DEF CallIsSound, AskIsSound, HandIsSound, GroupIsSound, Agree, InHand, HasGroup, PastCheck
<1>7. start[u].pc # "linked" /\ start' = [start EXCEPT ![u] = s]
  BY <1>1, <1>4 DEF At, Go
<1> QED BY <1>1, <1>5, <1>6, <1>7, CallMoves

\* The call ends and gives up what it had.
LEMMA CallEnds ==
  ASSUME DirectoryInv, NEW u \in Callers, Go(u, NoStart), start[u].pc # "linked",
         UNCHANGED <<chats, groups, blocks, past>>
  PROVE  DirectoryInv'
<1>1. CallIsSound(u, NoStart) /\ \A v \in Callers : Agree(u, NoStart, v, start[v])
  BY StartTypes
  DEF CallIsSound, AskIsSound, HandIsSound, GroupIsSound, Agree, InHand, HasGroup, PastCheck
<1> QED BY <1>1, StartTypes, CallMoves DEF Go

\* The call goes on with the same people, and the same chat when it has one.
LEMMA CallGoesOn ==
  ASSUME DirectoryInv, NEW u \in Callers, NEW s \in StartCall, Go(u, s), start[u].pc # "linked",
         s.pc # "linked", s.chat = start[u].chat, s.peers = start[u].peers,
         s.pc \in InHand => start[u].pc \in InHand, CallIsSound(u, s),
         UNCHANGED <<chats, groups, blocks, past>>
  PROVE  DirectoryInv'
<1>1. \A v \in Callers : Agree(u, s, v, start[v])
  BY DEF DirectoryInv, Agree
<1> QED BY <1>1, CallMoves DEF Go

LEMMA CheckBlocksKeeps ==
  ASSUME DirectoryInv, NEW u \in Callers, CheckBlocks(u)
  PROVE  DirectoryInv'
<1>1. At(u, "asked") /\ UNCHANGED <<chats, groups, blocks, past>>
  BY DEF CheckBlocks
<1>2. CASE \E v \in start[u].peers : Blocked(u, v)
  BY <1>1, <1>2, CallEnds DEF CheckBlocks, At
<1>3. CASE ~\E v \in start[u].peers : Blocked(u, v)
  <2>1. PICK s : s = [start[u] EXCEPT !.pc = "allowed"]
    OBVIOUS
  <2>2. /\ s \in StartCall /\ s.pc = "allowed" /\ s.kind = start[u].kind
        /\ s.peers = start[u].peers /\ s.chat = start[u].chat
    BY <2>1, StartTypes DEF StartCall, StartPcs
  <2>3. CallIsSound(u, s)
    <3>1. AskIsSound(u, s)
      BY <1>1, <1>3, <2>2, StartTypes DEF AskIsSound, At
    <3> QED BY <2>2, <3>1 DEF CallIsSound, HandIsSound, GroupIsSound, InHand, HasGroup
  <2>4. Go(u, s)
    BY <1>3, <2>1 DEF CheckBlocks
  <2> QED BY <1>1, <2>2, <2>3, <2>4, CallGoesOn DEF At, InHand
<1> QED BY <1>2, <1>3

\* What a candidate's row says about everybody who has that chat in hand.
LEMMA CandidateFits ==
  ASSUME DirectoryInv, NEW u \in Callers, start[u].pc # "idle", NEW c \in Candidates(u)
  PROVE  /\ c \in DOMAIN chats /\ start[u].kind = "direct" /\ chats[c].kind = "direct"
         /\ grown \/ chats[c].members = start[u].peers \cup {u}
         /\ Covered(c, start[u].peers \cup {u})
         /\ \A v \in Callers : start[v].pc \in InHand /\ start[v].chat = c =>
              grown \/ start[u].peers \cup {u} = start[v].peers \cup {v}
<1> DEFINE S == start[u].peers \cup {u}
<1>1. /\ start[u].kind = "direct" /\ c \in DOMAIN chats /\ chats[c].kind = "direct"
      /\ S \subseteq chats[c].members
  BY StartTypes DEF Candidates
<1>2. PICK w : w # u /\ start[u].peers = {w}
  BY <1>1, StartTypes DEF AskIsSound
<1>3. RowIsSound(c)
  BY <1>1 DEF DirectoryInv
<1>4. grown \/ chats[c].members = S
  BY <1>1, <1>2, <1>3 DEF RowIsSound
<1>5. Covered(c, S)
  BY <1>3, <1>4 DEF RowIsSound, Covered
<1>6. ASSUME NEW v \in Callers, start[v].pc \in InHand, start[v].chat = c, ~grown
      PROVE  S = start[v].peers \cup {v}
  <2>1. AskIsSound(v, start[v]) /\ HandIsSound(v, start[v])
    BY <1>6, StartTypes
  <2>2. /\ start[v].kind = "direct" /\ start[v].pc # "idle"
        /\ chats[c].members \subseteq start[v].peers \cup {v}
    BY <1>1, <1>6, <2>1 DEF HandIsSound, InHand
  <2>3. PICK x : x # v /\ start[v].peers = {x}
    BY <2>1, <2>2 DEF AskIsSound
  <2> QED BY <1>2, <1>4, <1>6, <2>2, <2>3
<1> QED BY <1>1, <1>4, <1>5, <1>6

LEMMA FindDirectKeeps ==
  ASSUME DirectoryInv, NEW u \in Callers, FindDirect(u)
  PROVE  DirectoryInv'
<1>1. At(u, "allowed") /\ UNCHANGED <<chats, groups, blocks, past>>
  BY DEF FindDirect
<1>2. CASE Candidates(u) = {}
  <2>1. PICK s : s = [start[u] EXCEPT !.pc = "absent"]
    OBVIOUS
  <2>2. /\ s \in StartCall /\ s.pc = "absent" /\ s.kind = start[u].kind
        /\ s.peers = start[u].peers /\ s.chat = start[u].chat
    BY <2>1, StartTypes DEF StartCall, StartPcs
  <2>3. s.kind = "direct" =>
          \A c \in DOMAIN chats :
            chats[c].kind = "direct" => ~(s.peers \cup {u} \subseteq chats[c].members)
    BY <1>2, <2>2 DEF Candidates
  <2>4. CallIsSound(u, s)
    <3>1. AskIsSound(u, s)
      BY <1>1, <2>2, <2>3, StartTypes DEF AskIsSound, At, PastCheck
    <3> QED BY <2>2, <3>1 DEF CallIsSound, HandIsSound, GroupIsSound, InHand, HasGroup
  <2>5. Go(u, s)
    BY <1>2, <2>1 DEF FindDirect
  <2> QED BY <1>1, <2>2, <2>4, <2>5, CallGoesOn DEF At, InHand
<1>3. CASE Candidates(u) # {}
  <2>1. PICK c \in Candidates(u) : Go(u, [start[u] EXCEPT !.pc = "found", !.chat = c])
    BY <1>3 DEF FindDirect
  <2>2. PICK s : s = [start[u] EXCEPT !.pc = "found", !.chat = c]
    OBVIOUS
  <2>3. /\ c \in DOMAIN chats /\ start[u].kind = "direct" /\ chats[c].kind = "direct"
        /\ grown \/ chats[c].members = start[u].peers \cup {u}
        /\ Covered(c, start[u].peers \cup {u})
        /\ \A v \in Callers : start[v].pc \in InHand /\ start[v].chat = c =>
             grown \/ start[u].peers \cup {u} = start[v].peers \cup {v}
    BY <1>1, CandidateFits DEF At
  <2>4. c \in Nat
    BY <2>3 DEF DirectoryInv, DirectoryTypes
  <2>5. /\ s \in StartCall /\ s.pc = "found" /\ s.kind = start[u].kind
        /\ s.peers = start[u].peers /\ s.chat = c
    BY <2>2, <2>4, StartTypes DEF StartCall, StartPcs
  <2>6. CallIsSound(u, s)
    <3>1. AskIsSound(u, s)
      BY <1>1, <2>5, StartTypes DEF AskIsSound, At, PastCheck
    <3>2. HandIsSound(u, s)
      BY <2>3, <2>5 DEF HandIsSound
    <3> QED BY <2>5, <3>1, <3>2 DEF CallIsSound, GroupIsSound, HasGroup
  <2>7. \A v \in Callers : Agree(u, s, v, start[v])
    BY <2>3, <2>5 DEF Agree
  <2> QED BY <1>1, <2>1, <2>2, <2>5, <2>6, <2>7, CallMoves DEF At, Go
<1> QED BY <1>2, <1>3

LEMMA GetChatKeeps ==
  ASSUME DirectoryInv, NEW u \in Callers, GetChat(u)
  PROVE  DirectoryInv'
<1>1. At(u, "found") /\ UNCHANGED <<chats, groups, blocks, past>>
  BY DEF GetChat
<1>2. CASE Go(u, NoStart)
  BY <1>1, <1>2, CallEnds DEF At
<1>3. ASSUME NEW p \in {"created", "done"}, NEW told \in BOOLEAN,
             Go(u, [start[u] EXCEPT !.pc = p, !.provisioned = told]),
             p = "done" => chats[start[u].chat].group # 0
      PROVE  DirectoryInv'
  <2>1. PICK s : s = [start[u] EXCEPT !.pc = p, !.provisioned = told]
    OBVIOUS
  <2>2. /\ s \in StartCall /\ s.pc = p /\ s.kind = start[u].kind /\ s.peers = start[u].peers
        /\ s.chat = start[u].chat /\ s.group = start[u].group
    BY <2>1, StartTypes DEF StartCall, StartPcs
  <2>3. CallIsSound(u, s)
    <3>1. AskIsSound(u, s)
      <4>1. s.kind = "direct" => \E w \in Persons : w # u /\ s.peers = {w}
        <5>1. AskIsSound(u, start[u])
          BY StartTypes
        <5> QED BY <1>1, <2>2, <5>1 DEF AskIsSound, At
      <4>2. s.pc \notin PastCheck /\ s.pc # "absent"
        BY <1>3, <2>2 DEF PastCheck
      <4> QED BY <4>1, <4>2 DEF AskIsSound
    <3>2. HandIsSound(u, s)
      BY <1>1, <2>2, StartTypes DEF HandIsSound, At, InHand
    <3>3. GroupIsSound(u, s)
      BY <1>1, <1>3, <2>2, StartTypes DEF GroupIsSound, At, HasGroup
    <3> QED BY <3>1, <3>2, <3>3 DEF CallIsSound
  <2> QED BY <1>1, <1>3, <2>1, <2>2, <2>3, CallGoesOn DEF At, InHand
<1>4. [start[u] EXCEPT !.pc = "created"] =
        [start[u] EXCEPT !.pc = "created", !.provisioned = start[u].provisioned]
  BY StartTypes DEF StartCall
<1>5. start[u].provisioned \in BOOLEAN
  BY StartTypes DEF StartCall
<1> QED BY <1>2, <1>3, <1>4, <1>5 DEF GetChat, Provisioned

LEMMA LinkReadKeeps ==
  ASSUME DirectoryInv, NEW u \in Callers, LinkRead(u)
  PROVE  DirectoryInv'
<1>1. At(u, "grouped") /\ UNCHANGED <<chats, groups, blocks, past>>
  BY DEF LinkRead
<1>2. CASE Go(u, NoStart)
  BY <1>1, <1>2, CallEnds DEF At
<1>3. CASE Go(u, [start[u] EXCEPT !.pc = "linking"]) /\ chats[start[u].chat].group = 0
  <2>1. PICK s : s = [start[u] EXCEPT !.pc = "linking"]
    OBVIOUS
  <2>2. /\ s \in StartCall /\ s.pc = "linking" /\ s.kind = start[u].kind /\ s.peers = start[u].peers
        /\ s.chat = start[u].chat /\ s.group = start[u].group
    BY <2>1, StartTypes DEF StartCall, StartPcs
  <2>3. CallIsSound(u, s)
    <3>1. AskIsSound(u, s)
      BY <1>1, <1>3, <2>2, StartTypes DEF AskIsSound, At, PastCheck
    <3>2. HandIsSound(u, s)
      BY <1>1, <2>2, StartTypes DEF HandIsSound, At, InHand
    <3>3. GroupIsSound(u, s)
      BY <1>1, <1>3, <2>2, StartTypes DEF GroupIsSound, At, HasGroup
    <3> QED BY <3>1, <3>2, <3>3 DEF CallIsSound
  <2> QED BY <1>1, <1>3, <2>1, <2>2, <2>3, CallGoesOn DEF At, InHand
<1> QED BY <1>2, <1>3 DEF LinkRead, Unlinked

\* What most steps leave in place.
RowsKept ==
  \A c \in DOMAIN chats :
    /\ c \in DOMAIN chats' /\ chats'[c].kind = chats[c].kind /\ chats'[c].by = chats[c].by
    /\ grown' \/ chats'[c].members \subseteq chats[c].members

LinksKept == \A c \in DOMAIN chats : c \in DOMAIN chats' /\ chats'[c].group = chats[c].group

GroupsKept == \A g \in DOMAIN groups : g \in DOMAIN groups' /\ groups[g] \subseteq groups'[g]

FlagsKept ==
  /\ (createRaced => createRaced') /\ (blockRaced => blockRaced')
  /\ (linkRaced => linkRaced') /\ (grown => grown')
  /\ met \subseteq met' /\ uninvited \subseteq uninvited'

LEMMA AskStays ==
  ASSUME DirectoryInv, NEW v \in Callers, start'[v] = start[v], RowsKept, FlagsKept,
         \A x \in start[v].peers : start[v].pc \in PastCheck =>
           blockRaced' \/ ({<<v, x>>, <<x, v>>} \cap blocks' \subseteq blocks),
         \A c \in DOMAIN chats' \ DOMAIN chats :
           start[v].pc = "absent" /\ start[v].kind = "direct" /\ chats'[c].kind = "direct" =>
             createRaced' \/ ~(start[v].peers \cup {v} \subseteq chats'[c].members)
  PROVE  AskIsSound(v, start[v])'
<1>1. AskIsSound(v, start[v])
  BY StartTypes
<1>2. start[v].pc \in PastCheck => blockRaced' \/ \A x \in start[v].peers : ~Blocked(v, x)'
  BY <1>1 DEF AskIsSound, FlagsKept, Blocked
<1>3. start[v].pc = "absent" /\ start[v].kind = "direct" =>
        \/ createRaced' \/ grown'
        \/ \A c \in DOMAIN chats' :
             chats'[c].kind = "direct" => ~(start[v].peers \cup {v} \subseteq chats'[c].members)
  BY <1>1 DEF AskIsSound, FlagsKept, RowsKept
<1> QED BY <1>1, <1>2, <1>3 DEF AskIsSound

LEMMA HandStays ==
  ASSUME DirectoryInv, NEW v \in Callers, start'[v] = start[v], RowsKept, FlagsKept,
         \A c, S : /\ start[v].pc \in InHand /\ c = start[v].chat /\ S = start[v].peers \cup {v}
                   /\ Covered(c, S)
                   => Covered(c, S)'
  PROVE  HandIsSound(v, start[v])'
<1>1. HandIsSound(v, start[v])
  BY StartTypes
<1>2. PICK c, S : c = start[v].chat /\ S = start[v].peers \cup {v}
  OBVIOUS
<1>3. start[v].pc \in InHand => Covered(c, S)'
  BY <1>1, <1>2 DEF HandIsSound
<1>4. start[v].pc \in InHand =>
        /\ c \in DOMAIN chats' /\ chats'[c].kind = start[v].kind
        /\ grown' \/ chats'[c].members \subseteq S
  BY <1>1, <1>2 DEF HandIsSound, RowsKept, FlagsKept
<1> QED BY <1>2, <1>3, <1>4 DEF HandIsSound

LEMMA GroupStays ==
  ASSUME DirectoryInv, NEW v \in Callers, start'[v] = start[v], LinksKept, GroupsKept, FlagsKept
  PROVE  GroupIsSound(v, start[v])'
<1>1. HandIsSound(v, start[v]) /\ GroupIsSound(v, start[v])
  BY StartTypes
<1>2. start[v].pc \in {"linking", "linked", "done"} => start[v].chat \in DOMAIN chats
  BY <1>1 DEF HandIsSound, InHand
<1> QED BY <1>1, <1>2 DEF GroupIsSound, LinksKept, GroupsKept, FlagsKept

LEMMA CoveredStays ==
  ASSUME DirectoryInv, LinksKept, GroupsKept, FlagsKept, NEW c \in DOMAIN chats, NEW S,
         Covered(c, S), c \in Inviting => c \in Inviting' \cup uninvited'
  PROVE  Covered(c, S)'
<1>1. chats[c].group \in 0 .. Len(groups) /\ groups \in Seq(SUBSET Persons)
  BY DEF DirectoryInv, RowIsSound, DirectoryTypes
<1>2. chats[c].group # 0 => chats[c].group \in DOMAIN groups
  BY <1>1
<1> QED BY <1>2 DEF Covered, LinksKept, GroupsKept, FlagsKept

LEMMA RowStays ==
  ASSUME DirectoryInv, RowsKept, FlagsKept, NEW c \in DOMAIN chats,
         chats'[c].group \in 0 .. Len(groups'),
         \A S : S = chats[c].members /\ Covered(c, S) => Covered(c, S)'
  PROVE  RowIsSound(c)'
<1>1. RowIsSound(c)
  BY DEF DirectoryInv
<1>2. PICK S : S = chats[c].members
  OBVIOUS
<1>3. Covered(c, S)' /\ (grown' \/ chats'[c].members \subseteq S)
  BY <1>1, <1>2 DEF RowIsSound, RowsKept
<1>4. Covered(c, chats[c].members)'
  BY <1>3 DEF Covered
<1>5. chats'[c].kind = "direct" => grown' \/ \E a, b \in Persons : chats'[c].members \subseteq {a, b}
  BY <1>1, <1>2, <1>3 DEF RowIsSound, RowsKept, FlagsKept
<1> QED BY <1>4, <1>5 DEF RowIsSound

LEMMA ApartStays ==
  ASSUME DirectoryInv, RowsKept, FlagsKept, NEW c \in DOMAIN chats, NEW d \in DOMAIN chats
  PROVE  Apart(c, d)'
<1>1. Apart(c, d)
  BY DEF DirectoryInv
<1> QED BY <1>1 DEF Apart, RowsKept, FlagsKept

LEMMA AgreeStays ==
  ASSUME DirectoryInv, FlagsKept, NEW v \in Callers, NEW w \in Callers,
         start'[v].chat = start[v].chat, start'[v].peers = start[v].peers,
         start'[v].pc \in InHand => start[v].pc \in InHand,
         start'[w].chat = start[w].chat, start'[w].peers = start[w].peers,
         start'[w].pc \in InHand => start[w].pc \in InHand
  PROVE  Agree(v, start[v], w, start[w])'
<1>1. Agree(v, start[v], w, start[w])
  BY DEF DirectoryInv
<1> QED BY <1>1 DEF Agree, FlagsKept

\* A chat that is there is as far from blocks as it was, and blocks are no newer.
LEMMA NoBlockStays ==
  ASSUME DirectoryInv, RowsKept, FlagsKept, NEW c \in DOMAIN chats, blocks' \subseteq blocks,
         NEW v \in chats'[c].members, chats'[c].by \in chats'[c].members,
         {<<chats'[c].by, v>>, <<v, chats'[c].by>>} \cap blocks' # {}
  PROVE  <<c, {chats'[c].by, v}>> \in met' \/ blockRaced' \/ grown'
  BY DEF DirectoryInv, NoChatAcrossBlock, RowsKept, FlagsKept

LEMMA ChatIs ==
  ASSUME DirectoryInv, NEW c \in DOMAIN chats
  PROVE  /\ chats[c] \in ChatRow /\ chats[c].kind \in {"direct", "group"} /\ c \in Nat
         /\ chats[c].members \subseteq Persons /\ chats[c].by \in Callers /\ chats[c].group \in Nat
<1>1. chats \in Seq(ChatRow)
  BY DEF DirectoryInv, DirectoryTypes
<1>2. chats[c] \in ChatRow /\ c \in Nat
  BY <1>1
<1> QED BY <1>2 DEF ChatRow

\* CreateRow: the new chat is nobody else's.
LEMMA CreateRowKeeps ==
  ASSUME DirectoryInv, NEW u \in Callers, CreateRow(u)
  PROVE  DirectoryInv'
<1>21. PICK n : n = Len(chats) + 1
  OBVIOUS
<1>1. PICK row : row = [kind |-> start[u].kind, members |-> start[u].peers \cup {u},
                        by |-> u, group |-> 0]
  OBVIOUS
<1>2. /\ row \in ChatRow /\ row.kind = start[u].kind /\ row.members = start[u].peers \cup {u}
      /\ row.by = u /\ row.group = 0
  BY <1>1, StartTypes DEF ChatRow
<1>3. /\ At(u, "absent") /\ chats' = Append(chats, row)
      /\ UNCHANGED <<groups, blocks, met, blockRaced, linkRaced, grown, uninvited>>
      /\ createRaced' = (createRaced \/ \E v \in Callers \ {u} : At(v, "absent") /\ SamePair(u, v))
      /\ Go(u, [start[u] EXCEPT !.pc = "created", !.chat = Len(chats) + 1])
  BY <1>1 DEF CreateRow
<1>4. PICK s : s = [start[u] EXCEPT !.pc = "created", !.chat = Len(chats) + 1]
  OBVIOUS
<1>5. /\ chats \in Seq(ChatRow) /\ Len(chats) \in Nat /\ groups \in Seq(SUBSET Persons)
      /\ Len(groups) \in Nat /\ start \in [Callers -> StartCall]
  BY DEF DirectoryInv, DirectoryTypes
<1>6. /\ s \in StartCall /\ s.pc = "created" /\ s.chat = n /\ s.kind = start[u].kind
      /\ s.peers = start[u].peers
  <2>1. start[u] \in StartCall /\ n \in Nat
    BY <1>5, <1>21, StartTypes
  <2> QED BY <1>4, <1>21, <2>1 DEF StartCall, StartPcs
<1>0. /\ start[u].kind = "direct" => \E w \in Persons : w # u /\ start[u].peers = {w}
      /\ blockRaced \/ \A v \in start[u].peers : ~Blocked(u, v)
      /\ start[u].kind = "direct" =>
           \/ createRaced \/ grown
           \/ \A c \in DOMAIN chats :
                chats[c].kind = "direct" => ~(row.members \subseteq chats[c].members)
  <2>1. AskIsSound(u, start[u])
    BY StartTypes
  <2> QED BY <1>2, <1>3, <2>1 DEF AskIsSound, At, PastCheck
<1>7. /\ chats' \in Seq(ChatRow) /\ DOMAIN chats' = DOMAIN chats \cup {n} /\ n \notin DOMAIN chats
      /\ chats'[n] = row /\ \A c \in DOMAIN chats : chats'[c] = chats[c]
  BY <1>2, <1>3, <1>5, <1>21
<1>8. start'[u] = s /\ \A v \in Callers \ {u} : start'[v] = start[v]
  BY <1>3, <1>4, <1>5 DEF Go
<1>9. RowsKept /\ LinksKept /\ GroupsKept /\ FlagsKept
  BY <1>3, <1>7 DEF RowsKept, LinksKept, GroupsKept, FlagsKept
<1>10. Inviting' = Inviting
  BY <1>3, <1>6, <1>8 DEF Inviting, At
<1>11. \A c \in DOMAIN chats : \A S : Covered(c, S) => Covered(c, S)'
  BY <1>9, <1>10, CoveredStays
<1>12. ASSUME NEW S PROVE Covered(n, S)'
  <2>1. chats'[n].group = 0
    BY <1>2, <1>7
  <2> QED BY <2>1 DEF Covered
<1>13. ASSUME NEW v \in Callers, v # u PROVE CallIsSound(v, start[v])'
  <2>1. AskIsSound(v, start[v])'
    <3>1. ASSUME start[v].pc = "absent", start[v].kind = "direct", row.kind = "direct",
                 start[v].peers \cup {v} \subseteq row.members
          PROVE  createRaced'
      <4>1. PICK w : w # u /\ start[u].peers = {w}
        BY <1>2, <1>3, <3>1, StartTypes DEF AskIsSound, At
      <4>2. PICK x : x # v /\ start[v].peers = {x}
        BY <3>1, StartTypes DEF AskIsSound
      <4>3. start[u].peers \cup {u} = start[v].peers \cup {v}
        BY <1>2, <3>1, <4>1, <4>2
      <4> QED BY <1>2, <1>3, <1>13, <3>1, <4>3 DEF SamePair, At
    <3> QED BY <1>3, <1>7, <1>8, <1>9, <1>13, <3>1, AskStays
  <2>2. HandIsSound(v, start[v])'
    <3>1. start[v].pc \in InHand => start[v].chat \in DOMAIN chats
      BY StartTypes DEF HandIsSound
    <3> QED BY <1>8, <1>9, <1>11, <1>13, <3>1, HandStays
  <2>3. GroupIsSound(v, start[v])'
    BY <1>8, <1>9, <1>13, GroupStays
  <2> QED BY <2>1, <2>2, <2>3 DEF CallIsSound
<1>14. CallIsSound(u, start[u])'
  <2>1. AskIsSound(u, start[u])'
    BY <1>3, <1>6, <1>8, StartTypes DEF AskIsSound, PastCheck, At
  <2>2. HandIsSound(u, start[u])'
    <3>1. PICK S : S = start'[u].peers \cup {u}
      OBVIOUS
    <3>2. Covered(n, S)'
      BY <1>12
    <3>3. Covered(start[u].chat, start[u].peers \cup {u})'
      BY <1>6, <1>8, <3>1, <3>2 DEF Covered
    <3> QED BY <1>2, <1>6, <1>7, <1>8, <3>3 DEF HandIsSound
  <2>3. GroupIsSound(u, start[u])'
    BY <1>6, <1>8 DEF GroupIsSound, HasGroup
  <2> QED BY <2>1, <2>2, <2>3 DEF CallIsSound
<1>15. ASSUME NEW v \in Callers, NEW w \in Callers PROVE Agree(v, start[v], w, start[w])'
  <2>1. \A x \in Callers \ {u} : start'[x].pc \in InHand => start'[x].chat # n
    <3> SUFFICES ASSUME NEW x \in Callers \ {u}, start[x].pc \in InHand PROVE start[x].chat # n
      BY <1>8
    <3>1. HandIsSound(x, start[x])
      BY StartTypes
    <3> QED BY <1>7, <3>1 DEF HandIsSound
  <2>2. CASE v # u /\ w # u
    BY <1>8, <1>9, <2>2, AgreeStays
  <2>3. CASE v = u /\ w = u
    BY <2>3 DEF Agree
  <2> QED BY <1>6, <1>8, <2>1, <2>2, <2>3 DEF Agree
<1>16. ASSUME NEW c \in DOMAIN chats' PROVE RowIsSound(c)'
  <2>1. CASE c = n
    <3>1. row.kind = "direct" => \E a, b \in Persons : row.members \subseteq {a, b}
      <4>1. start[u].kind = "direct" => \E w \in Persons : row.members \subseteq {u, w}
        BY <1>0, <1>2
      <4> QED BY <1>2, <4>1, StartTypes
    <3>2. PICK S : S = chats'[n].members
      OBVIOUS
    <3>3. Covered(n, S)'
      BY <1>12
    <3>4. Covered(c, chats[c].members)'
      BY <2>1, <3>2, <3>3 DEF Covered
    <3>5. chats'[c].group \in 0 .. Len(groups')
      BY <1>2, <1>3, <1>5, <1>7, <2>1
    <3> QED BY <1>7, <2>1, <3>1, <3>4, <3>5 DEF RowIsSound
  <2>2. CASE c \in DOMAIN chats
    <3>1. chats'[c].group \in 0 .. Len(groups')
      BY <1>3, <1>7, <2>2 DEF DirectoryInv, RowIsSound
    <3> QED BY <1>9, <1>11, <2>2, <3>1, RowStays
  <2> QED BY <1>7, <2>1, <2>2
<1>17. ASSUME NEW c \in DOMAIN chats', NEW d \in DOMAIN chats' PROVE Apart(c, d)'
  <2>1. CASE c \in DOMAIN chats /\ d \in DOMAIN chats
    BY <1>9, <2>1, ApartStays
  <2>2. ASSUME NEW e \in DOMAIN chats, start[u].kind = "direct", chats[e].kind = "direct",
               ~createRaced, ~grown, NEW a \in chats[e].members \cap row.members,
               NEW b \in chats[e].members \cap row.members
        PROVE  a = b
    <3>1. ~(row.members \subseteq chats[e].members)
      BY <1>0, <2>2
    <3>2. PICK w : w # u /\ row.members = {w, u}
      BY <1>0, <1>2, <2>2
    <3> QED BY <3>1, <3>2
  <2>6. (createRaced => createRaced') /\ (grown => grown')
    BY <1>9 DEF FlagsKept
  <2>3. CASE c = n /\ d \in DOMAIN chats
    <3>1. chats'[c] = row /\ chats'[d] = chats[d]
      BY <1>7, <2>3
    <3> QED BY <1>2, <2>2, <2>3, <2>6, <3>1 DEF Apart
  <2>4. CASE c \in DOMAIN chats /\ d = n
    <3>1. chats'[d] = row /\ chats'[c] = chats[c]
      BY <1>7, <2>4
    <3> QED BY <1>2, <2>2, <2>4, <2>6, <3>1 DEF Apart
  <2>5. CASE c = n /\ d = n
    BY <2>5 DEF Apart
  <2> QED BY <1>7, <2>1, <2>3, <2>4, <2>5
<1>18. NoChatAcrossBlock'
  <2> SUFFICES ASSUME NEW c \in DOMAIN chats', NEW v \in chats'[c].members,
                      chats'[c].by \in chats'[c].members,
                      {<<chats'[c].by, v>>, <<v, chats'[c].by>>} \cap blocks' # {}
               PROVE  <<c, {chats'[c].by, v}>> \in met' \/ blockRaced' \/ grown'
    BY DEF NoChatAcrossBlock
  <2>1. CASE c \in DOMAIN chats
    BY <1>3, <1>9, <2>1, NoBlockStays
  <2>2. CASE c = n
    <3>1. v # u
      BY <1>2, <1>3, <1>7, <2>2 DEF DirectoryInv
    <3>2. chats'[c] = row
      BY <1>7, <2>2
    <3>3. v \in start[u].peers
      BY <1>2, <3>1, <3>2
    <3>4. Blocked(u, v)
      BY <1>2, <1>3, <3>2 DEF Blocked
    <3> QED BY <1>0, <1>3, <3>3, <3>4
  <2> QED BY <1>7, <2>1, <2>2
<1>19. DirectoryTypes'
  <2>1. createRaced' \in BOOLEAN
    BY <1>3 DEF DirectoryInv, DirectoryTypes
  <2>2. start' \in [Callers -> StartCall]
    BY <1>3, <1>4, <1>5, <1>6 DEF Go
  <2> QED BY <1>3, <1>7, <2>1, <2>2 DEF DirectoryInv, DirectoryTypes
<1>20. \A x, y : <<x, y>> \in blocks' => x # y
  BY <1>3 DEF DirectoryInv
<1>22. \A v \in Callers : CallIsSound(v, start[v])'
  BY <1>13, <1>14
<1> QED BY <1>15, <1>16, <1>17, <1>18, <1>19, <1>20, <1>22 DEF DirectoryInv

\* A call that stays, ends, or goes on with the chat it has.
Onward(v) ==
  \/ start'[v] = start[v]
  \/ start'[v].pc = "idle"
  \/ /\ start[v].pc \in InHand /\ start'[v].pc \in InHand
     /\ start'[v].chat = start[v].chat /\ start'[v].peers = start[v].peers
     /\ start'[v].kind = start[v].kind

\* The people of chat c that the invariant speaks of.
Known(c, S) ==
  \/ S = chats[c].members
  \/ \E v \in Callers :
       start[v].pc \in InHand /\ start[v].chat = c /\ S = start[v].peers \cup {v}

\* A step that makes no row and no block.
LEMMA ShapeStays ==
  ASSUME DirectoryInv, DirectoryTypes', DOMAIN chats' = DOMAIN chats, RowsKept, FlagsKept,
         blocks' \subseteq blocks, \A v \in Callers : Onward(v),
         \A c \in DOMAIN chats : chats'[c].group \in 0 .. Len(groups'),
         \A c \in DOMAIN chats : \A S : Known(c, S) /\ Covered(c, S) => Covered(c, S)',
         \A v \in Callers : GroupIsSound(v, start[v])'
  PROVE  DirectoryInv'
<1>1. ASSUME NEW v \in Callers PROVE AskIsSound(v, start[v])'
  <2>1. CASE start'[v] = start[v]
    BY <2>1, AskStays
  <2>2. CASE start'[v].pc = "idle"
    BY <2>2 DEF AskIsSound, PastCheck
  <2>3. CASE start'[v] # start[v] /\ start'[v].pc # "idle"
    <3>1. AskIsSound(v, start[v]) /\ Onward(v)
      BY StartTypes
    <3> QED BY <2>3, <3>1 DEF AskIsSound, Onward, InHand, PastCheck
  <2> QED BY <2>1, <2>2, <2>3
<1>2. ASSUME NEW v \in Callers PROVE HandIsSound(v, start[v])'
  <2> SUFFICES ASSUME start'[v].pc \in InHand PROVE HandIsSound(v, start[v])'
    BY DEF HandIsSound
  <2>1. /\ start[v].pc \in InHand /\ start'[v].chat = start[v].chat
        /\ start'[v].peers = start[v].peers /\ start'[v].kind = start[v].kind
    BY DEF Onward, InHand
  <2>2. PICK c, S : c = start[v].chat /\ S = start[v].peers \cup {v}
    OBVIOUS
  <2>3. /\ c \in DOMAIN chats /\ chats[c].kind = start[v].kind
        /\ grown \/ chats[c].members \subseteq S
        /\ Covered(c, S)
    BY <2>1, <2>2, StartTypes DEF HandIsSound
  <2>4. Covered(c, S)'
    BY <2>1, <2>2, <2>3 DEF Known
  <2>5. Covered(start[v].chat, start[v].peers \cup {v})'
    BY <2>1, <2>2, <2>4 DEF Covered
  <2> QED BY <2>1, <2>2, <2>3, <2>5 DEF HandIsSound, RowsKept, FlagsKept
<1>3. ASSUME NEW v \in Callers PROVE CallIsSound(v, start[v])'
  BY <1>1, <1>2 DEF CallIsSound
<1>4. ASSUME NEW v \in Callers, NEW w \in Callers PROVE Agree(v, start[v], w, start[w])'
  <2>1. Agree(v, start[v], w, start[w]) /\ Onward(v) /\ Onward(w)
    BY DEF DirectoryInv
  <2> QED BY <2>1 DEF Agree, Onward, FlagsKept, InHand
<1>5. ASSUME NEW c \in DOMAIN chats PROVE RowIsSound(c)'
  BY RowStays DEF Known
<1>6. ASSUME NEW c \in DOMAIN chats, NEW d \in DOMAIN chats PROVE Apart(c, d)'
  BY ApartStays
<1>7. NoChatAcrossBlock'
  BY NoBlockStays DEF NoChatAcrossBlock
<1>8. \A x, y : <<x, y>> \in blocks' => x # y
  BY DEF DirectoryInv
<1> QED BY <1>3, <1>4, <1>5, <1>6, <1>7, <1>8 DEF DirectoryInv

\* A step that besides leaves the links and adds to the groups at most.
LEMMA LinksStay ==
  ASSUME DirectoryInv, DirectoryTypes', DOMAIN chats' = DOMAIN chats, RowsKept, FlagsKept,
         LinksKept, GroupsKept, blocks' \subseteq blocks,
         \A v \in Callers : Onward(v),
         \A v \in Callers : start'[v] = start[v] \/ GroupIsSound(v, start[v])',
         Inviting \subseteq Inviting' \cup uninvited'
  PROVE  DirectoryInv'
<1>1. ASSUME NEW c \in DOMAIN chats PROVE chats'[c].group \in 0 .. Len(groups')
  <2>1. chats[c].group \in 0 .. Len(groups) /\ groups \in Seq(SUBSET Persons)
    BY DEF DirectoryInv, RowIsSound, DirectoryTypes
  <2>2. groups' \in Seq(SUBSET Persons)
    BY DEF DirectoryTypes
  <2>3. chats[c].group # 0 => chats[c].group \in DOMAIN groups'
    BY <2>1 DEF GroupsKept
  <2> QED BY <2>1, <2>2, <2>3 DEF LinksKept
<1>2. \A c \in DOMAIN chats : \A S : Covered(c, S) => Covered(c, S)'
  BY CoveredStays
<1>3. \A v \in Callers : GroupIsSound(v, start[v])'
  BY GroupStays
<1> QED BY <1>1, <1>2, <1>3, ShapeStays

\* The call of u gets no chat and is not about to invite.
LEMMA InvitingStays ==
  ASSUME DirectoryInv, NEW u \in Callers, \A v \in Callers \ {u} : start'[v] = start[v],
         ~At(u, "linked") \/ start[u].chat \in uninvited', FlagsKept
  PROVE  Inviting \subseteq Inviting' \cup uninvited'
  BY DEF Inviting, At

LEMMA CreateGroupKeeps ==
  ASSUME DirectoryInv, NEW u \in Callers, CreateGroup(u)
  PROVE  DirectoryInv'
<1>1. PICK g : g = Len(groups) + 1
  OBVIOUS
<1>2. PICK s : s = [start[u] EXCEPT !.pc = "grouped", !.group = g]
  OBVIOUS
<1>3. /\ At(u, "created") /\ groups' = Append(groups, {u}) /\ start' = [start EXCEPT ![u] = s]
      /\ UNCHANGED <<chats, blocks, past>>
  BY <1>1, <1>2 DEF CreateGroup, Go
<1>4. /\ groups \in Seq(SUBSET Persons) /\ start \in [Callers -> StartCall] /\ {u} \in SUBSET Persons
  BY StartTypes DEF DirectoryInv, DirectoryTypes
<1>5. /\ groups' \in Seq(SUBSET Persons) /\ g \in Nat /\ g \in DOMAIN groups' /\ groups'[g] = {u}
      /\ \A h \in DOMAIN groups : h \in DOMAIN groups' /\ groups'[h] = groups[h]
  BY <1>1, <1>3, <1>4
<1>6. /\ s \in StartCall /\ s.pc = "grouped" /\ s.group = g /\ s.chat = start[u].chat
      /\ s.peers = start[u].peers /\ s.kind = start[u].kind
  BY <1>2, <1>5, StartTypes DEF StartCall, StartPcs
<1>7. /\ start' \in [Callers -> StartCall] /\ start'[u] = s
      /\ \A v \in Callers \ {u} : start'[v] = start[v]
  BY <1>3, <1>4, <1>6
<1>8. DirectoryTypes'
  BY <1>3, <1>5, <1>7 DEF DirectoryInv, DirectoryTypes, past
<1>9. RowsKept /\ LinksKept /\ GroupsKept /\ FlagsKept
  BY <1>3, <1>5 DEF RowsKept, LinksKept, GroupsKept, FlagsKept, past
<1>10. \A v \in Callers : Onward(v)
  BY <1>3, <1>6, <1>7 DEF Onward, At, InHand
<1>11. GroupIsSound(u, start[u])'
  BY <1>5, <1>6, <1>7 DEF GroupIsSound
<1>12. Inviting \subseteq Inviting' \cup uninvited'
  BY <1>3, <1>7, <1>9, InvitingStays DEF At
<1>13. DOMAIN chats' = DOMAIN chats /\ blocks' \subseteq blocks
  BY <1>3
<1>14. \A v \in Callers : start'[v] = start[v] \/ GroupIsSound(v, start[v])'
  BY <1>7, <1>11
<1> HIDE DEF Onward, GroupIsSound
<1> QED BY <1>8, <1>9, <1>10, <1>12, <1>13, <1>14, LinksStay

LEMMA AbandonKeeps ==
  ASSUME DirectoryInv, NEW u \in Callers, Abandon(u)
  PROVE  DirectoryInv'
<1>1. /\ start' = [start EXCEPT ![u] = NoStart]
      /\ uninvited' = IF At(u, "linked") THEN uninvited \cup {start[u].chat} ELSE uninvited
      /\ UNCHANGED <<chats, groups, blocks, met, createRaced, blockRaced, linkRaced, grown>>
  BY DEF Abandon, Go
<1>2. start \in [Callers -> StartCall]
  BY DEF DirectoryInv, DirectoryTypes
<1>3. /\ start' \in [Callers -> StartCall] /\ start'[u] = NoStart
      /\ \A v \in Callers \ {u} : start'[v] = start[v]
  BY <1>1, <1>2, StartTypes
<1>4. DirectoryTypes'
  BY <1>1, <1>3 DEF DirectoryInv, DirectoryTypes
<1>5. RowsKept /\ LinksKept /\ GroupsKept /\ FlagsKept
  BY <1>1 DEF RowsKept, LinksKept, GroupsKept, FlagsKept
<1>6. start'[u].pc = "idle"
  BY <1>3, StartTypes
<1>7. \A v \in Callers : Onward(v)
  BY <1>3, <1>6 DEF Onward
<1>8. GroupIsSound(u, start[u])'
  BY <1>6 DEF GroupIsSound, HasGroup
<1>9. Inviting \subseteq Inviting' \cup uninvited'
  BY <1>1, <1>3, <1>5, InvitingStays
<1>10. DOMAIN chats' = DOMAIN chats /\ blocks' \subseteq blocks
  BY <1>1
<1>11. \A v \in Callers : start'[v] = start[v] \/ GroupIsSound(v, start[v])'
  BY <1>3, <1>8
<1> QED BY <1>4, <1>5, <1>7, <1>9, <1>10, <1>11, LinksStay

\* No call moves, and no link, group or block is made.
LEMMA CallsStay ==
  ASSUME DirectoryInv, DirectoryTypes', DOMAIN chats' = DOMAIN chats, RowsKept, LinksKept,
         FlagsKept, blocks' \subseteq blocks, UNCHANGED <<groups, start>>
  PROVE  DirectoryInv'
<1>1. GroupsKept /\ \A v \in Callers : Onward(v)
  BY DEF GroupsKept, Onward
<1>2. Inviting' = Inviting
  BY DEF Inviting, At
<1> QED BY <1>1, <1>2, LinksStay

LEMMA MembersKeep ==
  ASSUME DirectoryInv, NEW c \in DOMAIN chats, NEW M \in SUBSET Persons,
         chats' = [chats EXCEPT ![c].members = M],
         UNCHANGED <<groups, blocks, start, met, createRaced, blockRaced, linkRaced, uninvited>>,
         grown' \in BOOLEAN, grown => grown', grown' \/ M \subseteq chats[c].members
  PROVE  DirectoryInv'
<1>1. chats \in Seq(ChatRow)
  BY DEF DirectoryInv, DirectoryTypes
<1>2. PICK row : row = [chats[c] EXCEPT !.members = M]
  OBVIOUS
<1>3. /\ row \in ChatRow /\ row.kind = chats[c].kind /\ row.by = chats[c].by
      /\ row.group = chats[c].group /\ row.members = M
  BY <1>2, ChatIs DEF ChatRow
<1>4. chats' = [chats EXCEPT ![c] = row]
  BY <1>2
<1>5. /\ chats' \in Seq(ChatRow) /\ DOMAIN chats' = DOMAIN chats /\ chats'[c] = row
      /\ \A d \in DOMAIN chats : d # c => chats'[d] = chats[d]
  BY <1>1, <1>3, <1>4
<1>6. DirectoryTypes'
  BY <1>5 DEF DirectoryInv, DirectoryTypes
<1>7. RowsKept /\ LinksKept /\ FlagsKept
  BY <1>3, <1>5 DEF RowsKept, LinksKept, FlagsKept
<1> QED BY <1>5, <1>6, <1>7, CallsStay

LEMMA MembershipKeeps ==
  ASSUME DirectoryInv, NEW u \in Callers, NEW c \in DOMAIN chats, NEW v \in Persons,
         LeaveChat(u, c) \/ AddMember(u, c, v) \/ RemoveMember(u, c, v)
  PROVE  DirectoryInv'
<1>1. chats[c].members \subseteq Persons /\ grown \in BOOLEAN
  BY ChatIs DEF DirectoryInv, DirectoryTypes
<1>2. CASE LeaveChat(u, c)
  <2>1. /\ chats' = [chats EXCEPT ![c].members = chats[c].members \ {u}]
        /\ UNCHANGED <<groups, blocks, start, past>>
    BY <1>2 DEF LeaveChat
  <2> QED BY <1>1, <2>1, MembersKeep DEF past
<1>3. CASE AddMember(u, c, v)
  <2>1. /\ chats' = [chats EXCEPT ![c].members = chats[c].members \cup {v}] /\ grown' = TRUE
        /\ UNCHANGED <<groups, blocks, start, met, createRaced, blockRaced, linkRaced, uninvited>>
    BY <1>3 DEF AddMember
  <2>2. PICK M : M = chats[c].members \cup {v}
    OBVIOUS
  <2>3. M \in SUBSET Persons /\ chats' = [chats EXCEPT ![c].members = M]
    BY <1>1, <2>1, <2>2
  <2>4. grown' \in BOOLEAN /\ (grown => grown') /\ (grown' \/ M \subseteq chats[c].members)
    BY <2>1
  <2> QED BY <2>1, <2>3, <2>4, MembersKeep
<1>4. CASE RemoveMember(u, c, v)
  <2>1. /\ chats' = [chats EXCEPT ![c].members = chats[c].members \ {v}]
        /\ UNCHANGED <<groups, blocks, start, past>>
    BY <1>4 DEF RemoveMember
  <2> QED BY <1>1, <2>1, MembersKeep DEF past
<1> QED BY <1>2, <1>3, <1>4

\* Unblock, Refresh and the steps that leave everything as it is.
LEMMA StandsKeeps ==
  ASSUME DirectoryInv, UNCHANGED <<chats, groups, start, past>>, blocks' \subseteq blocks
  PROVE  DirectoryInv'
<1>1. DirectoryTypes' /\ RowsKept /\ LinksKept /\ FlagsKept
  BY DEF DirectoryInv, DirectoryTypes, RowsKept, LinksKept, FlagsKept, past
<1> QED BY <1>1, CallsStay

LEMMA LinkWriteKeeps ==
  ASSUME DirectoryInv, NEW u \in Callers, LinkWrite(u)
  PROVE  DirectoryInv'
<1>1. PICK c, g : c = start[u].chat /\ g = start[u].group
  OBVIOUS
<1>2. PICK s : s = [start[u] EXCEPT !.pc = "linked"]
  OBVIOUS
<1>3. PICK row : row = [chats[c] EXCEPT !.group = g]
  OBVIOUS
<1>4. /\ At(u, "linking") /\ chats' = [chats EXCEPT ![c] = row] /\ start' = [start EXCEPT ![u] = s]
      /\ linkRaced' = (linkRaced \/ \E v \in Callers \ {u} : At(v, "linking") /\ start[v].chat = c)
      /\ UNCHANGED <<groups, blocks, met, createRaced, blockRaced, grown, uninvited>>
  BY <1>1, <1>2, <1>3 DEF LinkWrite, Go
<1>5. /\ s \in StartCall /\ s.pc = "linked" /\ s.chat = c /\ s.group = g
      /\ s.peers = start[u].peers /\ s.kind = start[u].kind
  BY <1>1, <1>2, StartTypes DEF StartCall, StartPcs
<1>6. /\ c \in DOMAIN chats /\ g \in DOMAIN groups /\ u \in groups[g]
      /\ chats[c].group = 0 \/ linkRaced
  <2>1. HandIsSound(u, start[u]) /\ GroupIsSound(u, start[u])
    BY StartTypes
  <2> QED BY <1>1, <1>4, <2>1 DEF HandIsSound, GroupIsSound, InHand, HasGroup, At
<1>7. /\ chats \in Seq(ChatRow) /\ groups \in Seq(SUBSET Persons) /\ start \in [Callers -> StartCall]
      /\ linkRaced \in BOOLEAN
  BY DEF DirectoryInv, DirectoryTypes
<1>8. g \in Nat /\ g # 0 /\ g \in 0 .. Len(groups)
  BY <1>6, <1>7
<1>9. /\ row \in ChatRow /\ row.kind = chats[c].kind /\ row.by = chats[c].by
      /\ row.members = chats[c].members /\ row.group = g
  BY <1>3, <1>6, <1>8, ChatIs DEF ChatRow
<1>10. /\ chats' \in Seq(ChatRow) /\ DOMAIN chats' = DOMAIN chats /\ chats'[c] = row
       /\ \A d \in DOMAIN chats : d # c => chats'[d] = chats[d]
  BY <1>4, <1>6, <1>7, <1>9
<1>11. /\ start' \in [Callers -> StartCall] /\ start'[u] = s
       /\ \A v \in Callers \ {u} : start'[v] = start[v]
  BY <1>4, <1>5, <1>7
<1>12. DirectoryTypes'
  <2>1. linkRaced' \in BOOLEAN
    BY <1>4, <1>7
  <2> QED BY <1>4, <1>10, <1>11, <2>1 DEF DirectoryInv, DirectoryTypes
<1>13. RowsKept /\ FlagsKept
  BY <1>4, <1>9, <1>10 DEF RowsKept, FlagsKept
<1>14. \A v \in Callers : Onward(v)
  BY <1>1, <1>4, <1>5, <1>11 DEF Onward, At, InHand
<1>15. \A d \in DOMAIN chats : chats'[d].group \in 0 .. Len(groups')
  BY <1>4, <1>8, <1>9, <1>10 DEF DirectoryInv, RowIsSound
<1>16. ASSUME NEW d \in DOMAIN chats, NEW S, Covered(d, S) PROVE Covered(d, S)'
  <2>1. CASE d = c
    <3>1. c \in Inviting'
      BY <1>5, <1>11 DEF Inviting, At
    <3> QED BY <2>1, <3>1 DEF Covered
  <2>2. CASE d # c
    <3>1. d \in Inviting => d \in Inviting'
      BY <1>4, <1>11 DEF Inviting, At
    <3>2. chats'[d] = chats[d]
      BY <1>10, <2>2
    <3> QED BY <1>4, <1>16, <3>1, <3>2 DEF Covered
  <2> QED BY <2>1, <2>2
<1>17. ASSUME NEW v \in Callers PROVE GroupIsSound(v, start[v])'
  <2>1. CASE v = u
    BY <1>4, <1>5, <1>6, <1>8, <1>9, <1>10, <1>11, <2>1 DEF GroupIsSound
  <2>2. CASE v # u
    <3>1. GroupIsSound(v, start[v]) /\ HandIsSound(v, start[v])
      BY StartTypes
    <3>2. start[v].pc \in {"linking", "linked", "done"} => start[v].chat \in DOMAIN chats
      BY <3>1 DEF HandIsSound, InHand
    <3>3. start'[v] = start[v]
      BY <1>11, <2>2
    <3>4. start[v].pc \in HasGroup => start[v].group \in DOMAIN groups /\ v \in groups[start[v].group]
      BY <3>1 DEF GroupIsSound
    <3>5. start[v].pc = "linking" => chats'[start[v].chat].group = 0 \/ linkRaced'
      BY <1>4, <1>10, <2>2, <3>1, <3>2 DEF GroupIsSound, At
    <3>6. start[v].pc = "linked" =>
            /\ chats'[start[v].chat].group # 0
            /\ chats'[start[v].chat].group = start[v].group \/ linkRaced'
      BY <1>4, <1>6, <1>8, <1>9, <1>10, <3>1, <3>2 DEF GroupIsSound
    <3>7. start[v].pc = "done" /\ start[v].provisioned => chats'[start[v].chat].group # 0
      BY <1>8, <1>9, <1>10, <3>1, <3>2 DEF GroupIsSound
    <3> QED BY <1>4, <3>3, <3>4, <3>5, <3>6, <3>7 DEF GroupIsSound
  <2> QED BY <2>1, <2>2
<1>18. \A d \in DOMAIN chats : \A S : Known(d, S) /\ Covered(d, S) => Covered(d, S)'
  BY <1>16
<1>19. \A v \in Callers : GroupIsSound(v, start[v])'
  BY <1>17
<1>20. blocks' \subseteq blocks
  BY <1>4
<1> QED BY <1>10, <1>12, <1>13, <1>14, <1>15, <1>18, <1>19, <1>20, ShapeStays

LEMMA InviteKeeps ==
  ASSUME DirectoryInv, NEW u \in Callers, Invite(u)
  PROVE  DirectoryInv'
<1>1. PICK c, g, P : c = start[u].chat /\ g = start[u].group /\ P = start[u].peers
  OBVIOUS
<1>2. PICK invited \in SUBSET P :
        /\ groups' = [groups EXCEPT ![g] = groups[g] \cup invited]
        /\ Go(u, [start[u] EXCEPT !.pc = "done", !.provisioned = invited # {}])
        /\ uninvited' = IF invited = P THEN uninvited ELSE uninvited \cup {c}
  BY <1>1 DEF Invite
<1>3. PICK s : s = [start[u] EXCEPT !.pc = "done", !.provisioned = invited # {}]
  OBVIOUS
<1>4. /\ At(u, "linked") /\ start' = [start EXCEPT ![u] = s]
      /\ UNCHANGED <<chats, blocks, met, createRaced, blockRaced, linkRaced, grown>>
  BY <1>2, <1>3 DEF Invite, Go
<1>5. /\ s \in StartCall /\ s.pc = "done" /\ s.chat = c /\ s.group = g
      /\ s.peers = P /\ s.kind = start[u].kind
  BY <1>1, <1>3, StartTypes DEF StartCall, StartPcs
<1>6. /\ c \in DOMAIN chats /\ g \in DOMAIN groups /\ u \in groups[g]
      /\ chats[c].group # 0 /\ (chats[c].group = g \/ linkRaced)
      /\ grown \/ chats[c].members \subseteq P \cup {u}
  <2>1. HandIsSound(u, start[u]) /\ GroupIsSound(u, start[u])
    BY StartTypes
  <2> QED BY <1>1, <1>4, <2>1 DEF HandIsSound, GroupIsSound, InHand, HasGroup, At
<1>7. /\ groups \in Seq(SUBSET Persons) /\ start \in [Callers -> StartCall] /\ P \subseteq Persons
  BY <1>1, StartTypes DEF DirectoryInv, DirectoryTypes
<1>8. /\ groups' \in Seq(SUBSET Persons) /\ DOMAIN groups' = DOMAIN groups
      /\ groups'[g] = groups[g] \cup invited
      /\ \A h \in DOMAIN groups : h # g => groups'[h] = groups[h]
  <2>1. groups[g] \cup invited \in SUBSET Persons
    BY <1>6, <1>7
  <2> QED BY <1>2, <1>6, <1>7, <2>1
<1>9. /\ start' \in [Callers -> StartCall] /\ start'[u] = s
      /\ \A v \in Callers \ {u} : start'[v] = start[v]
  BY <1>4, <1>5, <1>7
<1>10. DirectoryTypes'
  BY <1>4, <1>8, <1>9 DEF DirectoryInv, DirectoryTypes
<1>11. RowsKept /\ LinksKept /\ GroupsKept /\ FlagsKept
  BY <1>2, <1>4, <1>8 DEF RowsKept, LinksKept, GroupsKept, FlagsKept
<1>12. \A v \in Callers : Onward(v)
  BY <1>1, <1>4, <1>5, <1>9 DEF Onward, At, InHand
<1>13. ASSUME NEW d \in DOMAIN chats PROVE chats'[d].group \in 0 .. Len(groups')
  <2>1. Len(groups') = Len(groups)
    BY <1>7, <1>8
  <2> QED BY <1>4, <2>1 DEF DirectoryInv, RowIsSound
<1>14. ASSUME NEW d \in DOMAIN chats, NEW S, Known(d, S), Covered(d, S) PROVE Covered(d, S)'
  <2>1. CASE d = c
    <3>1. CASE invited # P
      <4>1. c \in uninvited'
        BY <1>2, <3>1
      <4> QED BY <2>1, <4>1 DEF Covered
    <3>2. CASE invited = P
      <4>1. grown \/ S \subseteq P \cup {u}
        <5>1. CASE S = chats[c].members
          BY <1>6, <5>1
        <5>2. ASSUME NEW v \in Callers, start[v].pc \in InHand, start[v].chat = c,
                     S = start[v].peers \cup {v}
              PROVE  grown \/ S \subseteq P \cup {u}
          <6>1. Agree(u, start[u], v, start[v])
            BY DEF DirectoryInv
          <6> QED BY <1>1, <1>4, <5>2, <6>1 DEF Agree, InHand, At
        <5> QED BY <1>14, <2>1, <5>1, <5>2 DEF Known
      <4>2. P \cup {u} \subseteq groups'[g]
        BY <1>6, <1>8, <3>2
      <4> QED BY <1>4, <1>6, <2>1, <4>1, <4>2 DEF Covered
    <3> QED BY <3>1, <3>2
  <2>2. CASE d # c
    <3>1. d \in Inviting => d \in Inviting'
      BY <1>1, <1>9, <2>2 DEF Inviting, At
    <3> QED BY <1>11, <1>14, <3>1, CoveredStays
  <2> QED BY <2>1, <2>2
<1>15. ASSUME NEW v \in Callers PROVE GroupIsSound(v, start[v])'
  <2>1. CASE v = u
    BY <1>4, <1>5, <1>6, <1>9, <2>1 DEF GroupIsSound, HasGroup
  <2>2. CASE v # u
    BY <1>9, <1>11, <2>2, GroupStays
  <2> QED BY <2>1, <2>2
<1>16. \A d \in DOMAIN chats : \A S : Known(d, S) /\ Covered(d, S) => Covered(d, S)'
  BY <1>14
<1>17. \A v \in Callers : GroupIsSound(v, start[v])'
  BY <1>15
<1>18. blocks' \subseteq blocks /\ DOMAIN chats' = DOMAIN chats
  BY <1>4
<1> QED BY <1>10, <1>11, <1>12, <1>13, <1>16, <1>17, <1>18, ShapeStays

\* A block that a call has not seen is remembered, and so are the chats it cuts.
LEMMA BlockKeeps ==
  ASSUME DirectoryInv, NEW u \in Callers, NEW v \in Persons, Block(u, v)
  PROVE  DirectoryInv'
<1>1. /\ u # v /\ blocks' = blocks \cup {<<u, v>>}
      /\ met' = met \cup
           {<<c, {u, v}>> : c \in {d \in DOMAIN chats : {u, v} \subseteq chats[d].members}}
      /\ blockRaced' = (blockRaced \/ \E w \in Callers :
           start[w].pc \in PastCheck /\ {u, v} \subseteq start[w].peers \cup {w})
      /\ UNCHANGED <<chats, groups, start, createRaced, linkRaced, grown, uninvited>>
  BY DEF Block
<1>2. RowsKept /\ LinksKept /\ GroupsKept /\ FlagsKept
  BY <1>1 DEF RowsKept, LinksKept, GroupsKept, FlagsKept
<1>3. \A c, S : Covered(c, S)' <=> Covered(c, S)
  BY <1>1 DEF Covered, Inviting, At
<1>4. ASSUME NEW w \in Callers PROVE CallIsSound(w, start[w])'
  <2>1. ASSUME NEW x \in start[w].peers, start[w].pc \in PastCheck
        PROVE  blockRaced' \/ {<<w, x>>, <<x, w>>} \cap blocks' \subseteq blocks
    <3>1. CASE {w, x} = {u, v}
      <4>1. {u, v} \subseteq start[w].peers \cup {w}
        BY <3>1
      <4>2. blockRaced'
        BY <1>1, <2>1, <4>1
      <4> QED BY <4>2
    <3>2. CASE {w, x} # {u, v}
      <4>1. <<w, x>> # <<u, v>> /\ <<x, w>> # <<u, v>>
        BY <3>2
      <4> QED BY <1>1, <4>1
    <3> QED BY <3>1, <3>2
  <2>2. AskIsSound(w, start[w])'
    BY <1>1, <1>2, <2>1, AskStays
  <2>3. HandIsSound(w, start[w])'
    BY <1>1, <1>2, <1>3, HandStays
  <2>4. GroupIsSound(w, start[w])'
    BY <1>1, <1>2, GroupStays
  <2> QED BY <2>2, <2>3, <2>4 DEF CallIsSound
<1>5. ASSUME NEW w \in Callers, NEW x \in Callers PROVE Agree(w, start[w], x, start[x])'
  BY <1>1, <1>2, AgreeStays
<1>6. ASSUME NEW c \in DOMAIN chats PROVE RowIsSound(c)'
  <2>1. chats'[c].group \in 0 .. Len(groups')
    BY <1>1 DEF DirectoryInv, RowIsSound
  <2> QED BY <1>2, <1>3, <2>1, RowStays
<1>7. ASSUME NEW c \in DOMAIN chats, NEW d \in DOMAIN chats PROVE Apart(c, d)'
  BY <1>2, ApartStays
<1>8. NoChatAcrossBlock'
  <2> SUFFICES ASSUME NEW c \in DOMAIN chats, NEW w \in chats[c].members,
                      chats[c].by \in chats[c].members,
                      {<<chats[c].by, w>>, <<w, chats[c].by>>} \cap blocks' # {}
               PROVE  <<c, {chats[c].by, w}>> \in met' \/ blockRaced' \/ grown'
    BY <1>1 DEF NoChatAcrossBlock
  <2>1. CASE {<<chats[c].by, w>>, <<w, chats[c].by>>} \cap blocks # {}
    BY <1>1, <2>1 DEF DirectoryInv, NoChatAcrossBlock
  <2>2. CASE {chats[c].by, w} = {u, v}
    BY <1>1, <2>2
  <2> QED BY <1>1, <2>1, <2>2
<1>9. \A x, y : <<x, y>> \in blocks' => x # y
  BY <1>1 DEF DirectoryInv
<1>10. DirectoryTypes'
  <2>1. blockRaced' \in BOOLEAN
    BY <1>1 DEF DirectoryInv, DirectoryTypes
  <2> QED BY <1>1, <2>1 DEF DirectoryInv, DirectoryTypes
<1> QED BY <1>1, <1>4, <1>5, <1>6, <1>7, <1>8, <1>9, <1>10 DEF DirectoryInv

LEMMA DirectoryStep == DirectoryInv /\ [DirectoryNext]_directoryVars => DirectoryInv'
<1> SUFFICES ASSUME DirectoryInv, [DirectoryNext]_directoryVars PROVE DirectoryInv'
  OBVIOUS
<1>1. ASSUME NEW u \in Callers, StartStep(u)
      PROVE  DirectoryInv'
  <2>1. CASE Finish(u)
    <3>1. Go(u, NoStart) /\ start[u].pc # "linked" /\ UNCHANGED <<chats, groups, blocks, past>>
      BY <2>1 DEF Finish, At
    <3> QED BY <3>1, CallEnds
  <2> QED BY <1>1, <2>1, CheckBlocksKeeps, FindDirectKeeps, CreateRowKeeps, GetChatKeeps,
             CreateGroupKeeps, LinkReadKeeps, LinkWriteKeeps, InviteKeeps DEF StartStep
<1>2. ASSUME NEW u \in Callers, EditStep(u)
      PROVE  DirectoryInv'
  <2>1. ASSUME NEW v \in Persons, Unblock(u, v) PROVE DirectoryInv'
    <3>1. UNCHANGED <<chats, groups, start, past>> /\ blocks' \subseteq blocks
      BY <2>1 DEF Unblock
    <3> QED BY <3>1, StandsKeeps
  <2>2. ASSUME NEW c \in DOMAIN chats, LeaveChat(u, c) PROVE DirectoryInv'
    <3>1. u \in Persons
      BY StartTypes
    <3> QED BY <2>2, <3>1, MembershipKeeps
  <2> QED BY <1>2, <2>1, <2>2, AbandonKeeps, BlockKeeps, MembershipKeeps DEF EditStep
<1>3. ASSUME NEW u \in Callers, NEW ask \in Asked, NewChat(u, ask[1], ask[2])
      PROVE  DirectoryInv'
  BY <1>3, NewChatKeeps
<1>4. ASSUME NEW u \in Persons, Refresh(u)
      PROVE  DirectoryInv'
  <2>1. UNCHANGED <<chats, groups, start, past>> /\ blocks' \subseteq blocks
    BY <1>4 DEF Refresh
  <2> QED BY <2>1, StandsKeeps
<1>5. CASE UNCHANGED directoryVars
  <2>1. UNCHANGED <<chats, groups, start, past>> /\ blocks' \subseteq blocks
    BY <1>5 DEF directoryVars, past
  <2> QED BY <2>1, StandsKeeps
<1> QED BY <1>1, <1>2, <1>3, <1>4, <1>5 DEF DirectoryNext

\* In every state of the chat directory there is one direct chat for two users, no
\* chat across a block, and a chat reported as provisioned has its peers in the group
\* it is linked to, but for the interleavings and the additions that the properties
\* name (chat.ts:162-276, create-chat.ts:62-127).
THEOREM DirectoryHolds == DirectorySpec => []DirectoryIsSound
<1>1. ASSUME DirectoryInv PROVE OneDirectChat
  <2> SUFFICES ASSUME NEW c \in DOMAIN chats, NEW d \in DOMAIN chats, c # d,
                      chats[c].kind = "direct", chats[d].kind = "direct", ~createRaced, ~grown
               PROVE  ~(Cardinality(chats[c].members \cap chats[d].members) > 1)
    BY DEF OneDirectChat
  <2>1. PICK S : S = chats[c].members \cap chats[d].members
    OBVIOUS
  <2>2. \A a, b \in S : a = b
    BY <1>1, <2>1 DEF DirectoryInv, Apart
  <2>3. CASE S = {}
    BY <2>1, <2>3, FS_EmptySet
  <2>4. CASE S # {}
    <3>1. PICK a : S = {a}
      BY <2>2, <2>4
    <3> QED BY <2>1, <3>1, FS_Singleton
  <2> QED BY <2>3, <2>4
<1>2. ASSUME DirectoryInv PROVE ProvisionedIsInvited
  <2> SUFFICES ASSUME NEW u \in Callers, At(u, "done"), start[u].provisioned
               PROVE  LET c == start[u].chat
                      IN  \/ chats[c].group # 0
                             /\ start[u].peers \cup {u} \subseteq groups[chats[c].group]
                          \/ \E v \in Callers : At(v, "linked") /\ start[v].chat = c
                          \/ c \in uninvited \/ linkRaced \/ grown
    BY DEF ProvisionedIsInvited
  <2>1. Covered(start[u].chat, start[u].peers \cup {u}) /\ chats[start[u].chat].group # 0
    BY <1>2, StartTypes DEF HandIsSound, GroupIsSound, InHand, At
  <2> QED BY <2>1 DEF Covered, Inviting
<1>3. DirectoryInv => DirectoryIsSound
  BY <1>1, <1>2 DEF DirectoryInv, DirectoryIsSound, ChatsMayExist
<1> QED BY <1>3, DirectoryStarts, DirectoryStep, PTL DEF DirectorySpec

\* Every step of the chat directory leaves a chat the group it is linked to, unless
\* two first links of it overlapped (chat.ts:239-240, 250-276).
THEOREM LinkStays == DirectorySpec => LinkIsSetOnce
<1>1. ASSUME DirectoryInv, [DirectoryNext]_directoryVars, NEW c \in DOMAIN chats,
             chats[c].group # 0
      PROVE  chats'[c].group = chats[c].group \/ linkRaced'
  <2>1. CASE UNCHANGED chats
    BY <2>1
  <2>2. ASSUME NEW u \in Callers, CreateRow(u) PROVE chats'[c].group = chats[c].group
    <3>1. chats \in Seq(ChatRow)
      BY <1>1 DEF DirectoryInv, DirectoryTypes
    <3>2. PICK row : chats' = Append(chats, row)
      BY <2>2 DEF CreateRow
    <3> QED BY <3>1, <3>2
  <2>3. ASSUME NEW u \in Callers, LinkWrite(u)
        PROVE  chats'[c].group = chats[c].group \/ linkRaced'
    <3>1. /\ At(u, "linking") /\ (linkRaced => linkRaced')
          /\ chats' = [chats EXCEPT ![start[u].chat].group = start[u].group]
      BY <2>3 DEF LinkWrite
    <3>2. CASE c = start[u].chat
      <4>1. chats[c].group = 0 \/ linkRaced
        BY <1>1, <3>1, <3>2, StartTypes DEF GroupIsSound, At
      <4> QED BY <1>1, <3>1, <4>1
    <3>3. CASE c # start[u].chat
      BY <3>1, <3>3
    <3> QED BY <3>2, <3>3
  <2>4. ASSUME NEW u \in Callers, NEW d \in DOMAIN chats, NEW v \in Persons,
               LeaveChat(u, d) \/ AddMember(u, d, v) \/ RemoveMember(u, d, v)
        PROVE  chats'[c].group = chats[c].group
    <3>1. PICK M : chats' = [chats EXCEPT ![d].members = M]
      BY <2>4 DEF LeaveChat, AddMember, RemoveMember
    <3>2. PICK row : row = [chats[d] EXCEPT !.members = M]
      OBVIOUS
    <3>3. row.group = chats[d].group
      BY <1>1, <3>2, ChatIs DEF ChatRow
    <3>4. chats' = [chats EXCEPT ![d] = row]
      BY <3>1, <3>2
    <3> QED BY <3>3, <3>4
  <2>5. ASSUME NEW u \in Callers, StartStep(u)
        PROVE  chats'[c].group = chats[c].group \/ linkRaced'
    <3>1. UNCHANGED chats \/ CreateRow(u) \/ LinkWrite(u)
      BY <2>5 DEF StartStep, CheckBlocks, FindDirect, GetChat, CreateGroup, LinkRead, Invite, Finish
    <3> QED BY <2>1, <2>2, <2>3, <3>1
  <2>6. ASSUME NEW u \in Callers, EditStep(u)
        PROVE  chats'[c].group = chats[c].group
    <3>1. CASE Abandon(u) \/ \E v \in Persons : Block(u, v) \/ Unblock(u, v)
      BY <2>1, <3>1 DEF Abandon, Block, Unblock
    <3>2. ASSUME NEW d \in DOMAIN chats, LeaveChat(u, d)
          PROVE  chats'[c].group = chats[c].group
      <4>1. u \in Persons
        BY <1>1, StartTypes
      <4> QED BY <2>4, <3>2, <4>1
    <3> QED BY <2>4, <2>6, <3>1, <3>2 DEF EditStep
  <2>7. ASSUME NEW u \in Persons, Refresh(u) PROVE UNCHANGED chats
    BY <2>7 DEF Refresh
  <2>8. ASSUME NEW u \in Callers, NEW ask \in Asked, NewChat(u, ask[1], ask[2])
        PROVE  UNCHANGED chats
    BY <2>8 DEF NewChat
  <2>9. UNCHANGED directoryVars => UNCHANGED chats
    BY DEF directoryVars
  <2> QED BY <1>1, <2>1, <2>5, <2>6, <2>7, <2>8, <2>9 DEF DirectoryNext
<1>2. DirectoryInv /\ [DirectoryNext]_directoryVars =>
        [\A c \in DOMAIN chats :
           chats[c].group # 0 => chats'[c].group = chats[c].group \/ linkRaced']_directoryVars
  BY <1>1
<1> QED BY <1>2, DirectoryStarts, DirectoryStep, PTL DEF DirectorySpec, LinkIsSetOnce

\* What refers to a row or a group refers to one there is.
Extents ==
  /\ link \in [Persons -> [1 .. MaxChats -> 0 .. Len(groups)]]
  /\ blocks \subseteq Persons \X Persons
  /\ \A u \in Callers : start[u].chat \in 0 .. Len(chats) /\ start[u].group \in 0 .. Len(groups)
  /\ met \subseteq (DOMAIN chats) \X (SUBSET Persons) /\ uninvited \subseteq DOMAIN chats

\* Rows and groups are never taken away.
LEMMA NothingGoes ==
  ASSUME DirectoryInv, [DirectoryNext]_directoryVars
  PROVE  /\ chats \in Seq(ChatRow) /\ groups \in Seq(SUBSET Persons)
         /\ chats' \in Seq(ChatRow) /\ groups' \in Seq(SUBSET Persons)
         /\ Len(chats) <= Len(chats') /\ Len(groups) <= Len(groups')
<1>0. /\ chats \in Seq(ChatRow) /\ groups \in Seq(SUBSET Persons)
      /\ chats' \in Seq(ChatRow) /\ groups' \in Seq(SUBSET Persons)
  BY DirectoryStep DEF DirectoryInv, DirectoryTypes
<1>1. Len(chats) <= Len(chats')
  <2>1. ASSUME NEW row, chats' = Append(chats, row) PROVE Len(chats) <= Len(chats')
    BY <1>0, <2>1
  <2>2. ASSUME NEW c, NEW row, chats' = [chats EXCEPT ![c] = row] PROVE Len(chats) <= Len(chats')
    BY <1>0, <2>2
  <2>3. \/ UNCHANGED chats
        \/ \E u \in Callers : CreateRow(u) \/ LinkWrite(u)
        \/ \E u \in Callers, c \in DOMAIN chats :
             LeaveChat(u, c) \/ \E v \in Persons : AddMember(u, c, v) \/ RemoveMember(u, c, v)
    BY DEF DirectoryNext, directoryVars, StartStep, EditStep, NewChat, CheckBlocks, FindDirect,
           GetChat, CreateGroup, LinkRead, Invite, Finish, Refresh, Abandon, Block, Unblock
  <2>4. ASSUME NEW u \in Callers, CreateRow(u) PROVE Len(chats) <= Len(chats')
    BY <2>1, <2>4 DEF CreateRow
  <2>5. ASSUME NEW u \in Callers, LinkWrite(u) PROVE Len(chats) <= Len(chats')
    BY <2>2, <2>5 DEF LinkWrite
  <2>6. ASSUME NEW u \in Callers, NEW c \in DOMAIN chats, NEW v \in Persons,
               LeaveChat(u, c) \/ AddMember(u, c, v) \/ RemoveMember(u, c, v)
        PROVE  Len(chats) <= Len(chats')
    BY <2>2, <2>6 DEF LeaveChat, AddMember, RemoveMember
  <2>7. ASSUME NEW u \in Callers, NEW c \in DOMAIN chats, LeaveChat(u, c)
        PROVE  Len(chats) <= Len(chats')
    BY <2>2, <2>7 DEF LeaveChat
  <2>8. UNCHANGED chats => Len(chats) <= Len(chats')
    BY <1>0
  <2> QED BY <2>3, <2>4, <2>5, <2>6, <2>7, <2>8
<1>2. Len(groups) <= Len(groups')
  <2>1. UNCHANGED groups \/ \E u \in Callers : CreateGroup(u) \/ Invite(u)
    <3>1. ASSUME NEW u \in Callers, StartStep(u) PROVE UNCHANGED groups \/ CreateGroup(u) \/ Invite(u)
      BY <3>1 DEF StartStep, CheckBlocks, FindDirect, CreateRow, GetChat, LinkRead, LinkWrite, Finish
    <3>2. ASSUME NEW u \in Callers, EditStep(u) PROVE UNCHANGED groups
      BY <3>2 DEF EditStep, Abandon, Block, Unblock, LeaveChat, AddMember, RemoveMember
    <3>3. ASSUME NEW u \in Callers, NEW ask \in Asked, NewChat(u, ask[1], ask[2]) PROVE UNCHANGED groups
      BY <3>3 DEF NewChat
    <3>4. ASSUME NEW u \in Persons, Refresh(u) PROVE UNCHANGED groups
      BY <3>4 DEF Refresh
    <3>5. CASE UNCHANGED directoryVars
      BY <3>5 DEF directoryVars
    <3> QED BY <3>1, <3>2, <3>3, <3>4, <3>5 DEF DirectoryNext
  <2>2. ASSUME NEW u \in Callers, CreateGroup(u) PROVE Len(groups) <= Len(groups')
    <3>1. groups' = Append(groups, {u})
      BY <2>2 DEF CreateGroup
    <3> QED BY <1>0, <3>1
  <2>3. ASSUME NEW u \in Callers, Invite(u) PROVE Len(groups) <= Len(groups')
    <3>1. \E c, row : groups' = [groups EXCEPT ![c] = row]
      BY <2>3 DEF Invite
    <3> QED BY <1>0, <3>1
  <2>4. UNCHANGED groups => Len(groups) <= Len(groups')
    BY <1>0
  <2> QED BY <2>1, <2>2, <2>3, <2>4
<1> QED BY <1>0, <1>1, <1>2

LEMMA ExtentsStay ==
  ASSUME DirectoryInv, Extents, [DirectoryNext]_directoryVars
  PROVE  Extents'
<1>0. /\ chats \in Seq(ChatRow) /\ groups \in Seq(SUBSET Persons)
      /\ chats' \in Seq(ChatRow) /\ groups' \in Seq(SUBSET Persons)
      /\ Len(chats) <= Len(chats') /\ Len(groups) <= Len(groups')
  BY NothingGoes
<1>1. /\ Len(chats) \in Nat /\ Len(groups) \in Nat /\ Len(chats') \in Nat /\ Len(groups') \in Nat
      /\ DOMAIN chats = 1 .. Len(chats) /\ DOMAIN chats' = 1 .. Len(chats')
  BY <1>0
<1>2. 0 .. Len(groups) \subseteq 0 .. Len(groups') /\ 0 .. Len(chats) \subseteq 0 .. Len(chats')
      /\ DOMAIN chats \subseteq DOMAIN chats'
  BY <1>0, <1>1
<1>3. Callers \subseteq Persons /\ start \in [Callers -> StartCall]
  BY DirectoryAssumption DEF DirectoryInv, DirectoryTypes
<1>4. link' \in [Persons -> [1 .. MaxChats -> 0 .. Len(groups')]]
  <2>1. link \in [Persons -> [1 .. MaxChats -> 0 .. Len(groups')]]
    BY <1>2 DEF Extents
  <2>2. \A u \in Persons : Mirrored(u) \in [1 .. MaxChats -> 0 .. Len(groups')]
    <3> SUFFICES ASSUME NEW u \in Persons, NEW c \in 1 .. MaxChats
                 PROVE  (IF c \in DOMAIN chats /\ u \in chats[c].members /\ chats[c].group # 0
                         THEN chats[c].group ELSE link[u][c]) \in 0 .. Len(groups')
      BY DEF Mirrored
    <3>1. c \in DOMAIN chats => chats[c].group \in 0 .. Len(groups)
      BY DEF DirectoryInv, RowIsSound
    <3> QED BY <1>2, <2>1, <3>1
  <2>3. \/ UNCHANGED link
        \/ \E u \in Callers : GetChat(u) \/ Invite(u) \/ CreateGroup(u)
        \/ \E u \in Persons : Refresh(u)
    BY DEF DirectoryNext, directoryVars, StartStep, EditStep, NewChat, CheckBlocks, FindDirect,
           CreateRow, LinkRead, LinkWrite, Finish, Abandon, LeaveChat, AddMember, RemoveMember,
           Block, Unblock
  <2>4. ASSUME NEW u \in Persons, Mirror(u)
        PROVE  link' \in [Persons -> [1 .. MaxChats -> 0 .. Len(groups')]]
    BY <2>1, <2>2, <2>4 DEF Mirror
  <2>5. \A u \in Persons : Refresh(u) => Mirror(u)
    BY DEF Refresh
  <2>6. \A u \in Callers : /\ u \in Persons
                          /\ (Invite(u) => Mirror(u))
                          /\ (GetChat(u) => Mirror(u) \/ UNCHANGED link)
    BY <1>3 DEF Invite, GetChat
  <2>7. ASSUME NEW u \in Callers, CreateGroup(u)
        PROVE  link' \in [Persons -> [1 .. MaxChats -> 0 .. Len(groups')]]
    <3> DEFINE g == Len(groups) + 1
               c == start[u].chat
    <3>1. groups' = Append(groups, {u}) /\ link' = [link EXCEPT ![u][c] = g]
      BY <2>7 DEF CreateGroup
    <3>2. g \in 0 .. Len(groups')
      BY <1>0, <1>1, <3>1
    <3> HIDE DEF g, c
    <3>3. [link[u] EXCEPT ![c] = g] \in [1 .. MaxChats -> 0 .. Len(groups')]
      BY <1>3, <2>1, <3>2
    <3> QED BY <2>1, <3>1, <3>3
  <2> QED BY <2>1, <2>3, <2>4, <2>5, <2>6, <2>7
<1>5. blocks' \subseteq Persons \X Persons
  <2>1. \/ UNCHANGED blocks
        \/ \E u \in Callers, v \in Persons : Block(u, v) \/ Unblock(u, v)
    BY DEF DirectoryNext, directoryVars, StartStep, EditStep, NewChat, CheckBlocks, FindDirect,
           CreateRow, GetChat, CreateGroup, LinkRead, LinkWrite, Invite, Finish, Refresh, Abandon,
           LeaveChat, AddMember, RemoveMember
  <2>2. \A u \in Callers, v \in Persons :
          Block(u, v) \/ Unblock(u, v) => blocks' \subseteq blocks \cup {<<u, v>>}
    BY DEF Block, Unblock
  <2> QED BY <1>3, <2>1, <2>2 DEF Extents
<1>6. ASSUME NEW v \in Callers
      PROVE  start'[v].chat \in 0 .. Len(chats') /\ start'[v].group \in 0 .. Len(groups')
  <2>1. start[v].chat \in 0 .. Len(chats') /\ start[v].group \in 0 .. Len(groups')
    BY <1>2 DEF Extents
  <2>2. CASE start'[v] = start[v]
    BY <2>1, <2>2
  <2>3. ASSUME NEW u \in Callers, NEW s, Go(u, s),
               s.chat \in 0 .. Len(chats') /\ s.group \in 0 .. Len(groups')
        PROVE  start'[v].chat \in 0 .. Len(chats') /\ start'[v].group \in 0 .. Len(groups')
    BY <1>3, <2>1, <2>3 DEF Go
  <2>4. ASSUME NEW u \in Callers
        PROVE  /\ start[u].chat \in 0 .. Len(chats') /\ start[u].group \in 0 .. Len(groups')
               /\ start[u] \in StartCall
               /\ NoStart.chat \in 0 .. Len(chats') /\ NoStart.group \in 0 .. Len(groups')
    BY <1>1, <1>2, <1>3 DEF Extents, NoStart
  <2>5. ASSUME NEW u \in Callers, NEW pc, NEW told, NEW s,
               s = [start[u] EXCEPT !.pc = pc, !.provisioned = told], Go(u, s)
        PROVE  start'[v].chat \in 0 .. Len(chats') /\ start'[v].group \in 0 .. Len(groups')
    <3>1. s.chat = start[u].chat /\ s.group = start[u].group
      BY <2>4, <2>5 DEF StartCall
    <3> QED BY <2>3, <2>4, <2>5, <3>1
  <2>6. ASSUME NEW u \in Callers, NEW pc, NEW s, s = [start[u] EXCEPT !.pc = pc], Go(u, s)
        PROVE  start'[v].chat \in 0 .. Len(chats') /\ start'[v].group \in 0 .. Len(groups')
    <3>1. s.chat = start[u].chat /\ s.group = start[u].group
      BY <2>4, <2>6 DEF StartCall
    <3> QED BY <2>3, <2>4, <2>6, <3>1
  <2>7. ASSUME NEW u \in Callers, NEW pc, NEW n \in 0 .. Len(chats'), NEW s,
               s = [start[u] EXCEPT !.pc = pc, !.chat = n], Go(u, s)
        PROVE  start'[v].chat \in 0 .. Len(chats') /\ start'[v].group \in 0 .. Len(groups')
    <3>1. s.chat = n /\ s.group = start[u].group
      BY <2>4, <2>7 DEF StartCall
    <3> QED BY <2>3, <2>4, <2>7, <3>1
  <2>8. ASSUME NEW u \in Callers, NEW pc, NEW n \in 0 .. Len(groups'), NEW s,
               s = [start[u] EXCEPT !.pc = pc, !.group = n], Go(u, s)
        PROVE  start'[v].chat \in 0 .. Len(chats') /\ start'[v].group \in 0 .. Len(groups')
    <3>1. s.group = n /\ s.chat = start[u].chat
      BY <2>4, <2>8 DEF StartCall
    <3> QED BY <2>3, <2>4, <2>8, <3>1
  <2>9. ASSUME NEW u \in Callers, NEW kind, NEW peers, NewChat(u, kind, peers)
        PROVE  start'[v].chat \in 0 .. Len(chats') /\ start'[v].group \in 0 .. Len(groups')
    <3> DEFINE s == [NoStart EXCEPT !.pc = "asked", !.kind = kind, !.peers = peers]
    <3>1. s.chat = 0 /\ s.group = 0 /\ Go(u, s)
      BY <2>9 DEF NewChat, NoStart
    <3> HIDE DEF s
    <3> QED BY <1>1, <2>3, <3>1
  <2>10. ASSUME NEW u \in Callers, StartStep(u) \/ Abandon(u)
         PROVE  start'[v].chat \in 0 .. Len(chats') /\ start'[v].group \in 0 .. Len(groups')
    <3>1. CASE CheckBlocks(u) \/ LinkRead(u) \/ Finish(u) \/ Abandon(u) \/ LinkWrite(u)
      BY <2>3, <2>4, <2>6, <3>1 DEF CheckBlocks, LinkRead, Finish, Abandon, LinkWrite
    <3>2. CASE FindDirect(u)
      <4>1. Candidates(u) \subseteq 0 .. Len(chats')
        BY <1>1, <1>2 DEF Candidates
      <4> QED BY <2>6, <2>7, <3>2, <4>1 DEF FindDirect
    <3>3. CASE CreateRow(u)
      <4>1. Len(chats) + 1 \in 0 .. Len(chats')
        BY <1>0, <1>1, <3>3 DEF CreateRow
      <4> QED BY <2>7, <3>3, <4>1 DEF CreateRow
    <3>4. CASE GetChat(u) \/ Invite(u)
      BY <2>3, <2>4, <2>5, <2>6, <3>4 DEF GetChat, Invite
    <3>5. CASE CreateGroup(u)
      <4>1. Len(groups) + 1 \in 0 .. Len(groups')
        BY <1>0, <1>1, <3>5 DEF CreateGroup
      <4> QED BY <2>8, <3>5, <4>1 DEF CreateGroup
    <3> QED BY <2>10, <3>1, <3>2, <3>3, <3>4, <3>5 DEF StartStep
  <2>11. \/ UNCHANGED start
         \/ \E u \in Callers : StartStep(u) \/ Abandon(u)
         \/ \E u \in Callers, ask \in Asked : NewChat(u, ask[1], ask[2])
    BY DEF DirectoryNext, directoryVars, EditStep, Refresh, LeaveChat, AddMember, RemoveMember,
           Block, Unblock
  <2> QED BY <2>2, <2>9, <2>10, <2>11
<1>7. met' \subseteq (DOMAIN chats') \X (SUBSET Persons)
  <2>1. met \subseteq (DOMAIN chats') \X (SUBSET Persons)
    BY <1>2 DEF Extents
  <2>2. \A u \in Callers : StartStep(u) => UNCHANGED met
    BY DEF StartStep, CheckBlocks, FindDirect, CreateRow, GetChat, CreateGroup, LinkRead, LinkWrite,
           Invite, Finish, past
  <2>3. \A u \in Callers : EditStep(u) => UNCHANGED met \/ \E v \in Persons : Block(u, v)
    BY DEF EditStep, Abandon, LeaveChat, AddMember, RemoveMember, Unblock, past
  <2>4. \/ UNCHANGED met
        \/ \E u \in Callers, v \in Persons : Block(u, v)
    BY <2>2, <2>3 DEF DirectoryNext, directoryVars, NewChat, Refresh, past
  <2>5. ASSUME NEW u \in Callers, NEW v \in Persons, Block(u, v)
        PROVE  met' \subseteq (DOMAIN chats') \X (SUBSET Persons)
    <3>1. met' = met \cup {<<c, {u, v}>> : c \in {d \in DOMAIN chats : {u, v} \subseteq chats[d].members}}
      BY <2>5 DEF Block
    <3>2. {u, v} \in SUBSET Persons
      BY <1>3
    <3> QED BY <1>2, <2>1, <3>1, <3>2
  <2> QED BY <2>1, <2>4, <2>5
<1>8. uninvited' \subseteq DOMAIN chats'
  <2>1. \A u \in Callers : StartStep(u) => UNCHANGED uninvited \/ Invite(u)
    BY DEF StartStep, CheckBlocks, FindDirect, CreateRow, GetChat, CreateGroup, LinkRead, LinkWrite,
           Finish, past
  <2>2. \A u \in Callers : EditStep(u) => UNCHANGED uninvited \/ Abandon(u)
    BY DEF EditStep, LeaveChat, AddMember, RemoveMember, Block, Unblock, past
  <2>3. \/ UNCHANGED uninvited
        \/ \E u \in Callers : Invite(u) \/ Abandon(u)
    BY <2>1, <2>2 DEF DirectoryNext, directoryVars, NewChat, Refresh, past
  <2>4. \A u \in Callers : Invite(u) \/ Abandon(u) =>
          uninvited' = uninvited \/ (At(u, "linked") /\ uninvited' = uninvited \cup {start[u].chat})
    BY DEF Invite, Abandon
  <2>5. \A u \in Callers : At(u, "linked") => start[u].chat \in DOMAIN chats
    <3> SUFFICES ASSUME NEW u \in Callers, At(u, "linked") PROVE start[u].chat \in DOMAIN chats
      OBVIOUS
    <3>1. HandIsSound(u, start[u])
      BY StartTypes
    <3> QED BY <3>1 DEF HandIsSound, At, InHand
  <2> QED BY <1>2, <2>3, <2>4, <2>5 DEF Extents
<1> QED BY <1>4, <1>5, <1>6, <1>7, <1>8 DEF Extents

LEMMA DirectoryTypesHold == DirectorySpec => []DirectoryTypeOK
<1>1. DirectoryInv /\ Extents => DirectoryTypeOK
  <2> SUFFICES ASSUME DirectoryInv, Extents PROVE DirectoryTypeOK
    OBVIOUS
  <2>1. chats \in Seq(ChatRow) /\ groups \in Seq(SUBSET Persons)
    BY DEF DirectoryInv, DirectoryTypes
  <2>2. ASSUME NEW c \in DOMAIN chats
        PROVE  /\ chats[c].kind \in {"direct", "group"} /\ chats[c].by \in Callers
               /\ chats[c].members \subseteq Persons
               /\ chats[c].group \in 0 .. Len(groups)
    <3>1. chats[c] \in ChatRow
      BY <2>1
    <3>2. chats[c].group \in 0 .. Len(groups)
      BY DEF DirectoryInv, RowIsSound
    <3> QED BY <3>1, <3>2 DEF ChatRow
  <2>3. \A g \in DOMAIN groups : groups[g] \subseteq Persons
    BY <2>1
  <2>4. \A u \in Persons, c \in 1 .. MaxChats : link[u][c] \in 0 .. Len(groups)
    BY DEF Extents
  <2> QED BY <2>2, <2>3, <2>4 DEF Extents, DirectoryTypeOK
<1>2. DirectoryInit => Extents
  <2> SUFFICES ASSUME DirectoryInit PROVE Extents
    OBVIOUS
  <2>1. chats = <<>> /\ groups = <<>> /\ Len(<<>>) = 0
    BY DEF DirectoryInit
  <2>2. link \in [Persons -> [1 .. MaxChats -> 0 .. Len(groups)]]
    BY <2>1 DEF DirectoryInit
  <2>3. \A u \in Callers : start[u].chat = 0 /\ start[u].group = 0
    BY DEF DirectoryInit, NoStart
  <2> QED BY <2>1, <2>2, <2>3 DEF DirectoryInit, Extents
<1> QED BY <1>1, <1>2, DirectoryStarts, DirectoryStep, ExtentsStay, PTL DEF DirectorySpec

-----------------------------------------------------------------------------
\* Subscriptions

HandlerRun ==
  [pc : {"none", "attach", "detach"}, want : SUBSET Rooms, adding : SUBSET Rooms,
   removing : SUBSET Rooms, broken : BOOLEAN]

SubscriptionTypes ==
  /\ wanted \in [Devices -> SUBSET Rooms] /\ online \subseteq Devices
  /\ frames \in [Devices -> Seq(SUBSET Rooms)]
  /\ subs \subseteq Rooms /\ attachedChats \subseteq Rooms
  /\ handler \in [Handlers -> HandlerRun]
  /\ crossed \in BOOLEAN /\ failed \in BOOLEAN

\* The frames under way from a device end with what it wants now.
FramesAreUpToDate(d) ==
  frames[d] # << >> => d \in online /\ frames[d][Len(frames[d])] = wanted[d]

\* What handler h has left of its frame, when it runs alone and no call failed.
HandlerIsSound(h) ==
  /\ handler[h].pc = "attach" =>
       /\ handler[h].adding \subseteq handler[h].want
       /\ handler[h].removing = subs \ handler[h].want
       /\ attachedChats = subs \cup (handler[h].want \ handler[h].adding)
  /\ handler[h].pc = "detach" =>
       /\ handler[h].removing \cap handler[h].want = {}
       /\ attachedChats = handler[h].want \cup handler[h].removing
  /\ ~handler[h].broken

\* The frame that decides for device d was handled, or is being handled.
DeviceIsServed(d) ==
  d \in online /\ frames[d] = << >> /\ d \notin displaced =>
    /\ Running = {} => wanted[d] \subseteq subs
    /\ \A h \in Running : wanted[d] \subseteq handler[h].want

SubscriptionInv ==
  /\ SubscriptionTypes
  /\ \A d \in Devices : FramesAreUpToDate(d)
  /\ ~crossed /\ ~failed =>
       /\ \A g, h \in Running : g = h
       /\ Running = {} => subs = attachedChats
       /\ \A h \in Running : HandlerIsSound(h)
       /\ \A d \in Devices : DeviceIsServed(d)

LEMMA SubscriptionStarts == SubscriptionInit => SubscriptionInv
<1> SUFFICES ASSUME SubscriptionInit PROVE SubscriptionInv
  OBVIOUS
<1>1. NoHandler \in HandlerRun /\ NoHandler.pc = "none"
  BY DEF NoHandler, HandlerRun
<1>2. handler \in [Handlers -> HandlerRun] /\ Running = {}
  BY <1>1 DEF SubscriptionInit, Running
<1>3. SubscriptionTypes
  <2>1. {} \in SUBSET Rooms /\ << >> \in Seq(SUBSET Rooms)
    OBVIOUS
  <2> QED BY <1>2, <2>1 DEF SubscriptionInit, SubscriptionTypes
<1>4. \A d \in Devices : wanted[d] = {} /\ frames[d] = << >>
  BY DEF SubscriptionInit
<1> QED BY <1>2, <1>3, <1>4 DEF SubscriptionInit, SubscriptionInv, FramesAreUpToDate, DeviceIsServed

\* The steps of a device and its socket.
LEMMA DeviceKeeps ==
  ASSUME SubscriptionInv, NEW d \in Devices, NEW w \in SUBSET Rooms, NEW q \in Seq(SUBSET Rooms),
         wanted' = [wanted EXCEPT ![d] = w], frames' = [frames EXCEPT ![d] = q],
         online' \subseteq Devices, online' \ {d} = online \ {d},
         q # << >> => d \in online' /\ q[Len(q)] = w,
         d \in online' /\ q = << >> => w = {},
         UNCHANGED <<subs, attachedChats, handler, crossed, failed, displaced>>
  PROVE  SubscriptionInv'
<1>1. wanted \in [Devices -> SUBSET Rooms] /\ frames \in [Devices -> Seq(SUBSET Rooms)]
  BY DEF SubscriptionInv, SubscriptionTypes
<1>2. SubscriptionTypes'
  BY <1>1 DEF SubscriptionInv, SubscriptionTypes
<1>3. Running' = Running
  BY DEF Running
<1>4. \A h : HandlerIsSound(h)' <=> HandlerIsSound(h)
  BY DEF HandlerIsSound
<1>5. /\ wanted'[d] = w /\ frames'[d] = q
      /\ \A e \in Devices \ {d} :
           wanted'[e] = wanted[e] /\ frames'[e] = frames[e] /\ (e \in online' <=> e \in online)
  BY <1>1
<1>6. ASSUME NEW e \in Devices PROVE FramesAreUpToDate(e)'
  BY <1>5 DEF SubscriptionInv, FramesAreUpToDate
<1>7. ASSUME NEW e \in Devices, ~crossed, ~failed PROVE DeviceIsServed(e)'
  <2>1. CASE e = d
    BY <1>5, <2>1 DEF DeviceIsServed
  <2>2. CASE e # d
    <3>1. DeviceIsServed(e)
      BY <1>7 DEF SubscriptionInv
    <3> QED BY <1>3, <1>5, <2>2, <3>1 DEF DeviceIsServed
  <2> QED BY <2>1, <2>2
<1> QED BY <1>2, <1>3, <1>4, <1>6, <1>7 DEF SubscriptionInv

LEMMA SubscribeKeeps ==
  ASSUME SubscriptionInv, NEW d \in Devices, NEW c \in Rooms, Subscribe(d, c)
  PROVE  SubscriptionInv'
<1>1. /\ wanted \in [Devices -> SUBSET Rooms] /\ frames \in [Devices -> Seq(SUBSET Rooms)]
      /\ online \subseteq Devices /\ FramesAreUpToDate(d)
  BY DEF SubscriptionInv, SubscriptionTypes
<1>2. PICK w : w = wanted[d] \cup {c}
  OBVIOUS
<1>3. /\ w \in SUBSET Rooms /\ wanted' = [wanted EXCEPT ![d] = w] /\ wanted'[d] = w
      /\ UNCHANGED <<online, subs, attachedChats, handler, crossed, failed, displaced>>
  BY <1>1, <1>2 DEF Subscribe
<1>4. CASE d \in online
  <2>1. PICK q : q = Append(frames[d], w)
    OBVIOUS
  <2>2. q \in Seq(SUBSET Rooms) /\ q # << >> /\ q[Len(q)] = w
    BY <1>1, <1>3, <2>1
  <2>3. frames' = [frames EXCEPT ![d] = q]
    BY <1>3, <1>4, <2>1 DEF Subscribe
  <2> QED BY <1>1, <1>3, <1>4, <2>2, <2>3, DeviceKeeps
<1>5. CASE d \notin online
  <2>1. PICK q : q = frames[d]
    OBVIOUS
  <2>2. q \in Seq(SUBSET Rooms) /\ q = << >> /\ frames' = [frames EXCEPT ![d] = q]
    BY <1>1, <1>5, <2>1 DEF Subscribe, FramesAreUpToDate
  <2> QED BY <1>1, <1>3, <1>5, <2>2, DeviceKeeps
<1> QED BY <1>4, <1>5

LEMMA SocketKeeps ==
  ASSUME SubscriptionInv, NEW d \in Devices,
         Hello(d) \/ SocketDrops(d) \/ DeviceRestarts(d)
  PROVE  SubscriptionInv'
<1>1. wanted \in [Devices -> SUBSET Rooms] /\ online \subseteq Devices
  BY DEF SubscriptionInv, SubscriptionTypes
<1>2. PICK w : w = wanted[d]
  OBVIOUS
<1>3. w \in SUBSET Rooms /\ wanted = [wanted EXCEPT ![d] = w]
  BY <1>1, <1>2
<1>4. CASE Hello(d)
  <2>1. PICK q : q = Flush(d)
    OBVIOUS
  <2>2. /\ q \in Seq(SUBSET Rooms) /\ (q # << >> => q[Len(q)] = w) /\ (q = << >> => w = {})
    BY <1>2, <1>3, <2>1 DEF Flush
  <2>3. /\ wanted' = [wanted EXCEPT ![d] = w] /\ frames' = [frames EXCEPT ![d] = q]
        /\ online' = online \cup {d}
        /\ UNCHANGED <<subs, attachedChats, handler, crossed, failed, displaced>>
    BY <1>3, <1>4, <2>1 DEF Hello
  <2> QED BY <1>1, <1>3, <2>2, <2>3, DeviceKeeps
<1>5. CASE SocketDrops(d)
  <2>1. /\ wanted' = [wanted EXCEPT ![d] = w] /\ frames' = [frames EXCEPT ![d] = << >>]
        /\ online' = online \ {d}
        /\ UNCHANGED <<subs, attachedChats, handler, crossed, failed, displaced>>
    BY <1>3, <1>5 DEF SocketDrops
  <2>2. << >> \in Seq(SUBSET Rooms)
    OBVIOUS
  <2> QED BY <1>1, <1>3, <2>1, <2>2, DeviceKeeps
<1>6. CASE DeviceRestarts(d)
  <2>1. /\ wanted' = [wanted EXCEPT ![d] = {}] /\ frames' = [frames EXCEPT ![d] = << >>]
        /\ online' = online \ {d}
        /\ UNCHANGED <<subs, attachedChats, handler, crossed, failed, displaced>>
    BY <1>6 DEF DeviceRestarts
  <2>2. << >> \in Seq(SUBSET Rooms)
    OBVIOUS
  <2> QED BY <1>1, <2>1, <2>2, DeviceKeeps
<1> QED BY <1>4, <1>5, <1>6

\* A step of a handler that was running.
LEMMA HandlerKeeps ==
  ASSUME SubscriptionInv, NEW h \in Handlers, NEW s \in HandlerRun, handler[h].pc # "none",
         handler' = [handler EXCEPT ![h] = s], subs' \subseteq Rooms, attachedChats' \subseteq Rooms,
         UNCHANGED <<wanted, online, frames, crossed, displaced>>,
         failed' \in BOOLEAN, failed => failed',
         ~crossed /\ ~failed' /\ HandlerIsSound(h) =>
           IF s.pc = "none" THEN subs' = handler[h].want /\ attachedChats' = subs'
           ELSE HandlerIsSound(h)' /\ s.want = handler[h].want
  PROVE  SubscriptionInv'
<1>1. handler \in [Handlers -> HandlerRun]
  BY DEF SubscriptionInv, SubscriptionTypes
<1>2. /\ handler' \in [Handlers -> HandlerRun] /\ handler'[h] = s
      /\ \A g \in Handlers \ {h} : handler'[g] = handler[g]
  BY <1>1
<1>3. SubscriptionTypes'
  BY <1>2 DEF SubscriptionInv, SubscriptionTypes
<1>4. \A d \in Devices : FramesAreUpToDate(d)'
  BY DEF SubscriptionInv, FramesAreUpToDate
<1>5. ASSUME ~crossed, ~failed'
      PROVE  /\ \A g, k \in Running' : g = k
             /\ Running' = {} => subs' = attachedChats'
             /\ \A g \in Running' : HandlerIsSound(g)'
             /\ \A d \in Devices : DeviceIsServed(d)'
  <2>1. Running = {h} /\ HandlerIsSound(h) /\ \A d \in Devices : DeviceIsServed(d)
    BY <1>5 DEF SubscriptionInv, Running
  <2>2. CASE s.pc = "none"
    <3>1. Running' = {} /\ subs' = handler[h].want /\ attachedChats' = subs'
      BY <1>2, <1>5, <2>1, <2>2 DEF Running
    <3>2. \A d \in Devices : DeviceIsServed(d)'
      BY <2>1, <3>1 DEF DeviceIsServed
    <3> QED BY <3>1, <3>2
  <2>3. CASE s.pc # "none"
    <3>1. Running' = {h} /\ HandlerIsSound(h)' /\ handler'[h].want = handler[h].want
      BY <1>2, <1>5, <2>1, <2>3 DEF Running
    <3>2. \A d \in Devices : DeviceIsServed(d)'
      BY <2>1, <3>1 DEF DeviceIsServed
    <3>3. \A g \in Running' : HandlerIsSound(g)'
      BY <3>1
    <3> QED BY <3>1, <3>2, <3>3
  <2> QED BY <2>2, <2>3
<1> QED BY <1>3, <1>4, <1>5 DEF SubscriptionInv

LEMMA HandlerTypes ==
  ASSUME SubscriptionInv, NEW h \in Handlers
  PROVE  /\ handler[h] \in HandlerRun /\ NoHandler \in HandlerRun /\ NoHandler.pc = "none"
         /\ handler[h].want \subseteq Rooms /\ handler[h].adding \subseteq Rooms
         /\ handler[h].removing \subseteq Rooms
         /\ subs \subseteq Rooms /\ attachedChats \subseteq Rooms /\ failed \in BOOLEAN
<1>1. handler[h] \in HandlerRun /\ subs \subseteq Rooms /\ attachedChats \subseteq Rooms /\ failed \in BOOLEAN
  BY DEF SubscriptionInv, SubscriptionTypes
<1> QED BY <1>1 DEF HandlerRun, NoHandler

LEMMA RoomCallKeeps ==
  ASSUME SubscriptionInv, NEW h \in Handlers, NEW c \in Rooms,
         Attach(h, c) \/ Detach(h, c) \/ RoomFails(h, c)
  PROVE  SubscriptionInv'
<1>1. CASE Attach(h, c)
  <2>1. PICK s : s = [handler[h] EXCEPT !.adding = handler[h].adding \ {c}]
    OBVIOUS
  <2>2. /\ s \in HandlerRun /\ s.pc = handler[h].pc /\ s.want = handler[h].want
        /\ s.adding = handler[h].adding \ {c} /\ s.removing = handler[h].removing
        /\ s.broken = handler[h].broken
    BY <2>1, HandlerTypes DEF HandlerRun
  <2>3. /\ handler[h].pc = "attach" /\ c \in handler[h].adding
        /\ attachedChats' = attachedChats \cup {c} /\ handler' = [handler EXCEPT ![h] = s]
        /\ UNCHANGED <<wanted, online, frames, subs, crossed, failed, displaced>>
    BY <1>1, <2>1 DEF Attach
  <2>4. handler'[h] = s
    BY <2>3 DEF SubscriptionInv, SubscriptionTypes
  <2>5. HandlerIsSound(h) => HandlerIsSound(h)'
    BY <2>2, <2>3, <2>4 DEF HandlerIsSound
  <2>6. attachedChats' \subseteq Rooms /\ failed' \in BOOLEAN /\ subs' \subseteq Rooms
    BY <2>3, HandlerTypes
  <2> HIDE DEF HandlerIsSound
  <2> QED BY <2>2, <2>3, <2>5, <2>6, HandlerKeeps
<1>2. CASE Detach(h, c)
  <2>1. PICK s : s = [handler[h] EXCEPT !.removing = handler[h].removing \ {c}]
    OBVIOUS
  <2>2. /\ s \in HandlerRun /\ s.pc = handler[h].pc /\ s.want = handler[h].want
        /\ s.adding = handler[h].adding /\ s.removing = handler[h].removing \ {c}
        /\ s.broken = handler[h].broken
    BY <2>1, HandlerTypes DEF HandlerRun
  <2>3. /\ handler[h].pc = "detach" /\ c \in handler[h].removing
        /\ attachedChats' = attachedChats \ {c} /\ handler' = [handler EXCEPT ![h] = s]
        /\ UNCHANGED <<wanted, online, frames, subs, crossed, failed, displaced>>
    BY <1>2, <2>1 DEF Detach
  <2>4. handler'[h] = s
    BY <2>3 DEF SubscriptionInv, SubscriptionTypes
  <2>5. HandlerIsSound(h) => HandlerIsSound(h)'
    BY <2>2, <2>3, <2>4 DEF HandlerIsSound
  <2>6. attachedChats' \subseteq Rooms /\ failed' \in BOOLEAN /\ subs' \subseteq Rooms
    BY <2>3, HandlerTypes
  <2> HIDE DEF HandlerIsSound
  <2> QED BY <2>2, <2>3, <2>5, <2>6, HandlerKeeps
<1>3. CASE RoomFails(h, c)
  <2>1. PICK s : s = [handler[h] EXCEPT !.adding = handler[h].adding \ {c},
                                        !.removing = handler[h].removing \ {c}, !.broken = TRUE]
    OBVIOUS
  <2>2. s \in HandlerRun
    BY <2>1, HandlerTypes DEF HandlerRun
  <2>3. /\ handler[h].pc # "none" /\ failed' = TRUE
        /\ UNCHANGED <<wanted, online, frames, subs, crossed, displaced>>
    BY <1>3 DEF RoomFails
  <2>4. attachedChats' \subseteq Rooms
    BY <1>3, HandlerTypes DEF RoomFails
  <2>5. handler' = [handler EXCEPT ![h] = s]
    BY <1>3, <2>1, HandlerTypes DEF RoomFails, HandlerRun
  <2> QED BY <2>2, <2>3, <2>4, <2>5, HandlerTypes, HandlerKeeps
<1> QED BY <1>1, <1>2, <1>3

LEMMA HandlerEndKeeps ==
  ASSUME SubscriptionInv, NEW h \in Handlers, Attached(h) \/ DetachedFrom(h)
  PROVE  SubscriptionInv'
<1>1. CASE Attached(h)
  <2>1. /\ handler[h].pc = "attach" /\ handler[h].adding = {}
        /\ handler' = [handler EXCEPT ![h] = IF handler[h].broken THEN NoHandler
                                             ELSE [handler[h] EXCEPT !.pc = "detach"]]
        /\ UNCHANGED <<wanted, online, frames, subs, attachedChats, crossed, failed, displaced>>
    BY <1>1 DEF Attached
  <2>2. PICK s : s = IF handler[h].broken THEN NoHandler ELSE [handler[h] EXCEPT !.pc = "detach"]
    OBVIOUS
  <2>3. s \in HandlerRun /\ handler' = [handler EXCEPT ![h] = s]
    BY <2>1, <2>2, HandlerTypes DEF HandlerRun
  <2>4. handler'[h] = s
    BY <2>3 DEF SubscriptionInv, SubscriptionTypes
  <2>5. HandlerIsSound(h) =>
          HandlerIsSound(h)' /\ s.pc # "none" /\ s.want = handler[h].want
    <3> SUFFICES ASSUME HandlerIsSound(h)
                 PROVE  HandlerIsSound(h)' /\ s.pc # "none" /\ s.want = handler[h].want
      OBVIOUS
    <3>1. /\ s.pc = "detach" /\ s.want = handler[h].want /\ s.removing = handler[h].removing
          /\ s.broken = handler[h].broken
      BY <2>2, HandlerTypes DEF HandlerIsSound, HandlerRun
    <3> QED BY <2>1, <2>4, <3>1 DEF HandlerIsSound
  <2> HIDE DEF HandlerIsSound
  <2> QED BY <2>1, <2>3, <2>5, HandlerTypes, HandlerKeeps
<1>2. CASE DetachedFrom(h)
  <2>1. /\ handler[h].pc = "detach" /\ handler[h].removing = {}
        /\ subs' = IF handler[h].broken THEN subs ELSE handler[h].want
        /\ handler' = [handler EXCEPT ![h] = NoHandler]
        /\ UNCHANGED <<wanted, online, frames, attachedChats, crossed, failed, displaced>>
    BY <1>2 DEF DetachedFrom
  <2>2. HandlerIsSound(h) => subs' = handler[h].want /\ attachedChats' = subs'
    BY <2>1 DEF HandlerIsSound
  <2>3. subs' \subseteq Rooms /\ attachedChats' \subseteq Rooms /\ failed' \in BOOLEAN
    BY <2>1, HandlerTypes
  <2> HIDE DEF HandlerIsSound
  <2> QED BY <2>1, <2>2, <2>3, HandlerTypes, HandlerKeeps
<1> QED BY <1>1, <1>2

LEMMA HeadAndTail ==
  ASSUME NEW S, NEW f \in Seq(S), f # << >>
  PROVE  /\ Head(f) \in S /\ Tail(f) \in Seq(S)
         /\ Tail(f) # << >> => Tail(f)[Len(Tail(f))] = f[Len(f)]
         /\ Tail(f) = << >> => Head(f) = f[Len(f)]
<1> DEFINE t == Tail(f)
<1>1. /\ Head(f) \in S /\ Head(f) = f[1] /\ t \in Seq(S) /\ Len(t) = Len(f) - 1
      /\ Len(f) \in Nat /\ Len(f) # 0
  OBVIOUS
<1>2. ASSUME t # << >> PROVE t[Len(t)] = f[Len(f)]
  BY <1>1, <1>2
<1> HIDE DEF t
<1>3. t = << >> => Len(t) = 0
  BY <1>1
<1>4. t = << >> => Len(f) = 1
  BY <1>1, <1>3
<1>5. t = << >> => Head(f) = f[Len(f)]
  BY <1>1, <1>4
<1> QED BY <1>1, <1>2, <1>5 DEF t

LEMMA StartKeeps ==
  ASSUME SubscriptionInv, NEW d \in Devices, NEW h \in Handlers, Start(d, h)
  PROVE  SubscriptionInv'
<1>1. PICK want, q : want = Head(frames[d]) /\ q = Tail(frames[d])
  OBVIOUS
<1>2. PICK s : s = [pc |-> "attach", want |-> want, adding |-> want \ subs,
                    removing |-> subs \ want, broken |-> FALSE]
  OBVIOUS
<1>3. /\ handler[h].pc = "none" /\ frames[d] # << >>
      /\ handler' = [handler EXCEPT ![h] = s] /\ frames' = [frames EXCEPT ![d] = q]
      /\ displaced' = (displaced \ {d}) \cup {e \in Devices \ {d} : ~(wanted[e] \subseteq want)}
      /\ crossed' = (crossed \/ Running # {})
      /\ UNCHANGED <<wanted, online, subs, attachedChats, failed>>
  BY <1>1, <1>2 DEF Start
<1>4. /\ frames \in [Devices -> Seq(SUBSET Rooms)] /\ handler \in [Handlers -> HandlerRun]
      /\ wanted \in [Devices -> SUBSET Rooms] /\ FramesAreUpToDate(d) /\ subs \subseteq Rooms
      /\ crossed \in BOOLEAN
  BY DEF SubscriptionInv, SubscriptionTypes
<1>5. /\ want \in SUBSET Rooms /\ q \in Seq(SUBSET Rooms)
      /\ q # << >> => q[Len(q)] = frames[d][Len(frames[d])]
      /\ q = << >> => want = frames[d][Len(frames[d])]
  <2>1. frames[d] \in Seq(SUBSET Rooms) /\ frames[d] # << >>
    BY <1>3, <1>4
  <2> QED BY <1>1, <2>1, HeadAndTail
<1>6. /\ s \in HandlerRun /\ s.pc = "attach" /\ s.want = want /\ s.adding = want \ subs
      /\ s.removing = subs \ want /\ s.broken = FALSE
  BY <1>2, <1>4, <1>5 DEF HandlerRun
<1>7. /\ handler' \in [Handlers -> HandlerRun] /\ handler'[h] = s
      /\ \A g \in Handlers \ {h} : handler'[g] = handler[g]
      /\ frames' \in [Devices -> Seq(SUBSET Rooms)] /\ frames'[d] = q
      /\ \A e \in Devices \ {d} : frames'[e] = frames[e]
  BY <1>3, <1>4, <1>5, <1>6
<1>8. SubscriptionTypes'
  <2>1. crossed' \in BOOLEAN
    BY <1>3, <1>4
  <2> QED BY <1>3, <1>7, <2>1 DEF SubscriptionInv, SubscriptionTypes
<1>9. \A e \in Devices : FramesAreUpToDate(e)'
  BY <1>3, <1>4, <1>5, <1>7 DEF SubscriptionInv, FramesAreUpToDate
<1>10. ASSUME ~crossed', ~failed'
       PROVE  /\ \A g, k \in Running' : g = k
              /\ Running' = {} => subs' = attachedChats'
              /\ \A g \in Running' : HandlerIsSound(g)'
              /\ \A e \in Devices : DeviceIsServed(e)'
  <2>1. Running = {} /\ subs = attachedChats
    BY <1>3, <1>10 DEF SubscriptionInv
  <2>2. Running' = {h}
    BY <1>6, <1>7, <2>1 DEF Running
  <2>3. HandlerIsSound(h)'
    BY <1>3, <1>6, <1>7, <2>1 DEF HandlerIsSound
  <2>4. ASSUME NEW e \in Devices PROVE DeviceIsServed(e)'
    <3>1. CASE e = d
      BY <1>3, <1>4, <1>5, <1>6, <1>7, <2>2, <3>1 DEF DeviceIsServed, FramesAreUpToDate
    <3>2. CASE e # d
      BY <1>3, <1>6, <1>7, <2>2, <3>2 DEF DeviceIsServed
    <3> QED BY <3>1, <3>2
  <2>5. \A g \in Running' : HandlerIsSound(g)'
    BY <2>2, <2>3
  <2> QED BY <2>2, <2>4, <2>5
<1> QED BY <1>8, <1>9, <1>10 DEF SubscriptionInv

LEMMA SubscriptionStep ==
  SubscriptionInv /\ [SubscriptionNext]_subscriptionVars => SubscriptionInv'
<1>1. CASE UNCHANGED subscriptionVars
  BY <1>1 DEF subscriptionVars, SubscriptionInv, SubscriptionTypes, FramesAreUpToDate, Running,
       HandlerIsSound, DeviceIsServed
<1> QED BY <1>1, SubscribeKeeps, SocketKeeps, StartKeeps, HandlerEndKeeps, RoomCallKeeps
        DEF SubscriptionNext

\* Once its frames are handled, the chats of a connected device have its user
\* attached, unless one of the three named ways to lose that was taken
\* (user-inbox.ts:149-176).
THEOREM ConnectedStaysAttached == SubscriptionSpec => []ConnectedIsAttached
<1>1. SubscriptionInv => ConnectedIsAttached
  BY DEF SubscriptionInv, SubscriptionTypes, ConnectedIsAttached, DeviceIsServed
<1> QED BY <1>1, SubscriptionStarts, SubscriptionStep, PTL DEF SubscriptionSpec

\* What is on its way names chats the device wants, and what a handler has left goes with
\* the frame it handles.
FramesFit ==
  /\ \A d \in Devices : \A i \in 1 .. Len(frames[d]) : frames[d][i] \subseteq wanted[d]
  /\ \A h \in Handlers : /\ handler[h].adding \subseteq handler[h].want
                         /\ handler[h].removing \cap handler[h].want = {}
  /\ rpcFaults \in 0 .. MaxRpcFaults /\ displaced \subseteq Devices

LEMMA FramesStayFit ==
  ASSUME SubscriptionTypes, FramesFit, [SubscriptionNext]_subscriptionVars
  PROVE  FramesFit'
<1>0. /\ wanted \in [Devices -> SUBSET Rooms] /\ frames \in [Devices -> Seq(SUBSET Rooms)]
      /\ handler \in [Handlers -> HandlerRun]
  BY DEF SubscriptionTypes
<1>1. ASSUME NEW d \in Devices
      PROVE  \A i \in 1 .. Len(frames'[d]) : frames'[d][i] \subseteq wanted'[d]
  <2>0. /\ frames[d] \in Seq(SUBSET Rooms) /\ wanted[d] \in SUBSET Rooms
        /\ \A i \in 1 .. Len(frames[d]) : frames[d][i] \subseteq wanted[d]
    BY <1>0 DEF FramesFit
  <2>1. CASE frames'[d] = <<>>
    BY <2>1
  <2>2. CASE frames'[d] = frames[d] /\ wanted[d] \subseteq wanted'[d]
    BY <2>0, <2>2
  <2>3. CASE frames'[d] = <<wanted'[d]>>
    BY <2>3
  <2>4. CASE frames'[d] = Append(frames[d], wanted'[d]) /\ wanted[d] \subseteq wanted'[d]
    <3> DEFINE q == frames[d]
    <3>1. /\ q \in Seq(SUBSET Rooms) /\ Len(Append(q, wanted'[d])) = Len(q) + 1
          /\ \A i \in 1 .. Len(q) : Append(q, wanted'[d])[i] = q[i]
          /\ Append(q, wanted'[d])[Len(q) + 1] = wanted'[d]
      BY <2>0
    <3> QED BY <2>0, <2>4, <3>1
  <2>5. CASE frames[d] # <<>> /\ frames'[d] = Tail(frames[d]) /\ wanted'[d] = wanted[d]
    <3> DEFINE q == frames[d]
    <3>1. /\ Len(Tail(q)) = Len(q) - 1 /\ Len(q) \in Nat
          /\ \A i \in 1 .. Len(q) - 1 : Tail(q)[i] = q[i + 1]
      BY <2>0, <2>5
    <3> QED BY <2>0, <2>5, <3>1
  <2>6. \/ UNCHANGED <<frames, wanted>>
        \/ \E e \in Devices : Hello(e) \/ SocketDrops(e) \/ DeviceRestarts(e)
        \/ \E e \in Devices, c \in Rooms : Subscribe(e, c)
        \/ \E e \in Devices, h \in Handlers : Start(e, h)
    BY DEF SubscriptionNext, subscriptionVars, Attached, DetachedFrom, Attach, Detach, RoomFails
  <2>7. ASSUME NEW e \in Devices, Hello(e) \/ SocketDrops(e) \/ DeviceRestarts(e)
        PROVE  \/ frames'[d] = frames[d] /\ wanted[d] \subseteq wanted'[d]
               \/ frames'[d] = <<>> \/ frames'[d] = <<wanted'[d]>>
    BY <1>0, <2>7 DEF Hello, SocketDrops, DeviceRestarts, Flush
  <2>8. ASSUME NEW e \in Devices, NEW c \in Rooms, Subscribe(e, c)
        PROVE  \/ frames'[d] = frames[d] /\ wanted[d] \subseteq wanted'[d]
               \/ frames'[d] = Append(frames[d], wanted'[d]) /\ wanted[d] \subseteq wanted'[d]
    BY <1>0, <2>8 DEF Subscribe
  <2>9. ASSUME NEW e \in Devices, NEW h \in Handlers, Start(e, h)
        PROVE  \/ frames'[d] = frames[d] /\ wanted[d] \subseteq wanted'[d]
               \/ frames[d] # <<>> /\ frames'[d] = Tail(frames[d]) /\ wanted'[d] = wanted[d]
    BY <1>0, <2>9 DEF Start
  <2> QED BY <2>1, <2>2, <2>3, <2>4, <2>5, <2>6, <2>7, <2>8, <2>9
<1>2. ASSUME NEW g \in Handlers
      PROVE  /\ handler'[g].adding \subseteq handler'[g].want
             /\ handler'[g].removing \cap handler'[g].want = {}
  <2>0. /\ handler[g] \in HandlerRun /\ handler[g].adding \subseteq handler[g].want
        /\ handler[g].removing \cap handler[g].want = {}
    BY <1>0 DEF FramesFit
  <2>1. NoHandler.adding = {} /\ NoHandler.removing = {}
    BY DEF NoHandler
  <2>2. \/ UNCHANGED handler
        \/ \E h \in Handlers : Attached(h) \/ DetachedFrom(h)
        \/ \E h \in Handlers, c \in Rooms : Attach(h, c) \/ Detach(h, c) \/ RoomFails(h, c)
        \/ \E d \in Devices, h \in Handlers : Start(d, h)
    BY DEF SubscriptionNext, subscriptionVars, Hello, SocketDrops, DeviceRestarts, Subscribe
  <2>3. ASSUME NEW h \in Handlers, Attached(h) \/ DetachedFrom(h)
        PROVE  \/ handler'[g] \in {handler[g], NoHandler}
               \/ handler'[g] = [handler[g] EXCEPT !.pc = "detach"]
    BY <1>0, <2>3 DEF Attached, DetachedFrom
  <2>4. /\ [handler[g] EXCEPT !.pc = "detach"].adding = handler[g].adding
        /\ [handler[g] EXCEPT !.pc = "detach"].removing = handler[g].removing
        /\ [handler[g] EXCEPT !.pc = "detach"].want = handler[g].want
    BY <2>0 DEF HandlerRun
  <2>5. ASSUME NEW h \in Handlers, NEW c \in Rooms, Attach(h, c) \/ Detach(h, c) \/ RoomFails(h, c)
        PROVE  /\ handler'[g].want = handler[g].want
               /\ handler'[g].adding \subseteq handler[g].adding
               /\ handler'[g].removing \subseteq handler[g].removing
    <3> DEFINE o == handler[h]
               a == [o EXCEPT !.adding = @ \ {c}]
               b == [o EXCEPT !.removing = @ \ {c}]
               e == [o EXCEPT !.adding = @ \ {c}, !.removing = @ \ {c}, !.broken = TRUE]
    <3>0. o \in HandlerRun
      BY <1>0
    <3>1. /\ a.want = o.want /\ a.adding = o.adding \ {c} /\ a.removing = o.removing
          /\ b.want = o.want /\ b.adding = o.adding /\ b.removing = o.removing \ {c}
          /\ e.want = o.want /\ e.adding = o.adding \ {c} /\ e.removing = o.removing \ {c}
      BY <3>0 DEF HandlerRun
    <3>2. \E r \in {a, b, e} : handler' = [handler EXCEPT ![h] = r]
      BY <2>5 DEF Attach, Detach, RoomFails
    <3> HIDE DEF a, b, e
    <3>3. handler'[g] = handler[g] \/ (g = h /\ handler'[g] \in {a, b, e})
      BY <1>0, <3>2
    <3> QED BY <3>1, <3>3
  <2>6. ASSUME NEW d \in Devices, NEW h \in Handlers, Start(d, h)
        PROVE  \/ handler'[g] = handler[g]
               \/ /\ handler'[g].adding = handler'[g].want \ subs
                  /\ handler'[g].removing = subs \ handler'[g].want
    BY <1>0, <2>6 DEF Start
  <2>7. CASE \E h \in Handlers : Attached(h) \/ DetachedFrom(h)
    BY <2>0, <2>1, <2>3, <2>4, <2>7
  <2>8. CASE \E h \in Handlers, c \in Rooms : Attach(h, c) \/ Detach(h, c) \/ RoomFails(h, c)
    BY <2>0, <2>5, <2>8
  <2>9. CASE \E d \in Devices, h \in Handlers : Start(d, h)
    BY <2>0, <2>6, <2>9
  <2> QED BY <2>0, <2>2, <2>7, <2>8, <2>9
<1>3. rpcFaults' \in 0 .. MaxRpcFaults
  <2>1. UNCHANGED rpcFaults \/ (rpcFaults < MaxRpcFaults /\ rpcFaults' = rpcFaults + 1)
    BY DEF SubscriptionNext, subscriptionVars, Hello, SocketDrops, DeviceRestarts, Subscribe, Start,
           Attached, DetachedFrom, Attach, Detach, RoomFails, Fault
  <2> QED BY <2>1, SubscriptionAssumption DEF FramesFit
<1>4. displaced' \subseteq Devices
  <2>1. displaced' \subseteq displaced \cup Devices
    BY DEF SubscriptionNext, subscriptionVars, Hello, SocketDrops, DeviceRestarts, Subscribe, Start,
           Attached, DetachedFrom, Attach, Detach, RoomFails
  <2> QED BY <2>1 DEF FramesFit
<1> QED BY <1>1, <1>2, <1>3, <1>4 DEF FramesFit

LEMMA SubscriptionTypesHold == SubscriptionSpec => []SubscriptionTypeOK
<1>1. SubscriptionTypes /\ FramesFit => SubscriptionTypeOK
  <2> SUFFICES ASSUME SubscriptionTypes, FramesFit PROVE SubscriptionTypeOK
    OBVIOUS
  <2>1. ASSUME NEW d \in Devices, NEW i \in DOMAIN frames[d] PROVE frames[d][i] \subseteq wanted[d]
    <3>1. DOMAIN frames[d] = 1 .. Len(frames[d])
      BY DEF SubscriptionTypes
    <3> QED BY <3>1 DEF FramesFit
  <2>2. \A h \in Handlers : handler[h].pc \in {"none", "attach", "detach"}
    BY DEF SubscriptionTypes, HandlerRun
  <2> QED BY <2>1, <2>2 DEF SubscriptionTypes, FramesFit, SubscriptionTypeOK
<1>2. SubscriptionInit => FramesFit
  <2> SUFFICES ASSUME SubscriptionInit PROVE FramesFit
    OBVIOUS
  <2>1. \A d \in Devices : frames[d] = <<>>
    BY DEF SubscriptionInit
  <2> QED BY <2>1, SubscriptionAssumption DEF SubscriptionInit, FramesFit, NoHandler
<1>3. SubscriptionInv => SubscriptionTypes
  BY DEF SubscriptionInv
<1> QED BY <1>1, <1>2, <1>3, SubscriptionStarts, SubscriptionStep, FramesStayFit, PTL
        DEF SubscriptionSpec

-----------------------------------------------------------------------------
\* Pushes: the fan-out

FanoutTypes ==
  /\ record \in [Messages -> {"none", "queued", "lost", "sending", "done"}]
  /\ sending \in [Messages -> SUBSET Addressees]
  /\ has \in [Addressees -> SUBSET Messages] /\ alerted \in [Addressees -> SUBSET Messages]

\* u got message i, or the history says why not.
Accounted(u, i) == i \in has[u] \cup alerted[u] \/ <<u, i>> \in presumed \cup swallowed

\* A device without a token, one the hint names, and one whose turn has passed or not.
DeviceIsAccounted(u, i) ==
  /\ u \notin tokens => <<u, i>> \in swallowed
  /\ u \in attachedIds => i \in has[u] \/ <<u, i>> \in presumed
  /\ record[i] = "sending" => u \in sending[i] \/ Accounted(u, i)
  /\ record[i] = "done" => Accounted(u, i)

FanoutInv ==
  /\ FanoutTypes
  /\ \A i \in Messages : \A u \in OthersOf(i) \cap Reached : DeviceIsAccounted(u, i)

LEMMA FanoutStarts == PushFanoutInit => FanoutInv
  BY DEF PushFanoutInit, FanoutInv, FanoutTypes, DeviceIsAccounted

\* What a device has is not taken from it, and no record comes nearer to its end.
LEMMA FanoutStays ==
  ASSUME FanoutInv, FanoutTypes', tokens \subseteq tokens',
         \A u \in Addressees : has[u] \subseteq has'[u] /\ alerted[u] \subseteq alerted'[u],
         presumed \subseteq presumed', swallowed \subseteq swallowed', UNCHANGED sending,
         \A i \in Messages : record'[i] = record[i] \/ record'[i] \notin {"sending", "done"},
         \A u \in attachedIds' \ attachedIds : \A i \in Messages :
           u \in OthersOf(i) => i \in has'[u] \/ <<u, i>> \in presumed'
  PROVE  FanoutInv'
<1> SUFFICES ASSUME NEW i \in Messages, NEW u \in OthersOf(i) \cap Reached
             PROVE  DeviceIsAccounted(u, i)'
  BY DEF FanoutInv, OthersOf, Messages
<1>1. u \in Addressees /\ DeviceIsAccounted(u, i)
  BY DEF FanoutInv, OthersOf
<1>2. Accounted(u, i) => Accounted(u, i)'
  BY <1>1 DEF Accounted
<1> QED BY <1>1, <1>2 DEF DeviceIsAccounted

LEMMA FanoutStep == FanoutInv /\ [PushFanoutNext]_pushFanoutVars => FanoutInv'
<1> SUFFICES ASSUME FanoutInv, [PushFanoutNext]_pushFanoutVars PROVE FanoutInv'
  OBVIOUS
<1>0. FanoutTypes
  BY DEF FanoutInv
<1>1. ASSUME \/ UNCHANGED pushFanoutVars \/ Inserted \/ FlushFails \/ Delivered
             \/ \E u \in Addressees : SocketOpens(u) \/ SubHandled(u) \/ SocketCloses(u)
      PROVE  FanoutInv'
  <2>1. UNCHANGED <<queued, has, attachedIds, presumed>>
    BY <1>1 DEF Inserted, FlushFails, Delivered, SocketOpens, SubHandled, SocketCloses,
         pushFanoutVars, flushing, queued
  <2> QED BY <1>0, <2>1, FanoutStays DEF FanoutTypes, queued
<1>2. ASSUME NEW u \in Addressees, Deliver(u) \/ BackfillServed(u) PROVE FanoutInv'
  <2>1. UNCHANGED <<queued, attachedIds, presumed>>
    BY <1>2 DEF Deliver, BackfillServed, flushing, queued
  <2>2. has' = has \/ has' = [has EXCEPT ![u] = has[u] \cup Missing(u)]
    BY <1>2 DEF Deliver, BackfillServed
  <2>3. has' \in [Addressees -> SUBSET Messages] /\ \A v \in Addressees : has[v] \subseteq has'[v]
    BY <1>0, <2>2 DEF FanoutTypes, Missing
  <2> QED BY <1>0, <2>1, <2>3, FanoutStays DEF FanoutTypes, queued
<1>3. ASSUME NEW u \in Addressees, Hint(u) PROVE FanoutInv'
  <2>1. UNCHANGED <<queued, has>>
    BY <1>3 DEF Hint
  <2>2. \/ UNCHANGED <<attachedIds, presumed>>
        \/ attachedIds' = attachedIds \cup {u} /\ presumed' = presumed \cup ({u} \X Missing(u))
    BY <1>3 DEF Hint
  <2>3. \A v \in attachedIds' \ attachedIds : \A i \in Messages :
          v \in OthersOf(i) => i \in has'[v] \/ <<v, i>> \in presumed'
    BY <2>1, <2>2 DEF Missing
  <2> QED BY <1>0, <2>1, <2>2, <2>3, FanoutStays DEF FanoutTypes, queued
<1>4. CASE PublishEvents
  <2>1. /\ record' = [i \in Messages |-> IF Recipients(i) = {} THEN "none" ELSE "queued"]
        /\ UNCHANGED <<sending, tokens, alerted, swallowed, has, attachedIds, presumed>>
    BY <1>4 DEF PublishEvents
  <2>2. /\ record' \in [Messages -> {"none", "queued", "lost", "sending", "done"}]
        /\ \A i \in Messages : record'[i] \notin {"sending", "done"}
    BY <2>1
  <2> QED BY <1>0, <2>1, <2>2, FanoutStays DEF FanoutTypes
<1>5. ASSUME NEW i \in Messages, PublishLost(i) PROVE FanoutInv'
  <2>1. /\ record' = [record EXCEPT ![i] = "lost"]
        /\ UNCHANGED <<sending, tokens, alerted, swallowed, has, attachedIds, presumed>>
    BY <1>5 DEF PublishLost, flushing
  <2>2. /\ record' \in [Messages -> {"none", "queued", "lost", "sending", "done"}]
        /\ \A j \in Messages : record'[j] = record[j] \/ record'[j] \notin {"sending", "done"}
    BY <1>0, <2>1 DEF FanoutTypes
  <2> QED BY <1>0, <2>1, <2>2, FanoutStays DEF FanoutTypes
<1>6. ASSUME NEW i \in Messages, Dispatch(i) \/ DispatchFails(i) \/ Dispatched(i) PROVE FanoutInv'
  <2>1. UNCHANGED <<tokens, alerted, swallowed, has, attachedIds, presumed>>
    BY <1>6 DEF Dispatch, DispatchFails, Dispatched, flushing
  <2>2. /\ FanoutTypes'
        /\ \A j \in Messages \ {i} : record'[j] = record[j] /\ sending'[j] = sending[j]
        /\ \/ record'[i] = "sending" /\ sending'[i] = (Recipients(i) \cap tokens) \ attachedIds
           \/ record'[i] = "queued"
           \/ record'[i] = "done" /\ record[i] = "sending" /\ sending[i] = {}
    <3>1. CASE Dispatch(i)
      <4>1. (Recipients(i) \cap tokens) \ attachedIds \in SUBSET Addressees
        BY DEF Recipients, OthersOf
      <4> QED BY <1>0, <2>1, <3>1, <4>1 DEF Dispatch, FanoutTypes
    <3>2. CASE DispatchFails(i)
      <4>1. record' = [record EXCEPT ![i] = "queued"] /\ sending' = [sending EXCEPT ![i] = {}]
        BY <3>2 DEF DispatchFails, Redriven
      <4> QED BY <1>0, <2>1, <4>1 DEF FanoutTypes
    <3>3. CASE Dispatched(i)
      BY <1>0, <2>1, <3>3 DEF Dispatched, FanoutTypes
    <3> QED BY <1>6, <3>1, <3>2, <3>3
  <2>4. ASSUME NEW j \in Messages, NEW u \in OthersOf(j) \cap Reached
        PROVE  DeviceIsAccounted(u, j)'
    <3>1. DeviceIsAccounted(u, j)
      BY DEF FanoutInv
    <3>2. Accounted(u, j)' <=> Accounted(u, j)
      BY <2>1 DEF Accounted
    <3>3. CASE j = i
      <4>1. /\ record'[i] = "sending" => u \in sending'[i] \/ Accounted(u, i)
            /\ record'[i] = "done" => Accounted(u, i)
        BY <2>2, <3>1, <3>3 DEF DeviceIsAccounted, Accounted, Recipients
      <4> QED BY <2>1, <3>1, <3>2, <3>3, <4>1 DEF DeviceIsAccounted
    <3>4. CASE j # i
      BY <2>1, <2>2, <3>1, <3>2, <3>4 DEF DeviceIsAccounted
    <3> QED BY <3>3, <3>4
  <2> QED BY <2>2, <2>4 DEF FanoutInv, OthersOf, Messages
<1>7. ASSUME NEW i \in Messages, NEW u \in Addressees, Notify(i, u) PROVE FanoutInv'
  <2>1. /\ sending' = [sending EXCEPT ![i] = sending[i] \ {u}]
        /\ UNCHANGED <<record, has, attachedIds, presumed>>
    BY <1>7 DEF Notify, flushing
  <2>2. /\ alerted' \in [Addressees -> SUBSET Messages]
        /\ \A v \in Addressees : alerted[v] \subseteq alerted'[v]
        /\ swallowed \subseteq swallowed' /\ tokens' \subseteq tokens
        /\ \A v \in tokens \ tokens' : \A j \in Messages : <<v, j>> \in swallowed'
        /\ i \in alerted'[u] \/ <<u, i>> \in swallowed'
    BY <1>0, <1>7 DEF Notify, FanoutTypes
  <2>3. FanoutTypes'
    BY <1>0, <2>1, <2>2 DEF FanoutTypes
  <2>4. ASSUME NEW j \in Messages, NEW v \in OthersOf(j) \cap Reached
        PROVE  DeviceIsAccounted(v, j)'
    <3>1. DeviceIsAccounted(v, j) /\ v \in Addressees
      BY DEF FanoutInv, OthersOf
    <3>2. Accounted(v, j) => Accounted(v, j)'
      BY <2>1, <2>2, <3>1 DEF Accounted
    <3>3. v \in sending[j] => v \in sending'[j] \/ Accounted(v, j)'
      BY <1>0, <2>1, <2>2 DEF FanoutTypes, Accounted
    <3> QED BY <2>1, <2>2, <3>1, <3>2, <3>3 DEF DeviceIsAccounted
  <2> QED BY <2>3, <2>4 DEF FanoutInv, OthersOf, Messages
<1> QED BY <1>1, <1>2, <1>3, <1>4, <1>5, <1>6, <1>7 DEF PushFanoutNext

\* Where the members are, and who is still to be pushed to.
MembersAreMeant ==
  /\ fan \in {"insert", "deliver", "hint", "published", "failed"}
  /\ todo \subseteq Addressees /\ attachedIds \subseteq Addressees /\ room \subseteq Addressees
  /\ entering \subseteq Addressees /\ fetching \subseteq Addressees /\ tokens \subseteq Addressees
  /\ uplink \in [Addressees -> {"off", "open", "gone"}]
  /\ \A i \in Messages : sending[i] \subseteq OthersOf(i)
  /\ presumed \subseteq Addressees \X Messages /\ swallowed \subseteq Addressees \X Messages

LEMMA MembersStayMeant ==
  ASSUME FanoutTypes, MembersAreMeant, [PushFanoutNext]_pushFanoutVars
  PROVE  MembersAreMeant'
<1>0. /\ sending \in [Messages -> SUBSET Addressees] /\ MembersAreMeant
      /\ \A i \in Messages : OthersOf(i) \subseteq Addressees
      /\ \A u \in Addressees : Missing(u) \subseteq Messages
      /\ Messages = DOMAIN Authors
  BY DEF FanoutTypes, OthersOf, Missing, Messages
<1>1. ASSUME \/ UNCHANGED pushFanoutVars \/ Inserted \/ FlushFails \/ Delivered \/ PublishEvents
      PROVE  MembersAreMeant'
  <2>1. fan' \in {"insert", "deliver", "hint", "published", "failed"}
    BY <1>0, <1>1 DEF MembersAreMeant, Inserted, FlushFails, Delivered, PublishEvents, pushFanoutVars
  <2>2. todo' \subseteq Addressees
    <3>1. 1 \in Messages
      BY PushFanoutAssumption DEF Messages
    <3>2. todo' \in {todo, {}, OthersOf(1)} \/ todo' \subseteq room
      BY <1>1 DEF Inserted, FlushFails, Delivered, PublishEvents, pushFanoutVars
    <3> QED BY <1>0, <3>1, <3>2 DEF MembersAreMeant
  <2>3. UNCHANGED <<attachedIds, presumed, sending, tokens, swallowed, uplink, room, entering, fetching>>
    BY <1>1 DEF Inserted, FlushFails, Delivered, PublishEvents, pushFanoutVars, queued, sockets
  <2> QED BY <1>0, <2>1, <2>2, <2>3 DEF MembersAreMeant, OthersOf
<1>2. ASSUME NEW i \in Messages, PublishLost(i) \/ Dispatch(i) \/ DispatchFails(i) \/ Dispatched(i)
      PROVE  MembersAreMeant'
  <2>1. UNCHANGED <<fan, todo, attachedIds, presumed, tokens, swallowed, uplink, room, entering, fetching>>
    BY <1>2 DEF PublishLost, Dispatch, DispatchFails, Dispatched, flushing, sockets
  <2>2. \E s \in SUBSET OthersOf(i) : sending' = [sending EXCEPT ![i] = s] \/ sending' = sending
    BY <1>2 DEF PublishLost, Dispatch, DispatchFails, Dispatched, Recipients
  <2>3. \A j \in Messages : sending'[j] \subseteq OthersOf(j)
    BY <1>0, <2>2 DEF MembersAreMeant
  <2> QED BY <1>0, <2>1, <2>3 DEF MembersAreMeant, OthersOf
<1>3. ASSUME NEW i \in Messages, NEW u \in Addressees, Notify(i, u) PROVE MembersAreMeant'
  <2>1. UNCHANGED <<fan, todo, attachedIds, presumed, uplink, room, entering, fetching>>
    BY <1>3 DEF Notify, flushing, sockets
  <2>2. /\ sending' = [sending EXCEPT ![i] = sending[i] \ {u}] /\ tokens' \subseteq tokens
        /\ swallowed' \subseteq swallowed \cup ({u} \X (Messages \cup {i}))
    BY <1>3 DEF Notify
  <2>3. \A j \in Messages : sending'[j] \subseteq OthersOf(j)
    BY <1>0, <2>2 DEF MembersAreMeant
  <2>4. swallowed' \subseteq Addressees \X Messages
    BY <1>0, <2>2 DEF MembersAreMeant
  <2> QED BY <1>0, <2>1, <2>2, <2>3, <2>4 DEF MembersAreMeant, OthersOf
<1>4. ASSUME NEW u \in Addressees,
             \/ Deliver(u) \/ Hint(u) \/ SocketOpens(u) \/ SubHandled(u) \/ BackfillServed(u)
             \/ SocketCloses(u)
      PROVE  MembersAreMeant'
  <2>1. UNCHANGED <<fan, sending, tokens, swallowed>>
    BY <1>4 DEF Deliver, Hint, SocketOpens, SubHandled, BackfillServed, SocketCloses, flushing, queued
  <2>2. /\ todo' \subseteq todo /\ attachedIds' \subseteq attachedIds \cup {u}
        /\ room' \subseteq room \cup {u} /\ entering' \subseteq entering \cup {u}
        /\ fetching' \subseteq fetching \cup {u}
    BY <1>4 DEF Deliver, Hint, SocketOpens, SubHandled, BackfillServed, SocketCloses, flushing, sockets
  <2>3. presumed' \subseteq presumed \cup ({u} \X Missing(u))
    BY <1>4 DEF Deliver, Hint, SocketOpens, SubHandled, BackfillServed, SocketCloses, flushing
  <2>4. uplink' = uplink \/ \E l \in {"off", "open", "gone"} : uplink' = [uplink EXCEPT ![u] = l]
    BY <1>4 DEF Deliver, Hint, SocketOpens, SubHandled, BackfillServed, SocketCloses, sockets
  <2>5. uplink' \in [Addressees -> {"off", "open", "gone"}]
    BY <1>0, <2>4 DEF MembersAreMeant
  <2>6. presumed' \subseteq Addressees \X Messages
    BY <1>0, <2>3 DEF MembersAreMeant
  <2> QED BY <1>0, <2>1, <2>2, <2>5, <2>6 DEF MembersAreMeant, OthersOf
<1> QED BY <1>1, <1>2, <1>3, <1>4 DEF PushFanoutNext

LEMMA FanoutTypesHold == PushFanoutSpec => []PushFanoutTypeOK
<1>1. FanoutTypes /\ MembersAreMeant => PushFanoutTypeOK
  BY DEF FanoutTypes, MembersAreMeant, PushFanoutTypeOK
<1>2. PushFanoutInit => MembersAreMeant
  <2> SUFFICES ASSUME PushFanoutInit PROVE MembersAreMeant
    OBVIOUS
  <2>1. \A i \in Messages : sending[i] = {}
    BY DEF PushFanoutInit
  <2> QED BY <2>1, PushFanoutAssumption DEF PushFanoutInit, MembersAreMeant
<1>3. FanoutInv => FanoutTypes
  BY DEF FanoutInv
<1> QED BY <1>1, <1>2, <1>3, FanoutStarts, FanoutStep, MembersStayMeant, PTL DEF PushFanoutSpec

-----------------------------------------------------------------------------
(***************************************************************************)
(* The push adapters.  A row goes with the job whose answers named its     *)
(* token dead: so a dead answer must already be excused when it is heard,  *)
(* and stay so while the app registers again.                              *)
(***************************************************************************)

JobSet == [pc : {"none", "sending"}, large : BOOLEAN, due : SUBSET Services, left : SUBSET Tokens,
           asked : SUBSET (Tokens \X Nat), dead : SUBSET Tokens]

InUse(t) == t \in working \cap claimed
Excused(t) == t \in reborn \cup oversized

RowsInv ==
  /\ tokenRow \in [Tokens -> {"none", "active", "off"}] /\ job \in [Dispatches -> JobSet]
  /\ working \subseteq Tokens /\ claimed \subseteq working
  /\ \A t \in Tokens : InUse(t) => tokenRow[t] = "active" \/ Excused(t)
  /\ \A d \in Dispatches : \A t \in job[d].dead : InUse(t) => Excused(t)

\* The client that is not closed is the cached one, and none is closed twice.
ClientInv ==
  /\ clients \in Nat /\ client \in 0 .. clients
  /\ up \subseteq {client} /\ up \subseteq 1 .. clients
  /\ closing \subseteq 1 .. clients /\ up \cap closing = {}

AdaptersInv == RowsInv /\ ClientInv

LEMMA NoJobIsAJob == NoJob \in JobSet /\ NoJob.dead = {}
  BY DEF NoJob, JobSet

LEMMA AdaptersStart == PushAdaptersInit => AdaptersInv
<1> SUFFICES ASSUME PushAdaptersInit PROVE AdaptersInv
  OBVIOUS
<1>1. RowsInv
  BY NoJobIsAJob DEF PushAdaptersInit, RowsInv
<1>2. ClientInv
  BY DEF PushAdaptersInit, ClientInv
<1> QED BY <1>1, <1>2 DEF AdaptersInv

\* A job that names no more tokens dead than before disturbs no row.
LEMMA JobMoves ==
  ASSUME RowsInv, NEW d \in Dispatches, NEW r \in JobSet, Turns(d, r),
         \A t \in r.dead : InUse(t) => t \in job[d].dead \/ Excused(t)',
         oversized \subseteq oversized', UNCHANGED <<tokenRow, working, claimed, reborn>>
  PROVE  RowsInv'
<1>1. /\ job' \in [Dispatches -> JobSet] /\ job'[d] = r
      /\ \A e \in Dispatches : e # d => job'[e] = job[e]
  BY DEF Turns, RowsInv
<1>2. \A t : (InUse(t)' <=> InUse(t)) /\ (Excused(t) => Excused(t)')
  BY DEF InUse, Excused
<1>3. \A e \in Dispatches : \A t \in job'[e].dead : InUse(t)' => Excused(t)'
  <2> SUFFICES ASSUME NEW e \in Dispatches, NEW t \in job'[e].dead, InUse(t) PROVE Excused(t)'
    BY <1>2
  <2> QED BY <1>1, <1>2 DEF RowsInv
<1> QED BY <1>1, <1>2, <1>3 DEF RowsInv

\* An answer that names a working token dead is the one to an event too large for FCM.
LEMMA DeadIsExcused ==
  ASSUME NEW t \in Tokens, NEW large \in BOOLEAN, NEW answer \in Answers(t, large),
         Dead(answer), t \in working
  PROVE  large /\ answer = "400 INVALID_ARGUMENT"
  BY DEF Answers, Dead

LEMMA RowsStep == AdaptersInv /\ [PushAdaptersNext]_pushAdapterVars => RowsInv'
<1> SUFFICES ASSUME RowsInv, ClientInv, [PushAdaptersNext]_pushAdapterVars PROVE RowsInv'
  BY DEF AdaptersInv
<1>0. /\ tokenRow \in [Tokens -> {"none", "active", "off"}] /\ job \in [Dispatches -> JobSet]
      /\ working \subseteq Tokens /\ claimed \subseteq working
  BY DEF RowsInv
<1>1. ASSUME \/ UNCHANGED pushAdapterVars \/ LoginExpires
             \/ \E c \in 1 .. MaxClients : ClientCloses(c) \/ CloseHandled(c)
      PROVE  RowsInv'
  <2>1. UNCHANGED <<tokenRow, working, claimed, job, reborn, oversized>>
    BY <1>1 DEF pushAdapterVars, LoginExpires, ClientCloses, CloseHandled, apps
  <2> QED BY <2>1 DEF RowsInv, InUse, Excused
<1>2. ASSUME NEW d \in Dispatches, LoadTokens(d) PROVE RowsInv'
  <2>1. PICK large \in BOOLEAN, due \in SUBSET Services, left \in SUBSET Tokens :
          Turns(d, [pc |-> "sending", large |-> large, due |-> due, left |-> left,
                    asked |-> {}, dead |-> {}])
    <3>1. PICK large \in BOOLEAN :
            Turns(d, [pc |-> "sending", large |-> large,
                      due |-> {ServiceOf(t) : t \in {u \in Tokens : tokenRow[u] = "active"}},
                      left |-> {t \in Tokens : tokenRow[t] = "active"}, asked |-> {}, dead |-> {}])
      BY <1>2 DEF LoadTokens, OverLimit
    <3>2. /\ {t \in Tokens : tokenRow[t] = "active"} \in SUBSET Tokens
          /\ {ServiceOf(t) : t \in {u \in Tokens : tokenRow[u] = "active"}} \in SUBSET Services
      BY DEF ServiceOf, Services
    <3> QED BY <3>1, <3>2
  <2>2. PICK r \in JobSet : Turns(d, r) /\ r.dead = {}
    BY <2>1 DEF JobSet
  <2>3. UNCHANGED <<tokenRow, working, claimed, reborn, oversized>>
    BY <1>2 DEF LoadTokens, apps
  <2> QED BY <2>2, <2>3, JobMoves
<1>3. ASSUME NEW d \in Dispatches,
             \/ NoAccessToken(d) \/ \E s \in Services : LogIn(d, s) \/ LogInFails(d, s)
             \/ \E t \in Tokens : Post(d, t)
      PROVE  RowsInv'
  <2>1. UNCHANGED <<tokenRow, working, claimed, reborn, oversized>>
    BY <1>3 DEF NoAccessToken, LogIn, LogInFails, Post, apps
  <2>2. PICK r \in JobSet : Turns(d, r) /\ r.dead \subseteq job[d].dead
    <3>1. job[d] \in JobSet
      BY <1>0
    <3>2. CASE \E s \in Services : LogInFails(d, s)
      BY <3>2, NoJobIsAJob DEF LogInFails
    <3>3. ASSUME NEW due \in SUBSET Services, NEW left \in SUBSET Tokens
          PROVE  /\ [job[d] EXCEPT !.due = due, !.left = left] \in JobSet
                 /\ [job[d] EXCEPT !.due = due] \in JobSet
                 /\ [job[d] EXCEPT !.due = due].dead = job[d].dead
                 /\ [job[d] EXCEPT !.due = due, !.left = left].dead = job[d].dead
      BY <3>1 DEF JobSet
    <3>4. CASE NoAccessToken(d)
      <4>1. job[d].due \ {"fcm"} \in SUBSET Services /\ job[d].left \ FcmTokens \in SUBSET Tokens
        BY <3>1 DEF JobSet
      <4> QED BY <3>3, <3>4, <4>1 DEF NoAccessToken
    <3>5. ASSUME NEW s \in Services, LogIn(d, s)
          PROVE  \E r \in JobSet : Turns(d, r) /\ r.dead \subseteq job[d].dead
      <4>1. job[d].due \ {s} \in SUBSET Services
        BY <3>1 DEF JobSet
      <4> QED BY <3>3, <3>5, <4>1 DEF LogIn
    <3>6. ASSUME NEW t \in Tokens, Post(d, t)
          PROVE  \E r \in JobSet : Turns(d, r) /\ r.dead \subseteq job[d].dead
      <4>1. PICK c \in {0, client, clients + 1} :
              Turns(d, [job[d] EXCEPT !.left = job[d].left \ {t},
                                      !.asked = job[d].asked \cup {<<t, c>>}])
        BY <3>6 DEF Post
      <4>2. c \in Nat
        BY <4>1 DEF ClientInv
      <4>3. PICK left \in SUBSET Tokens, asked \in SUBSET (Tokens \X Nat) :
              Turns(d, [job[d] EXCEPT !.left = left, !.asked = asked])
        <5>1. /\ job[d].left \ {t} \in SUBSET Tokens
              /\ job[d].asked \cup {<<t, c>>} \in SUBSET (Tokens \X Nat)
          BY <3>1, <4>2 DEF JobSet
        <5> QED BY <4>1, <5>1
      <4>4. /\ [job[d] EXCEPT !.left = left, !.asked = asked] \in JobSet
            /\ [job[d] EXCEPT !.left = left, !.asked = asked].dead = job[d].dead
        BY <3>1 DEF JobSet
      <4> QED BY <4>3, <4>4
    <3> QED BY <1>3, <3>2, <3>4, <3>5, <3>6
  <2> QED BY <2>1, <2>2, JobMoves
<1>4. ASSUME NEW d \in Dispatches, Answered(d) \/ Refused(d) PROVE RowsInv'
  <2>1. UNCHANGED <<tokenRow, working, claimed, reborn>>
    BY <1>4 DEF Answered, Refused, apps
  <2>2. job[d] \in JobSet
    BY <1>0
  <2> DEFINE Heard(q, a) ==
          /\ Hears(d, q, a)
          /\ \/ a \in Errors /\ UNCHANGED oversized
             \/ /\ a \in Answers(q[1], job[d].large)
                /\ oversized' = IF a = "400 INVALID_ARGUMENT" /\ job[d].large
                                THEN oversized \cup {q[1]} ELSE oversized
  <2>a. PICK q \in job[d].asked : \E a : Heard(q, a)
    BY <1>4 DEF Answered, Refused
  <2>3. PICK answer : Heard(q, answer)
    BY <2>a
  <2>4. q[1] \in Tokens /\ job[d].large \in BOOLEAN
    BY <2>2 DEF JobSet
  <2>5. Dead(answer) /\ InUse(q[1]) => Excused(q[1])'
    <3>1. answer \in Errors => ~ Dead(answer)
      BY DEF Errors, Dead
    <3>2. CASE answer \in Answers(q[1], job[d].large) /\ Dead(answer) /\ q[1] \in working
      <4>1. job[d].large /\ answer = "400 INVALID_ARGUMENT"
        BY <2>4, <3>2, DeadIsExcused
      <4> QED BY <2>3, <3>1, <3>2, <4>1 DEF Excused
    <3> QED BY <2>3, <3>1, <3>2 DEF InUse
  <2>6. PICK buried \in SUBSET Tokens :
          /\ buried = (IF Dead(answer) THEN job[d].dead \cup {q[1]} ELSE job[d].dead)
          /\ Turns(d, [job[d] EXCEPT !.asked = job[d].asked \ {q}, !.dead = buried])
    <3>1. job[d].dead \subseteq Tokens
      BY <2>2 DEF JobSet
    <3> QED BY <2>3, <2>4, <3>1 DEF Hears
  <2>7. /\ [job[d] EXCEPT !.asked = job[d].asked \ {q}, !.dead = buried] \in JobSet
        /\ [job[d] EXCEPT !.asked = job[d].asked \ {q}, !.dead = buried].dead = buried
    BY <2>2 DEF JobSet
  <2>8. PICK r \in JobSet : Turns(d, r) /\ r.dead = buried
    BY <2>6, <2>7
  <2>9. oversized \subseteq oversized'
    BY <2>3
  <2>10. \A t \in r.dead : InUse(t) => t \in job[d].dead \/ Excused(t)'
    BY <2>5, <2>6, <2>8
  <2> QED BY <2>1, <2>8, <2>9, <2>10, JobMoves
<1>5. ASSUME NEW d \in Dispatches, DeleteRows(d) PROVE RowsInv'
  <2>1. /\ tokenRow' = [t \in Tokens |-> IF t \in job[d].dead THEN "none" ELSE tokenRow[t]]
        /\ job' = [job EXCEPT ![d] = NoJob] /\ UNCHANGED <<working, claimed, reborn, oversized>>
    BY <1>5 DEF DeleteRows, Turns, apps
  <2>2. /\ tokenRow' \in [Tokens -> {"none", "active", "off"}]
        /\ \A t \in Tokens : tokenRow'[t] = IF t \in job[d].dead THEN "none" ELSE tokenRow[t]
    BY <1>0, <2>1
  <2>3. /\ job' \in [Dispatches -> JobSet]
        /\ \A e \in Dispatches : job'[e].dead \subseteq job[e].dead
    BY <1>0, <2>1, NoJobIsAJob
  <2> QED BY <2>1, <2>2, <2>3 DEF RowsInv, InUse, Excused
<1>6. CASE TimesOut
  <2>1. /\ job' = [d \in Dispatches |-> NoJob]
        /\ UNCHANGED <<tokenRow, working, claimed, reborn, oversized>>
    BY <1>6 DEF TimesOut, apps
  <2>2. job' \in [Dispatches -> JobSet] /\ \A e \in Dispatches : job'[e].dead = {}
    BY <2>1, NoJobIsAJob
  <2> QED BY <2>1, <2>2 DEF RowsInv, InUse, Excused
<1>7. ASSUME NEW t \in Tokens, Register(t) PROVE RowsInv'
  <2>1. /\ t \in working /\ claimed' = claimed \cup {t}
        /\ tokenRow' = [tokenRow EXCEPT ![t] = "active"]
        /\ reborn \subseteq reborn' /\ \A d \in Dispatches : t \in job[d].dead => t \in reborn'
        /\ UNCHANGED <<working, job, oversized>>
    BY <1>7 DEF Register
  <2>2. /\ tokenRow' \in [Tokens -> {"none", "active", "off"}] /\ tokenRow'[t] = "active"
        /\ \A u \in Tokens : u # t => tokenRow'[u] = tokenRow[u]
    BY <1>0, <2>1
  <2>3. ASSUME NEW u \in Tokens, InUse(u)' PROVE tokenRow'[u] = "active" \/ Excused(u)'
    BY <2>1, <2>2, <2>3 DEF RowsInv, InUse, Excused
  <2>4. ASSUME NEW d \in Dispatches, NEW u \in job[d].dead, InUse(u)' PROVE Excused(u)'
    BY <2>1, <2>4 DEF RowsInv, InUse, Excused
  <2> QED BY <1>0, <2>1, <2>2, <2>3, <2>4 DEF RowsInv
<1>8. ASSUME NEW t \in Tokens, Unregister(t) \/ Uninstall(t) \/ Reinstall(t) PROVE RowsInv'
  <2>1. UNCHANGED <<job, reborn, oversized>>
    BY <1>8 DEF Unregister, Uninstall, Reinstall
  <2>2. /\ tokenRow' \in [Tokens -> {"none", "active", "off"}]
        /\ \A u \in Tokens : tokenRow'[u] = tokenRow[u] \/ (u = t /\ u \notin claimed')
    <3>1. CASE Unregister(t)
      <4>1. PICK row \in {"none", "off"} : tokenRow' = [tokenRow EXCEPT ![t] = row]
        BY <3>1 DEF Unregister
      <4> QED BY <1>0, <3>1, <4>1 DEF Unregister
    <3>2. CASE Uninstall(t) \/ Reinstall(t)
      BY <1>0, <3>2 DEF Uninstall, Reinstall
    <3> QED BY <1>8, <3>1, <3>2
  <2>3. /\ working' \subseteq Tokens /\ claimed' \subseteq working' /\ claimed' \subseteq claimed
    BY <1>0, <1>8 DEF Unregister, Uninstall, Reinstall
  <2>4. \A u : InUse(u)' => InUse(u)
    BY <1>0, <2>3 DEF InUse
  <2> QED BY <1>0, <2>1, <2>2, <2>3, <2>4 DEF RowsInv, InUse, Excused
<1> QED BY <1>1, <1>2, <1>3, <1>4, <1>5, <1>6, <1>7, <1>8 DEF PushAdaptersNext

LEMMA ClientStep == ClientInv /\ [PushAdaptersNext]_pushAdapterVars => ClientInv'
<1> SUFFICES ASSUME ClientInv, [PushAdaptersNext]_pushAdapterVars PROVE ClientInv'
  OBVIOUS
<1>1. ASSUME \/ UNCHANGED pushAdapterVars \/ LoginExpires
             \/ \E d \in Dispatches :
                  \/ LoadTokens(d) \/ NoAccessToken(d) \/ Answered(d) \/ Refused(d) \/ DeleteRows(d)
                  \/ \E s \in Services : LogIn(d, s) \/ LogInFails(d, s)
             \/ \E t \in Tokens : Register(t) \/ Unregister(t) \/ Uninstall(t) \/ Reinstall(t)
      PROVE  ClientInv'
  <2>1. UNCHANGED <<clients, client, up, closing>>
    BY <1>1 DEF pushAdapterVars, LoginExpires, LoadTokens, NoAccessToken, Answered, Refused,
         DeleteRows, LogIn, LogInFails, Register, Unregister, Uninstall, Reinstall, session
  <2> QED BY <2>1 DEF ClientInv
<1>2. ASSUME NEW d \in Dispatches, NEW t \in Tokens, Post(d, t) PROVE ClientInv'
  <2>1. \/ UNCHANGED <<clients, client, up, closing>>
        \/ /\ client \notin up /\ clients' = clients + 1 /\ client' = clients + 1
           /\ up' = up \cup {clients + 1} /\ UNCHANGED closing
    BY <1>2 DEF Post, Reusable, session
  <2>2. CASE UNCHANGED <<clients, client, up, closing>>
    BY <2>2 DEF ClientInv
  <2>3. CASE ~ UNCHANGED <<clients, client, up, closing>>
    <3>1. up = {} /\ up' = {clients + 1}
      BY <2>1, <2>3 DEF ClientInv
    <3>2. 1 .. clients \subseteq 1 .. clients + 1 /\ clients + 1 \notin 1 .. clients
      BY DEF ClientInv
    <3>3. /\ clients' = clients + 1 /\ client' = clients + 1 /\ closing' = closing
          /\ clients \in Nat /\ closing \subseteq 1 .. clients
      BY <2>1, <2>3 DEF ClientInv
    <3>4. up' \subseteq {client'} /\ up' \cap closing' = {}
      BY <3>1, <3>2, <3>3
    <3>5. up' \subseteq 1 .. clients' /\ closing' \subseteq 1 .. clients'
      BY <3>1, <3>2, <3>3
    <3> QED BY <3>3, <3>4, <3>5 DEF ClientInv
  <2> QED BY <2>2, <2>3
<1>3. ASSUME NEW c \in 1 .. MaxClients, ClientCloses(c) PROVE ClientInv'
  BY <1>3 DEF ClientCloses, ClientInv
<1>4. ASSUME NEW c \in 1 .. MaxClients, CloseHandled(c) PROVE ClientInv'
  BY <1>4 DEF CloseHandled, Dropped, ClientInv
<1>5. CASE TimesOut
  BY <1>5 DEF TimesOut, ClientInv
<1> QED BY <1>1, <1>2, <1>3, <1>4, <1>5 DEF PushAdaptersNext

\* A request was made over a client of this container; what else the dispatches keep.
AnswersAreMeant ==
  /\ login \subseteq Services /\ reborn \subseteq Tokens /\ oversized \subseteq Tokens
  /\ \A d \in Dispatches : \A q \in job[d].asked : q[2] \in 0 .. clients

LEMMA AnswersStayMeant ==
  ASSUME AdaptersInv, AnswersAreMeant, [PushAdaptersNext]_pushAdapterVars
  PROVE  AnswersAreMeant'
<1>0. /\ job \in [Dispatches -> JobSet] /\ clients \in Nat /\ client \in 0 .. clients
      /\ (clients' = clients \/ clients' = clients + 1) /\ NoJob.asked = {} /\ NoJob \in JobSet
  <2>1. clients' = clients \/ clients' = clients + 1
    BY DEF PushAdaptersNext, pushAdapterVars, LoadTokens, NoAccessToken, Answered, Refused, DeleteRows,
           LogIn, LogInFails, Post, LoginExpires, TimesOut, ClientCloses, CloseHandled, Register,
           Unregister, Uninstall, Reinstall, session
  <2> QED BY <2>1, NoJobIsAJob DEF AdaptersInv, RowsInv, ClientInv, NoJob
<1>1. login' \subseteq Services
  <2>1. login' \subseteq login \cup Services
    BY DEF PushAdaptersNext, pushAdapterVars, LoadTokens, NoAccessToken, Answered, Refused, DeleteRows,
           LogIn, LogInFails, Post, LoginExpires, TimesOut, ClientCloses, CloseHandled, Register,
           Unregister, Uninstall, Reinstall
  <2> QED BY <2>1 DEF AnswersAreMeant
<1>2. reborn' \subseteq Tokens
  <2>1. reborn' \subseteq reborn \cup Tokens
    BY DEF PushAdaptersNext, pushAdapterVars, LoadTokens, NoAccessToken, Answered, Refused, DeleteRows,
           LogIn, LogInFails, Post, LoginExpires, TimesOut, ClientCloses, CloseHandled, Register,
           Unregister, Uninstall, Reinstall
  <2> QED BY <2>1 DEF AnswersAreMeant
<1>3. oversized' \subseteq Tokens
  <2>1. UNCHANGED oversized \/ \E d \in Dispatches : Answered(d)
    BY DEF PushAdaptersNext, pushAdapterVars, LoadTokens, NoAccessToken, Refused, DeleteRows,
           LogIn, LogInFails, Post, LoginExpires, TimesOut, ClientCloses, CloseHandled, Register,
           Unregister, Uninstall, Reinstall
  <2>2. ASSUME NEW d \in Dispatches, Answered(d)
        PROVE  oversized' \subseteq oversized \cup Tokens
    <3>1. \A q \in job[d].asked : q[1] \in Tokens
      BY <1>0 DEF JobSet
    <3> QED BY <2>2, <3>1 DEF Answered
  <2> QED BY <2>1, <2>2 DEF AnswersAreMeant
<1>4. ASSUME NEW d \in Dispatches PROVE \A q \in job'[d].asked : q[2] \in 0 .. clients'
  <2>0. \A q \in job[d].asked : q[2] \in 0 .. clients'
    BY <1>0 DEF AnswersAreMeant
  <2>1. \/ UNCHANGED job \/ TimesOut
        \/ \E e \in Dispatches :
             \/ LoadTokens(e) \/ NoAccessToken(e) \/ Answered(e) \/ Refused(e) \/ DeleteRows(e)
             \/ \E s \in Services : LogIn(e, s) \/ LogInFails(e, s)
             \/ \E t \in Tokens : Post(e, t)
    BY DEF PushAdaptersNext, pushAdapterVars, LoginExpires, ClientCloses, CloseHandled, Register,
           Unregister, Uninstall, Reinstall
  <2>2. ASSUME NEW e \in Dispatches, NEW r, Turns(e, r),
               r.asked \subseteq job[e].asked \cup (Tokens \X (0 .. clients'))
        PROVE  \A q \in job'[d].asked : q[2] \in 0 .. clients'
    <3>1. /\ job'[e] = r /\ (e # d => job'[d] = job[d])
      BY <1>0, <2>2 DEF Turns
    <3>3. \A q \in Tokens \X (0 .. clients') : q[2] \in 0 .. clients'
      OBVIOUS
    <3>2. \A q \in job[e].asked : q[2] \in 0 .. clients'
      BY <1>0 DEF AnswersAreMeant
    <3> QED BY <2>0, <2>2, <3>1, <3>2, <3>3
  <2>3. ASSUME NEW e \in Dispatches, LoadTokens(e)
        PROVE  \E r : Turns(e, r) /\ r.asked \subseteq job[e].asked \cup (Tokens \X (0 .. clients'))
    BY <2>3 DEF LoadTokens
  <2>4. ASSUME NEW e \in Dispatches, DeleteRows(e) \/ \E s \in Services : LogInFails(e, s)
        PROVE  \E r : Turns(e, r) /\ r.asked \subseteq job[e].asked \cup (Tokens \X (0 .. clients'))
    BY <1>0, <2>4 DEF DeleteRows, LogInFails
  <2>5. ASSUME NEW e \in Dispatches, NoAccessToken(e) \/ \E s \in Services : LogIn(e, s)
        PROVE  \E r : Turns(e, r) /\ r.asked \subseteq job[e].asked \cup (Tokens \X (0 .. clients'))
    <3>1. job[e] \in JobSet
      BY <1>0
    <3>2. ASSUME NEW due, NEW left
          PROVE  /\ [job[e] EXCEPT !.due = due].asked = job[e].asked
                 /\ [job[e] EXCEPT !.due = due, !.left = left].asked = job[e].asked
      BY <3>1 DEF JobSet
    <3> QED BY <2>5, <3>2 DEF NoAccessToken, LogIn
  <2>6. ASSUME NEW e \in Dispatches, Answered(e) \/ Refused(e)
        PROVE  \E r : Turns(e, r) /\ r.asked \subseteq job[e].asked \cup (Tokens \X (0 .. clients'))
    <3>1. job[e] \in JobSet
      BY <1>0
    <3>2. ASSUME NEW asked, NEW dead
          PROVE  [job[e] EXCEPT !.asked = asked, !.dead = dead].asked = asked
      BY <3>1 DEF JobSet
    <3>3. PICK q, answer : Hears(e, q, answer)
      BY <2>6 DEF Answered, Refused
    <3>4. PICK dead : Turns(e, [job[e] EXCEPT !.asked = job[e].asked \ {q}, !.dead = dead])
      BY <3>3 DEF Hears
    <3> DEFINE r == [job[e] EXCEPT !.asked = job[e].asked \ {q}, !.dead = dead]
    <3>5. r.asked = job[e].asked \ {q} /\ Turns(e, r)
      BY <3>2, <3>4
    <3> HIDE DEF r
    <3> QED BY <3>5
  <2>7. ASSUME NEW e \in Dispatches, NEW t \in Tokens, Post(e, t)
        PROVE  \E r : Turns(e, r) /\ r.asked \subseteq job[e].asked \cup (Tokens \X (0 .. clients'))
    <3>1. job[e] \in JobSet
      BY <1>0
    <3>2. ASSUME NEW left, NEW asked
          PROVE  [job[e] EXCEPT !.left = left, !.asked = asked].asked = asked
      BY <3>1 DEF JobSet
    <3>3. PICK c \in {0, client, clients + 1} :
            /\ Turns(e, [job[e] EXCEPT !.left = job[e].left \ {t},
                                       !.asked = job[e].asked \cup {<<t, c>>}])
            /\ c = clients + 1 => clients' = clients + 1
      BY <1>0, <2>7 DEF Post
    <3>4. c \in 0 .. clients'
      BY <1>0, <3>3
    <3> DEFINE r == [job[e] EXCEPT !.left = job[e].left \ {t},
                                   !.asked = job[e].asked \cup {<<t, c>>}]
    <3>5. r.asked = job[e].asked \cup {<<t, c>>} /\ Turns(e, r)
      BY <3>2, <3>3
    <3> HIDE DEF r
    <3>6. <<t, c>> \in Tokens \X (0 .. clients')
      BY <3>4
    <3> QED BY <3>5, <3>6
  <2>8. CASE TimesOut
    BY <1>0, <2>8 DEF TimesOut
  <2> QED BY <2>0, <2>1, <2>2, <2>3, <2>4, <2>5, <2>6, <2>7, <2>8
<1> QED BY <1>1, <1>2, <1>3, <1>4 DEF AnswersAreMeant

LEMMA AdapterTypesHold == PushAdaptersSpec => []PushAdaptersTypeOK
<1>1. AdaptersInv /\ AnswersAreMeant => PushAdaptersTypeOK
  <2> SUFFICES ASSUME AdaptersInv, AnswersAreMeant PROVE PushAdaptersTypeOK
    OBVIOUS
  <2>1. \A d \in Dispatches :
          /\ job[d].left \cup job[d].dead \subseteq Tokens
          /\ \A r \in job[d].asked : r[1] \in Tokens /\ r[2] \in 0 .. clients
    BY DEF AdaptersInv, RowsInv, JobSet, AnswersAreMeant
  <2> QED BY <2>1 DEF AdaptersInv, RowsInv, ClientInv, AnswersAreMeant, PushAdaptersTypeOK
<1>2. PushAdaptersInit => AnswersAreMeant
  BY DEF PushAdaptersInit, AnswersAreMeant, NoJob
<1>3. AdaptersInv /\ [PushAdaptersNext]_pushAdapterVars => AdaptersInv'
  BY RowsStep, ClientStep DEF AdaptersInv
<1> QED BY <1>1, <1>2, <1>3, AdaptersStart, AnswersStayMeant, PTL DEF PushAdaptersSpec

\* A push reaches who has no socket, whoever the members and whatever the tokens are: a
\* record that is done has accounted for every recipient with a token, an app that is
\* there and registered keeps its row, and no HTTP/2 client but the cached one is open
\* (chat.ts:281-330, lambda.ts dispatch(), apns.ts:72-89, fcm.ts).
THEOREM PushesDoArrive == PushSpec => []PushesArrive
<1>1. FanoutInv => NobodyIsMissed
  BY DEF FanoutInv, DeviceIsAccounted, Accounted, NobodyIsMissed
<1>2. AdaptersInv => OnlyDeadRowsGo
  BY DEF AdaptersInv, RowsInv, InUse, Excused, OnlyDeadRowsGo
<1>3. AdaptersInv => OneClient
  BY DEF AdaptersInv, ClientInv, OneClient
<1>4. AdaptersInv /\ [PushAdaptersNext]_pushAdapterVars => AdaptersInv'
  BY RowsStep, ClientStep DEF AdaptersInv
<1>5. PushFanoutSpec => []FanoutInv
  BY FanoutStarts, FanoutStep, PTL DEF PushFanoutSpec
<1>6. PushAdaptersSpec => []AdaptersInv
  BY AdaptersStart, <1>4, PTL DEF PushAdaptersSpec
<1>7. FanoutInv /\ AdaptersInv => PushesArrive
  BY <1>1, <1>2, <1>3 DEF PushesArrive
<1> QED BY <1>5, <1>6, <1>7, PTL DEF PushSpec

-----------------------------------------------------------------------------
(***************************************************************************)
(* Typing and read signals.  The chat's object remembers who its members   *)
(* are: what it remembers may be old, but never older than it says, so     *)
(* that whoever passes the gate was a member not longer than MemberTtl     *)
(* ago.                                                                    *)
(***************************************************************************)

Relayed == [pc : {"none", "asks", "knows", "writes", "tells"}, kind : {"typ", "read"},
            user : Peers \cup {CHOOSE u \in Peers : TRUE}, upto : Nat, age : 0 .. MemberTtl + 1,
            ids : SUBSET Peers, to : SUBSET Peers, entitled : BOOLEAN]

SignalTypes ==
  /\ roster \subseteq Peers /\ watermark \in [Peers -> Nat] /\ gone \in [Signallers -> Nat]
  /\ memo \in [ids : SUBSET Peers, age : 0 .. MemberTtl + 1]
  /\ relay \in [Relays -> Relayed]
  /\ receipts \in [Peers -> [Signallers -> Nat]]

\* Who is in a list that is `age` old is a member or was one less than `age` ago.
IsFresh(ids, age, here, since) == \A u \in ids \cap Signallers : u \in here \/ since[u] <= age

\* A call in which the members are `here` and the removed ones `away`.
RelayIsSound(c, here, since, away, marked) ==
  c.pc # "none" =>
    /\ c.user \in Signallers
    /\ c.entitled => c.user \in here \cup away
    /\ c.pc = "asks" /\ c.user \in here => c.entitled
    /\ c.pc = "knows" => IsFresh(c.ids, c.age, here, since) /\ (c.user \in c.ids => c.entitled)
    /\ c.pc \in {"writes", "tells"} => c.entitled
    /\ c.pc = "tells" /\ c.kind = "read" => c.upto <= marked[c.user] \/ c.user \in away

SignalsInv ==
  /\ SignalTypes
  /\ IsFresh(memo.ids, memo.age, roster, gone)
  /\ \A u \in Signallers : u \notin roster \cup removed => gone[u] > MemberTtl
  /\ \A r \in Relays : RelayIsSound(relay[r], roster, gone, removed, watermark)
  /\ ReceiptsAreStored

LEMMA NoRelayIsSound ==
  /\ NoRelay \in Relayed /\ NoRelay.pc = "none"
  /\ \A here, since, away, marked : RelayIsSound(NoRelay, here, since, away, marked)
<1>1. NoRelay \in Relayed /\ NoRelay.pc = "none"
  BY SignalsAssumption DEF NoRelay, Relayed
<1> QED BY <1>1 DEF RelayIsSound

LEMMA NoMemoIsSound ==
  /\ NoMemo \in [ids : SUBSET Peers, age : 0 .. MemberTtl + 1] /\ NoMemo.ids = {}
  BY SignalsAssumption DEF NoMemo

LEMMA SignalsStart == SignalsInit => SignalsInv
<1> SUFFICES ASSUME SignalsInit PROVE SignalsInv
  OBVIOUS
<1>1. SignalTypes
  BY SignalsAssumption, NoRelayIsSound, NoMemoIsSound DEF SignalsInit, SignalTypes
<1>2. IsFresh(memo.ids, memo.age, roster, gone)
  BY NoMemoIsSound DEF SignalsInit, IsFresh
<1>3. \A u \in Signallers : u \notin roster \cup removed => gone[u] > MemberTtl
  BY SignalsAssumption DEF SignalsInit
<1>4. \A r \in Relays : RelayIsSound(relay[r], roster, gone, removed, watermark)
  BY NoRelayIsSound DEF SignalsInit
<1>5. ReceiptsAreStored
  BY SignalsAssumption DEF SignalsInit, ReceiptsAreStored
<1> QED BY <1>1, <1>2, <1>3, <1>4, <1>5 DEF SignalsInv

\* A sender in the list that is asked is told on, and nobody else.
LEMMA GateIsSound ==
  ASSUME NEW c \in Relayed, NEW ids, NEW here, NEW since, NEW away, NEW marked,
         c.user \in Signallers, c.entitled => c.user \in here \cup away,
         c.user \in ids => c.entitled
  PROVE  Gated(c, ids) \in Relayed /\ RelayIsSound(Gated(c, ids), here, since, away, marked)
<1>1. CASE c.user \notin ids
  BY <1>1, NoRelayIsSound DEF Gated
<1>2. CASE c.user \in ids
  <2>1. PICK to \in SUBSET Peers, pc \in {"tells", "writes"} :
          /\ LetThrough(c) = [c EXCEPT !.pc = pc, !.age = 0, !.ids = {}, !.to = to]
          /\ pc = "tells" => c.kind = "typ"
    <3>1. CASE c.kind = "typ"
      BY <3>1 DEF LetThrough
    <3>2. CASE c.kind # "typ"
      <4>1. c.to \in SUBSET Peers
        BY DEF Relayed
      <4>2. [c EXCEPT !.pc = "writes", !.age = 0, !.ids = {}]
              = [c EXCEPT !.pc = "writes", !.age = 0, !.ids = {}, !.to = c.to]
        BY DEF Relayed
      <4> QED BY <3>2, <4>1, <4>2 DEF LetThrough
    <3> QED BY <3>1, <3>2
  <2> DEFINE n == [c EXCEPT !.pc = pc, !.age = 0, !.ids = {}, !.to = to]
  <2>2. /\ n \in Relayed
        /\ n.user = c.user /\ n.kind = c.kind /\ n.pc = pc /\ n.entitled = c.entitled
    <3>1. 0 \in 0 .. MemberTtl + 1 /\ {} \in SUBSET Peers
      BY SignalsAssumption
    <3>2. n \in Relayed
      BY <3>1 DEF Relayed
    <3> QED BY <3>2 DEF Relayed
  <2>3. Gated(c, ids) = n
    BY <1>2, <2>1 DEF Gated
  <2> HIDE DEF n
  <2>4. RelayIsSound(n, here, since, away, marked)
    BY <1>2, <2>1, <2>2 DEF RelayIsSound
  <2> QED BY <2>2, <2>3, <2>4
<1> QED BY <1>1, <1>2

\* What the members, the receipts and the time do to a call that they leave as it is.
LEMMA RelayStays ==
  ASSUME NEW c, NEW here, NEW since, NEW away, NEW marked, NEW here2, NEW since2, NEW away2,
         NEW marked2, RelayIsSound(c, here, since, away, marked),
         here \cup away \subseteq here2 \cup away2, away \subseteq away2,
         c.pc = "asks" /\ c.user \in here2 => c.user \in here \/ c.entitled,
         IsFresh(c.ids, c.age, here, since) => IsFresh(c.ids, c.age, here2, since2),
         c.upto <= marked[c.user] => c.upto <= marked2[c.user] \/ c.user \in away2
  PROVE  RelayIsSound(c, here2, since2, away2, marked2)
  BY DEF RelayIsSound

\* A step of one call, and of nobody's membership.
LEMMA RelayMoves ==
  ASSUME SignalsInv, NEW r \in Relays, NEW c \in Relayed, relay' = [relay EXCEPT ![r] = c],
         RelayIsSound(c, roster, gone, removed, watermark),
         UNCHANGED <<roster, gone, removed, watermark, memo, receipts>>
  PROVE  SignalsInv'
<1>1. SignalTypes'
  BY DEF SignalsInv, SignalTypes
<1>2. ASSUME NEW q \in Relays
      PROVE  RelayIsSound(relay[q], roster, gone, removed, watermark)'
  <2>1. relay'[q] = c \/ relay'[q] = relay[q]
    BY DEF SignalsInv, SignalTypes
  <2>2. RelayIsSound(relay[q], roster, gone, removed, watermark)
    BY DEF SignalsInv
  <2>3. RelayIsSound(relay'[q], roster, gone, removed, watermark)
    BY <2>1, <2>2
  <2> QED BY <2>3
<1> QED BY <1>1, <1>2 DEF SignalsInv, ReceiptsAreStored, IsFresh

\* What any step does to the rest when the calls, the members and the receipts stay.
LEMMA SignalsStay ==
  ASSUME SignalsInv, UNCHANGED <<roster, gone, removed, watermark, memo, receipts, relay>>
  PROVE  SignalsInv'
  BY DEF SignalsInv, SignalTypes, IsFresh, RelayIsSound, ReceiptsAreStored

LEMMA Emitted ==
  ASSUME SignalsInv, NEW u \in Signallers, NEW kind \in {"typ", "read"}, NEW upto \in Nat,
         Emit(u, kind, upto), UNCHANGED <<roster, gone, removed, watermark, memo, receipts>>
  PROVE  SignalsInv'
<1>1. CASE UNCHANGED relay
  BY <1>1, SignalsStay
<1>2. CASE relay' # relay
  <2> DEFINE asked == [NoRelay EXCEPT !.pc = "asks", !.kind = kind, !.user = u, !.upto = upto,
                                      !.entitled = Entitled(u)]
  <2>1. PICK r \in Relays : relay' = [relay EXCEPT ![r] = Arrived(asked)]
    BY <1>2 DEF Emit
  <2>2. /\ asked \in Relayed
        /\ asked.pc = "asks" /\ asked.user = u /\ asked.entitled = Entitled(u)
    <3>1. Entitled(u) \in BOOLEAN /\ u \in Peers
      BY SignalsAssumption DEF Entitled
    <3>2. asked \in Relayed
      BY <3>1, NoRelayIsSound DEF Relayed
    <3> QED BY <3>2, NoRelayIsSound DEF Relayed
  <2> HIDE DEF asked
  <2>3. Entitled(u) => u \in roster \cup removed
    BY SignalsAssumption DEF Entitled, SignalsInv, SignalTypes
  <2>4. memo.age <= MemberTtl /\ u \in memo.ids => Entitled(u)
    BY SignalsAssumption DEF SignalsInv, SignalTypes, IsFresh, Entitled
  <2>5. /\ Arrived(asked) \in Relayed
        /\ RelayIsSound(Arrived(asked), roster, gone, removed, watermark)
    <3>1. CASE memo.age <= MemberTtl
      <4>1. Arrived(asked) = Gated(asked, memo.ids)
        BY <3>1 DEF Arrived
      <4> QED BY <2>2, <2>3, <2>4, <3>1, <4>1, GateIsSound
    <3>2. CASE ~ (memo.age <= MemberTtl)
      <4>1. Arrived(asked) = asked
        BY <3>2 DEF Arrived
      <4>2. RelayIsSound(asked, roster, gone, removed, watermark)
        BY <2>2, <2>3 DEF RelayIsSound, Entitled
      <4> QED BY <2>2, <4>1, <4>2
    <3> QED BY <3>1, <3>2
  <2>6. PICK c \in Relayed :
          relay' = [relay EXCEPT ![r] = c] /\ RelayIsSound(c, roster, gone, removed, watermark)
    BY <2>1, <2>5
  <2> QED BY <2>6, RelayMoves
<1> QED BY <1>1, <1>2

LEMMA LookUpKeeps ==
  ASSUME SignalsInv, NEW r \in Relays, LookUp(r) PROVE SignalsInv'
<1> DEFINE c == [relay[r] EXCEPT !.pc = "knows", !.ids = roster]
<1>1. relay[r] \in Relayed /\ RelayIsSound(relay[r], roster, gone, removed, watermark)
  BY DEF SignalsInv, SignalTypes
<1>2. relay' = [relay EXCEPT ![r] = c]
  BY DEF LookUp, SignalsInv, SignalTypes
<1>3. c \in Relayed
  BY <1>1 DEF SignalsInv, SignalTypes, Relayed
<1>4. c.pc = "knows" /\ c.ids = roster /\ c.user = relay[r].user /\ c.entitled = relay[r].entitled
  BY <1>1 DEF Relayed
<1> HIDE DEF c
<1>5. RelayIsSound(c, roster, gone, removed, watermark)
  BY <1>1, <1>4 DEF LookUp, RelayIsSound, IsFresh
<1>6. UNCHANGED <<roster, gone, removed, watermark, memo, receipts>>
  BY DEF LookUp, membership, screens
<1>7. PICK n \in Relayed :
        relay' = [relay EXCEPT ![r] = n] /\ RelayIsSound(n, roster, gone, removed, watermark)
  BY <1>2, <1>3, <1>5
<1> QED BY <1>6, <1>7, RelayMoves

LEMMA MemoizeKeeps ==
  ASSUME SignalsInv, NEW r \in Relays, Memoize(r) PROVE SignalsInv'
<1>1. /\ relay[r] \in Relayed /\ RelayIsSound(relay[r], roster, gone, removed, watermark)
      /\ relay[r].pc = "knows"
  BY DEF SignalsInv, SignalTypes, Memoize
<1>2. /\ relay[r].user \in Signallers
      /\ relay[r].entitled => relay[r].user \in roster \cup removed
      /\ relay[r].user \in relay[r].ids => relay[r].entitled
      /\ IsFresh(relay[r].ids, relay[r].age, roster, gone)
  BY <1>1 DEF RelayIsSound
<1>3. PICK c \in Relayed :
        relay' = [relay EXCEPT ![r] = c] /\ RelayIsSound(c, roster, gone, removed, watermark)
  <2>1. /\ Gated(relay[r], relay[r].ids) \in Relayed
        /\ RelayIsSound(Gated(relay[r], relay[r].ids), roster, gone, removed, watermark)
    BY <1>1, <1>2, GateIsSound
  <2>2. relay' = [relay EXCEPT ![r] = Gated(relay[r], relay[r].ids)]
    BY DEF Memoize
  <2> QED BY <2>1, <2>2
<1>4. /\ memo' \in [ids : SUBSET Peers, age : 0 .. MemberTtl + 1]
      /\ memo'.ids = relay[r].ids /\ memo'.age = relay[r].age
  BY <1>1 DEF Memoize, Memo, Relayed
<1>5. UNCHANGED <<roster, gone, removed, watermark, receipts>>
  BY DEF Memoize, membership, screens
<1>6. SignalTypes'
  BY <1>3, <1>4, <1>5 DEF SignalsInv, SignalTypes
<1>7. IsFresh(memo'.ids, memo'.age, roster', gone')
  BY <1>2, <1>4, <1>5
<1>8. ASSUME NEW q \in Relays
      PROVE  RelayIsSound(relay'[q], roster', gone', removed', watermark')
  <2>1. relay'[q] = c \/ relay'[q] = relay[q]
    BY <1>3 DEF SignalsInv, SignalTypes
  <2>2. RelayIsSound(relay[q], roster, gone, removed, watermark)
    BY DEF SignalsInv
  <2> QED BY <1>3, <1>5, <2>1, <2>2
<1>9. ReceiptsAreStored'
  BY <1>5 DEF SignalsInv, ReceiptsAreStored
<1> QED BY <1>5, <1>6, <1>7, <1>8, <1>9 DEF SignalsInv

\* A step of one call that raises a watermark, or that tells of it.
LEMMA MarksMove ==
  ASSUME SignalsInv, NEW r \in Relays, NEW c \in Relayed, relay' = [relay EXCEPT ![r] = c],
         RelayIsSound(c, roster, gone, removed, watermark'),
         watermark' \in [Peers -> Nat], \A u \in Peers : watermark[u] <= watermark'[u],
         receipts' \in [Peers -> [Signallers -> Nat]], ReceiptsAreStored',
         UNCHANGED <<roster, gone, removed, memo>>
  PROVE  SignalsInv'
<1>1. SignalTypes'
  BY DEF SignalsInv, SignalTypes
<1>2. ASSUME NEW q \in Relays
      PROVE  RelayIsSound(relay'[q], roster', gone', removed', watermark')
  <2>1. CASE q = r
    <3>1. relay'[q] = c
      BY <2>1 DEF SignalsInv, SignalTypes
    <3> QED BY <3>1
  <2>2. CASE q # r
    <3>1. /\ relay'[q] = relay[q] /\ relay[q] \in Relayed
          /\ RelayIsSound(relay[q], roster, gone, removed, watermark)
      BY <2>2 DEF SignalsInv, SignalTypes
    <3>2. relay[q].pc # "none" => relay[q].user \in Peers
      BY <3>1, SignalsAssumption DEF RelayIsSound
    <3>3. relay[q].pc # "none" /\ relay[q].upto <= watermark[relay[q].user]
            => relay[q].upto <= watermark'[relay[q].user]
      <4>1. relay[q].upto \in Nat
        BY <3>1 DEF Relayed
      <4> QED BY <3>2, <4>1 DEF SignalsInv, SignalTypes
    <3>4. RelayIsSound(relay[q], roster, gone, removed, watermark')
      BY <3>1, <3>3 DEF RelayIsSound
    <3> QED BY <3>1, <3>4
  <2> QED BY <2>1, <2>2
<1> QED BY <1>1, <1>2 DEF SignalsInv, IsFresh

LEMMA RaisedIsHigher ==
  ASSUME SignalsInv, NEW u \in Peers, NEW n \in Nat,
         watermark' = [watermark EXCEPT ![u] = Raised(u, n)]
  PROVE  /\ watermark' \in [Peers -> Nat] /\ \A v \in Peers : watermark[v] <= watermark'[v]
         /\ u \in roster => n <= watermark'[u]
<1>1. /\ watermark \in [Peers -> Nat] /\ Raised(u, n) \in Nat /\ watermark[u] <= Raised(u, n)
      /\ u \in roster => n <= Raised(u, n)
  BY DEF Raised, SignalsInv, SignalTypes
<1> QED BY <1>1

LEMMA HigherIsStored ==
  ASSUME SignalsInv, watermark' \in [Peers -> Nat],
         \A v \in Peers : watermark[v] <= watermark'[v], UNCHANGED <<receipts, removed>>
  PROVE  ReceiptsAreStored'
<1> SUFFICES ASSUME NEW p \in Peers, NEW u \in Signallers, u \notin removed
             PROVE  receipts[p][u] <= watermark'[u]
  BY DEF ReceiptsAreStored
<1>1. /\ u \in Peers /\ receipts[p][u] \in Nat /\ watermark[u] \in Nat /\ watermark'[u] \in Nat
      /\ receipts[p][u] <= watermark[u] /\ watermark[u] <= watermark'[u]
  BY SignalsAssumption DEF SignalsInv, SignalTypes, ReceiptsAreStored
<1> QED BY <1>1

LEMMA WriteReceiptKeeps ==
  ASSUME SignalsInv, NEW r \in Relays, WriteReceipt(r) PROVE SignalsInv'
<1>1. /\ relay[r] \in Relayed /\ RelayIsSound(relay[r], roster, gone, removed, watermark)
      /\ relay[r].pc = "writes"
  BY DEF SignalsInv, SignalTypes, WriteReceipt
<1>2. /\ relay[r].user \in Signallers /\ relay[r].user \in Peers /\ relay[r].entitled
      /\ relay[r].user \in roster \cup removed /\ relay[r].upto \in Nat
  BY <1>1, SignalsAssumption DEF RelayIsSound, Relayed
<1>3. /\ watermark' \in [Peers -> Nat] /\ \A v \in Peers : watermark[v] <= watermark'[v]
      /\ relay[r].user \in roster => relay[r].upto <= watermark'[relay[r].user]
  <2>1. watermark' = [watermark EXCEPT ![relay[r].user] = Raised(relay[r].user, relay[r].upto)]
    BY DEF WriteReceipt
  <2> QED BY <1>2, <2>1, RaisedIsHigher
<1>4. PICK c \in Relayed :
        /\ relay' = [relay EXCEPT ![r] = c]
        /\ c.pc = "tells" /\ c.user = relay[r].user /\ c.entitled /\ c.upto = relay[r].upto
  <2> DEFINE n == [relay[r] EXCEPT !.pc = "tells", !.to = Peers \ {relay[r].user}]
  <2>1. n \in Relayed
    BY <1>1 DEF Relayed
  <2>2. n.pc = "tells" /\ n.user = relay[r].user /\ n.entitled /\ n.upto = relay[r].upto
    BY <1>1, <1>2 DEF Relayed
  <2>3. relay' = [relay EXCEPT ![r] = n]
    BY DEF WriteReceipt
  <2> HIDE DEF n
  <2> QED BY <2>1, <2>2, <2>3
<1>5. RelayIsSound(c, roster, gone, removed, watermark')
  BY <1>2, <1>3, <1>4 DEF RelayIsSound
<1>6. UNCHANGED <<roster, gone, removed, memo, receipts>>
  BY DEF WriteReceipt, membership, screens
<1>7. receipts' \in [Peers -> [Signallers -> Nat]] /\ ReceiptsAreStored'
  BY <1>3, <1>6, HigherIsStored DEF SignalsInv, SignalTypes
<1>8. relay' = [relay EXCEPT ![r] = c] /\ \A v \in Peers : watermark[v] <= watermark'[v]
  BY <1>3, <1>4
<1>9. watermark' \in [Peers -> Nat]
  BY <1>3
<1> QED BY <1>5, <1>6, <1>7, <1>8, <1>9, MarksMove

LEMMA RelayFailsKeeps ==
  ASSUME SignalsInv, NEW r \in Relays, RelayFails(r) PROVE SignalsInv'
<1>1. /\ relay[r] \in Relayed /\ RelayIsSound(relay[r], roster, gone, removed, watermark)
      /\ relay[r].pc # "none"
  BY DEF SignalsInv, SignalTypes, RelayFails
<1>2. relay[r].user \in Peers /\ relay[r].upto \in Nat
  BY <1>1, SignalsAssumption DEF RelayIsSound, Relayed
<1>3. watermark' \in [Peers -> Nat] /\ \A v \in Peers : watermark[v] <= watermark'[v]
  <2>1. CASE UNCHANGED watermark
    BY <2>1 DEF SignalsInv, SignalTypes
  <2>2. CASE watermark' =
               [watermark EXCEPT ![relay[r].user] = Raised(relay[r].user, relay[r].upto)]
    BY <1>2, <2>2, RaisedIsHigher
  <2> QED BY <2>1, <2>2 DEF RelayFails
<1>4. relay' = [relay EXCEPT ![r] = NoRelay] /\ UNCHANGED <<roster, gone, removed, memo, receipts>>
  BY DEF RelayFails, membership, screens
<1>5. receipts' \in [Peers -> [Signallers -> Nat]] /\ ReceiptsAreStored'
  BY <1>3, <1>4, HigherIsStored DEF SignalsInv, SignalTypes
<1>6. NoRelay \in Relayed /\ RelayIsSound(NoRelay, roster, gone, removed, watermark')
  BY NoRelayIsSound
<1> QED BY <1>3, <1>4, <1>5, <1>6, MarksMove

LEMMA TellingKeeps ==
  ASSUME SignalsInv, NEW r \in Relays, NEW p \in Peers, TellPeer(r, p) \/ TellNobody(r, p)
  PROVE  SignalsInv'
<1>1. /\ relay[r] \in Relayed /\ RelayIsSound(relay[r], roster, gone, removed, watermark)
      /\ relay[r].pc = "tells" /\ relay[r].kind \in {"typ", "read"}
      /\ UNCHANGED <<roster, gone, removed, memo, watermark>>
  BY DEF SignalsInv, SignalTypes, TellPeer, TellNobody, membership, Relayed
<1>2. relay[r].user \in Signallers /\ relay[r].upto \in Nat
  BY <1>1 DEF RelayIsSound, Relayed
<1>3. PICK c \in Relayed :
        relay' = [relay EXCEPT ![r] = c] /\ RelayIsSound(c, roster, gone, removed, watermark)
  <2> DEFINE n == [relay[r] EXCEPT !.to = relay[r].to \ {p}]
  <2>1. n \in Relayed
    BY <1>1 DEF Relayed
  <2>2. /\ n.pc = relay[r].pc /\ n.user = relay[r].user /\ n.entitled = relay[r].entitled
        /\ n.upto = relay[r].upto /\ n.kind = relay[r].kind
    BY <1>1 DEF Relayed
  <2>3. relay' = [relay EXCEPT ![r] = NoRelay] \/ relay' = [relay EXCEPT ![r] = n]
    BY DEF TellPeer, TellNobody, Told
  <2> HIDE DEF n
  <2>4. RelayIsSound(n, roster, gone, removed, watermark)
    BY <1>1, <2>2 DEF RelayIsSound
  <2> QED BY <2>1, <2>3, <2>4, NoRelayIsSound
<1>4. receipts' \in [Peers -> [Signallers -> Nat]] /\ ReceiptsAreStored'
  <2>1. CASE UNCHANGED receipts
    BY <1>1, <2>1 DEF SignalsInv, SignalTypes, ReceiptsAreStored
  <2>2. CASE relay[r].kind = "read" /\ receipts' = ReceiptsWith(p, relay[r])
    <3> DEFINE old == receipts[p][relay[r].user]
               new == IF relay[r].upto > old THEN relay[r].upto ELSE old
    <3>1. old \in Nat /\ new \in Nat /\ (new = relay[r].upto \/ new = old)
      BY <1>2 DEF SignalsInv, SignalTypes
    <3>2. receipts' = [receipts EXCEPT ![p] = [receipts[p] EXCEPT ![relay[r].user] = new]]
      BY <2>2 DEF ReceiptsWith
    <3> HIDE DEF old, new
    <3>3. /\ receipts' \in [Peers -> [Signallers -> Nat]]
          /\ \A q \in Peers, u \in Signallers :
               receipts'[q][u] = IF q = p /\ u = relay[r].user THEN new ELSE receipts[q][u]
      <4>1. [receipts[p] EXCEPT ![relay[r].user] = new] \in [Signallers -> Nat]
        BY <1>2, <3>1 DEF SignalsInv, SignalTypes
      <4> QED BY <1>2, <3>1, <3>2, <4>1 DEF SignalsInv, SignalTypes
    <3>4. new <= watermark[relay[r].user] \/ relay[r].user \in removed
      BY <1>1, <1>2, <2>2, <3>1 DEF RelayIsSound, SignalsInv, ReceiptsAreStored, old
    <3> QED BY <1>1, <3>3, <3>4 DEF SignalsInv, ReceiptsAreStored
  <2> QED BY <1>1, <2>1, <2>2 DEF TellPeer, TellNobody, screens
<1>5. watermark' \in [Peers -> Nat] /\ \A u \in Peers : watermark[u] <= watermark'[u]
  BY <1>1 DEF SignalsInv, SignalTypes
<1>6. RelayIsSound(c, roster, gone, removed, watermark')
  BY <1>1, <1>3
<1> QED BY <1>1, <1>3, <1>4, <1>5, <1>6, MarksMove

LEMMA EvictKeeps ==
  ASSUME SignalsInv, EvictRoom PROVE SignalsInv'
<1>1. /\ memo' = NoMemo /\ relay' = [r \in Relays |-> NoRelay]
      /\ UNCHANGED <<roster, gone, removed, watermark, receipts>>
  BY DEF EvictRoom, membership, screens
<1>2. SignalTypes'
  BY <1>1, NoMemoIsSound, NoRelayIsSound DEF SignalsInv, SignalTypes
<1>3. IsFresh(memo'.ids, memo'.age, roster', gone')
  BY <1>1, NoMemoIsSound DEF IsFresh
<1>4. \A r \in Relays : RelayIsSound(relay'[r], roster', gone', removed', watermark')
  BY <1>1, NoRelayIsSound
<1> QED BY <1>1, <1>2, <1>3, <1>4 DEF SignalsInv, ReceiptsAreStored

LEMMA ExpelKeeps ==
  ASSUME SignalsInv, NEW u \in Signallers, Expel(u) PROVE SignalsInv'
<1>1. /\ roster' = roster \ {u} /\ watermark' = [watermark EXCEPT ![u] = 0]
      /\ gone' = [gone EXCEPT ![u] = 0] /\ removed' = removed \cup {u}
      /\ UNCHANGED <<memo, relay, receipts>> /\ u \in Peers
  BY SignalsAssumption DEF Expel, screens
<1>2. /\ gone' \in [Signallers -> Nat] /\ gone'[u] = 0
      /\ \A v \in Signallers \ {u} : gone'[v] = gone[v]
      /\ watermark' \in [Peers -> Nat] /\ \A v \in Peers \ {u} : watermark'[v] = watermark[v]
  BY <1>1 DEF SignalsInv, SignalTypes
<1>3. SignalTypes'
  BY <1>1, <1>2 DEF SignalsInv, SignalTypes
<1>4. ASSUME NEW ids, NEW age \in Nat, IsFresh(ids, age, roster, gone)
      PROVE  IsFresh(ids, age, roster', gone')
  BY <1>1, <1>2, <1>4 DEF IsFresh
<1>5. memo.age \in Nat
  BY SignalsAssumption DEF SignalsInv, SignalTypes
<1>6. IsFresh(memo.ids, memo.age, roster', gone')
  BY <1>4, <1>5 DEF SignalsInv
<1>7. ASSUME NEW r \in Relays
      PROVE  RelayIsSound(relay[r], roster', gone', removed', watermark')
  <2>1. RelayIsSound(relay[r], roster, gone, removed, watermark)
    BY DEF SignalsInv
  <2>2. relay[r].age \in Nat
    BY SignalsAssumption DEF SignalsInv, SignalTypes, Relayed
  <2>3. IsFresh(relay[r].ids, relay[r].age, roster, gone)
          => IsFresh(relay[r].ids, relay[r].age, roster', gone')
    BY <1>4, <2>2
  <2>4. CASE relay[r].pc = "none"
    BY <2>4 DEF RelayIsSound
  <2>5. CASE relay[r].pc # "none"
    <3>1. relay[r].user \in Signallers /\ relay[r].user \in Peers
      BY <2>1, <2>5, SignalsAssumption DEF RelayIsSound
    <3>2. relay[r].upto <= watermark[relay[r].user]
            => relay[r].upto <= watermark'[relay[r].user] \/ relay[r].user \in removed'
      BY <1>1, <1>2, <3>1
    <3> QED BY <1>1, <2>1, <2>3, <3>2 DEF RelayIsSound
  <2> QED BY <2>4, <2>5
<1>8. \A v \in Signallers : v \notin roster' \cup removed' => gone'[v] > MemberTtl
  BY <1>1, <1>2 DEF SignalsInv
<1>9. ReceiptsAreStored'
  BY <1>1, <1>2, SignalsAssumption DEF SignalsInv, ReceiptsAreStored
<1> QED BY <1>1, <1>3, <1>6, <1>7, <1>8, <1>9 DEF SignalsInv

LEMMA ReadmitKeeps ==
  ASSUME SignalsInv, NEW u \in Signallers, Readmit(u) PROVE SignalsInv'
<1>1. /\ roster' = roster \cup {u}
      /\ UNCHANGED <<memo, watermark, gone, removed, receipts>> /\ u \in Peers
      /\ relay' = [r \in Relays |-> IF relay[r].user = u THEN [relay[r] EXCEPT !.entitled = TRUE]
                                    ELSE relay[r]]
  BY SignalsAssumption DEF Readmit, screens
<1>2. ASSUME NEW r \in Relays
      PROVE  /\ relay'[r] \in Relayed
             /\ RelayIsSound(relay'[r], roster', gone', removed', watermark')
  <2>1. relay[r] \in Relayed /\ RelayIsSound(relay[r], roster, gone, removed, watermark)
    BY DEF SignalsInv, SignalTypes
  <2>2. CASE relay[r].user = u
    <3> DEFINE c == [relay[r] EXCEPT !.entitled = TRUE]
    <3>1. c \in Relayed
      BY <2>1 DEF Relayed
    <3>2. /\ c.pc = relay[r].pc /\ c.user = u /\ c.entitled /\ c.ids = relay[r].ids
          /\ c.age = relay[r].age /\ c.kind = relay[r].kind /\ c.upto = relay[r].upto
      BY <2>1, <2>2 DEF Relayed
    <3>3. relay'[r] = c
      BY <1>1, <2>2
    <3> HIDE DEF c
    <3>4. RelayIsSound(c, roster', gone', removed', watermark')
      BY <1>1, <2>1, <2>2, <3>2 DEF RelayIsSound, IsFresh
    <3> QED BY <3>1, <3>3, <3>4
  <2>3. CASE relay[r].user # u
    <3>1. relay'[r] = relay[r]
      BY <1>1, <2>3
    <3> QED BY <1>1, <2>1, <2>3, <3>1 DEF RelayIsSound, IsFresh
  <2> QED BY <2>2, <2>3
<1>3. SignalTypes'
  <2>1. relay' \in [Relays -> Relayed]
    BY <1>1, <1>2
  <2> QED BY <1>1, <2>1 DEF SignalsInv, SignalTypes
<1> QED BY <1>1, <1>2, <1>3 DEF SignalsInv, ReceiptsAreStored, IsFresh

LEMMA AppKilledKeeps ==
  ASSUME SignalsInv, NEW p \in Peers, AppKilled(p) PROVE SignalsInv'
<1>1. /\ UNCHANGED <<roster, gone, removed, watermark, memo, relay>>
      /\ receipts' = [receipts EXCEPT ![p] = [u \in Signallers |-> 0]]
  BY DEF AppKilled, membership
<1>2. /\ receipts' \in [Peers -> [Signallers -> Nat]]
      /\ \A q \in Peers, u \in Signallers : receipts'[q][u] \in {0, receipts[q][u]}
  BY <1>1 DEF SignalsInv, SignalTypes
<1>3. ReceiptsAreStored'
  BY <1>1, <1>2, SignalsAssumption DEF SignalsInv, SignalTypes, ReceiptsAreStored
<1> QED BY <1>1, <1>2, <1>3 DEF SignalsInv, SignalTypes

LEMMA AgesKeepOrder ==
  ASSUME NEW a \in Nat, NEW b \in 0 .. MemberTtl + 1
  PROVE  /\ Aged(a) \in Nat /\ Aged(b) \in 0 .. MemberTtl + 1
         /\ a <= Aged(a) /\ (a <= b => Aged(a) <= Aged(b))
  BY SignalsAssumption DEF Aged

\* A tick: what is remembered and the time since the removals grow older together.
LEMMA ElapseKeeps ==
  ASSUME SignalsInv, Elapse PROVE SignalsInv'
<1>1. /\ UNCHANGED <<roster, watermark, receipts, removed>>
      /\ memo' = IF memo.age < MemberTtl THEN [memo EXCEPT !.age = memo.age + 1] ELSE NoMemo
      /\ gone' = [u \in Signallers |-> IF u \in roster THEN 0 ELSE Aged(gone[u])]
      /\ relay' = [r \in Relays |-> IF relay[r].pc \in {"asks", "knows"}
                                    THEN [relay[r] EXCEPT !.age = Aged(relay[r].age)] ELSE relay[r]]
  BY DEF Elapse
<1>2. /\ gone' \in [Signallers -> Nat]
      /\ \A u \in Signallers \ roster : gone'[u] = Aged(gone[u]) /\ gone[u] <= gone'[u]
  BY <1>1, AgesKeepOrder, SignalsAssumption DEF SignalsInv, SignalTypes
<1>3. ASSUME NEW ids, NEW age \in 0 .. MemberTtl + 1, IsFresh(ids, age, roster, gone)
      PROVE  IsFresh(ids, Aged(age), roster', gone')
  BY <1>1, <1>2, <1>3, AgesKeepOrder, SignalsAssumption DEF IsFresh, SignalsInv, SignalTypes
<1>4. /\ memo' \in [ids : SUBSET Peers, age : 0 .. MemberTtl + 1]
      /\ IsFresh(memo'.ids, memo'.age, roster', gone')
  <2>1. memo \in [ids : SUBSET Peers, age : 0 .. MemberTtl + 1]
    BY DEF SignalsInv, SignalTypes
  <2>2. CASE memo.age < MemberTtl
    <3>1. /\ memo' \in [ids : SUBSET Peers, age : 0 .. MemberTtl + 1]
          /\ memo'.ids = memo.ids /\ memo'.age = memo.age + 1
      BY <1>1, <2>1, <2>2, SignalsAssumption
    <3>2. Aged(memo.age) = memo.age + 1
      BY <2>1, <2>2, SignalsAssumption DEF Aged
    <3>3. IsFresh(memo.ids, Aged(memo.age), roster', gone')
      BY <1>3, <2>1 DEF SignalsInv
    <3> QED BY <3>1, <3>2, <3>3
  <2>3. CASE ~ (memo.age < MemberTtl)
    <3>1. memo' = NoMemo
      BY <1>1, <2>3
    <3> QED BY <3>1, NoMemoIsSound DEF IsFresh
  <2> QED BY <2>2, <2>3
<1>5. ASSUME NEW r \in Relays
      PROVE  /\ relay'[r] \in Relayed
             /\ RelayIsSound(relay'[r], roster', gone', removed', watermark')
  <2>1. relay[r] \in Relayed /\ RelayIsSound(relay[r], roster, gone, removed, watermark)
    BY DEF SignalsInv, SignalTypes
  <2>2. CASE relay[r].pc \in {"asks", "knows"}
    <3> DEFINE c == [relay[r] EXCEPT !.age = Aged(relay[r].age)]
    <3>1. relay[r].age \in 0 .. MemberTtl + 1 /\ Aged(relay[r].age) \in 0 .. MemberTtl + 1
      <4>1. relay[r].age \in 0 .. MemberTtl + 1
        BY <2>1 DEF Relayed
      <4> QED BY <4>1, AgesKeepOrder
    <3>2. c \in Relayed
      BY <2>1, <3>1 DEF Relayed
    <3>3. /\ c.pc = relay[r].pc /\ c.user = relay[r].user /\ c.entitled = relay[r].entitled
          /\ c.ids = relay[r].ids /\ c.age = Aged(relay[r].age)
      BY <2>1 DEF Relayed
    <3>4. relay'[r] = c
      BY <1>1, <2>2
    <3> HIDE DEF c
    <3>5. IsFresh(relay[r].ids, relay[r].age, roster, gone) => IsFresh(c.ids, c.age, roster', gone')
      BY <1>3, <3>1, <3>3
    <3>6. RelayIsSound(c, roster', gone', removed', watermark')
      BY <1>1, <2>1, <2>2, <3>3, <3>5 DEF RelayIsSound
    <3> QED BY <3>2, <3>4, <3>6
  <2>3. CASE relay[r].pc \notin {"asks", "knows"}
    <3>1. relay'[r] = relay[r]
      BY <1>1, <2>3
    <3> QED BY <1>1, <2>1, <2>3, <3>1 DEF RelayIsSound
  <2> QED BY <2>2, <2>3
<1>6. SignalTypes'
  <2>1. relay' \in [Relays -> Relayed]
    BY <1>1, <1>5
  <2> QED BY <1>1, <1>2, <1>4, <2>1 DEF SignalsInv, SignalTypes
<1>7. \A u \in Signallers : u \notin roster' \cup removed' => gone'[u] > MemberTtl
  BY <1>1, <1>2, SignalsAssumption DEF SignalsInv, SignalTypes
<1> QED BY <1>1, <1>4, <1>5, <1>6, <1>7 DEF SignalsInv, ReceiptsAreStored

LEMMA SignalsStep == SignalsInv /\ [SignalsNext]_signalVars => SignalsInv'
<1> SUFFICES ASSUME SignalsInv, [SignalsNext]_signalVars PROVE SignalsInv'
  OBVIOUS
<1>1. ASSUME \/ UNCHANGED signalVars
             \/ \E p \in Peers : Sweep(p)
             \/ \E u \in Signallers : Reopen(u)
      PROVE  SignalsInv'
  <2>1. UNCHANGED <<roster, gone, removed, watermark, memo, receipts, relay>>
    BY <1>1 DEF signalVars, Sweep, Reopen, membership, screens
  <2> QED BY <2>1, SignalsStay
<1>2. ASSUME NEW u \in Signallers,
             \/ StartTyping(u) \/ Heartbeat(u) \/ StopTyping(u)
             \/ \E n \in 1 .. MaxRead : MarkRead(u, n)
      PROVE  SignalsInv'
  <2>1. UNCHANGED <<roster, gone, removed, watermark, memo, receipts>>
    BY <1>2 DEF StartTyping, Heartbeat, StopTyping, MarkRead, membership, screens
  <2>2. PICK kind \in {"typ", "read"}, upto \in Nat : Emit(u, kind, upto)
    BY <1>2, SignalsAssumption DEF StartTyping, Heartbeat, StopTyping, MarkRead
  <2> QED BY <2>1, <2>2, Emitted
<1>3. ASSUME NEW u \in Signallers, Expel(u) \/ Readmit(u) PROVE SignalsInv'
  BY <1>3, ExpelKeeps, ReadmitKeeps
<1>4. ASSUME NEW r \in Relays, RelayStep(r) \/ WriteReceipt(r) PROVE SignalsInv'
  BY <1>4, LookUpKeeps, MemoizeKeeps, RelayFailsKeeps, TellingKeeps, WriteReceiptKeeps
     DEF RelayStep
<1>5. CASE Around
  BY <1>5, ElapseKeeps, EvictKeeps, AppKilledKeeps DEF Around
<1> QED BY <1>1, <1>2, <1>3, <1>4, <1>5 DEF SignalsNext, TypingNext, ReadingNext

\* What the signals say: a call goes on with the one it began with, or ends.
GoesOn(c, d) ==
  \/ c.pc = "none"
  \/ /\ d.pc # "none" /\ c.kind = d.kind /\ c.user = d.user /\ c.upto = d.upto
     /\ c.pc = "writes" => d.pc = "writes" \/ c.kind # "typ"
CallsGoOn == \A r \in Relays : GoesOn(relay'[r], relay[r])

\* A call that was begun is u's and says what u's emitter emitted.
CallsOrSays(u, kind, upto) ==
  \A r \in Relays :
    \/ GoesOn(relay'[r], relay[r])
    \/ /\ relay'[r].kind = kind /\ relay'[r].user = u /\ relay'[r].upto = upto
       /\ relay'[r].pc = "writes" => kind # "typ"

\* How long who is shown as typing has been quiet, and the bounds.
ScreenInv ==
  /\ composing \in [Signallers -> BOOLEAN] /\ beating \in [Signallers -> BOOLEAN]
  /\ lastSent \in [Signallers -> 0 .. MaxRead] /\ quiet \in [Signallers -> Nat]
  /\ typers \in [Peers -> [Signallers -> 0 .. TypingTtl + 1]]
  /\ receipts \in [Peers -> [Signallers -> 0 .. MaxRead]]
  /\ watermark \in [Peers -> 0 .. MaxRead]
  /\ rosters \in 0 .. MaxRosters /\ removed \subseteq Signallers
  /\ \A u \in Signallers : beating[u] => composing[u]
  /\ \A u \in Signallers : composing[u] \/ OnItsWay(u) => quiet[u] = 0
  /\ \A p \in Peers, u \in Signallers :
       typers[p][u] > 1 => typers[p][u] + quiet[u] <= TypingTtl + 1
  /\ \A r \in Relays : relay[r].pc # "none" =>
       /\ relay[r].upto <= MaxRead \/ (relay[r].kind = "typ" /\ relay[r].upto = 1)
       /\ relay[r].pc = "writes" => relay[r].kind # "typ"

LEMMA ScreensStart == SignalsInit => ScreenInv
<1> SUFFICES ASSUME SignalsInit PROVE ScreenInv
  OBVIOUS
<1>1. \A r \in Relays : relay[r].pc = "none"
  BY NoRelayIsSound DEF SignalsInit
<1> QED BY <1>1, SignalsAssumption DEF SignalsInit, ScreenInv, OnItsWay

LEMMA GatedGoesOn ==
  ASSUME NEW c \in Relayed, NEW ids, c.pc # "none"
  PROVE  GoesOn(Gated(c, ids), c)
<1>1. CASE c.user \notin ids
  BY <1>1, NoRelayIsSound DEF Gated, GoesOn
<1>2. CASE c.user \in ids /\ c.kind = "typ"
  <2> DEFINE n == [c EXCEPT !.pc = "tells", !.age = 0, !.ids = {}, !.to = Peers \ {c.user}]
  <2>1. n.kind = c.kind /\ n.user = c.user /\ n.upto = c.upto /\ n.pc = "tells"
    BY DEF Relayed
  <2>2. Gated(c, ids) = n
    BY <1>2 DEF Gated, LetThrough
  <2> QED BY <2>1, <2>2 DEF GoesOn
<1>3. CASE c.user \in ids /\ c.kind # "typ"
  <2> DEFINE n == [c EXCEPT !.pc = "writes", !.age = 0, !.ids = {}]
  <2>1. n.kind = c.kind /\ n.user = c.user /\ n.upto = c.upto
    BY DEF Relayed
  <2>2. Gated(c, ids) = n
    BY <1>3 DEF Gated, LetThrough
  <2> QED BY <1>3, <2>1, <2>2 DEF GoesOn
<1> QED BY <1>1, <1>2, <1>3

\* One call moves.
LEMMA OneGoesOn ==
  ASSUME SignalsInv, NEW r \in Relays, NEW c, relay' = [relay EXCEPT ![r] = c],
         GoesOn(c, relay[r])
  PROVE  CallsGoOn
<1>1. \A q \in Relays : relay'[q] = relay[q] \/ (q = r /\ relay'[q] = c)
  BY DEF SignalsInv, SignalTypes
<1> QED BY <1>1 DEF CallsGoOn, GoesOn

LEMMA RelaysGoOn ==
  ASSUME SignalsInv,
         \/ UNCHANGED relay \/ EvictRoom \/ Elapse
         \/ \E u \in Signallers : Readmit(u)
         \/ \E r \in Relays : RelayStep(r) \/ WriteReceipt(r)
  PROVE  CallsGoOn
<1>0. /\ NoRelay.pc = "none" /\ \A r \in Relays : relay[r] \in Relayed
      /\ relay = [r \in Relays |-> relay[r]]
  BY NoRelayIsSound DEF SignalsInv, SignalTypes
<1>1. CASE UNCHANGED relay
  BY <1>1 DEF CallsGoOn, GoesOn
<1>2. CASE EvictRoom
  BY <1>0, <1>2 DEF EvictRoom, CallsGoOn, GoesOn
<1>3. CASE Elapse
  <2>1. ASSUME NEW r \in Relays PROVE GoesOn(relay'[r], relay[r])
    <3>1. relay'[r] = relay[r] \/ relay'[r] = [relay[r] EXCEPT !.age = Aged(relay[r].age)]
      BY <1>3 DEF Elapse
    <3>2. relay'[r].pc = relay[r].pc /\ relay'[r].kind = relay[r].kind
          /\ relay'[r].user = relay[r].user /\ relay'[r].upto = relay[r].upto
      BY <1>0, <3>1 DEF Relayed
    <3> QED BY <3>2 DEF GoesOn
  <2> QED BY <2>1 DEF CallsGoOn
<1>4. ASSUME NEW u \in Signallers, Readmit(u) PROVE CallsGoOn
  <2>1. ASSUME NEW r \in Relays PROVE GoesOn(relay'[r], relay[r])
    <3>1. relay'[r] = relay[r] \/ relay'[r] = [relay[r] EXCEPT !.entitled = TRUE]
      BY <1>4 DEF Readmit
    <3>2. relay'[r].pc = relay[r].pc /\ relay'[r].kind = relay[r].kind
          /\ relay'[r].user = relay[r].user /\ relay'[r].upto = relay[r].upto
      BY <1>0, <3>1 DEF Relayed
    <3> QED BY <3>2 DEF GoesOn
  <2> QED BY <2>1 DEF CallsGoOn
<1>5. ASSUME NEW r \in Relays, LookUp(r) PROVE CallsGoOn
  <2> DEFINE n == [relay[r] EXCEPT !.pc = "knows", !.ids = roster]
  <2>1. relay[r].pc # "none" /\ relay' = [relay EXCEPT ![r] = n]
    BY <1>5 DEF LookUp
  <2>2. n.pc = "knows" /\ n.kind = relay[r].kind /\ n.user = relay[r].user /\ n.upto = relay[r].upto
    BY <1>0 DEF Relayed
  <2>3. GoesOn(n, relay[r])
    BY <2>1, <2>2 DEF GoesOn
  <2> QED BY <2>1, <2>3, OneGoesOn
<1>6. ASSUME NEW r \in Relays, Memoize(r) PROVE CallsGoOn
  <2>1. /\ relay[r].pc # "none"
        /\ relay' = [relay EXCEPT ![r] = Gated(relay[r], relay[r].ids)]
    BY <1>6 DEF Memoize
  <2>2. GoesOn(Gated(relay[r], relay[r].ids), relay[r])
    BY <1>0, <2>1, GatedGoesOn
  <2> QED BY <2>1, <2>2, OneGoesOn
<1>7. ASSUME NEW r \in Relays, RelayFails(r) PROVE CallsGoOn
  <2>1. relay' = [relay EXCEPT ![r] = NoRelay] /\ GoesOn(NoRelay, relay[r])
    BY <1>0, <1>7 DEF RelayFails, GoesOn
  <2> QED BY <2>1, OneGoesOn
<1>8. ASSUME NEW r \in Relays, NEW p \in Peers, TellPeer(r, p) \/ TellNobody(r, p)
      PROVE  CallsGoOn
  <2> DEFINE n == [relay[r] EXCEPT !.to = relay[r].to \ {p}]
  <2>1. relay[r].pc # "none" /\ relay' = [relay EXCEPT ![r] = Told(relay[r], p)]
    BY <1>8 DEF TellPeer, TellNobody
  <2>2. n.pc = relay[r].pc /\ n.kind = relay[r].kind /\ n.user = relay[r].user /\ n.upto = relay[r].upto
    BY <1>0 DEF Relayed
  <2>3. GoesOn(n, relay[r]) /\ GoesOn(NoRelay, relay[r])
    BY <1>0, <2>1, <2>2 DEF GoesOn
  <2>4. GoesOn(Told(relay[r], p), relay[r])
    BY <2>3 DEF Told
  <2> QED BY <2>1, <2>4, OneGoesOn
<1>9. ASSUME NEW r \in Relays, WriteReceipt(r) PROVE CallsGoOn
  <2> DEFINE n == [relay[r] EXCEPT !.pc = "tells", !.to = Peers \ {relay[r].user}]
  <2>1. relay[r].pc # "none" /\ relay' = [relay EXCEPT ![r] = n]
    BY <1>9 DEF WriteReceipt
  <2>2. n.pc = "tells" /\ n.kind = relay[r].kind /\ n.user = relay[r].user /\ n.upto = relay[r].upto
    BY <1>0 DEF Relayed
  <2>3. GoesOn(n, relay[r])
    BY <2>1, <2>2 DEF GoesOn
  <2> QED BY <2>1, <2>3, OneGoesOn
<1> QED BY <1>1, <1>2, <1>3, <1>4, <1>5, <1>6, <1>7, <1>8, <1>9 DEF RelayStep

LEMMA EmittedSays ==
  ASSUME SignalsInv, NEW u \in Signallers, NEW kind \in {"typ", "read"}, NEW upto \in Nat,
         Emit(u, kind, upto)
  PROVE  CallsOrSays(u, kind, upto)
<1>1. CASE UNCHANGED relay
  BY <1>1 DEF CallsOrSays, GoesOn
<1>2. CASE relay' # relay
  <2> DEFINE asked == [NoRelay EXCEPT !.pc = "asks", !.kind = kind, !.user = u, !.upto = upto,
                                      !.entitled = Entitled(u)]
  <2>1. PICK r \in Relays : relay' = [relay EXCEPT ![r] = Arrived(asked)]
    BY <1>2 DEF Emit
  <2>2. asked \in Relayed /\ asked.pc = "asks"
        /\ asked.kind = kind /\ asked.user = u /\ asked.upto = upto
    <3>1. Entitled(u) \in BOOLEAN /\ u \in Peers
      BY SignalsAssumption DEF Entitled
    <3>2. asked \in Relayed
      BY <3>1, NoRelayIsSound DEF Relayed
    <3> QED BY <3>2, NoRelayIsSound DEF Relayed
  <2> HIDE DEF asked
  <2>3. GoesOn(Arrived(asked), asked)
    <3>1. GoesOn(Gated(asked, memo.ids), asked) /\ GoesOn(asked, asked)
      BY <2>2, GatedGoesOn DEF GoesOn
    <3> QED BY <3>1 DEF Arrived
  <2>4. \A q \in Relays : relay'[q] = relay[q] \/ relay'[q] = Arrived(asked)
    BY <2>1 DEF SignalsInv, SignalTypes
  <2> QED BY <2>2, <2>3, <2>4 DEF CallsOrSays, GoesOn
<1> QED BY <1>1, <1>2

\* The part that is about the calls.
CallsAreQuiet ==
  /\ \A u \in Signallers : OnItsWay(u) => quiet[u] = 0
  /\ \A r \in Relays : relay[r].pc # "none" =>
       /\ relay[r].upto <= MaxRead \/ (relay[r].kind = "typ" /\ relay[r].upto = 1)
       /\ relay[r].pc = "writes" => relay[r].kind # "typ"

LEMMA CallsStayQuiet ==
  ASSUME ScreenInv, CallsGoOn, \A u \in Signallers : OnItsWay(u) => quiet'[u] = 0
  PROVE  CallsAreQuiet'
<1>1. \A u \in Signallers : OnItsWay(u)' => OnItsWay(u)
  BY DEF CallsGoOn, GoesOn, OnItsWay
<1>2. \A r \in Relays : relay'[r].pc # "none" =>
        /\ relay'[r].upto <= MaxRead \/ (relay'[r].kind = "typ" /\ relay'[r].upto = 1)
        /\ relay'[r].pc = "writes" => relay'[r].kind # "typ"
  BY DEF CallsGoOn, GoesOn, ScreenInv
<1> QED BY <1>1, <1>2 DEF CallsAreQuiet

LEMMA CallsSayQuiet ==
  ASSUME ScreenInv, NEW u \in Signallers, NEW kind, NEW upto, CallsOrSays(u, kind, upto),
         \A v \in Signallers : OnItsWay(v) => quiet'[v] = 0,
         kind = "typ" /\ upto = 1 => quiet'[u] = 0,
         upto <= MaxRead \/ (kind = "typ" /\ upto = 1)
  PROVE  CallsAreQuiet'
<1>1. \A v \in Signallers :
        OnItsWay(v)' => OnItsWay(v) \/ (v = u /\ kind = "typ" /\ upto = 1)
  BY DEF CallsOrSays, GoesOn, OnItsWay
<1>2. \A r \in Relays : relay'[r].pc # "none" =>
        /\ relay'[r].upto <= MaxRead \/ (relay'[r].kind = "typ" /\ relay'[r].upto = 1)
        /\ relay'[r].pc = "writes" => relay'[r].kind # "typ"
  BY DEF CallsOrSays, GoesOn, ScreenInv
<1> QED BY <1>1, <1>2 DEF CallsAreQuiet

\* What a peer is told.
LEMMA TellPeerKeepsScreens ==
  ASSUME SignalsInv, ScreenInv, NEW r \in Relays, NEW p \in Peers, TellPeer(r, p)
  PROVE  ScreenInv'
<1>1. /\ relay[r] \in Relayed /\ relay[r].pc = "tells" /\ relay[r].kind \in {"typ", "read"}
      /\ relay[r].user \in Signallers /\ relay[r].upto \in Nat
      /\ relay[r].kind = "read" => relay[r].upto \in 0 .. MaxRead
  BY DEF SignalsInv, SignalTypes, RelayIsSound, TellPeer, Relayed, ScreenInv
<1>2. /\ UNCHANGED <<composing, beating, lastSent, quiet, watermark, rosters, removed>>
  BY DEF TellPeer, emitters, membership
<1>3. CallsAreQuiet'
  BY <1>2, RelaysGoOn, CallsStayQuiet DEF RelayStep, ScreenInv
<1>4. CASE relay[r].kind = "typ"
  <2> DEFINE n == IF relay[r].upto = 1 THEN 1 + TypingTtl ELSE 0
  <2>1. typers' = [typers EXCEPT ![p] = [typers[p] EXCEPT ![relay[r].user] = n]]
        /\ UNCHANGED receipts
    BY <1>4 DEF TellPeer, TypersWith
  <2>2. n \in 0 .. TypingTtl + 1 /\ (n > 1 => quiet[relay[r].user] = 0 /\ n = TypingTtl + 1)
    BY <1>1, <1>4, SignalsAssumption DEF ScreenInv, OnItsWay
  <2> HIDE DEF n
  <2>3. /\ typers' \in [Peers -> [Signallers -> 0 .. TypingTtl + 1]]
        /\ \A q \in Peers, u \in Signallers :
             typers'[q][u] = IF q = p /\ u = relay[r].user THEN n ELSE typers[q][u]
    BY <1>1, <2>1, <2>2 DEF ScreenInv
  <2>4. ASSUME NEW q \in Peers, NEW u \in Signallers, typers'[q][u] > 1
        PROVE  typers'[q][u] + quiet[u] <= TypingTtl + 1
    <3>1. CASE q = p /\ u = relay[r].user
      BY <2>2, <2>3, <2>4, <3>1, SignalsAssumption
    <3>2. CASE ~ (q = p /\ u = relay[r].user)
      BY <2>3, <2>4, <3>2 DEF ScreenInv
    <3> QED BY <3>1, <3>2
  <2> QED BY <1>2, <1>3, <2>1, <2>3, <2>4 DEF ScreenInv, CallsAreQuiet
<1>5. CASE relay[r].kind = "read"
  <2> DEFINE n == IF relay[r].upto > receipts[p][relay[r].user] THEN relay[r].upto
                  ELSE receipts[p][relay[r].user]
  <2>1. receipts' = [receipts EXCEPT ![p] = [receipts[p] EXCEPT ![relay[r].user] = n]]
        /\ UNCHANGED typers
    BY <1>5 DEF TellPeer, ReceiptsWith
  <2>2. n \in 0 .. MaxRead
    BY <1>1, <1>5 DEF ScreenInv
  <2> HIDE DEF n
  <2>3. receipts' \in [Peers -> [Signallers -> 0 .. MaxRead]]
    BY <1>1, <2>1, <2>2 DEF ScreenInv
  <2> QED BY <1>2, <1>3, <2>1, <2>3 DEF ScreenInv, CallsAreQuiet
<1> QED BY <1>1, <1>4, <1>5

\* A tick.
LEMMA ElapseKeepsScreens ==
  ASSUME SignalsInv, ScreenInv, Elapse PROVE ScreenInv'
<1>1. /\ UNCHANGED <<composing, beating, lastSent, receipts, watermark, rosters, removed>>
      /\ quiet' = [u \in Signallers |-> IF composing[u] \/ OnItsWay(u) THEN 0
                     ELSE IF quiet[u] < TypingTtl THEN quiet[u] + 1 ELSE quiet[u]]
      /\ typers' = [p \in Peers |-> [u \in Signallers |->
                      IF typers[p][u] > 1 THEN typers[p][u] - 1 ELSE typers[p][u]]]
  BY DEF Elapse, emitters
<1>2. /\ quiet' \in [Signallers -> Nat]
      /\ \A u \in Signallers : composing[u] \/ OnItsWay(u) => quiet'[u] = 0
      /\ \A u \in Signallers : quiet'[u] <= quiet[u] + 1
  BY <1>1 DEF ScreenInv
<1>3. /\ typers' \in [Peers -> [Signallers -> 0 .. TypingTtl + 1]]
      /\ \A p \in Peers, u \in Signallers :
           typers'[p][u] > 1 => typers[p][u] = typers'[p][u] + 1 /\ typers[p][u] > 1
  BY <1>1, SignalsAssumption DEF ScreenInv
<1>4. CallsAreQuiet'
  BY <1>2, RelaysGoOn, CallsStayQuiet
<1>5. ASSUME NEW p \in Peers, NEW u \in Signallers, typers'[p][u] > 1
      PROVE  typers'[p][u] + quiet'[u] <= TypingTtl + 1
  <2>1. typers[p][u] = typers'[p][u] + 1 /\ typers[p][u] + quiet[u] <= TypingTtl + 1
    BY <1>3, <1>5 DEF ScreenInv
  <2>2. quiet'[u] <= quiet[u] + 1 /\ quiet[u] \in Nat /\ quiet'[u] \in Nat
        /\ typers'[p][u] \in Nat
    BY <1>2, <1>3, SignalsAssumption DEF ScreenInv
  <2> QED BY <2>1, <2>2, SignalsAssumption
<1> QED BY <1>1, <1>2, <1>3, <1>4, <1>5 DEF ScreenInv, CallsAreQuiet

LEMMA KilledKeepsScreens ==
  ASSUME SignalsInv, ScreenInv, NEW p \in Peers, AppKilled(p) PROVE ScreenInv'
<1>1. /\ UNCHANGED <<watermark, relay, quiet, rosters, removed>>
      /\ typers' = [typers EXCEPT ![p] = [u \in Signallers |-> 0]]
      /\ receipts' = [receipts EXCEPT ![p] = [u \in Signallers |-> 0]]
  BY DEF AppKilled, membership
<1>2. /\ composing' \in [Signallers -> BOOLEAN] /\ beating' \in [Signallers -> BOOLEAN]
      /\ lastSent' \in [Signallers -> 0 .. MaxRead]
      /\ \A u \in Signallers : /\ beating'[u] => composing'[u]
                               /\ composing'[u] => composing[u]
  <2>1. CASE p \notin Signallers
    <3>1. UNCHANGED <<composing, beating, lastSent>>
      BY <2>1 DEF AppKilled, emitters
    <3> QED BY <3>1 DEF ScreenInv
  <2>2. CASE p \in Signallers
    <3>1. /\ composing' = [composing EXCEPT ![p] = FALSE]
          /\ beating' = [beating EXCEPT ![p] = FALSE] /\ lastSent' = [lastSent EXCEPT ![p] = 0]
      BY <2>2 DEF AppKilled
    <3> QED BY <2>2, <3>1, SignalsAssumption DEF ScreenInv
  <2> QED BY <2>1, <2>2
<1>3. /\ typers' \in [Peers -> [Signallers -> 0 .. TypingTtl + 1]]
      /\ receipts' \in [Peers -> [Signallers -> 0 .. MaxRead]]
      /\ \A q \in Peers, u \in Signallers : typers'[q][u] \in {0, typers[q][u]}
  BY <1>1, SignalsAssumption DEF ScreenInv
<1>4. \A q \in Peers, u \in Signallers :
        typers'[q][u] > 1 => typers'[q][u] + quiet'[u] <= TypingTtl + 1
  BY <1>1, <1>3 DEF ScreenInv
<1>5. CallsAreQuiet'
  BY <1>1, RelaysGoOn, CallsStayQuiet DEF ScreenInv
<1> QED BY <1>1, <1>2, <1>3, <1>4, <1>5 DEF ScreenInv, CallsAreQuiet

LEMMA StartTypingKeepsScreens ==
  ASSUME SignalsInv, ScreenInv, NEW u \in Signallers, StartTyping(u) PROVE ScreenInv'
<1>1. /\ UNCHANGED <<lastSent, typers, receipts, watermark, rosters, removed>>
      /\ composing' = [composing EXCEPT ![u] = TRUE] /\ beating' = [beating EXCEPT ![u] = TRUE]
      /\ quiet' = [quiet EXCEPT ![u] = 0] /\ Emit(u, "typ", 1)
  BY DEF StartTyping, membership
<1>2. /\ quiet' \in [Signallers -> Nat] /\ quiet'[u] = 0
      /\ \A v \in Signallers : quiet'[v] <= quiet[v] /\ (v # u => quiet'[v] = quiet[v])
  BY <1>1 DEF ScreenInv
<1>3. /\ composing' \in [Signallers -> BOOLEAN] /\ beating' \in [Signallers -> BOOLEAN]
      /\ \A v \in Signallers : /\ beating'[v] => composing'[v]
                               /\ composing'[v] => v = u \/ composing[v]
  BY <1>1 DEF ScreenInv
<1>4. CallsAreQuiet'
  BY <1>1, <1>2, EmittedSays, CallsSayQuiet DEF ScreenInv
<1>5. ASSUME NEW p \in Peers, NEW v \in Signallers, typers[p][v] > 1
      PROVE  typers[p][v] + quiet'[v] <= TypingTtl + 1
  <2>1. typers[p][v] + quiet[v] <= TypingTtl + 1
    BY <1>5 DEF ScreenInv
  <2>2. quiet'[v] <= quiet[v] /\ quiet'[v] \in Nat /\ quiet[v] \in Nat /\ typers[p][v] \in Nat
    BY <1>2, SignalsAssumption DEF ScreenInv
  <2> QED BY <2>1, <2>2, SignalsAssumption
<1> QED BY <1>1, <1>2, <1>3, <1>4, <1>5 DEF ScreenInv, CallsAreQuiet

LEMMA EmittersKeepScreens ==
  ASSUME SignalsInv, ScreenInv, NEW u \in Signallers,
         \/ Heartbeat(u) \/ StopTyping(u) \/ Reopen(u)
         \/ \E n \in 1 .. MaxRead : MarkRead(u, n)
  PROVE  ScreenInv'
<1>1. UNCHANGED <<typers, receipts, quiet, watermark, rosters, removed>>
  BY DEF Heartbeat, StopTyping, Reopen, MarkRead, screens, membership
<1>2. /\ composing' \in [Signallers -> BOOLEAN] /\ beating' \in [Signallers -> BOOLEAN]
      /\ lastSent' \in [Signallers -> 0 .. MaxRead]
      /\ \A v \in Signallers : /\ beating'[v] => composing'[v]
                               /\ composing'[v] => composing[v]
  <2>1. CASE Heartbeat(u)
    <3>1. UNCHANGED <<composing, beating, lastSent>>
      BY <2>1 DEF Heartbeat, emitters
    <3> QED BY <3>1 DEF ScreenInv
  <2>2. CASE StopTyping(u)
    <3>1. /\ composing' = [composing EXCEPT ![u] = FALSE]
          /\ beating' = [beating EXCEPT ![u] = FALSE] /\ UNCHANGED lastSent
      BY <2>2 DEF StopTyping, ClearedTimers
    <3> QED BY <3>1 DEF ScreenInv
  <2>3. ASSUME NEW n \in 0 .. MaxRead, lastSent' = [lastSent EXCEPT ![u] = n],
               UNCHANGED <<composing, beating>>
        PROVE  /\ lastSent' \in [Signallers -> 0 .. MaxRead]
               /\ composing' \in [Signallers -> BOOLEAN] /\ beating' \in [Signallers -> BOOLEAN]
               /\ \A v \in Signallers : /\ beating'[v] => composing'[v]
                                        /\ composing'[v] => composing[v]
    BY <2>3 DEF ScreenInv
  <2>4. CASE Reopen(u)
    <3>1. lastSent' = [lastSent EXCEPT ![u] = 0] /\ UNCHANGED <<composing, beating>>
      BY <2>4 DEF Reopen
    <3>2. 0 \in 0 .. MaxRead
      BY SignalsAssumption
    <3> QED BY <2>3, <3>1, <3>2
  <2>5. ASSUME NEW n \in 1 .. MaxRead, MarkRead(u, n)
        PROVE  lastSent' = [lastSent EXCEPT ![u] = n] /\ UNCHANGED <<composing, beating>>
    BY <2>5 DEF MarkRead
  <2> QED BY <2>1, <2>2, <2>3, <2>4, <2>5
<1>3. CallsAreQuiet'
  <2>1. CASE Heartbeat(u)
    <3>1. quiet'[u] = 0 /\ Emit(u, "typ", 1)
      BY <1>1, <2>1 DEF Heartbeat, ScreenInv
    <3> QED BY <1>1, <3>1, EmittedSays, CallsSayQuiet DEF ScreenInv
  <2>2. CASE StopTyping(u)
    <3>1. Emit(u, "typ", 0) /\ 0 <= MaxRead
      BY <2>2, SignalsAssumption DEF StopTyping
    <3> QED BY <1>1, <3>1, EmittedSays, CallsSayQuiet DEF ScreenInv
  <2>3. CASE Reopen(u)
    <3>1. UNCHANGED relay
      BY <2>3 DEF Reopen
    <3> QED BY <1>1, <3>1, RelaysGoOn, CallsStayQuiet DEF ScreenInv
  <2>4. ASSUME NEW n \in 1 .. MaxRead, MarkRead(u, n) PROVE CallsAreQuiet'
    <3>1. Emit(u, "read", n) /\ n \in Nat /\ n <= MaxRead
      BY <2>4, SignalsAssumption DEF MarkRead
    <3> QED BY <1>1, <3>1, EmittedSays, CallsSayQuiet DEF ScreenInv
  <2> QED BY <2>1, <2>2, <2>3, <2>4
<1> QED BY <1>1, <1>2, <1>3 DEF ScreenInv, CallsAreQuiet

LEMMA ScreensStep == SignalsInv /\ ScreenInv /\ [SignalsNext]_signalVars => ScreenInv'
<1> SUFFICES ASSUME SignalsInv, ScreenInv, [SignalsNext]_signalVars PROVE ScreenInv'
  OBVIOUS
<1>1. ASSUME UNCHANGED relay \/ EvictRoom \/ (\E r \in Relays : RelayStep(r) \/ WriteReceipt(r))
                \/ \E u \in Signallers : Readmit(u),
             UNCHANGED <<emitters, quiet>>, removed' \subseteq Signallers,
             rosters' \in 0 .. MaxRosters,
             \A p \in Peers, u \in Signallers :
               typers'[p][u] > 1 => typers'[p][u] = typers[p][u],
             typers' \in [Peers -> [Signallers -> 0 .. TypingTtl + 1]],
             UNCHANGED receipts, watermark' \in [Peers -> 0 .. MaxRead]
      PROVE  ScreenInv'
  <2>1. CallsAreQuiet'
    BY <1>1, RelaysGoOn, CallsStayQuiet DEF ScreenInv
  <2>2. \A p \in Peers, u \in Signallers :
          typers'[p][u] > 1 => typers'[p][u] + quiet'[u] <= TypingTtl + 1
    BY <1>1 DEF ScreenInv
  <2> QED BY <1>1, <2>1, <2>2 DEF ScreenInv, CallsAreQuiet, emitters
<1>2. CASE UNCHANGED signalVars
  BY <1>1, <1>2 DEF signalVars, emitters, ScreenInv
<1>3. ASSUME NEW p \in Peers, Sweep(p) PROVE ScreenInv'
  <2>1. /\ UNCHANGED <<relay, emitters, quiet, receipts, watermark, removed, rosters>>
        /\ typers' = [typers EXCEPT ![p] = Swept(p)]
    BY <1>3 DEF Sweep, membership
  <2>2. /\ typers' \in [Peers -> [Signallers -> 0 .. TypingTtl + 1]]
        /\ \A q \in Peers, u \in Signallers :
             typers'[q][u] > 1 => typers'[q][u] = typers[q][u]
    BY <2>1, SignalsAssumption DEF ScreenInv, Swept
  <2> QED BY <1>1, <2>1, <2>2 DEF ScreenInv
<1>4. ASSUME NEW r \in Relays,
             \/ LookUp(r) \/ Memoize(r) \/ RelayFails(r) \/ WriteReceipt(r)
             \/ \E p \in Peers : TellNobody(r, p)
      PROVE  ScreenInv'
  <2>1. /\ UNCHANGED <<emitters, typers, receipts, quiet, removed, rosters>>
        /\ RelayStep(r) \/ WriteReceipt(r)
    BY <1>4 DEF RelayStep, LookUp, Memoize, RelayFails, WriteReceipt, TellNobody, screens,
       membership
  <2>2. watermark' \in [Peers -> 0 .. MaxRead]
    <3>1. CASE UNCHANGED watermark
      BY <3>1 DEF ScreenInv
    <3>2. CASE /\ relay[r].pc = "writes"
               /\ watermark' =
                    [watermark EXCEPT ![relay[r].user] = Raised(relay[r].user, relay[r].upto)]
      <4>1. /\ relay[r] \in Relayed
            /\ RelayIsSound(relay[r], roster, gone, removed, watermark)
        BY DEF SignalsInv, SignalTypes
      <4>2. relay[r].user \in Peers /\ relay[r].upto \in Nat
        BY <3>2, <4>1, SignalsAssumption DEF RelayIsSound, Relayed
      <4>3. relay[r].upto <= MaxRead
        BY <3>2 DEF ScreenInv
      <4>4. Raised(relay[r].user, relay[r].upto) \in 0 .. MaxRead
        BY <4>2, <4>3 DEF Raised, ScreenInv
      <4> QED BY <3>2, <4>4 DEF ScreenInv
    <3> QED BY <1>4, <3>1, <3>2 DEF LookUp, Memoize, RelayFails, WriteReceipt, TellNobody
  <2> QED BY <1>1, <2>1, <2>2 DEF ScreenInv
<1>5. ASSUME NEW r \in Relays, NEW p \in Peers, TellPeer(r, p) PROVE ScreenInv'
  BY <1>5, TellPeerKeepsScreens
<1>6. CASE EvictRoom
  <2>1. UNCHANGED <<emitters, typers, receipts, quiet, watermark, removed, rosters>>
    BY <1>6 DEF EvictRoom, screens, membership
  <2> QED BY <1>1, <1>6, <2>1 DEF ScreenInv
<1>7. ASSUME NEW u \in Signallers, Expel(u) \/ Readmit(u) PROVE ScreenInv'
  <2>1. /\ UNCHANGED <<emitters, typers, receipts, quiet>> /\ (UNCHANGED relay \/ Readmit(u))
        /\ removed' \subseteq removed \cup {u} /\ rosters' = rosters + 1 /\ rosters < MaxRosters
        /\ watermark' = watermark \/ watermark' = [watermark EXCEPT ![u] = 0]
    BY <1>7 DEF Expel, Readmit, screens
  <2>2. watermark' \in [Peers -> 0 .. MaxRead]
    <3>1. watermark \in [Peers -> 0 .. MaxRead] /\ 0 \in 0 .. MaxRead
      BY SignalsAssumption DEF ScreenInv
    <3> QED BY <2>1, <3>1
  <2>3. rosters' \in 0 .. MaxRosters /\ removed' \subseteq Signallers
    BY <2>1, SignalsAssumption DEF ScreenInv
  <2> QED BY <1>1, <1>7, <2>1, <2>2, <2>3 DEF ScreenInv
<1>8. ASSUME NEW u \in Signallers,
             \/ StartTyping(u) \/ Heartbeat(u) \/ StopTyping(u) \/ Reopen(u)
             \/ \E n \in 1 .. MaxRead : MarkRead(u, n)
      PROVE  ScreenInv'
  BY <1>8, StartTypingKeepsScreens, EmittersKeepScreens
<1>9. CASE Around
  BY <1>6, <1>9, ElapseKeepsScreens, KilledKeepsScreens DEF Around
<1> QED BY <1>2, <1>3, <1>4, <1>5, <1>7, <1>8, <1>9
        DEF SignalsNext, TypingNext, ReadingNext, RelayStep

\* A bounded set of numbers that is not empty has a greatest one.
LEMMA GreatestMark ==
  ASSUME NEW n \in Nat, NEW W \in SUBSET (0 .. n), W # {}
  PROVE  \E w \in W : \A v \in W : v <= w
<1> DEFINE S == {k \in Nat : (\E w \in W : k <= w) \/ (\E w \in W : \A v \in W : v <= w)}
<1>1. 0 \in S
  <2>1. PICK w : w \in W
    OBVIOUS
  <2>2. w \in 0 .. n
    BY <2>1
  <2>3. w \in Nat /\ 0 <= w
    BY <2>2
  <2> QED BY <2>1, <2>3
<1>2. ASSUME NEW k \in S PROVE k + 1 \in S
  <2>1. CASE \E w \in W : \A v \in W : v <= w
    BY <2>1
  <2>2. CASE ~ \E w \in W : \A v \in W : v <= w
    <3>1. PICK w \in W : k <= w
      BY <2>2
    <3>2. PICK v \in W : ~ (v <= w)
      BY <2>2
    <3> QED BY <3>1, <3>2
  <2> QED BY <2>1, <2>2
<1>3. S \in SUBSET Nat
  OBVIOUS
<1> HIDE DEF S
<1>4. n + 1 \in S
  BY <1>1, <1>2, <1>3, Induction
<1> QED BY <1>4 DEF S

LEMMA SignalTypesHold == SignalsSpec => []SignalsTypeOK
<1>1. SignalsInv /\ ScreenInv => SignalsTypeOK
  <2> SUFFICES ASSUME SignalsInv, ScreenInv PROVE SignalsTypeOK
    OBVIOUS
  <2>1. ASSUME NEW r \in Relays
        PROVE  /\ relay[r].pc \in {"none", "asks", "knows", "writes", "tells"}
               /\ relay[r].to \subseteq Peers
               /\ relay[r].pc # "none" => relay[r].upto \in (0 .. MaxRead) \cup {1}
    <3>1. relay[r] \in Relayed
      BY DEF SignalsInv, SignalTypes
    <3>2. relay[r].upto \in Nat
      BY <3>1 DEF Relayed
    <3> QED BY <3>1, <3>2, SignalsAssumption DEF ScreenInv, Relayed
  <2>2. \A p \in Peers, u \in Signallers :
          typers[p][u] \in 0 .. TypingTtl + 1 /\ receipts[p][u] \in 0 .. MaxRead
    BY DEF ScreenInv
  <2>3. roster \subseteq Peers /\ memo.ids \subseteq Peers /\ memo.age \in 0 .. MemberTtl + 1
    BY DEF SignalsInv, SignalTypes
  <2> QED BY <2>1, <2>2, <2>3 DEF ScreenInv, SignalsTypeOK
<1> QED BY SignalsStart, SignalsStep, ScreensStart, ScreensStep, <1>1, PTL DEF SignalsSpec

\* "A removed member can spoof for at most MEMBER_CACHE_TTL_MS" (chat.ts:47-51), what the
\* bubbles show as read is in the reader's row, and nobody is shown as typing for longer
\* than TYPING_TTL_MS after the last signal: for any number of members, of calls under way
\* and of removals, and however long a lookup takes.
THEOREM SignalsHold == SignalsSpec => []SignalsAreSound
<1>1. SignalsInv => GateIsFresh /\ ReceiptsAreStored
  <2> SUFFICES ASSUME SignalsInv PROVE GateIsFresh /\ ReceiptsAreStored
    OBVIOUS
  <2>1. \A r \in Relays : RelayIsSound(relay[r], roster, gone, removed, watermark)
    BY DEF SignalsInv
  <2>2. GateIsFresh
    BY <2>1 DEF RelayIsSound, GateIsFresh
  <2> QED BY <2>2 DEF SignalsInv
<1>2. ScreenInv => TypingIsBrief
  <2> SUFFICES ASSUME ScreenInv, NEW p \in Peers, NEW u \in Signallers, typers[p][u] > 1
               PROVE  quiet[u] < TypingTtl
    BY DEF TypingIsBrief, ShownTyping
  <2>1. /\ typers[p][u] + quiet[u] <= TypingTtl + 1
        /\ typers[p][u] \in Nat /\ quiet[u] \in Nat
    BY SignalsAssumption DEF ScreenInv
  <2> QED BY <2>1, SignalsAssumption
<1>3. ScreenInv /\ ReceiptsAreStored => BubblesAreRight
  <2> SUFFICES ASSUME ScreenInv, ReceiptsAreStored, NEW p \in Peers, NEW n \in 1 .. MaxRead
               PROVE  /\ ReadByPeer(p, n) <=> n <= PeerWatermark(p)
                      /\ n <= PeerWatermark(p) =>
                           \E u \in Signallers \ {p} : watermark[u] >= n \/ u \in removed
    BY DEF BubblesAreRight
  <2>1. SeenMarks(p) \in SUBSET (0 .. MaxRead) /\ SeenMarks(p) # {}
    BY SignalsAssumption DEF ScreenInv, SeenMarks
  <2>2. \E w \in SeenMarks(p) : \A v \in SeenMarks(p) : v <= w
    BY <2>1, GreatestMark, SignalsAssumption
  <2>3. /\ PeerWatermark(p) \in SeenMarks(p)
        /\ \A v \in SeenMarks(p) : v <= PeerWatermark(p)
    BY <2>2 DEF PeerWatermark
  <2>4. ReadByPeer(p, n) => n <= PeerWatermark(p)
    <3> SUFFICES ASSUME NEW u \in Signallers \ {p}, receipts[p][u] >= n
                 PROVE  n <= PeerWatermark(p)
      BY DEF ReadByPeer
    <3>1. receipts[p][u] \in SeenMarks(p)
      BY DEF SeenMarks
    <3> QED BY <2>1, <2>3, <3>1, SignalsAssumption
  <2>5. ASSUME n <= PeerWatermark(p)
        PROVE  /\ ReadByPeer(p, n)
               /\ \E u \in Signallers \ {p} : watermark[u] >= n \/ u \in removed
    <3>1. PICK u \in Signallers \ {p} : receipts[p][u] = PeerWatermark(p)
      BY <2>3, <2>5 DEF SeenMarks
    <3>2. receipts[p][u] >= n
      BY <2>1, <2>3, <2>5, <3>1, SignalsAssumption
    <3>3. receipts[p][u] <= watermark[u] \/ u \in removed
      BY DEF ReceiptsAreStored
    <3>4. receipts[p][u] \in Nat /\ watermark[u] \in Nat
      BY SignalsAssumption DEF ScreenInv
    <3> QED BY <3>2, <3>3, <3>4, SignalsAssumption DEF ReadByPeer
  <2> QED BY <2>4, <2>5
<1> QED BY SignalsStart, SignalsStep, ScreensStart, ScreensStep, <1>1, <1>2, <1>3, PTL
        DEF SignalsSpec, SignalsAreSound

-----------------------------------------------------------------------------
(***************************************************************************)
(* Accounts.  Three invariants that share no variable but the marks'       *)
(* posts: what a deletion under way still has to find, the counters of the *)
(* posts, and the reports that were counted and are not filed yet.         *)
(***************************************************************************)

Deletion == [pc : {"none", "owned", "profiles", "user"}, rows : SUBSET Citizens,
             owned : SUBSET Citizens, doomed : SUBSET Citizens]

HasOwner(p) == \E m \in members : m.of = p /\ m.role = "OWNER"

\* What a deletion that has begun will take away, or somebody put there since.
WillBeGone(a) ==
  /\ deletion[a].pc # "none" /\ a \in chatRows => a \in deletion[a].rows \cup late
  /\ deletion[a].pc = "profiles" /\ a \in profiles => a \in deletion[a].owned \cup adopted
  /\ deletion[a].pc = "user" /\ a \in profiles => a \in deletion[a].doomed \cup adopted

AccountInv ==
  /\ deletion \in [Citizens -> Deletion] /\ profiles \subseteq Citizens
  /\ \A m \in members : m.role = "OWNER" => m.who = m.of
  /\ chatRows \subseteq accounts \cup late
  /\ \A p \in profiles : HasOwner(p) \/ p \in adopted
  /\ \A a \in Citizens : WillBeGone(a)

LEMMA AccountsStart == SocialInit => AccountInv
<1> SUFFICES ASSUME SocialInit PROVE AccountInv
  OBVIOUS
<1>1. NoDeletion \in Deletion /\ NoDeletion.pc = "none"
  BY DEF NoDeletion, Deletion
<1> QED BY <1>1 DEF SocialInit, AccountInv, WillBeGone

\* A deletion goes on, or is rolled back; the rows stay until it commits.
LEMMA DeletionMoves ==
  ASSUME AccountInv, NEW a \in Citizens, NEW d \in Deletion,
         deletion' = [deletion EXCEPT ![a] = d], UNCHANGED <<rowVars, late, adopted>>,
         d.pc # "none" /\ a \in chatRows => a \in d.rows \cup late,
         d.pc = "profiles" /\ a \in profiles => a \in d.owned \cup adopted,
         d.pc = "user" /\ a \in profiles => a \in d.doomed \cup adopted
  PROVE  AccountInv'
<1>1. /\ deletion' \in [Citizens -> Deletion] /\ deletion'[a] = d
      /\ \A b \in Citizens : b # a => deletion'[b] = deletion[b]
  BY DEF AccountInv
<1>2. UNCHANGED <<accounts, profiles, members, chatRows, late, adopted>>
  BY DEF rowVars
<1>3. \A b \in Citizens : WillBeGone(b)'
  BY <1>1, <1>2 DEF AccountInv, WillBeGone
<1> QED BY <1>1, <1>2, <1>3 DEF AccountInv, HasOwner

LEMMA DropUserKeeps ==
  ASSUME AccountInv, NEW a \in Citizens, DropUser(a) PROVE AccountInv'
<1>1. PICK gone2 :
        /\ gone2 = deletion[a].doomed /\ deletion[a].pc = "user"
        /\ deletion' = [deletion EXCEPT ![a] = NoDeletion]
        /\ accounts' = accounts \ {a} /\ profiles' = profiles \ gone2
        /\ members' = {m \in members : m.who # a /\ m.of \notin gone2}
        /\ chatRows' = chatRows \ deletion[a].rows /\ UNCHANGED <<late, adopted>>
  BY DEF DropUser, Deletes
<1>2. NoDeletion \in Deletion /\ NoDeletion.pc = "none"
  BY DEF NoDeletion, Deletion
<1>3. /\ deletion' \in [Citizens -> Deletion] /\ deletion'[a].pc = "none"
      /\ \A b \in Citizens : b # a => deletion'[b] = deletion[b]
  BY <1>1, <1>2 DEF AccountInv
<1>4. WillBeGone(a)
  BY DEF AccountInv
<1>5. chatRows' \subseteq accounts' \cup late'
  BY <1>1, <1>4 DEF AccountInv, WillBeGone
<1>6. ASSUME NEW p \in profiles' PROVE HasOwner(p)' \/ p \in adopted'
  <2>1. p \in profiles /\ p \notin gone2 /\ (HasOwner(p) \/ p \in adopted)
    BY <1>1 DEF AccountInv
  <2>2. CASE p = a
    BY <1>1, <1>4, <2>1, <2>2 DEF WillBeGone
  <2>3. CASE p # a /\ HasOwner(p)
    <3>1. PICK m \in members : m.of = p /\ m.role = "OWNER"
      BY <2>3 DEF HasOwner
    <3>2. m.who = p
      BY <3>1 DEF AccountInv
    <3> QED BY <1>1, <2>1, <2>3, <3>1, <3>2 DEF HasOwner
  <2> QED BY <1>1, <2>1, <2>2, <2>3
<1>7. ASSUME NEW b \in Citizens PROVE WillBeGone(b)'
  <2>1. CASE b = a
    BY <1>3, <2>1 DEF WillBeGone
  <2>2. CASE b # a
    BY <1>1, <1>3, <2>2 DEF AccountInv, WillBeGone
  <2> QED BY <2>1, <2>2
<1> QED BY <1>1, <1>3, <1>5, <1>6, <1>7 DEF AccountInv

LEMMA AccountsStep == AccountInv /\ [SocialNext \/ ReportsNext]_socialVars => AccountInv'
<1> SUFFICES ASSUME AccountInv, [SocialNext \/ ReportsNext]_socialVars PROVE AccountInv'
  OBVIOUS
<1>0. \A a \in Citizens : deletion[a] \in Deletion
  BY DEF AccountInv
<1>1. ASSUME \/ UNCHANGED socialVars \/ ReportsNext
             \/ \E a, b \in Citizens : CreatePost(a, b) \/ ResolveAccounts(a, b)
             \/ \E a \in Citizens : \E mark \in AllMarks : Mark(a, mark) \/ Unlike(a, mark)
             \/ \E a \in Citizens : \E f \in AllFollows : Follow(a, f) \/ Unfollow(a, f)
      PROVE  AccountInv'
  <2>1. UNCHANGED <<accounts, profiles, members, chatRows, deletion, late, adopted>>
    BY <1>1 DEF socialVars, rowVars, reportVars, ReportsNext, FileReport, CountReports,
         Inquires, HourPasses, CreatePost, ResolveAccounts, Mark, Unlike, Follow, Unfollow
  <2> QED BY <2>1 DEF AccountInv, WillBeGone, HasOwner
<1>2. CASE StartChat
  <2>1. /\ UNCHANGED <<accounts, profiles, members, deletion, adopted>> /\ late \subseteq late'
        /\ chatRows' = chatRows \cup asker
        /\ \A a \in asker : a \in accounts \/ a \in late'
        /\ \A a \in asker : deletion[a].pc \in {"owned", "profiles", "user"} => a \in late'
    BY <1>2 DEF StartChat
  <2>2. \A a \in Citizens : WillBeGone(a)'
    BY <1>0, <2>1 DEF AccountInv, WillBeGone, Deletion
  <2> QED BY <2>1, <2>2 DEF AccountInv, HasOwner
<1>3. ASSUME NEW b \in Citizens, NEW p \in Citizens, AddToProfile(b, p) PROVE AccountInv'
  <2>1. /\ UNCHANGED <<accounts, profiles, chatRows, deletion, late, adopted>>
        /\ members' = members \cup {[who |-> b, of |-> p, role |-> "MEMBER"]}
    BY <1>3 DEF AddToProfile
  <2> QED BY <2>1 DEF AccountInv, WillBeGone, HasOwner
<1>4. ASSUME NEW a \in Citizens, CreateProfile(a) PROVE AccountInv'
  <2>1. /\ UNCHANGED <<accounts, chatRows, deletion, late>> /\ adopted \subseteq adopted'
        /\ profiles' = profiles \cup {a} /\ a \notin profiles
        /\ members' = members \cup {[who |-> a, of |-> a, role |-> "OWNER"]}
        /\ deletion[a].pc \in {"profiles", "user"} => a \in adopted'
    BY <1>4 DEF CreateProfile
  <2>2. HasOwner(a)' /\ \A p : HasOwner(p) => HasOwner(p)'
    <3>1. [who |-> a, of |-> a, role |-> "OWNER"].of = a
          /\ [who |-> a, of |-> a, role |-> "OWNER"].role = "OWNER"
          /\ [who |-> a, of |-> a, role |-> "OWNER"].who = a
      OBVIOUS
    <3>2. PICK own : own.of = a /\ own.role = "OWNER" /\ members' = members \cup {own}
      BY <2>1, <3>1
    <3> QED BY <3>2 DEF HasOwner
  <2> QED BY <2>1, <2>2 DEF AccountInv, WillBeGone
<1>5. ASSUME NEW a \in Citizens, DropUser(a) PROVE AccountInv'
  BY <1>5, DropUserKeeps
<1>6. ASSUME NEW a \in Citizens, RolledBack(a) PROVE AccountInv'
  <2>1. deletion' = [deletion EXCEPT ![a] = NoDeletion] /\ UNCHANGED <<rowVars, late, adopted>>
    BY <1>6 DEF RolledBack, Deletes
  <2>2. NoDeletion \in Deletion /\ NoDeletion.pc = "none"
    BY DEF NoDeletion, Deletion
  <2> QED BY <2>1, <2>2, DeletionMoves
<1>7. ASSUME NEW a \in Citizens, DropChatRows(a) PROVE AccountInv'
  <2>1. PICK held \in SUBSET Citizens :
          /\ held = chatRows \cap {a} /\ UNCHANGED <<rowVars, late, adopted>>
          /\ deletion' = [deletion EXCEPT ![a] = [NoDeletion EXCEPT !.pc = "owned", !.rows = held]]
    BY <1>7 DEF DropChatRows, Deletes
  <2>2. PICK d \in Deletion : /\ deletion' = [deletion EXCEPT ![a] = d]
                              /\ d.pc = "owned" /\ d.rows = held
    <3>1. NoDeletion \in Deletion
      BY DEF NoDeletion, Deletion
    <3> DEFINE n == [NoDeletion EXCEPT !.pc = "owned", !.rows = held]
    <3>2. n \in Deletion /\ n.pc = "owned" /\ n.rows = held
      BY <3>1 DEF Deletion
    <3>3. deletion' = [deletion EXCEPT ![a] = n]
      BY <2>1
    <3> HIDE DEF n
    <3> QED BY <3>2, <3>3
  <2> QED BY <2>1, <2>2, DeletionMoves
<1>8. ASSUME NEW a \in Citizens, ReadOwned(a) PROVE AccountInv'
  <2>1. PICK owned \in SUBSET Citizens :
          /\ owned = {p \in profiles : a \in OwnersOf(p)} /\ deletion[a].pc = "owned"
          /\ deletion' = [deletion EXCEPT ![a] = [deletion[a] EXCEPT !.pc = "profiles", !.owned = owned]]
          /\ UNCHANGED <<rowVars, late, adopted>>
    BY <1>8 DEF ReadOwned, Deletes, AccountInv
  <2>2. PICK d \in Deletion : /\ deletion' = [deletion EXCEPT ![a] = d]
                              /\ d.pc = "profiles" /\ d.owned = owned /\ d.rows = deletion[a].rows
    <3> DEFINE n == [deletion[a] EXCEPT !.pc = "profiles", !.owned = owned]
    <3>0. deletion[a] \in Deletion
      BY <1>0
    <3>1. n \in Deletion /\ n.pc = "profiles" /\ n.owned = owned /\ n.rows = deletion[a].rows
      BY <3>0 DEF Deletion
    <3>2. deletion' = [deletion EXCEPT ![a] = n]
      BY <2>1
    <3> HIDE DEF n
    <3> QED BY <3>1, <3>2
  <2>3. HasOwner(a) => a \in OwnersOf(a)
    BY DEF HasOwner, OwnersOf, AccountInv
  <2>4. a \in profiles => a \in owned \cup adopted
    BY <2>1, <2>3 DEF AccountInv
  <2> QED BY <2>1, <2>2, <2>4, DeletionMoves DEF AccountInv, WillBeGone
<1>9. ASSUME NEW a \in Citizens, DropProfiles(a) PROVE AccountInv'
  <2>1. Orphans(a) \in SUBSET Citizens
    BY <1>0 DEF Orphans, Deletion
  <2>2. PICK doomed \in SUBSET Citizens :
          /\ doomed = Orphans(a) /\ deletion[a].pc = "profiles"
          /\ deletion' = [deletion EXCEPT ![a] = [deletion[a] EXCEPT !.pc = "user", !.doomed = doomed]]
          /\ UNCHANGED <<rowVars, late, adopted>>
    BY <1>9, <2>1 DEF DropProfiles, Deletes
  <2>3. PICK d \in Deletion : /\ deletion' = [deletion EXCEPT ![a] = d]
                              /\ d.pc = "user" /\ d.doomed = doomed /\ d.rows = deletion[a].rows
    <3> DEFINE n == [deletion[a] EXCEPT !.pc = "user", !.doomed = doomed]
    <3>0. deletion[a] \in Deletion
      BY <1>0
    <3>1. n \in Deletion /\ n.pc = "user" /\ n.doomed = doomed /\ n.rows = deletion[a].rows
      BY <3>0 DEF Deletion
    <3>2. deletion' = [deletion EXCEPT ![a] = n]
      BY <2>2
    <3> HIDE DEF n
    <3> QED BY <3>1, <3>2
  <2>4. OwnersOf(a) \subseteq {a}
    BY DEF OwnersOf, AccountInv
  <2>5. a \in profiles => a \in doomed \cup adopted
    BY <2>2, <2>4 DEF AccountInv, WillBeGone, Orphans
  <2> QED BY <2>2, <2>3, <2>5, DeletionMoves DEF AccountInv, WillBeGone
<1> QED BY <1>1, <1>2, <1>3, <1>4, <1>5, <1>6, <1>7, <1>8, <1>9 DEF SocialNext

\* The counters.  A post that is not there has neither marks nor counts, so that one
\* made again under its name starts at nothing.
Kinds == {"like", "comment"}
MarksOn(kept, p, kind) == {m \in kept : m.post = p /\ m.kind = kind}

CountInv ==
  /\ posts \subseteq Citizens /\ marks \subseteq AllMarks /\ IsFiniteSet(marks)
  /\ counts \in [Citizens -> [Kinds -> Int]]
  /\ \A m \in marks : m.post \in posts
  /\ \A p \in Citizens \ posts : counts[p] = Uncounted
  /\ \A p \in posts \ drifted, kind \in Kinds :
       counts[p][kind] = Cardinality(MarksOn(marks, p, kind))

LEMMA UncountedIsZero ==
  Uncounted \in [Kinds -> Int] /\ \A kind \in Kinds : Uncounted[kind] = 0
  BY DEF Uncounted, Kinds

LEMMA MarksHavePosts == \A m \in AllMarks : m.post \in Citizens /\ m.kind \in Kinds
  BY SocialAssumption DEF Kinds

LEMMA CountsStart == SocialInit => CountInv
  BY UncountedIsZero, FS_EmptySet DEF SocialInit, CountInv

\* One row more, or one less.
LEMMA OneMark ==
  ASSUME NEW kept, IsFiniteSet(kept), NEW mark, NEW p, NEW kind
  PROVE  /\ IsFiniteSet(MarksOn(kept, p, kind)) /\ Cardinality(MarksOn(kept, p, kind)) \in Nat
         /\ mark \notin kept => Cardinality(MarksOn(kept \cup {mark}, p, kind)) =
              Cardinality(MarksOn(kept, p, kind))
                + (IF mark.post = p /\ mark.kind = kind THEN 1 ELSE 0)
<1>1. IsFiniteSet(MarksOn(kept, p, kind))
  BY FS_Subset DEF MarksOn
<1>2. Cardinality(MarksOn(kept, p, kind)) \in Nat
  BY <1>1, FS_CardinalityType
<1>3. CASE mark.post = p /\ mark.kind = kind
  <2>1. MarksOn(kept \cup {mark}, p, kind) = MarksOn(kept, p, kind) \cup {mark}
    BY <1>3 DEF MarksOn
  <2>2. mark \notin kept => mark \notin MarksOn(kept, p, kind)
    BY DEF MarksOn
  <2>3. mark \notin kept => Cardinality(MarksOn(kept, p, kind) \cup {mark}) =
                              Cardinality(MarksOn(kept, p, kind)) + 1
    BY <1>1, <2>2, FS_AddElement
  <2> QED BY <1>1, <1>2, <1>3, <2>1, <2>3
<1>4. CASE ~ (mark.post = p /\ mark.kind = kind)
  <2>1. MarksOn(kept \cup {mark}, p, kind) = MarksOn(kept, p, kind)
    BY <1>4 DEF MarksOn
  <2>2. Cardinality(MarksOn(kept, p, kind)) = Cardinality(MarksOn(kept, p, kind)) + 0
    BY <1>2
  <2> QED BY <1>1, <1>2, <1>4, <2>1, <2>2
<1> QED BY <1>3, <1>4

LEMMA MarkKeepsCounts ==
  ASSUME CountInv, NEW a, NEW mark \in AllMarks, Mark(a, mark) PROVE CountInv'
<1>1. /\ mark.post \in posts /\ mark \notin marks /\ marks' = marks \cup {mark}
      /\ counts' = [counts EXCEPT ![mark.post][mark.kind] = counts[mark.post][mark.kind] + 1]
      /\ UNCHANGED <<posts, drifted>> /\ mark.post \in Citizens /\ mark.kind \in Kinds
  BY MarksHavePosts DEF Mark
<1>2. /\ counts' \in [Citizens -> [Kinds -> Int]]
      /\ \A p \in Citizens, kind \in Kinds : counts'[p][kind] =
           counts[p][kind] + (IF mark.post = p /\ mark.kind = kind THEN 1 ELSE 0)
      /\ \A p \in Citizens : p # mark.post => counts'[p] = counts[p]
  BY <1>1 DEF CountInv
<1>3. IsFiniteSet(marks')
  BY <1>1, FS_AddElement DEF CountInv
<1>4. ASSUME NEW p \in posts' \ drifted', NEW kind \in Kinds
      PROVE  counts'[p][kind] = Cardinality(MarksOn(marks', p, kind))
  <2>1. counts[p][kind] = Cardinality(MarksOn(marks, p, kind)) /\ p \in Citizens
    BY <1>1 DEF CountInv
  <2>2. Cardinality(MarksOn(marks', p, kind)) = Cardinality(MarksOn(marks, p, kind))
          + (IF mark.post = p /\ mark.kind = kind THEN 1 ELSE 0)
    BY <1>1, OneMark DEF CountInv
  <2> QED BY <1>2, <2>1, <2>2
<1>5. \A p \in Citizens \ posts' : counts'[p] = Uncounted
  BY <1>1, <1>2 DEF CountInv
<1>6. marks' \subseteq AllMarks /\ \A m \in marks' : m.post \in posts'
  BY <1>1 DEF CountInv
<1> QED BY <1>1, <1>2, <1>3, <1>4, <1>5, <1>6 DEF CountInv

LEMMA UnlikeKeepsCounts ==
  ASSUME CountInv, NEW a, NEW mark \in AllMarks, Unlike(a, mark) PROVE CountInv'
<1>1. /\ mark.post \in posts /\ marks' = marks \ {mark}
      /\ counts' = [counts EXCEPT ![mark.post][mark.kind] = counts[mark.post][mark.kind] - 1]
      /\ UNCHANGED posts /\ drifted \subseteq drifted' /\ (mark \in marks \/ mark.post \in drifted')
      /\ mark.post \in Citizens /\ mark.kind \in Kinds
  BY MarksHavePosts DEF Unlike
<1>2. /\ counts' \in [Citizens -> [Kinds -> Int]]
      /\ \A p \in Citizens, kind \in Kinds : counts'[p][kind] =
           counts[p][kind] - (IF mark.post = p /\ mark.kind = kind THEN 1 ELSE 0)
      /\ \A p \in Citizens : p # mark.post => counts'[p] = counts[p]
  BY <1>1 DEF CountInv
<1>3. IsFiniteSet(marks')
  BY <1>1, FS_Subset DEF CountInv
<1>4. ASSUME NEW p \in posts' \ drifted', NEW kind \in Kinds
      PROVE  counts'[p][kind] = Cardinality(MarksOn(marks', p, kind))
  <2>1. counts[p][kind] = Cardinality(MarksOn(marks, p, kind)) /\ p \in Citizens
    BY <1>1 DEF CountInv
  <2>2. CASE mark \in marks
    <3>1. marks = marks' \cup {mark} /\ mark \notin marks'
      BY <1>1, <2>2
    <3>2. PICK kept : kept = marks'
      OBVIOUS
    <3>3. IsFiniteSet(kept) /\ mark \notin kept /\ marks = kept \cup {mark}
      BY <1>3, <3>1, <3>2
    <3>4. /\ Cardinality(MarksOn(kept \cup {mark}, p, kind)) = Cardinality(MarksOn(kept, p, kind))
               + (IF mark.post = p /\ mark.kind = kind THEN 1 ELSE 0)
          /\ Cardinality(MarksOn(kept, p, kind)) \in Nat
      BY <3>3, OneMark
    <3>5. /\ Cardinality(MarksOn(marks, p, kind)) = Cardinality(MarksOn(marks', p, kind))
               + (IF mark.post = p /\ mark.kind = kind THEN 1 ELSE 0)
          /\ Cardinality(MarksOn(marks', p, kind)) \in Nat
      BY <3>2, <3>3, <3>4
    <3> QED BY <1>2, <2>1, <3>5
  <2>3. CASE mark \notin marks
    <3>1. marks' = marks /\ mark.post # p
      BY <1>1, <2>3
    <3> QED BY <1>2, <2>1, <3>1
  <2> QED BY <2>2, <2>3
<1>5. \A p \in Citizens \ posts' : counts'[p] = Uncounted
  BY <1>1, <1>2 DEF CountInv
<1>6. marks' \subseteq AllMarks /\ \A m \in marks' : m.post \in posts'
  BY <1>1 DEF CountInv
<1> QED BY <1>1, <1>2, <1>3, <1>4, <1>5, <1>6 DEF CountInv

LEMMA DropUserKeepsCounts ==
  ASSUME CountInv, NEW a \in Citizens, DropUser(a) PROVE CountInv'
<1>1. PICK gone2, severed :
        /\ severed = {m \in marks : m.post \in gone2 \/ m.by \in gone2}
        /\ posts' = posts \ gone2 /\ marks' = marks \ severed
        /\ counts' = [p \in Citizens |-> IF p \in gone2 THEN Uncounted ELSE counts[p]]
        /\ drifted' = (drifted \cup {m.post : m \in severed}) \ gone2
  BY DEF DropUser
<1>2. /\ counts' \in [Citizens -> [Kinds -> Int]]
      /\ \A p \in Citizens : counts'[p] = IF p \in gone2 THEN Uncounted ELSE counts[p]
  BY <1>1, UncountedIsZero DEF CountInv
<1>3. IsFiniteSet(marks')
  BY <1>1, FS_Subset DEF CountInv
<1>4. ASSUME NEW p \in posts' \ drifted', NEW kind \in Kinds
      PROVE  counts'[p][kind] = Cardinality(MarksOn(marks', p, kind))
  <2>1. p \in posts \ drifted /\ p \in Citizens /\ p \notin gone2 /\ \A m \in severed : m.post # p
    BY <1>1 DEF CountInv
  <2>2. MarksOn(marks', p, kind) = MarksOn(marks, p, kind)
    BY <1>1, <2>1 DEF MarksOn
  <2> QED BY <1>2, <2>1, <2>2 DEF CountInv
<1>5. marks' \subseteq AllMarks /\ \A m \in marks' : m.post \in posts'
  BY <1>1 DEF CountInv
<1>6. \A p \in Citizens \ posts' : counts'[p] = Uncounted
  BY <1>1, <1>2 DEF CountInv
<1> QED BY <1>1, <1>2, <1>3, <1>4, <1>5, <1>6 DEF CountInv

LEMMA CountsStep == CountInv /\ [SocialNext \/ ReportsNext]_socialVars => CountInv'
<1> SUFFICES ASSUME CountInv, [SocialNext \/ ReportsNext]_socialVars PROVE CountInv'
  OBVIOUS
<1>1. ASSUME \/ UNCHANGED socialVars \/ ReportsNext \/ StartChat
             \/ \E a, b \in Citizens : AddToProfile(a, b) \/ ResolveAccounts(a, b)
             \/ \E a \in Citizens : \/ CreateProfile(a) \/ DropChatRows(a) \/ ReadOwned(a)
                                    \/ DropProfiles(a) \/ RolledBack(a)
                                    \/ \E f \in AllFollows : Follow(a, f) \/ Unfollow(a, f)
      PROVE  CountInv'
  <2>1. UNCHANGED <<posts, marks, counts, drifted>>
    BY <1>1 DEF socialVars, rowVars, reportVars, ReportsNext, FileReport, CountReports,
         Inquires, HourPasses, StartChat, AddToProfile, ResolveAccounts, CreateProfile,
         DropChatRows, ReadOwned, DropProfiles, RolledBack, Follow, Unfollow
  <2> QED BY <2>1 DEF CountInv
<1>2. ASSUME NEW a \in Citizens, NEW p \in Citizens, CreatePost(a, p) PROVE CountInv'
  <2>1. posts' = posts \cup {p} /\ p \notin posts /\ UNCHANGED <<marks, counts, drifted>>
    BY <1>2 DEF CreatePost
  <2>2. ASSUME NEW kind \in Kinds PROVE counts[p][kind] = Cardinality(MarksOn(marks, p, kind))
    <3>1. MarksOn(marks, p, kind) = {}
      BY <2>1 DEF MarksOn, CountInv
    <3> QED BY <2>1, <3>1, UncountedIsZero, FS_EmptySet DEF CountInv
  <2> QED BY <2>1, <2>2 DEF CountInv
<1>3. ASSUME NEW a \in Citizens, NEW mark \in AllMarks, Mark(a, mark) \/ Unlike(a, mark)
      PROVE  CountInv'
  BY <1>3, MarkKeepsCounts, UnlikeKeepsCounts
<1>4. ASSUME NEW a \in Citizens, DropUser(a) PROVE CountInv'
  BY <1>4, DropUserKeepsCounts
<1> QED BY <1>1, <1>2, <1>3, <1>4 DEF SocialNext

\* The reports: what is filed and what was counted and is still to be filed.
Counted == [pc : {"counted"}, who : Citizens, about : Targets]
Pending(inquiries, a) == {h \in Inquiries : inquiries[h] \in Counted /\ inquiries[h].who = a}

ReportInv ==
  /\ inquiry \in [Inquiries -> {NoInquiry} \cup Counted]
  /\ reports \in [Citizens -> SUBSET Targets]
  /\ \A a \in Citizens :
       /\ IsFiniteSet(reports[a])
       /\ Cardinality(reports[a]) + Cardinality(Pending(inquiry, a))
            <= PerHour + Cardinality(Inquiries) - 1

LEMMA PendingIsBounded ==
  ASSUME NEW inquiries, NEW a
  PROVE  /\ IsFiniteSet(Pending(inquiries, a)) /\ Cardinality(Pending(inquiries, a)) \in Nat
         /\ Cardinality(Pending(inquiries, a)) <= Cardinality(Inquiries)
         /\ Cardinality(Inquiries) \in Nat
<1>1. Pending(inquiries, a) \subseteq Inquiries
  BY DEF Pending
<1> QED BY <1>1, SocialAssumption, FS_Subset, FS_CardinalityType

LEMMA NoInquiryIsNotCounted == NoInquiry \notin Counted
<1>1. NoInquiry.pc = "none"
  BY DEF NoInquiry
<1> QED BY <1>1 DEF Counted

LEMMA ReportsStart == SocialInit => ReportInv
<1> SUFFICES ASSUME SocialInit PROVE ReportInv
  OBVIOUS
<1>1. /\ inquiry = [h \in Inquiries |-> NoInquiry] /\ reports = [a \in Citizens |-> {}]
  BY DEF SocialInit
<1>2. \A a : Pending(inquiry, a) = {}
  BY <1>1, NoInquiryIsNotCounted DEF Pending
<1>3. Cardinality({}) = 0 /\ IsFiniteSet({}) /\ Cardinality(Inquiries) \in Nat
  BY FS_EmptySet, SocialAssumption, FS_CardinalityType
<1>4. PerHour \in Nat \ {0}
  BY SocialAssumption
<1>5. 0 + 0 <= PerHour + Cardinality(Inquiries) - 1
  BY <1>3, <1>4
<1> QED BY <1>1, <1>2, <1>3, <1>5 DEF ReportInv

LEMMA ReportsStep == ReportInv /\ [SocialNext \/ ReportsNext]_socialVars => ReportInv'
<1> SUFFICES ASSUME ReportInv, [SocialNext \/ ReportsNext]_socialVars PROVE ReportInv'
  OBVIOUS
<1>1. CASE SocialNext \/ UNCHANGED socialVars
  <2>1. UNCHANGED <<inquiry, reports>>
    BY <1>1 DEF SocialNext, socialVars, reportVars, StartChat, AddToProfile, CreatePost,
         ResolveAccounts, CreateProfile, Mark, Unlike, DropChatRows, ReadOwned, DropProfiles,
         DropUser, RolledBack, Deletes, Follow, Unfollow
  <2> QED BY <2>1 DEF ReportInv
<1>2. ASSUME NEW h \in Inquiries, NEW a \in Citizens, NEW t \in Targets, CountReports(h, a, t)
      PROVE  ReportInv'
  <2>1. PICK c \in Counted : inquiry' = [inquiry EXCEPT ![h] = c] /\ c.who = a
    <3> DEFINE n == [pc |-> "counted", who |-> a, about |-> t]
    <3>1. n \in Counted /\ n.who = a
      BY DEF Counted
    <3>2. inquiry' = [inquiry EXCEPT ![h] = n]
      BY <1>2 DEF CountReports, Inquires
    <3> HIDE DEF n
    <3> QED BY <3>1, <3>2
  <2>2. UNCHANGED reports /\ Cardinality(reports[a]) < PerHour
    BY <1>2 DEF CountReports, MayReport
  <2>3. /\ inquiry' \in [Inquiries -> {NoInquiry} \cup Counted] /\ inquiry'[h] = c
        /\ \A g \in Inquiries \ {h} : inquiry'[g] = inquiry[g]
    BY <2>1 DEF ReportInv
  <2>4. ASSUME NEW b \in Citizens
        PROVE  Cardinality(reports[b]) + Cardinality(Pending(inquiry', b))
                 <= PerHour + Cardinality(Inquiries) - 1
    <3>1. IsFiniteSet(reports[b]) /\ Cardinality(reports[b]) \in Nat
      BY FS_CardinalityType DEF ReportInv
    <3>2. CASE b = a
      <4>1. /\ Cardinality(Pending(inquiry', b)) \in Nat /\ Cardinality(Inquiries) \in Nat
            /\ Cardinality(Pending(inquiry', b)) <= Cardinality(Inquiries)
        BY PendingIsBounded
      <4> QED BY <2>2, <3>1, <3>2, <4>1, SocialAssumption
    <3>3. CASE b # a
      <4>1. Pending(inquiry', b) \subseteq Pending(inquiry, b)
        BY <2>1, <2>3, <3>3 DEF Pending
      <4>2. /\ Cardinality(Pending(inquiry', b)) <= Cardinality(Pending(inquiry, b))
            /\ Cardinality(Pending(inquiry', b)) \in Nat /\ Cardinality(Pending(inquiry, b)) \in Nat
            /\ Cardinality(Inquiries) \in Nat
        BY <4>1, PendingIsBounded, FS_Subset
      <4> QED BY <3>1, <4>2, SocialAssumption DEF ReportInv
    <3> QED BY <3>2, <3>3
  <2> QED BY <2>2, <2>3, <2>4 DEF ReportInv
<1>3. ASSUME NEW h \in Inquiries, FileReport(h) PROVE ReportInv'
  <2>1. inquiry[h] \in Counted
    BY <1>3 DEF FileReport, ReportInv
  <2>2. PICK a \in Citizens, t \in Targets : inquiry[h].who = a /\ inquiry[h].about = t
    BY <2>1 DEF Counted
  <2>3. /\ inquiry' = [inquiry EXCEPT ![h] = NoInquiry]
        /\ reports' = [reports EXCEPT ![a] = reports[a] \cup {t}]
    BY <1>3, <2>2 DEF FileReport, Inquires
  <2>4. /\ inquiry' \in [Inquiries -> {NoInquiry} \cup Counted] /\ inquiry'[h] = NoInquiry
        /\ \A g \in Inquiries \ {h} : inquiry'[g] = inquiry[g]
        /\ reports' \in [Citizens -> SUBSET Targets] /\ reports'[a] = reports[a] \cup {t}
        /\ \A b \in Citizens \ {a} : reports'[b] = reports[b]
    BY <2>3 DEF ReportInv
  <2>5. ASSUME NEW b \in Citizens
        PROVE  /\ IsFiniteSet(reports'[b])
               /\ Cardinality(reports'[b]) + Cardinality(Pending(inquiry', b))
                    <= PerHour + Cardinality(Inquiries) - 1
    <3>1. /\ IsFiniteSet(reports[b]) /\ Cardinality(reports[b]) \in Nat
          /\ Cardinality(reports[b]) + Cardinality(Pending(inquiry, b))
               <= PerHour + Cardinality(Inquiries) - 1
      BY FS_CardinalityType DEF ReportInv
    <3>2. /\ Cardinality(Pending(inquiry', b)) \in Nat /\ Cardinality(Pending(inquiry, b)) \in Nat
          /\ Cardinality(Inquiries) \in Nat /\ IsFiniteSet(Pending(inquiry, b))
      BY PendingIsBounded
    <3>3. CASE b = a
      <4>1. h \in Pending(inquiry, b) /\ Pending(inquiry', b) = Pending(inquiry, b) \ {h}
        BY <2>1, <2>2, <2>4, <3>3, NoInquiryIsNotCounted DEF Pending
      <4>2. Cardinality(Pending(inquiry', b)) = Cardinality(Pending(inquiry, b)) - 1
        BY <3>2, <4>1, FS_RemoveElement
      <4>3. /\ IsFiniteSet(reports'[b]) /\ Cardinality(reports'[b]) \in Nat
            /\ Cardinality(reports'[b]) <= Cardinality(reports[b]) + 1
        <5>1. reports'[b] = reports[b] \cup {t}
          BY <2>4, <3>3
        <5>2. PICK S : S = reports[b] /\ IsFiniteSet(S) /\ Cardinality(S) \in Nat
          BY <3>1
        <5>3. /\ IsFiniteSet(S \cup {t}) /\ Cardinality(S \cup {t}) \in Nat
              /\ Cardinality(S \cup {t}) <= Cardinality(S) + 1
          BY <5>2, FS_AddElement
        <5> QED BY <5>1, <5>2, <5>3
      <4> QED BY <3>1, <3>2, <4>2, <4>3, SocialAssumption
    <3>4. CASE b # a
      <4>1. Pending(inquiry', b) = Pending(inquiry, b) /\ reports'[b] = reports[b]
        BY <2>1, <2>2, <2>4, <3>4, NoInquiryIsNotCounted DEF Pending
      <4> QED BY <3>1, <4>1
    <3> QED BY <3>3, <3>4
  <2> QED BY <2>4, <2>5 DEF ReportInv
<1>4. CASE HourPasses
  <2>1. reports' = [a \in Citizens |-> {}] /\ UNCHANGED inquiry
    BY <1>4 DEF HourPasses
  <2>2. Cardinality({}) = 0 /\ IsFiniteSet({})
    BY FS_EmptySet
  <2>3. ASSUME NEW a \in Citizens
        PROVE  0 + Cardinality(Pending(inquiry, a)) <= PerHour + Cardinality(Inquiries) - 1
    BY PendingIsBounded, SocialAssumption
  <2> QED BY <2>1, <2>2, <2>3 DEF ReportInv
<1> QED BY <1>1, <1>2, <1>3, <1>4 DEF ReportsNext

\* What refers to what: the foreign keys, which the cascades keep, and the bounds.
ReferInv ==
  /\ accounts \subseteq Citizens /\ chatRows \cup asker \subseteq Citizens
  /\ members \subseteq [who : Citizens, of : Citizens, role : {"OWNER", "ADMIN", "MEMBER"}]
  /\ \A m \in members : m.who \in accounts /\ m.of \in profiles
  /\ follows \subseteq AllFollows
  /\ \A f \in follows : f.by \in profiles /\ f.of \in profiles /\ f.by # f.of
  /\ \A m \in marks : m.by \in profiles
  /\ \A p \in Citizens : counts[p]["comment"] \in Nat
  /\ \A a \in Citizens :
       /\ deletion[a].rows \subseteq {a} /\ deletion[a].doomed \subseteq deletion[a].owned
       /\ deletion[a].pc = "owned" => deletion[a].doomed = {}
  /\ slips \in 0 .. MaxSlips /\ late \cup adopted \cup drifted \subseteq Citizens

LEMMA ReferencesStart == SocialInit => ReferInv
<1> SUFFICES ASSUME SocialInit PROVE ReferInv
  OBVIOUS
<1>1. /\ NoDeletion.rows = {} /\ NoDeletion.doomed = {} /\ NoDeletion.pc = "none"
      /\ "comment" \in Kinds /\ Uncounted["comment"] = 0
  BY UncountedIsZero DEF NoDeletion, Kinds
<1> QED BY <1>1, SocialAssumption DEF SocialInit, ReferInv

\* Whoever acts as a profile has a row of it.
LEMMA ActorsHaveProfiles ==
  ASSUME ReferInv, NEW a, NEW p, ActsAs(a, p) PROVE p \in profiles
  BY DEF ReferInv, ActsAs

LEMMA DropUserKeepsReferences ==
  ASSUME AccountInv, CountInv, ReferInv, NEW a \in Citizens, DropUser(a) PROVE ReferInv'
<1>1. PICK gone2, severed :
        /\ severed = {m \in marks : m.post \in gone2 \/ m.by \in gone2}
        /\ accounts' = accounts \ {a} /\ profiles' = profiles \ gone2
        /\ members' = {m \in members : m.who # a /\ m.of \notin gone2}
        /\ marks' = marks \ severed
        /\ follows' = {f \in follows : f.by \notin gone2 /\ f.of \notin gone2}
        /\ counts' = [p \in Citizens |-> IF p \in gone2 THEN Uncounted ELSE counts[p]]
        /\ drifted' = (drifted \cup {m.post : m \in severed}) \ gone2
        /\ chatRows' \subseteq chatRows /\ UNCHANGED <<asker, slips, late, adopted>>
        /\ deletion' = [deletion EXCEPT ![a] = NoDeletion]
  BY DEF DropUser, Deletes, FollowsWithout
<1>2. /\ NoDeletion.rows = {} /\ NoDeletion.doomed = {} /\ NoDeletion.pc = "none"
      /\ Uncounted["comment"] = 0
  BY UncountedIsZero DEF NoDeletion, Kinds
<1>3. \A b \in Citizens :
        /\ deletion'[b].rows \subseteq {b} /\ deletion'[b].doomed \subseteq deletion'[b].owned
        /\ deletion'[b].pc = "owned" => deletion'[b].doomed = {}
  BY <1>1, <1>2 DEF AccountInv, ReferInv
<1>4. \A p \in Citizens : counts'[p]["comment"] \in Nat
  BY <1>1, <1>2 DEF ReferInv
<1>5. drifted' \subseteq Citizens
  BY <1>1, MarksHavePosts DEF CountInv, ReferInv
<1>6. /\ members' \subseteq [who : Citizens, of : Citizens, role : {"OWNER", "ADMIN", "MEMBER"}]
      /\ \A m \in members' : m.who \in accounts' /\ m.of \in profiles'
  BY <1>1 DEF ReferInv
<1>7. /\ follows' \subseteq AllFollows
      /\ \A f \in follows' : f.by \in profiles' /\ f.of \in profiles' /\ f.by # f.of
      /\ \A m \in marks' : m.by \in profiles'
  BY <1>1 DEF ReferInv
<1> QED BY <1>1, <1>3, <1>4, <1>5, <1>6, <1>7 DEF ReferInv

\* A deletion goes on, or is rolled back.
LEMMA DeletionKeepsReferences ==
  ASSUME AccountInv, ReferInv, NEW a \in Citizens, NEW d,
         deletion' = [deletion EXCEPT ![a] = d], d.rows \subseteq {a}, d.doomed \subseteq d.owned,
         d.pc = "owned" => d.doomed = {},
         UNCHANGED <<rowVars, asker, late, adopted>>, slips' \in 0 .. MaxSlips
  PROVE  ReferInv'
<1>1. \A b \in Citizens :
        /\ deletion'[b].rows \subseteq {b} /\ deletion'[b].doomed \subseteq deletion'[b].owned
        /\ deletion'[b].pc = "owned" => deletion'[b].doomed = {}
  BY DEF AccountInv, ReferInv
<1> QED BY <1>1 DEF ReferInv, rowVars

LEMMA ReferencesStep ==
  AccountInv /\ CountInv /\ ReferInv /\ [SocialNext \/ ReportsNext]_socialVars => ReferInv'
<1> SUFFICES ASSUME AccountInv, CountInv, ReferInv, [SocialNext \/ ReportsNext]_socialVars
             PROVE  ReferInv'
  OBVIOUS
<1>0. Slip => slips' \in 0 .. MaxSlips
  BY SocialAssumption DEF Slip, ReferInv
<1>1. CASE UNCHANGED socialVars \/ ReportsNext
  <2>1. UNCHANGED <<rowVars, asker, deletion, slips, late, adopted>>
    BY <1>1 DEF socialVars, rowVars, reportVars, ReportsNext, FileReport, CountReports,
         Inquires, HourPasses
  <2> QED BY <2>1 DEF ReferInv, rowVars
<1>2. ASSUME NEW a \in Citizens, NEW p \in Citizens, CreatePost(a, p) \/ ResolveAccounts(a, p)
      PROVE  ReferInv'
  <2>1. /\ UNCHANGED <<accounts, profiles, members, follows, marks, counts, chatRows, drifted,
                       deletion, slips, late, adopted>>
        /\ asker' \subseteq asker \cup {a, p}
    BY <1>2 DEF CreatePost, ResolveAccounts, rowVars
  <2> QED BY <2>1 DEF ReferInv
<1>3. CASE StartChat
  <2>1. /\ UNCHANGED <<accounts, profiles, members, follows, marks, counts, drifted, deletion,
                       slips, adopted>>
        /\ asker' = {} /\ chatRows' = chatRows \cup asker /\ late' \subseteq late \cup asker
    BY <1>3 DEF StartChat
  <2> QED BY <2>1 DEF ReferInv
<1>4. ASSUME NEW a \in Citizens, NEW f \in AllFollows, Follow(a, f) \/ Unfollow(a, f)
      PROVE  ReferInv'
  <2>1. /\ UNCHANGED <<accounts, profiles, members, marks, counts, chatRows, drifted, asker,
                       deletion, slips, late, adopted>>
        /\ \/ follows' \subseteq follows
           \/ /\ follows' = follows \cup {f}
              /\ f.of # f.by /\ f.of \in profiles /\ ActsAs(a, f.by)
    <3>1. CASE Follow(a, f)
      BY <3>1 DEF Follow
    <3>2. CASE Unfollow(a, f)
      BY <3>2 DEF Unfollow
    <3> QED BY <1>4, <3>1, <3>2
  <2>2. ActsAs(a, f.by) => f.by \in profiles
    BY ActorsHaveProfiles
  <2>3. /\ follows' \subseteq AllFollows
        /\ \A g \in follows' : g.by \in profiles' /\ g.of \in profiles' /\ g.by # g.of
    BY <2>1, <2>2 DEF ReferInv
  <2> QED BY <2>1, <2>3 DEF ReferInv
<1>5. ASSUME NEW a \in Citizens, NEW mark \in AllMarks, Mark(a, mark) \/ Unlike(a, mark)
      PROVE  ReferInv'
  <2>1. /\ UNCHANGED <<accounts, profiles, members, follows, chatRows, asker, deletion, late,
                       adopted>>
        /\ slips' = slips \/ Slip
        /\ \A m \in marks' : m \in marks \/ m = mark
        /\ drifted' \subseteq drifted \cup {mark.post} /\ ActsAs(a, mark.by)
        /\ mark.post \in Citizens /\ mark.kind \in Kinds
    BY <1>5, MarksHavePosts DEF Mark, Unlike
  <2>2. mark.by \in profiles
    BY <2>1, ActorsHaveProfiles
  <2>3. ASSUME NEW p \in Citizens PROVE counts'[p]["comment"] \in Nat
    <3>1. counts[p] \in [Kinds -> Int] /\ counts[p]["comment"] \in Nat /\ "comment" \in Kinds
      BY DEF CountInv, ReferInv, Kinds
    <3>2. CASE Mark(a, mark)
      <4>1. counts' = [counts EXCEPT ![mark.post][mark.kind] = counts[mark.post][mark.kind] + 1]
        BY <3>2 DEF Mark
      <4>2. counts'[p]["comment"] = counts[p]["comment"] + (IF mark.post = p /\ mark.kind = "comment"
                                                         THEN 1 ELSE 0)
        BY <2>1, <3>1, <4>1 DEF CountInv
      <4> QED BY <3>1, <4>2
    <3>3. CASE Unlike(a, mark)
      <4>1. /\ counts' = [counts EXCEPT ![mark.post][mark.kind] = counts[mark.post][mark.kind] - 1]
            /\ mark.kind = "like"
        BY <3>3 DEF Unlike
      <4>2. counts'[p]["comment"] = counts[p]["comment"]
        BY <2>1, <3>1, <4>1 DEF CountInv
      <4> QED BY <3>1, <4>2
    <3> QED BY <1>5, <3>2, <3>3
  <2>4. slips' \in 0 .. MaxSlips /\ late' \cup adopted' \cup drifted' \subseteq Citizens
    BY <1>0, <2>1 DEF ReferInv
  <2> QED BY <2>1, <2>2, <2>3, <2>4 DEF ReferInv
<1>6. ASSUME NEW b \in Citizens, NEW p \in Citizens, AddToProfile(b, p) PROVE ReferInv'
  <2>1. /\ UNCHANGED <<accounts, profiles, follows, marks, counts, chatRows, drifted, asker,
                       deletion, slips, late, adopted>>
        /\ members' = members \cup {[who |-> b, of |-> p, role |-> "MEMBER"]}
        /\ b \in accounts /\ p \in profiles
    BY <1>6 DEF AddToProfile
  <2>2. /\ members' \subseteq [who : Citizens, of : Citizens, role : {"OWNER", "ADMIN", "MEMBER"}]
        /\ \A m \in members' : m.who \in accounts' /\ m.of \in profiles'
    BY <2>1 DEF ReferInv
  <2> QED BY <2>1, <2>2 DEF ReferInv
<1>7. ASSUME NEW a \in Citizens, CreateProfile(a) PROVE ReferInv'
  <2>1. /\ UNCHANGED <<accounts, follows, marks, counts, chatRows, drifted, asker, deletion,
                       slips, late>>
        /\ profiles' = profiles \cup {a} /\ a \in accounts /\ adopted' \subseteq adopted \cup {a}
        /\ members' = members \cup {[who |-> a, of |-> a, role |-> "OWNER"]}
    BY <1>7 DEF CreateProfile
  <2>2. /\ members' \subseteq [who : Citizens, of : Citizens, role : {"OWNER", "ADMIN", "MEMBER"}]
        /\ \A m \in members' : m.who \in accounts' /\ m.of \in profiles'
    BY <2>1 DEF ReferInv
  <2>3. /\ \A f \in follows' : f.by \in profiles' /\ f.of \in profiles' /\ f.by # f.of
        /\ \A m \in marks' : m.by \in profiles'
    BY <2>1 DEF ReferInv
  <2> QED BY <2>1, <2>2, <2>3 DEF ReferInv
<1>8. ASSUME NEW a \in Citizens, DropUser(a) PROVE ReferInv'
  BY <1>8, DropUserKeepsReferences
<1>9. ASSUME NEW a \in Citizens, DropChatRows(a) \/ ReadOwned(a) \/ DropProfiles(a) \/ RolledBack(a)
      PROVE  ReferInv'
  <2>1. UNCHANGED <<rowVars, asker, late, adopted>> /\ slips' \in 0 .. MaxSlips
    BY <1>0, <1>9 DEF DropChatRows, ReadOwned, DropProfiles, RolledBack, Deletes, ReferInv
  <2>2. /\ deletion[a] \in Deletion /\ deletion[a].rows \subseteq {a}
        /\ deletion[a].doomed \subseteq deletion[a].owned /\ NoDeletion \in Deletion
        /\ NoDeletion.rows = {} /\ NoDeletion.doomed = {} /\ NoDeletion.owned = {}
        /\ NoDeletion.pc = "none"
    BY DEF AccountInv, ReferInv, NoDeletion, Deletion
  <2>3. PICK d : /\ deletion' = [deletion EXCEPT ![a] = d]
                 /\ d.rows \subseteq {a} /\ d.doomed \subseteq d.owned
                 /\ d.pc = "owned" => d.doomed = {}
    <3>1. CASE DropChatRows(a)
      <4> DEFINE n == [NoDeletion EXCEPT !.pc = "owned", !.rows = chatRows \cap {a}]
      <4>1. deletion' = [deletion EXCEPT ![a] = n]
        BY <3>1 DEF DropChatRows, Deletes
      <4>2. n.rows \subseteq {a} /\ n.doomed \subseteq n.owned /\ (n.pc = "owned" => n.doomed = {})
        BY <2>2 DEF Deletion
      <4> QED BY <4>1, <4>2
    <3>2. CASE ReadOwned(a)
      <4>1. PICK held : deletion' = [deletion EXCEPT ![a] =
                                       [deletion[a] EXCEPT !.pc = "profiles", !.owned = held]]
        BY <3>2 DEF ReadOwned, Deletes
      <4> DEFINE n == [deletion[a] EXCEPT !.pc = "profiles", !.owned = held]
      <4>2. deletion[a].pc = "owned" /\ deletion[a].doomed = {}
        BY <3>2 DEF ReadOwned, Deletes, ReferInv
      <4>3. n.rows \subseteq {a} /\ n.doomed \subseteq n.owned /\ (n.pc = "owned" => n.doomed = {})
        BY <2>2, <4>2 DEF Deletion
      <4> QED BY <4>1, <4>3
    <3>3. CASE DropProfiles(a)
      <4>1. PICK held : /\ deletion' = [deletion EXCEPT ![a] =
                                          [deletion[a] EXCEPT !.pc = "user", !.doomed = held]]
                        /\ held \subseteq deletion[a].owned
        BY <3>3 DEF DropProfiles, Deletes, Orphans
      <4> DEFINE n == [deletion[a] EXCEPT !.pc = "user", !.doomed = held]
      <4>2. n.rows \subseteq {a} /\ n.doomed \subseteq n.owned /\ (n.pc = "owned" => n.doomed = {})
        BY <2>2, <4>1 DEF Deletion
      <4> QED BY <4>1, <4>2
    <3>4. CASE RolledBack(a)
      BY <2>2, <3>4 DEF RolledBack, Deletes
    <3> QED BY <1>9, <3>1, <3>2, <3>3, <3>4
  <2> QED BY <2>1, <2>2, <2>3, DeletionKeepsReferences
<1> QED BY <1>1, <1>2, <1>3, <1>4, <1>5, <1>6, <1>7, <1>8, <1>9 DEF SocialNext

LEMMA SocialInvariants == SocialSpec => [](AccountInv /\ CountInv /\ ReportInv /\ ReferInv)
  BY AccountsStart, AccountsStep, CountsStart, CountsStep, ReportsStart, ReportsStep,
     ReferencesStart, ReferencesStep, PTL DEF SocialSpec

LEMMA SocialTypesHold == SocialSpec => []SocialTypeOK
<1>1. AccountInv /\ CountInv /\ ReportInv /\ ReferInv => SocialTypeOK
  <2> SUFFICES ASSUME AccountInv, CountInv, ReportInv, ReferInv PROVE SocialTypeOK
    OBVIOUS
  <2>1. marks \subseteq [kind : {"like", "comment"}, post : posts, by : profiles]
    <3> SUFFICES ASSUME NEW m \in marks
                 PROVE  m \in [kind : {"like", "comment"}, post : posts, by : profiles]
      OBVIOUS
    <3>1. m \in [kind : {"like", "comment"}, post : Citizens, by : Citizens]
      BY SocialAssumption DEF CountInv
    <3>2. m.post \in posts /\ m.by \in profiles
      BY DEF CountInv, ReferInv
    <3> QED BY <3>1, <3>2
  <2>2. \A p \in Citizens : counts[p].like \in Int /\ counts[p].comment \in Nat
    BY DEF CountInv, ReferInv, Kinds
  <2>3. \A a \in Citizens : deletion[a].pc \in {"none", "owned", "profiles", "user"}
    BY DEF AccountInv, Deletion
  <2>4. \A a \in Citizens : reports[a] \subseteq Targets
    BY DEF ReportInv
  <2>5. posts \subseteq Citizens /\ profiles \subseteq Citizens
    BY DEF AccountInv, CountInv
  <2>6. /\ accounts \subseteq Citizens /\ chatRows \subseteq Citizens /\ follows \subseteq AllFollows
        /\ members \subseteq [who : Citizens, of : Citizens, role : {"OWNER", "ADMIN", "MEMBER"}]
        /\ slips \in 0 .. MaxSlips /\ late \cup adopted \cup drifted \subseteq Citizens
    BY DEF ReferInv
  <2>7. \A a \in Citizens :
          deletion[a].doomed \subseteq deletion[a].owned /\ deletion[a].rows \subseteq {a}
    BY DEF ReferInv
  <2> QED BY <2>1, <2>2, <2>3, <2>4, <2>5, <2>6, <2>7 DEF SocialTypeOK
<1> QED BY SocialInvariants, <1>1, PTL

\* A page of a post's comments beside their number.
PageIsHonest(shown, hidden) ==
  /\ Cardinality(shown.comments) <= shown.commentsCount
  /\ Cardinality(shown.comments) = shown.commentsCount
       <=> hidden = {} /\ shown.commentsCount <= CommentsShown

LEMMA PagesAreHonest ==
  ASSUME NEW p \in posts, IsFiniteSet(CommentsOf(p)),
         counts[p]["comment"] = Cardinality(CommentsOf(p)),
         NEW hidden \in SUBSET CommentsOf(p), NEW shown \in PostShown(p, hidden)
  PROVE  PageIsHonest(shown, hidden)
<1> DEFINE all  == CommentsOf(p)
           page == shown.comments
<1>1. /\ page \subseteq all \ hidden /\ shown.commentsCount = Cardinality(all)
      /\ Cardinality(page) <= CommentsShown
      /\ page = all \ hidden \/ Cardinality(page) = CommentsShown
  BY DEF PostShown
<1>2. /\ Cardinality(page) <= Cardinality(all) /\ (Cardinality(all) = Cardinality(page) => all = page)
      /\ Cardinality(all) \in Nat /\ IsFiniteSet(page)
  <2>1. page \in SUBSET all
    BY <1>1
  <2> QED BY <2>1, FS_Subset, FS_CardinalityType
<1>3. Cardinality(page) \in Nat /\ CommentsShown \in Nat
  BY <1>2, FS_CardinalityType, SocialAssumption
<1>4. ASSUME Cardinality(page) = Cardinality(all)
      PROVE  hidden = {} /\ Cardinality(all) <= CommentsShown
  BY <1>1, <1>2, <1>4
<1>5. ASSUME hidden = {}, Cardinality(all) <= CommentsShown
      PROVE  Cardinality(page) = Cardinality(all)
  <2>1. CASE page = all \ hidden
    BY <1>5, <2>1
  <2>2. CASE Cardinality(page) = CommentsShown
    BY <1>2, <1>3, <1>5, <2>2
  <2> QED BY <1>1, <2>1, <2>2
<1> QED BY <1>1, <1>2, <1>4, <1>5 DEF PageIsHonest

\* Whoever the persons are and however many requests overlap: a deleted account leaves
\* nobody behind that was there when it was deleted, the counters of a post are the
\* numbers of its rows, its page of comments lists as many exactly when none is hidden
\* and they are not more than a page, whom a profile follows is there, and the limit of
\* reports is exceeded by the overlapping ones at most (account.ts:27-37,
\* post.ts:71-109, 165-213, reports.ts).
THEOREM AccountsHold == SocialSpec => []AccountsAreSound
<1>1. AccountInv /\ ReferInv => DeletionIsComplete
  <2> SUFFICES ASSUME AccountInv, ReferInv PROVE DeletionIsComplete
    OBVIOUS
  <2>1. \A p \in profiles : OwnersOf(p) # {} \/ p \in adopted
    BY DEF AccountInv, HasOwner, OwnersOf
  <2>2. \A a \in Citizens \ accounts : MyProfiles(a) = {}
    BY DEF ReferInv, MyProfiles
  <2> QED BY <2>1, <2>2 DEF AccountInv, DeletionIsComplete
<1>2. CountInv => CountsAreHonest
  <2> SUFFICES ASSUME CountInv, NEW p \in posts \ drifted
               PROVE  /\ \A kind \in Kinds : counts[p][kind] = Cardinality(MarksOn(marks, p, kind))
                      /\ \A hidden \in SUBSET CommentsOf(p) : \A shown \in PostShown(p, hidden) :
                           PageIsHonest(shown, hidden)
    BY DEF CountsAreHonest, MarksOn, Kinds, PageIsHonest
  <2>1. \A kind \in Kinds : counts[p][kind] = Cardinality(MarksOn(marks, p, kind))
    BY DEF CountInv
  <2>2. CommentsOf(p) = MarksOn(marks, p, "comment")
    BY DEF CommentsOf, MarksOn
  <2>3. IsFiniteSet(CommentsOf(p)) /\ counts[p]["comment"] = Cardinality(CommentsOf(p))
    <3>1. CommentsOf(p) \in SUBSET marks /\ IsFiniteSet(marks)
      BY DEF CommentsOf, CountInv
    <3> QED BY <2>1, <2>2, <3>1, FS_Subset DEF Kinds
  <2> QED BY <2>1, <2>3, PagesAreHonest
<1>3. ReportInv => ReportsAreLimited
  <2> SUFFICES ASSUME ReportInv, NEW a \in Citizens
               PROVE  Cardinality(reports[a]) <= PerHour + Cardinality(Inquiries) - 1
    BY DEF ReportsAreLimited
  <2>1. Cardinality(reports[a]) \in Nat
    BY FS_CardinalityType DEF ReportInv
  <2> QED BY <2>1, PendingIsBounded, SocialAssumption DEF ReportInv
<1>4. CountInv /\ ReferInv => FollowsAreReal
  <2> SUFFICES ASSUME CountInv, ReferInv, NEW p \in profiles
               PROVE  /\ ProfileShown(p).followers \cup ProfileShown(p).follows \subseteq profiles \ {p}
                      /\ Feed(p) \subseteq ProfileShown(p).follows \cap posts
    BY DEF FollowsAreReal
  <2>1. /\ ProfileShown(p).followers = {f.by : f \in {g \in follows : g.of = p}}
        /\ ProfileShown(p).follows = {f.of : f \in {g \in follows : g.by = p}}
    BY DEF ProfileShown
  <2>2. ASSUME NEW q \in Feed(p) PROVE q \in ProfileShown(p).follows \cap posts
    <3>1. q \in posts /\ [by |-> p, of |-> q] \in follows
      BY DEF Feed
    <3> QED BY <2>1, <3>1
  <2> QED BY <2>1, <2>2 DEF ReferInv
<1>5. AccountInv /\ CountInv /\ ReportInv /\ ReferInv => AccountsAreSound
  BY <1>1, <1>2, <1>3, <1>4 DEF AccountsAreSound
<1> QED BY SocialInvariants, <1>5, PTL

-----------------------------------------------------------------------------
\* The components side by side

\* One component steps and the others stand still: what each does beside the others it
\* does alone.
LEMMA ServerStepIsLocal ==
  ASSUME [ServerNext]_serverVars
  PROVE  /\ [Next]_vars /\ [DirectoryNext]_directoryVars
         /\ [SubscriptionNext]_subscriptionVars /\ [PushFanoutNext]_pushFanoutVars
         /\ [SignalsNext]_signalVars /\ [SessionsNext]_sessionVars
         /\ [SocialNext \/ ReportsNext]_socialVars /\ [PushAdaptersNext]_pushAdapterVars
<1>1. CASE UNCHANGED serverVars
  BY <1>1 DEF serverVars
<1>2. CASE ServerNext
  BY <1>2 DEF ServerNext, OthersStill, SignalsNext
<1> QED BY <1>1, <1>2

LEMMA ServerRunsComponents ==
  ServerSpec => /\ Spec /\ DirectorySpec /\ SubscriptionSpec /\ PushSpec /\ SignalsSpec
                /\ SessionsSpec /\ SocialSpec
<1>1. ServerInit => /\ Init /\ DirectoryInit /\ SubscriptionInit /\ PushFanoutInit
                    /\ PushAdaptersInit /\ SignalsInit /\ SessionsInit /\ SocialInit
  BY DEF ServerInit
<1> QED BY <1>1, ServerStepIsLocal, PTL
        DEF ServerSpec, Spec, DirectorySpec, SubscriptionSpec, PushSpec, PushFanoutSpec,
            PushAdaptersSpec, SignalsSpec, SessionsSpec, SocialSpec

\* Every variable of the server's components has its type, whichever component steps:
\* the frames under way name chats their device wants, a request to APNs was made over a
\* client of this container, and an event goes to nobody who wrote it (chat.ts,
\* user-inbox.ts, routers/, auth.ts, chat-push/).
THEOREM ServerTypesHold == ServerSpec => []TypesOK
<1>1. component \in Components /\ TypeOK /\ DirectoryTypeOK /\ SubscriptionTypeOK
        /\ PushFanoutTypeOK /\ SignalsTypeOK /\ SessionsTypeOK /\ SocialTypeOK
        /\ PushAdaptersTypeOK => TypesOK
  <2> SUFFICES ASSUME component \in Components, TypeOK, DirectoryTypeOK, SubscriptionTypeOK,
                      PushFanoutTypeOK, SignalsTypeOK, SessionsTypeOK, SocialTypeOK,
                      PushAdaptersTypeOK
               PROVE  TypesOK
    OBVIOUS
  <2>1. \/ component = "chat" \/ component = "directory" \/ component = "subscriptions"
        \/ component = "fanout" \/ component \in {"typing", "reading"} \/ component = "sessions"
        \/ component \in {"social", "reports"} \/ component = "adapters"
    BY DEF Components
  <2> QED BY <2>1 DEF TypesOK
<1>2. ServerSpec => [](component \in Components)
  <2>1. ServerInit => component \in Components
    BY DEF ServerInit
  <2>2. component \in Components /\ [ServerNext]_serverVars => (component \in Components)'
    BY DEF ServerNext, serverVars
  <2> QED BY <2>1, <2>2, PTL DEF ServerSpec
<1>3. PushSpec => PushFanoutSpec /\ PushAdaptersSpec
  BY DEF PushSpec
<1> QED BY <1>1, <1>2, <1>3, ServerRunsComponents, TypeCorrect, DirectoryTypesHold,
           SubscriptionTypesHold, FanoutTypesHold, SignalTypesHold, SessionTypesHold,
           SocialTypesHold, AdapterTypesHold, PTL

\* Whatever the server's components do, all of this holds of them together: no user is
\* told of a message that has no row, serials have no gap, the skip-cache is not ahead,
\* and chats, subscriptions, pushes, signals, sessions and accounts are as their own
\* theorems say (chat.ts, user-inbox.ts, routers/, auth.ts, chat-push/).
THEOREM ServerIsSafe ==
  ServerSpec =>
    /\ [](SentIsDurable /\ DenseSerials /\ KvNeverAhead)
    /\ [](DirectoryIsSound /\ ConnectedIsAttached /\ PushesArrive)
    /\ [](SignalsAreSound /\ SessionsAreHonoured /\ AccountsAreSound)
    /\ LinkIsSetOnce
BY ServerRunsComponents, SentIsDurableCorrect, DenseSerialsCorrect, KvNeverAheadCorrect,
   DirectoryHolds, LinkStays, ConnectedStaysAttached, PushesDoArrive, SignalsHold,
   SessionsHonoured, AccountsHold, PTL

=============================================================================
