----------------------------- MODULE PushTokens -----------------------------
(***************************************************************************)
(* An install makes itself known to the server for the account that is     *)
(* signed in: its device row (mobile auto-publish.ts, publish.ts;          *)
(* user.keys.publish) and its push token, which needs that row             *)
(* (push-auto-register.ts, push-register.ts; user.push.register).          *)
(*                                                                         *)
(* Both run on every change of the auth store, and remember in a module    *)
(* variable for whom they ran. The account may change while they wait, and *)
(* each request carries the bearer of the moment it is sent.               *)
(***************************************************************************)
EXTENDS Naturals

CONSTANTS
  People,       \* the accounts that sign in on this install
  Attempts,     \* bound: calls at one time, <<kind, n>>
  MaxPivots,    \* bound: sign-ins, account deletions, other changes of the auth
                \* store and requests that fail, together
  NoPerson      \* null

ASSUME PushTokensAssumption ==
  /\ NoPerson \notin People /\ MaxPivots \in Nat
  /\ Attempts \subseteq {"publish", "register"} \X Nat

Kinds == {"publish", "register"}

VARIABLES
  bearer,       \* whose session token SecureStore holds
  signed,       \* the user of the auth store's session
  doneFor,      \* publishedForUserId and registeredForUserId
  attempt,      \* attempt[t]: a maybePublish() or maybeRegister() under way
  rows,         \* accounts that have a UserDevice row for this install
  owner,        \* the account whose device row the install's PushToken points to
  deleted,      \* accounts that were deleted
  pivots,       \* counter of the bound
  late          \* history: a request took effect for an account other than the one it was
                \* started for, or than the one the app has registered for since

pushTokenVars ==
  <<bearer, signed, doneFor, attempt, rows, owner, deleted, pivots, late>>

NoAttempt == [pc |-> "none", user |-> NoPerson, as |-> NoPerson]

PushTokensInit ==
  /\ bearer = NoPerson /\ signed = NoPerson
  /\ doneFor = [k \in Kinds |-> NoPerson]
  /\ attempt = [t \in Attempts |-> NoAttempt]
  /\ rows = {} /\ owner = NoPerson /\ deleted = {}
  /\ pivots = 0 /\ late = FALSE

Pivot == pivots < MaxPivots /\ pivots' = pivots + 1

-----------------------------------------------------------------------------
\* The session

\* The response of a sign-in brings the bearer, before the screen sets the session.
SignInAnswered(u) ==
  /\ Pivot /\ bearer = signed /\ u \in People \ (deleted \cup {bearer})
  /\ bearer' = u
  /\ UNCHANGED <<signed, doneFor, attempt, rows, owner, deleted, late>>

\* deleteSelf() cascades to the device rows and their push tokens; then the app drops
\* the bearer.
DeleteAccount ==
  /\ Pivot /\ bearer = signed /\ bearer # NoPerson
  /\ deleted' = deleted \cup {bearer} /\ rows' = rows \ {bearer}
  /\ owner' = IF owner = bearer THEN NoPerson ELSE owner
  /\ bearer' = NoPerson
  /\ UNCHANGED <<signed, doneFor, attempt, late>>

\* The subscribers of the store: each starts unless it ran for this user.
Free(k) == {t \in Attempts : t[1] = k /\ attempt[t].pc = "none"}
Starting == {k \in Kinds : signed' \notin {NoPerson, doneFor[k]}}

Subscribers ==
  /\ \A k \in Starting : Free(k) # {}
  /\ attempt' = [t \in Attempts |->
       IF t[1] \in Starting /\ t \in Free(t[1]) /\ \A o \in Free(t[1]) : t[2] <= o[2]
       THEN [pc |-> "token", user |-> signed', as |-> NoPerson] ELSE attempt[t]]

SetSession ==
  /\ signed # bearer /\ signed' = bearer
  /\ Subscribers
  /\ UNCHANGED <<bearer, doneFor, rows, owner, deleted, pivots, late>>

\* Another field of the store changes.
StoreChanges ==
  /\ Pivot /\ signed # NoPerson /\ UNCHANGED signed
  /\ Subscribers
  /\ UNCHANGED <<bearer, doneFor, rows, owner, deleted, late>>

-----------------------------------------------------------------------------
\* maybePublish() and maybeRegister()

Becomes(t, r) == attempt' = [attempt EXCEPT ![t] = r]

TokenRead(t) ==
  /\ attempt[t].pc = "token"
  /\ IF bearer = NoPerson
     THEN Becomes(t, NoAttempt) /\ UNCHANGED doneFor
     ELSE /\ doneFor' = [doneFor EXCEPT ![t[1]] = attempt[t].user]
          /\ Becomes(t, [attempt[t] EXCEPT !.pc = "ready"])
  /\ UNCHANGED <<bearer, signed, rows, owner, deleted, pivots, late>>

\* After the identity, the permission and the native token the request goes out.
Requests(t) ==
  /\ attempt[t].pc = "ready"
  /\ Becomes(t, [attempt[t] EXCEPT !.pc = "sent", !.as = bearer])
  /\ UNCHANGED <<bearer, signed, doneFor, rows, owner, deleted, pivots, late>>

\* The permission is denied, or the identity or the request fails, or its answer is lost.
Refused(t) ==
  /\ Pivot /\ attempt[t].pc \in {"ready", "sent", "ok"}
  /\ Becomes(t, [attempt[t] EXCEPT !.pc = "failed"])
  /\ UNCHANGED <<bearer, signed, doneFor, rows, owner, deleted, late>>

Exists(who) == who \notin deleted \cup {NoPerson}

\* keys.publish: an upsert.
ServePublish(t) ==
  LET a == attempt[t]
  IN  /\ t[1] = "publish" /\ a.pc = "sent"
      /\ rows' = IF Exists(a.as) THEN rows \cup {a.as} ELSE rows
      /\ Becomes(t, [a EXCEPT !.pc = IF Exists(a.as) THEN "ok" ELSE "failed"])
      /\ late' = (late \/ (Exists(a.as) /\ a.as # a.user))
      /\ UNCHANGED <<bearer, signed, doneFor, owner, deleted, pivots>>

\* push.register: the last request to arrive has the token.
BoundAlways(who) == TRUE                \* a mutant: a missing device row is no error
Bound(who) == who \in rows

ServeRegister(t) ==
  LET a == attempt[t]
  IN  /\ t[1] = "register" /\ a.pc = "sent"
      /\ owner' = IF Exists(a.as) /\ a.as \in rows THEN a.as ELSE owner
      /\ Becomes(t,
           [a EXCEPT !.pc = IF Exists(a.as) /\ Bound(a.as) THEN "ok" ELSE "failed"])
      /\ late' = (late \/ (/\ Exists(a.as)
                           /\ a.as # a.user \/ doneFor["register"] \notin {NoPerson, a.as}))
      /\ UNCHANGED <<bearer, signed, doneFor, rows, deleted, pivots>>

\* The answer; a failure forgets for whom it ran, whoever that is by now.
Answered(t) ==
  /\ attempt[t].pc \in {"ok", "failed"}
  /\ doneFor' = IF attempt[t].pc = "failed" THEN [doneFor EXCEPT ![t[1]] = NoPerson] ELSE doneFor
  /\ Becomes(t, NoAttempt)
  /\ UNCHANGED <<bearer, signed, rows, owner, deleted, pivots, late>>

-----------------------------------------------------------------------------
PushTokensNext ==
  \/ \E u \in People : SignInAnswered(u)
  \/ DeleteAccount \/ SetSession \/ StoreChanges
  \/ \E t \in Attempts : \/ TokenRead(t) \/ Requests(t) \/ ServePublish(t) \/ ServeRegister(t)
                         \/ Refused(t) \/ Answered(t)

PushTokensSpec == PushTokensInit /\ [][PushTokensNext]_pushTokenVars

-----------------------------------------------------------------------------
\* Properties

PushTokensTypeOK ==
  /\ {bearer, signed, owner} \cup {doneFor[k] : k \in Kinds} \subseteq People \cup {NoPerson}
  /\ DOMAIN doneFor = Kinds
  /\ attempt \in [Attempts -> [pc : {"none", "token", "ready", "sent", "ok", "failed"},
       user : People \cup {NoPerson}, as : People \cup {NoPerson}]]
  /\ rows \cup deleted \subseteq People /\ late \in BOOLEAN

Settled(k) == \A t \in Attempts : t[1] = k => attempt[t].pc = "none"

\* What the app remembers is so on the server: when it holds that it has registered
\* for the account that is signed in, that account has the device row and the
\* install's pushes, and otherwise the next change of the store tries again. Only a
\* request that was started for one account and served for another, or that was
\* overtaken by another account's registration, may undo it: the token then stays with
\* the wrong account, as nothing registers again
\* (auto-publish.ts:15-31, push-auto-register.ts:10-24).
RegisteredIsBound ==
  signed # NoPerson /\ bearer = signed /\ ~late =>
    /\ Settled("publish") /\ doneFor["publish"] = signed => signed \in rows
    /\ Settled("register") /\ doneFor["register"] = signed => owner = signed

=============================================================================
