------------------------------ MODULE Screens ------------------------------
(***************************************************************************)
(* What is seen: the list of chats (ChatList), a device's own messages, in *)
(* memory and in its table (LocalHistory), the reactions another member's  *)
(* app shows (Reactions), and the alerts of a device whose app is not      *)
(* looked at (PushAlert).  They share no variable.                         *)
(***************************************************************************)
EXTENDS ChatList, LocalHistory, Reactions, PushAlert

ScreensSpec == ChatListSpec /\ HistorySpec /\ ReactionsSpec /\ PushAlertSpec

\* What is seen is true: the list has the account's own chats, as the newest answer had
\* them (ListIsSound; store.ts, provider.tsx, store-provider.tsx); a chat shows its texts,
\* each once, through retries, races and restarts (HistoryIsSound; store.ts, provider.tsx,
\* messages-store.ts); when all is quiet both sides show the same reaction
\* (ReactionsAgree; hooks.ts, outbox-worker.ts, provider.tsx); and an alert is of the
\* message it stands for (PushAlertsAreRight; NotificationService.swift and its twin).
SeenIsTrue == ListIsSound /\ HistoryIsSound /\ ReactionsAgree /\ PushAlertsAreRight

=============================================================================
