------------------------------- MODULE Social -------------------------------
(***************************************************************************)
(* Accounts, profiles and what hangs on them in Postgres: the API's        *)
(* requests (trpc.ts resolveContext(), routers/profile.ts, post.ts,        *)
(* chat.ts create, reports.ts) beside the deletion of an account           *)
(* (account.ts deleteSelf), whose statements other requests see only when  *)
(* it commits (READ COMMITTED).                                            *)
(*                                                                         *)
(* A profile has the name of the person who creates it and at most one     *)
(* post; there is one chat.                                                *)
(***************************************************************************)
EXTENDS Integers, FiniteSets

CONSTANTS
  Citizens,   \* persons
  AllMarks,   \* bound: the likes and comments there may be, [kind, post, by]
  AllFollows, \* bound: the follows there may be, [by, of]
  Targets,    \* what can be reported
  CommentsShown, \* the `take` of post.getPost
  Inquiries,  \* bound: reports handled at one time
  PerHour,    \* REPORTS_PER_HOUR
  MaxSlips    \* bound: unlikes without a like, and deletions rolled back

ASSUME SocialAssumption ==
  /\ AllMarks \subseteq [kind : {"like", "comment"}, post : Citizens, by : Citizens]
  /\ AllFollows \subseteq [by : Citizens, of : Citizens]
  /\ CommentsShown \in Nat
  /\ IsFiniteSet(Inquiries) /\ PerHour \in Nat \ {0} /\ MaxSlips \in Nat

VARIABLES
  accounts,   \* the persons with an AuthUser and an Account
  profiles,   \* the Profile rows
  members,    \* the ProfileMember rows [who, of, role]
  posts,      \* the Post rows, by their profile
  follows,    \* the Follow rows [by, of]
  marks,      \* the Like and Comment rows [kind, post, by]
  counts,     \* counts[p]: likesCount and commentsCount of p's post
  chatRows,   \* the persons with a ChatMember row
  asker,      \* the persons that a chat.create() under way has resolved
  deletion,   \* deletion[a]: a deleteSelf() under way
  inquiry,    \* inquiry[h]: a reports.create() under way
  reports,    \* reports[a]: the Report rows of the last hour
  slips,      \* counter of the bound
  late,       \* history: persons put into the chat after their deletion had emptied it
  adopted,    \* history: profiles created after the deletion had read what a person owns
  drifted     \* history: posts unliked without a like, or whose likers' profiles went

rowVars    == <<accounts, profiles, members, follows, posts, marks, counts, chatRows, drifted>>
reportVars == <<inquiry, reports>>
socialVars == <<rowVars, asker, deletion, slips, late, adopted, reportVars>>

NoDeletion == [pc |-> "none", rows |-> {}, owned |-> {}, doomed |-> {}]
NoInquiry  == [pc |-> "none"]
Uncounted  == [kind \in {"like", "comment"} |-> 0]

SocialInit ==
  /\ accounts = Citizens /\ profiles = {} /\ members = {} /\ follows = {} /\ posts = {}
  /\ marks = {}
  /\ counts = [p \in Citizens |-> Uncounted] /\ chatRows = {}
  /\ asker = {} /\ deletion = [a \in Citizens |-> NoDeletion]
  /\ inquiry = [h \in Inquiries |-> NoInquiry] /\ reports = [a \in Citizens |-> {}]
  /\ slips = 0 /\ late = {} /\ adopted = {} /\ drifted = {}

Slip == slips < MaxSlips /\ slips' = slips + 1

-----------------------------------------------------------------------------
\* Requests

\* Between resolveContext() and its writes a request loses nothing but what it refers
\* to, and then its foreign keys refuse the writes: it is a step of its own. The
\* members of a chat are not bound by a foreign key.
ActsAs(a, p) == a \in accounts /\ \E m \in members : m.who = a /\ m.of = p

\* Rows that an open transaction has deleted make others wait for it.
Locked(p) == \E a \in Citizens : p \in deletion[a].doomed

\* profile.create: the profile and its owner's row.
CreateProfile(a) ==
  /\ a \in accounts \ profiles /\ profiles' = profiles \cup {a}
  /\ members' = members \cup {[who |-> a, of |-> a, role |-> "OWNER"]}
  /\ adopted' = IF deletion[a].pc \in {"profiles", "user"} THEN adopted \cup {a} ELSE adopted
  /\ UNCHANGED <<accounts, follows, posts, marks, counts, chatRows, drifted, asker, deletion, slips,
                 late, reportVars>>

\* profile.addMember: by the owner, never as an owner.
AddToProfile(b, p) ==
  /\ b \in accounts /\ p \in profiles /\ ~Locked(p)
  /\ [who |-> p, of |-> p, role |-> "OWNER"] \in members
  /\ ~\E m \in members : m.who = b /\ m.of = p
  /\ members' = members \cup {[who |-> b, of |-> p, role |-> "MEMBER"]}
  /\ UNCHANGED <<accounts, profiles, follows, posts, marks, counts, chatRows, drifted, asker,
                 deletion, slips, late, adopted, reportVars>>

\* profile.follow: the target is there, the pair is unique, and nobody follows itself;
\* profile.unfollow is deleteMany.
Follow(a, f) ==
  /\ ActsAs(a, f.by) /\ f.of # f.by /\ f.of \in profiles /\ ~Locked(f.by) /\ ~Locked(f.of)
  /\ f \notin follows /\ follows' = follows \cup {f}
  /\ UNCHANGED <<accounts, profiles, members, posts, marks, counts, chatRows, drifted, asker,
                 deletion, slips, late, adopted, reportVars>>

Unfollow(a, f) ==
  /\ ActsAs(a, f.by) /\ ~Locked(f.by) /\ ~Locked(f.of) /\ follows' = follows \ {f}
  /\ UNCHANGED <<accounts, profiles, members, posts, marks, counts, chatRows, drifted, asker,
                 deletion, slips, late, adopted, reportVars>>

\* post.create
CreatePost(a, p) ==
  /\ ActsAs(a, p) /\ p \in {m.post : m \in AllMarks} \ posts /\ ~Locked(p)
  /\ posts' = posts \cup {p}
  /\ UNCHANGED <<accounts, profiles, members, follows, marks, counts, chatRows, drifted, asker,
                 deletion, slips, late, adopted, reportVars>>

\* post.like, post.comment: the row and the counter in one transaction; one row of a
\* profile on a post, by the unique index for likes, by the bound for comments.
Mark(a, mark) ==
  /\ ActsAs(a, mark.by) /\ mark.post \in posts /\ ~Locked(mark.post) /\ ~Locked(mark.by)
  /\ mark \notin marks /\ marks' = marks \cup {mark}
  /\ counts' = [counts EXCEPT ![mark.post][mark.kind] = @ + 1]
  /\ UNCHANGED <<accounts, profiles, members, follows, posts, chatRows, drifted, asker, deletion,
                 slips, late, adopted, reportVars>>

\* post.unlike: deleteMany and decrement, whether there was a like or not.
Unlike(a, mark) ==
  /\ ActsAs(a, mark.by) /\ mark.post \in posts /\ ~Locked(mark.post) /\ ~Locked(mark.by)
  /\ mark.kind = "like" /\ marks' = marks \ {mark}
  /\ counts' = [counts EXCEPT ![mark.post][mark.kind] = @ - 1]
  /\ IF mark \in marks THEN UNCHANGED <<slips, drifted>>
     ELSE Slip /\ drifted' = drifted \cup {mark.post}
  /\ UNCHANGED <<accounts, profiles, members, follows, posts, chatRows, asker, deletion, late,
                 adopted, reportVars>>

\* chat.create: resolveAccounts(), and the rows.
ResolveAccounts(a, b) ==
  /\ asker = {} /\ {a, b} \subseteq accounts /\ a # b /\ asker' = {a, b}
  /\ UNCHANGED <<rowVars, deletion, slips, late, adopted, reportVars>>

StartChat ==
  /\ asker # {} /\ asker' = {} /\ chatRows' = chatRows \cup asker
  /\ late' = late \cup {a \in asker :
                          a \notin accounts \/ deletion[a].pc \in {"owned", "profiles", "user"}}
  /\ UNCHANGED <<accounts, profiles, members, follows, posts, marks, counts, drifted, deletion,
                 slips, adopted, reportVars>>

-----------------------------------------------------------------------------
\* account.deleteSelf

Deletes(a, pc, next) ==
  /\ a \in accounts /\ deletion[a].pc = pc
  /\ deletion' = [deletion EXCEPT ![a] = next]
  /\ UNCHANGED <<asker, late, adopted, reportVars>>

DropChatRows(a) ==
  /\ Deletes(a, "none", [NoDeletion EXCEPT !.pc = "owned", !.rows = chatRows \cap {a}])
  /\ UNCHANGED <<rowVars, slips>>

OwnersOf(p) == {m.who : m \in {n \in members : n.of = p /\ n.role = "OWNER"}}

ReadOwned(a) ==
  /\ Deletes(a, "owned", [deletion[a] EXCEPT !.pc = "profiles",
                                             !.owned = {p \in profiles : a \in OwnersOf(p)}])
  /\ UNCHANGED <<rowVars, slips>>

\* The profiles without another owner.
OrphansNone(a) == {}                     \* a mutant: profiles are left to the cascades
Orphans(a) == {p \in deletion[a].owned : OwnersOf(p) \subseteq {a}}

DropProfiles(a) ==
  /\ \A p \in deletion[a].owned : ~Locked(p)
  /\ Deletes(a, "profiles", [deletion[a] EXCEPT !.pc = "user", !.doomed = Orphans(a)])
  /\ UNCHANGED <<rowVars, slips>>

\* onDelete: Cascade, of the follower and of the followed.
FollowersOnly(gone)  == {f \in follows : f.by \notin gone}     \* a mutant: of the first only
FollowsWithout(gone) == {f \in follows : f.by \notin gone /\ f.of \notin gone}

\* authUser.delete with its cascades, and the commit.
DropUser(a) ==
  LET gone    == deletion[a].doomed
      severed == {m \in marks : m.post \in gone \/ m.by \in gone}
  IN  /\ Deletes(a, "user", NoDeletion)
      /\ accounts' = accounts \ {a} /\ profiles' = profiles \ gone /\ posts' = posts \ gone
      /\ members' = {m \in members : m.who # a /\ m.of \notin gone}
      /\ marks' = marks \ severed /\ follows' = FollowsWithout(gone)
      /\ counts' = [p \in Citizens |-> IF p \in gone THEN Uncounted ELSE counts[p]]
      /\ drifted' = (drifted \cup {m.post : m \in severed}) \ gone
      /\ chatRows' = chatRows \ deletion[a].rows
      /\ UNCHANGED slips

\* The API dies, or a statement fails.
RolledBack(a) ==
  /\ deletion[a].pc # "none" /\ Slip
  /\ Deletes(a, deletion[a].pc, NoDeletion) /\ UNCHANGED rowVars

-----------------------------------------------------------------------------
SocialNext ==
  \/ StartChat
  \/ \E a, b \in Citizens : AddToProfile(a, b) \/ CreatePost(a, b) \/ ResolveAccounts(a, b)
  \/ \E a \in Citizens :
       \/ \E f \in AllFollows : Follow(a, f) \/ Unfollow(a, f)
       \/ CreateProfile(a) \/ \E mark \in AllMarks : Mark(a, mark) \/ Unlike(a, mark)
       \/ DropChatRows(a) \/ ReadOwned(a) \/ DropProfiles(a) \/ DropUser(a) \/ RolledBack(a)

-----------------------------------------------------------------------------
\* reports.create: the reports of the last hour are counted, then the row is upserted.

Inquires(h, next) ==
  /\ inquiry' = [inquiry EXCEPT ![h] = next]
  /\ UNCHANGED <<rowVars, asker, deletion, slips, late, adopted>>

MayReportOneMore(a) == Cardinality(reports[a]) <= PerHour   \* a mutant: off by one
MayReport(a) == Cardinality(reports[a]) < PerHour

CountReports(h, a, t) ==
  /\ inquiry[h] = NoInquiry /\ t # a /\ MayReport(a)
  /\ Inquires(h, [pc |-> "counted", who |-> a, about |-> t]) /\ UNCHANGED reports

FileReport(h) ==
  /\ inquiry[h] # NoInquiry
  /\ reports' = [reports EXCEPT ![inquiry[h].who] = @ \cup {inquiry[h].about}]
  /\ Inquires(h, NoInquiry)

\* The hour is over.
HourPasses ==
  /\ reports # [a \in Citizens |-> {}] /\ reports' = [a \in Citizens |-> {}]
  /\ UNCHANGED <<rowVars, asker, deletion, slips, late, adopted, inquiry>>

ReportsNext ==
  \/ \E h \in Inquiries : FileReport(h)
                            \/ \E a \in Citizens, t \in Targets : CountReports(h, a, t)
  \/ HourPasses

SocialSpec == SocialInit /\ [][SocialNext \/ ReportsNext]_socialVars

-----------------------------------------------------------------------------
\* Properties

SocialTypeOK ==
  /\ accounts \cup profiles \cup posts \cup chatRows \subseteq Citizens
  /\ follows \subseteq AllFollows
  /\ members \subseteq [who : Citizens, of : Citizens, role : {"OWNER", "ADMIN", "MEMBER"}]
  /\ marks \subseteq [kind : {"like", "comment"}, post : posts, by : profiles]
  /\ \A p \in Citizens : counts[p].like \in Int /\ counts[p].comment \in Nat
  /\ \A a \in Citizens :
       /\ deletion[a].pc \in {"none", "owned", "profiles", "user"}
       /\ deletion[a].doomed \subseteq deletion[a].owned /\ deletion[a].rows \subseteq {a}
  /\ slips \in 0 .. MaxSlips /\ late \cup adopted \cup drifted \subseteq Citizens
  /\ \A a \in Citizens : reports[a] \subseteq Targets

\* What the app asks for: the posts of a profile's post.getFeed, whose pages are parts of
\* them; profile.get with its numbers; profile.listMine.
Feed(p)         == {q \in posts : [by |-> p, of |-> q] \in follows}
ProfileShown(p) == [posts     |-> posts \cap {p},
                    followers |-> {f.by : f \in {g \in follows : g.of = p}},
                    follows   |-> {f.of : f \in {g \in follows : g.by = p}}]
MyProfiles(a)   == {m.of : m \in {n \in members : n.who = a}}

\* The answers there may be to post.getPost: the counters, and a page of the comments
\* that are not hidden. Which of them are the newest is left open; so is which rows are
\* hidden, because no code of the repository sets isHidden.
CommentsOf(p) == {m \in marks : m.post = p /\ m.kind = "comment"}
PostShown(p, hidden) ==
  LET listed == CommentsOf(p) \ hidden
  IN  {[likesCount |-> counts[p]["like"], commentsCount |-> counts[p]["comment"],
        comments |-> page] :
         page \in {c \in SUBSET listed : /\ Cardinality(c) <= CommentsShown
                                         /\ c = listed \/ Cardinality(c) = CommentsShown}}

\* A deleted account leaves nobody in a chat and no profile without an owner, unless a
\* chat or a profile was created for it by a request that overlapped its deletion
\* (account.ts:27-37); it keeps no profile itself.
DeletionIsComplete ==
  /\ chatRows \subseteq accounts \cup late
  /\ \A p \in profiles : OwnersOf(p) # {} \/ p \in adopted
  /\ \A a \in Citizens \ accounts : MyProfiles(a) = {}

\* The counters of a post are the numbers of its rows, through concurrent requests and
\* deletions, unless somebody unliked it without a like, or rows went by a cascade when
\* an account was deleted, which decrements nothing (post.ts:165-213). A post never lists
\* more comments than it says it has, and as many exactly when none of them is hidden
\* and they are a page at most (post.ts:90-93).
CountsAreHonest ==
  \A p \in posts \ drifted :
    /\ \A kind \in {"like", "comment"} :
         counts[p][kind] = Cardinality({m \in marks : m.post = p /\ m.kind = kind})
    /\ \A hidden \in SUBSET CommentsOf(p) : \A shown \in PostShown(p, hidden) :
         /\ Cardinality(shown.comments) <= shown.commentsCount
         /\ Cardinality(shown.comments) = shown.commentsCount
              <=> hidden = {} /\ shown.commentsCount <= CommentsShown

\* Nobody is shown a profile that is gone: whoever is counted among the followers or
\* the followed of a profile is still there and another one, and a feed is of those it
\* follows, whatever was deleted since they were followed.
FollowsAreReal ==
  \A p \in profiles :
    /\ ProfileShown(p).followers \cup ProfileShown(p).follows \subseteq profiles \ {p}
    /\ Feed(p) \subseteq ProfileShown(p).follows \cap posts

\* The limit of reports an hour is exceeded by no more than the requests that overlap.
ReportsAreLimited ==
  \A a \in Citizens : Cardinality(reports[a]) <= PerHour + Cardinality(Inquiries) - 1

\* The four of them.
AccountsAreSound ==
  DeletionIsComplete /\ CountsAreHonest /\ FollowsAreReal /\ ReportsAreLimited

=============================================================================
