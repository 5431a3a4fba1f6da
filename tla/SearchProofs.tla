---------------------------- MODULE SearchProofs ----------------------------
(* Proofs about what a search finds and what is done with it: the posts    *)
(* and comments of UrlSearch and the leads of Leads; and about Refunds.    *)
EXTENDS UrlSearch, Leads, Refunds, FiniteSetTheorems, WellFoundedInduction, TLAPS

-----------------------------------------------------------------------------
(***************************************************************************)
(* Leads.  A change of one lead is in its history before the status is     *)
(* written, an entry never leaves the history, and what is changed in bulk *)
(* or by an administrator is recorded in the same write.                   *)
(***************************************************************************)

Named == Targets \cup Assignees \cup {"new", "none"}
Tasks == [kind : {"none", "one", "bulk", "admin", "auto"},
          at : {"off", "push", "write", "assign", "give"}, no : Nat, to : Named, seen : Named]

LeadTypeOK ==
  /\ stage \in {"new"} \cup Targets /\ assignee \in Assignees \cup {"none"}
  /\ clerk \in [Clerks -> Tasks] /\ changes \in Nat
  /\ \A c \in Clerks : /\ clerk[c].at \in {"push", "write"} => clerk[c].to \in Targets
                       /\ clerk[c].at \in {"assign", "give"} => clerk[c].to \in Assignees \cup {"none"}

\* Who is about to write the status of one lead has recorded it.
Pushed == \A c \in Clerks : clerk[c].at = "write" /\ clerk[c].kind = "one" => Entry(c) \in trail

LeadInv == LeadTypeOK /\ Pushed /\ ChangesAreRecorded

LEMMA LeadStart == LeadInit => LeadInv
BY DEF LeadInit, LeadInv, LeadTypeOK, Tasks, Named, NoWork, Pushed, ChangesAreRecorded

LEMMA LeadStep == LeadInv /\ [LeadNext]_leadVars => LeadInv'
<1> SUFFICES ASSUME LeadInv, [LeadNext]_leadVars PROVE LeadInv'  OBVIOUS
<1> USE DEF LeadInv, Pushed, ChangesAreRecorded, LeadTypeOK
<1>1. ASSUME UNCHANGED <<recorded, assignee, clerk, changes>> PROVE LeadInv'
  BY <1>1 DEF recorded, Entry
<1>2. ASSUME NEW c \in Clerks, NEW to \in Targets, NEW kind \in {"one", "bulk", "admin"},
             LoadStatus(c, kind, to)
      PROVE  LeadInv'
  BY <1>2 DEF LoadStatus, StartsChange, recorded, assignment, Entry, Tasks, Named
<1>3. ASSUME NEW c \in Clerks, NEW to \in Assignees \cup {"none"}, NEW kind \in {"one", "bulk"},
             LoadAssignee(c, kind, to)
      PROVE  LeadInv'
  BY <1>3 DEF LoadAssignee, StartsChange, recorded, assignment, Entry, Tasks, Named
<1>4. ASSUME NEW c \in Clerks, NEW to \in Assignees \cup {"none"}, LoadUnassigned(c, to)
      PROVE  LeadInv'
  BY <1>4 DEF LoadUnassigned, StartsChange, recorded, assignment, Entry, Tasks, Named
<1>5. ASSUME NEW c \in Clerks, PushHistory(c) PROVE LeadInv'
  BY <1>5 DEF PushHistory, assignment, Entry, Tasks
<1>6. ASSUME NEW c \in Clerks, WriteStatus(c) PROVE LeadInv'
  <2>1. clerk' = [clerk EXCEPT ![c] = NoWork] /\ UNCHANGED <<assignee, changes>>
    BY <1>6 DEF WriteStatus, Rests, assignment
  <2>2. NoWork \in Tasks /\ NoWork.at = "off"  BY DEF NoWork, Tasks, Named
  <2>3. \A d \in Clerks : clerk'[d] = clerk[d] \/ clerk'[d] = NoWork  BY <2>1
  <2>4. trail \subseteq trail' /\ stage' \in {"new"} \cup Targets
    BY <1>6 DEF WriteStatus, Recorded, recorded
  <2>5. LeadTypeOK'
    BY <2>1, <2>2, <2>3, <2>4
  <2>6. Pushed'
    BY <2>2, <2>3, <2>4 DEF Entry
  <2>7. clerk[c].to = Entry(c).to /\ Entry(c).no = clerk[c].no
        /\ \/ Entry(c) \in trail' /\ stage' = clerk[c].to /\ by' = clerk[c].no
           \/ UNCHANGED <<stage, trail, by>>
    BY <1>6 DEF WriteStatus, Recorded, Entry, Tasks, recorded
  <2>8. ChangesAreRecorded'
    BY <2>7
  <2> QED  BY <2>5, <2>6, <2>8
<1>7. ASSUME NEW c \in Clerks, WriteAssignee(c) PROVE LeadInv'
  BY <1>7 DEF WriteAssignee, Rests, NoWork, recorded, Entry, Tasks, Named
<1>8. ASSUME NEW c \in Clerks, GiveLead(c) PROVE LeadInv'
  BY <1>8 DEF GiveLead, Rests, NoWork, recorded, assignment, Entry, Tasks, Named
<1>9. ASSUME NEW c \in Clerks, ClerkDies(c) PROVE LeadInv'
  BY <1>9 DEF ClerkDies, Rests, NoWork, recorded, assignment, Entry, Tasks, Named
<1>10. ASSUME NEW to \in Targets, ForceStatus(to) PROVE LeadInv'
  BY <1>10 DEF ForceStatus, assignment, Entry
<1>11. ASSUME NEW i \in 1 .. MaxFollowUps, NEW to \in {"completed", "cancelled", "pending"},
              UpdateFollowUp(i, to)
       PROVE  LeadInv'
  BY <1>11, <1>1 DEF UpdateFollowUp, assignment
<1>12. ASSUME AddFollowUp \/ TimeGoesBy \/ SweepLoads \/ SweepWrites PROVE LeadInv'
  BY <1>12, <1>1 DEF AddFollowUp, TimeGoesBy, SweepLoads, SweepWrites, assignment
<1>13. CASE UNCHANGED leadVars
  BY <1>13, <1>1 DEF leadVars, recorded
<1> QED
  BY <1>2, <1>3, <1>4, <1>5, <1>6, <1>7, <1>8, <1>9, <1>10, <1>11, <1>12, <1>13 DEF LeadNext

\* For any leads, statuses and number of changes, however they overlap and die:
\* a status that a person's change wrote stands in the history, as an entry of
\* that very change (app/pipeline/lead_lifecycle.py).
THEOREM ChangesAreRecordedCorrect == LeadSpec => []ChangesAreRecorded
<1>1. LeadInv => ChangesAreRecorded  BY DEF LeadInv
<1> QED  BY <1>1, LeadStart, LeadStep, PTL DEF LeadSpec
-----------------------------------------------------------------------------
(***************************************************************************)
(* The search.  Where the hands are kept apart, one works on a post at a   *)
(* time.  So the comments a hand has still to send to the AI are its own:  *)
(* they were never charged for, but for an answer that was not recorded.   *)
(***************************************************************************)

Collecting == {"fetch", "store", "list", "call", "record"}
OnPost(h) == hand[h].at \in Collecting

Places ==
  [at : {"idle", "page", "posts", "keep", "next"} \cup Collecting,
   page : Pages \cup {"none"}, blind : BOOLEAN,
   todo : SUBSET Posts, mine : SUBSET Posts, post : Posts \cup {"none"},
   got : SUBSET Comments, new : {0, 1}, fresh : SUBSET Comments,
   answer : {"none", "rules", "gemini"}]

SearchTypeOK ==
  /\ hand \in [Collectors -> Places]
  /\ paid \in [Comments -> Nat] /\ wasted \in [Comments -> Nat]
  /\ verdict \in [Comments -> {"none", "rules", "gemini"}]
  /\ posts \subseteq Posts /\ comments \subseteq Comments
  /\ deleting \in [at : {"no", "comments", "leads", "posts", "pages", "run", "done"},
                  posts : SUBSET Posts]

OneHand ==
  \A h, g \in Collectors : OnPost(h) /\ OnPost(g) /\ hand[h].post = hand[g].post => h = g

\* What a hand has still to send, or has just sent, to the AI.
OwnComments ==
  \A h \in Collectors :
    /\ hand[h].at \in {"call", "record"} =>
         \A c \in hand[h].fresh : PostOf[c] = hand[h].post /\ verdict[c] # "gemini"
    /\ hand[h].at = "record" => \E c \in hand[h].fresh : hand[h].got = {c}

\* The charge for a comment is in its analysis, or about to be.
Charged(c) ==
  \/ verdict[c] = "gemini"
  \/ \E h \in Collectors : hand[h].at = "record" /\ c \in hand[h].got /\ hand[h].answer = "gemini"

Accounted == \A c \in Comments : paid[c] <= wasted[c] + IF Charged(c) THEN 1 ELSE 0

\* The worker does not start before the search.
NotBegun == run = "none" => task = "none" /\ hand["run"].at = "idle"

SearchInv == SearchTypeOK /\ NotBegun /\ OneHand /\ (deleting.at = "no" => OwnComments /\ Accounted)

LEMMA SearchStart == SearchInit => SearchInv
<1> SUFFICES ASSUME SearchInit PROVE SearchInv  OBVIOUS
<1>1. Away \in Places /\ Away.at = "idle"  BY DEF Away, Places
<1>2. SearchTypeOK  BY <1>1 DEF SearchInit, SearchTypeOK
<1>3. \A h \in Collectors : hand[h].at = "idle"  BY <1>1 DEF SearchInit
<1>4. NotBegun  BY <1>3, SearchAssumption DEF SearchInit, NotBegun
<1>5. OneHand /\ OwnComments  BY <1>3 DEF OneHand, OnPost, OwnComments, Collecting
<1>6. Accounted  BY DEF SearchInit, Accounted
<1> QED  BY <1>2, <1>4, <1>5, <1>6 DEF SearchInv

\* A hand goes on, but not to the AI: it takes no post on which another works,
\* and when it gives up an answer, that is counted.
LEMMA Moves ==
  ASSUME SearchInv, NEW h \in Collectors, NEW new \in Places, hand' = [hand EXCEPT ![h] = new],
         new.at \notin {"call", "record"},
         new.at \in Collecting =>
           \A g \in Collectors \ {h} : OnPost(g) => hand[g].post # new.post,
         UNCHANGED <<paid, verdict, deleting>>,
         \/ wasted' = wasted /\ hand[h].at # "record"
         \/ Wastes(h),
         posts' \subseteq Posts, comments' \subseteq Comments,
         run' = "none" => run = "none" /\ task' = task /\ (h = "run" => new.at = "idle")
  PROVE  SearchInv'
<1> USE DEF SearchInv
<1>1. /\ hand'[h] = new
      /\ \A g \in Collectors : g # h => hand'[g] = hand[g]
  BY DEF SearchTypeOK
<1>2. SearchTypeOK'
  BY DEF SearchTypeOK, Wastes
<1>3. OneHand'
  BY <1>1 DEF OneHand, OnPost
<1>4. ASSUME deleting.at = "no" PROVE OwnComments'
  BY <1>1, <1>4 DEF OwnComments
<1>5. ASSUME deleting.at = "no" PROVE Accounted'
  <2>1. CASE wasted' = wasted /\ hand[h].at # "record"
    <3>1. \A c \in Comments : Charged(c)' <=> Charged(c)
      BY <1>1, <2>1 DEF Charged
    <3> QED  BY <1>5, <2>1, <3>1 DEF Accounted
  <2>2. CASE Wastes(h)
    <3> SUFFICES ASSUME NEW c \in Comments
                 PROVE  paid[c] <= wasted'[c] + IF Charged(c)' THEN 1 ELSE 0
      BY DEF Accounted
    <3> DEFINE gone == hand[h].at = "record" /\ c \in hand[h].got /\ hand[h].answer = "gemini"
    <3>1. wasted'[c] = IF gone THEN wasted[c] + 1 ELSE wasted[c]
      BY <2>2 DEF Wastes, HandAt
    <3>2. ~gone => (Charged(c) => Charged(c)')
      BY <1>1 DEF Charged
    <3>3. paid[c] <= wasted[c] + (IF Charged(c) THEN 1 ELSE 0) /\ paid[c] \in Nat /\ wasted[c] \in Nat
      BY <1>5 DEF Accounted, SearchTypeOK
    <3> QED  BY <3>1, <3>2, <3>3
  <2> QED  BY <2>1, <2>2
<1>6. NotBegun'
  BY <1>1, SearchAssumption DEF NotBegun
<1> QED  BY <1>2, <1>3, <1>4, <1>5, <1>6

\* A hand that stays on its post is alone on it.
LEMMA Stays ==
  ASSUME SearchInv, NEW h \in Collectors, OnPost(h)
  PROVE  \A g \in Collectors \ {h} : OnPost(g) => hand[g].post # hand[h].post
BY DEF SearchInv, OneHand

\* What a hand becomes when it opens a post, stores a comment or leaves.
LEMMA Places1 ==
  ASSUME NEW r \in Places
  PROVE  /\ \A x \in {"idle", "page", "posts", "keep", "next"} \cup Collecting :
              [r EXCEPT !.at = x] \in Places
         /\ \A x \in SUBSET Posts : [r EXCEPT !.mine = x] \in Places
         /\ \A x \in Posts \cup {"none"} : [r EXCEPT !.post = x] \in Places
         /\ \A x \in {0, 1} : [r EXCEPT !.new = x] \in Places
         /\ \A x \in SUBSET Comments : /\ [r EXCEPT !.got = x] \in Places
                                       /\ [r EXCEPT !.fresh = x] \in Places
BY DEF Places

LEMMA Opened ==
  ASSUME NEW r \in Places, NEW p \in Posts
  PROVE  LET s == [r EXCEPT !.at = "fetch", !.mine = @ \ {p}, !.post = p, !.new = 0]
         IN  s \in Places /\ s.at = "fetch" /\ s.post = p
<1> DEFINE s1 == [r EXCEPT !.at = "fetch"]
           s2 == [s1 EXCEPT !.mine = r.mine \ {p}]
           s3 == [s2 EXCEPT !.post = p]
<1>1. s1 \in Places  BY Places1 DEF Collecting
<1>2. s2 \in Places  BY <1>1, Places1 DEF Places
<1>3. s3 \in Places  BY <1>2, Places1
<1>4. s3.at = "fetch" /\ s3.post = p  BY <1>1, <1>2 DEF Places
<1>5. r.mine \ {p} = s1.mine \ {p}  BY DEF Places
<1>6. \A s \in Places : /\ [s EXCEPT !.new = 0] \in Places
                        /\ [s EXCEPT !.new = 0].at = s.at /\ [s EXCEPT !.new = 0].post = s.post
  <2> SUFFICES ASSUME NEW s \in Places
               PROVE  /\ [s EXCEPT !.new = 0] \in Places
                      /\ [s EXCEPT !.new = 0].at = s.at /\ [s EXCEPT !.new = 0].post = s.post
    OBVIOUS
  <2>1. [s EXCEPT !.new = 0] \in Places  BY Places1
  <2>2. [s EXCEPT !.new = 0].at = s.at /\ [s EXCEPT !.new = 0].post = s.post  BY DEF Places
  <2> QED  BY <2>1, <2>2
<1>7. /\ [s3 EXCEPT !.new = 0] \in Places
      /\ [s3 EXCEPT !.new = 0].at = "fetch" /\ [s3 EXCEPT !.new = 0].post = p
  <2> HIDE DEF s3
  <2> QED  BY <1>3, <1>4, <1>6
<1> QED  BY <1>5, <1>7

LEMMA Stored ==
  ASSUME NEW r \in Places, NEW c, NEW n \in {0, 1}
  PROVE  LET s == [r EXCEPT !.got = @ \ {c}, !.new = n]
         IN  s \in Places /\ s.at = r.at /\ s.post = r.post
<1> DEFINE s1 == [r EXCEPT !.got = r.got \ {c}]
<1>1. s1 \in Places  BY Places1 DEF Places
<1>2. [s1 EXCEPT !.new = n] \in Places  BY <1>1, Places1
<1> QED  BY <1>2 DEF Places

LEMMA Leaves ==
  ASSUME SearchInv, NEW h \in Collectors
  PROVE  Left(h) \in Places /\ Left(h).at \in {"idle", "next"}
<1> DEFINE r == hand[h]
           s1 == [r EXCEPT !.at = "next"]
           s2 == [s1 EXCEPT !.post = "none"]
<1>0. Away \in Places /\ Away.at = "idle"  BY DEF Away, Places, Collecting
<1>1. r \in Places  BY DEF SearchInv, SearchTypeOK
<1>2. s1 \in Places  BY <1>1, Places1
<1>3. s2 \in Places  BY <1>2, Places1
<1>4. [s2 EXCEPT !.fresh = {}] \in Places  BY <1>3, Places1
<1>5. [s2 EXCEPT !.fresh = {}].at = "next"  BY <1>1 DEF Places
<1> QED  BY <1>0, <1>4, <1>5 DEF Left

\* The steps of the worker between the posts.
LEMMA RunStep ==
  ASSUME SearchInv, ~Overlapping,
         \/ StartSearch \/ ResumeSearch \/ FetchPosts \/ KeptPosts \/ FinishSearch
         \/ StopSearch \/ (\E k \in Pages : FetchPage(k))
         \/ \E p \in Posts : StorePost(p) \/ OpenPost(p)
  PROVE  SearchInv'
<1> "run" \in Collectors  BY SearchAssumption
<1> USE DEF HandAt, Move, HandGoes
<1> DEFINE r == hand["run"]
<1>t. /\ r \in Places /\ posts \subseteq Posts /\ comments \subseteq Comments
      /\ Away \in Places /\ Away.at = "idle"
      /\ run = "none" => task = "none" /\ r.at = "idle"
  BY DEF SearchInv, SearchTypeOK, Away, Places, NotBegun, Collecting
<1>1. CASE StartSearch
  <2>1. [r EXCEPT !.at = "page"] \in Places  BY <1>t DEF Places
  <2>2. run' # "none" /\ r.at # "record"  BY <1>1, <1>t DEF StartSearch
  <2> QED  BY <1>1, <1>t, <2>1, <2>2, Moves DEF StartSearch, found, Collecting, Places
<1>2. CASE ResumeSearch
  BY <1>2, <1>t, Moves DEF ResumeSearch, found, Collecting, Places
<1>3. ASSUME NEW k \in Pages, FetchPage(k) PROVE SearchInv'
  <2>1. PICK b \in BOOLEAN :
          hand' = [hand EXCEPT !["run"] = [r EXCEPT !.at = "posts", !.page = k, !.blind = b]]
    <3>1. CASE Described(k)
      <4>1. [r EXCEPT !.at = "posts", !.page = k]
              = [r EXCEPT !.at = "posts", !.page = k, !.blind = r.blind] /\ r.blind \in BOOLEAN
        BY <1>t DEF Places
      <4> QED  BY <3>1, <4>1 DEF Described
    <3>2. CASE Undescribed(k)  BY <3>2 DEF Undescribed
    <3> QED  BY <1>3, <3>1, <3>2 DEF FetchPage
  <2> DEFINE new == [r EXCEPT !.at = "posts", !.page = k, !.blind = b]
  <2>2. new \in Places /\ new.at = "posts"  BY <1>t DEF Places
  <2>3. hand' = [hand EXCEPT !["run"] = new] /\ r.at = "page"
        /\ UNCHANGED <<search, posts, comments, verdict, paid, deleting>>
    BY <1>3, <2>1 DEF FetchPage
  <2> HIDE DEF new
  <2> QED  BY <1>t, <2>2, <2>3, Moves DEF search, Collecting
<1>4. CASE FetchPosts
  <2> PICK got \in SUBSET Posts : hand' = [hand EXCEPT !["run"] = [r EXCEPT !.at = "keep", !.todo = got]]
    BY <1>4 DEF FetchPosts
  <2> QED  BY <1>4, <1>t, Moves DEF FetchPosts, search, found, Collecting, Places
<1>5. CASE KeptPosts
  BY <1>5, <1>t, Moves DEF KeptPosts, search, found, Collecting, Places
<1>6. CASE FinishSearch
  BY <1>6, <1>t, Moves DEF FinishSearch, found, Collecting
<1>7. CASE StopSearch
  <2>1. hand' = [hand EXCEPT !["run"] = Away] /\ r.at # "record" /\ run' # "none"
        /\ UNCHANGED <<found, deleting, wasted>>
    BY <1>7, <1>t DEF StopSearch, Cancelled
  <2> QED  BY <1>t, <2>1, Moves DEF found, Collecting
<1>8. ASSUME NEW p \in Posts, StorePost(p) PROVE SearchInv'
  BY <1>8, <1>t, Moves DEF StorePost, search, Collecting, Places
<1>9. ASSUME NEW p \in Posts, OpenPost(p) PROVE SearchInv'
  <2>1. \A h \in Collectors : hand[h].post # p  BY <1>9 DEF OpenPost, Apart
  <2> DEFINE new == [r EXCEPT !.at = "fetch", !.mine = @ \ {p}, !.post = p, !.new = 0]
  <2>2. new \in Places /\ new.at = "fetch" /\ new.post = p  BY <1>t, Opened
  <2>3. hand' = [hand EXCEPT !["run"] = new] /\ r.at # "record" /\ run' # "none"
        /\ UNCHANGED <<posts, comments, paid, verdict, deleting, wasted>>
    BY <1>9, <1>t DEF OpenPost, search
  <2> HIDE DEF new
  <2> QED  BY <1>t, <2>1, <2>2, <2>3, Moves
<1> QED  BY <1>1, <1>2, <1>3, <1>4, <1>5, <1>6, <1>7, <1>8, <1>9

\* A person asks for the comments again.
LEMMA AgainStep ==
  ASSUME SearchInv, ~Overlapping,
         CollectCancelled \/ StopCollecting \/ \E p \in Posts : CollectAgain(p)
  PROVE  SearchInv'
<1> "again" \in Collectors  BY DEF CollectCancelled, StopCollecting, CollectAgain
<1> USE DEF HandAt, Move
<1>t. /\ posts \subseteq Posts /\ comments \subseteq Comments
      /\ Away \in Places /\ Away.at = "idle"
  BY DEF SearchInv, SearchTypeOK, Away, Places, Collecting
<1>1. CASE CollectCancelled
  BY <1>1, <1>t, Moves DEF CollectCancelled, Cancelled, found, Collecting
<1>2. CASE StopCollecting
  BY <1>2, <1>t, Moves DEF StopCollecting, Cancelled, Collecting
<1>3. ASSUME NEW p \in Posts, CollectAgain(p) PROVE SearchInv'
  <2>1. \A h \in Collectors : hand[h].post # p  BY <1>3 DEF CollectAgain, Apart
  <2>2. [Away EXCEPT !.at = "fetch", !.post = p] \in Places  BY <1>t DEF Places, Collecting, Away
  <2> QED  BY <1>3, <1>t, <2>1, <2>2, Moves DEF CollectAgain, search, Away
<1> QED  BY <1>1, <1>2, <1>3

\* The steps of a hand on a post before it turns to the AI, and when it leaves.
LEMMA PostStep ==
  ASSUME SearchInv, NEW h \in Collectors,
         \/ FetchComments(h) \/ ClosePost(h) \/ AnalysedPost(h) \/ CollectorDies(h)
         \/ \E c \in Comments : StoreComment(h, c)
  PROVE  SearchInv'
<1> USE DEF HandAt, Move
<1>t. /\ hand[h] \in Places /\ posts \subseteq Posts /\ comments \subseteq Comments
      /\ Away \in Places /\ Away.at = "idle"
      /\ Left(h) \in Places /\ Left(h).at \in {"idle", "next"}
      /\ run = "none" /\ h = "run" => hand[h].at = "idle"
  BY Leaves DEF SearchInv, SearchTypeOK, Away, Places, NotBegun, Collecting
<1>s. OnPost(h) => \A g \in Collectors \ {h} : OnPost(g) => hand[g].post # hand[h].post
  BY Stays
<1>1. CASE FetchComments(h)
  <2>p. PICK got \in SUBSET Comments : hand' = [hand EXCEPT ![h] = [hand[h] EXCEPT !.at = "store", !.got = got]]
    BY <1>1 DEF FetchComments, CommentsOf
  <2> QED  BY <1>1, <1>t, <1>s, <2>p, Moves DEF FetchComments, search, found, Collecting, OnPost, Places
<1>2. CASE ClosePost(h)
  <2>p. PICK new \in Places : /\ hand' = [hand EXCEPT ![h] = new]
                              /\ new = [hand[h] EXCEPT !.at = "list"] \/ new = Left(h)
    BY <1>2, <1>t DEF ClosePost, Places, Collecting
  <2>1. /\ UNCHANGED <<search, posts, comments, verdict, paid, deleting, crashes>>
        /\ hand[h].at = "store"
    BY <1>2 DEF ClosePost
  <2>3. /\ [hand[h] EXCEPT !.at = "list"].at = "list"
        /\ [hand[h] EXCEPT !.at = "list"].post = hand[h].post
    BY <1>t DEF Places
  <2>2. new.at \in {"idle", "next"} \/ (new.at = "list" /\ new.post = hand[h].post)
    BY <1>t, <2>p, <2>3
  <2> QED  BY <1>t, <1>s, <2>p, <2>1, <2>2, Moves DEF search, Collecting, OnPost
<1>3. CASE AnalysedPost(h)
  BY <1>3, <1>t, Moves DEF AnalysedPost, search, found, Collecting
<1>4. CASE CollectorDies(h)
  <2>1. /\ UNCHANGED <<run, found, deleting>> /\ Wastes(h)
        /\ hand' = [hand EXCEPT ![h] = Away] /\ (h # "run" => task' = task)
        /\ hand[h].at # "idle"
    BY <1>4 DEF CollectorDies
  <2> QED  BY <1>t, <2>1, Moves DEF found, Collecting
<1>5. ASSUME NEW c \in Comments, StoreComment(h, c) PROVE SearchInv'
  <2> DEFINE n == IF h = "again" \/ c \notin comments THEN 1 ELSE hand[h].new
             new == [hand[h] EXCEPT !.got = @ \ {c}, !.new = n]
  <2>1. n \in {0, 1}  BY <1>t DEF Places
  <2>2. hand' = [hand EXCEPT ![h] = new] /\ hand[h].at = "store"
        /\ UNCHANGED <<run, task, posts, paid, verdict, deleting, wasted>>
        /\ comments' = comments \cup {c}
    BY <1>5, <1>t DEF StoreComment, search, Places
  <2> HIDE DEF n
  <2>3. new \in Places /\ new.at = hand[h].at /\ new.post = hand[h].post
    <3>1. hand[h] \in Places  BY <1>t
    <3> QED  BY <2>1, <3>1, Stored
  <2> HIDE DEF new
  <2>4. OnPost(h)  BY <2>2 DEF OnPost, Collecting
  <2> QED  BY <1>t, <1>s, <2>2, <2>3, <2>4, Moves
<1> QED  BY <1>1, <1>2, <1>3, <1>4, <1>5

\* While nothing is deleted, what is listed for a post was not charged for:
\* no other hand is at work on the post.
LEMMA FreshIsFree ==
  ASSUME SearchInv, deleting.at = "no", NEW h \in Collectors, OnPost(h),
         NEW c \in Comments, PostOf[c] = hand[h].post, verdict[c] # "gemini"
  PROVE  /\ \A g \in Collectors : g # h /\ hand[g].at \in {"call", "record"} => c \notin hand[g].fresh
         /\ \A g \in Collectors : g # h /\ hand[g].at = "record" => c \notin hand[g].got
         /\ hand[h].at # "record" => ~Charged(c) /\ paid[c] <= wasted[c]
<1>1. ASSUME NEW g \in Collectors, g # h, hand[g].at \in {"call", "record"}, c \in hand[g].fresh
      PROVE  FALSE
  BY <1>1 DEF SearchInv, OneHand, OwnComments, OnPost, Collecting
<1>2. ASSUME NEW g \in Collectors, g # h, hand[g].at = "record", c \in hand[g].got
      PROVE  FALSE
  BY <1>1, <1>2 DEF SearchInv, OwnComments
<1>3. ASSUME hand[h].at # "record" PROVE ~Charged(c) /\ paid[c] <= wasted[c]
  <2>1. ~Charged(c)  BY <1>2, <1>3 DEF Charged
  <2> QED  BY <2>1 DEF SearchInv, Accounted, SearchTypeOK
<1> QED  BY <1>1, <1>2, <1>3

LEMMA ListStep ==
  ASSUME SearchInv, NEW h \in Collectors, ListComments(h)
  PROVE  SearchInv'
<1> USE DEF HandAt, Move
<1> DEFINE new == [hand[h] EXCEPT !.at = "call", !.fresh = Fresh(hand[h].post)]
<1>t. /\ hand[h] \in Places /\ hand[h].at = "list" /\ SearchTypeOK /\ hand \in [Collectors -> Places]
      /\ UNCHANGED <<search, found, deleting, crashes>>
      /\ h = "run" => run # "none"
  BY DEF SearchInv, SearchTypeOK, NotBegun, ListComments
<1>1. CASE hand' = [hand EXCEPT ![h] = Left(h)]
  BY <1>1, <1>t, Leaves, Moves DEF search, found, Collecting, SearchTypeOK
<1>2. CASE hand' = [hand EXCEPT ![h] = new]
  <2>1. Fresh(hand[h].post) \in SUBSET Comments  BY <1>t DEF Fresh, SearchTypeOK
  <2>2. /\ new \in Places /\ new.at = "call" /\ new.post = hand[h].post
        /\ new.fresh = Fresh(hand[h].post)
    <3> HIDE DEF Fresh
    <3> QED  BY <1>t, <2>1 DEF Places, Collecting
  <2> HIDE DEF new
  <2>3. hand'[h] = new /\ \A g \in Collectors : g # h => hand'[g] = hand[g]  BY <1>2, <1>t
  <2>4. SearchTypeOK'  BY <1>2, <1>t, <2>2 DEF SearchTypeOK, found, search
  <2>5. NotBegun'  BY <1>t, <2>3, SearchAssumption DEF SearchInv, NotBegun, search
  <2>6. OneHand'  BY <1>t, <2>2, <2>3 DEF SearchInv, OneHand, OnPost, Collecting
  <2>7. ASSUME deleting.at = "no" PROVE OwnComments' /\ Accounted'
    <3>1. OwnComments'
      BY <1>t, <2>2, <2>3, <2>7 DEF SearchInv, OwnComments, Fresh, found
    <3>2. \A c \in Comments : Charged(c)' <=> Charged(c)
      BY <1>t, <2>2, <2>3 DEF Charged, found
    <3>3. Accounted'  BY <1>t, <2>7, <3>2 DEF SearchInv, Accounted, found, search
    <3> QED  BY <3>1, <3>3
  <2> QED  BY <1>t, <2>4, <2>5, <2>6, <2>7 DEF SearchInv
<1> QED  BY <1>1, <1>2 DEF ListComments

\* A comment is charged for when its hand is the only one that may.
LEMMA CallStep ==
  ASSUME SearchInv, NEW h \in Collectors, NEW c \in Comments, CallAI(h, c)
  PROVE  SearchInv'
<1> USE DEF HandAt, Move
<1>p. PICK answer \in {"rules", "gemini"}, taken \in 0..1 :
         /\ taken = 1 => answer = "gemini"
         /\ paid' = [paid EXCEPT ![c] = @ + taken]
         /\ hand' = [hand EXCEPT ![h] = [hand[h] EXCEPT !.at = "record", !.got = {c}, !.answer = answer]]
  BY Zenon DEF CallAI
<1>t. /\ hand[h] \in Places /\ hand[h].at = "call" /\ SearchTypeOK /\ hand \in [Collectors -> Places]
      /\ c \in hand[h].fresh
      /\ UNCHANGED <<search, posts, heard, comments, verdict, deleting>>
  BY DEF SearchInv, SearchTypeOK, CallAI
<1> DEFINE new == [hand[h] EXCEPT !.at = "record", !.got = {c}, !.answer = answer]
<1>2. /\ new \in Places /\ new.at = "record" /\ new.post = hand[h].post
      /\ new.fresh = hand[h].fresh /\ new.got = {c} /\ new.answer = answer
  BY <1>t DEF Places, Collecting
<1> HIDE DEF new
<1>3. hand'[h] = new /\ \A g \in Collectors : g # h => hand'[g] = hand[g]  BY <1>p, <1>t DEF new
<1>4. SearchTypeOK'  BY <1>p, <1>t, <1>2 DEF SearchTypeOK, new, search
<1>5. NotBegun'  BY <1>t, <1>3, SearchAssumption DEF SearchInv, NotBegun, search
<1>6. OneHand'  BY <1>t, <1>2, <1>3 DEF SearchInv, OneHand, OnPost, Collecting
<1>7. ASSUME deleting.at = "no" PROVE OwnComments' /\ Accounted'
  <2>1. OwnComments'
    BY <1>t, <1>2, <1>3, <1>7 DEF SearchInv, OwnComments
  <2>2. PostOf[c] = hand[h].post /\ verdict[c] # "gemini"
    BY <1>t, <1>7 DEF SearchInv, OwnComments
  <2>3. paid[c] <= wasted[c]
    BY <1>t, <1>7, <2>2, FreshIsFree DEF OnPost, Collecting
  <2>4. \A d \in Comments : d # c => (Charged(d)' <=> Charged(d)) /\ paid'[d] = paid[d]
    BY <1>p, <1>t, <1>2, <1>3 DEF Charged, SearchTypeOK
  <2>5. taken = 1 => Charged(c)'
    BY <1>p, <1>2, <1>3 DEF Charged
  <2>6. paid'[c] = paid[c] + taken /\ paid[c] \in Nat /\ wasted[c] \in Nat /\ wasted' = wasted
    BY <1>p, <1>t DEF SearchTypeOK, search
  <2>7. Accounted'
    BY <1>7, <2>3, <2>4, <2>5, <2>6 DEF SearchInv, Accounted
  <2> QED  BY <2>1, <2>7
<1> QED  BY <1>t, <1>4, <1>5, <1>6, <1>7 DEF SearchInv

\* The charge goes into the analysis.
LEMMA RecordStep ==
  ASSUME SearchInv, NEW h \in Collectors, RecordAnalysis(h)
  PROVE  SearchInv'
<1> USE DEF HandAt, Move
<1> DEFINE new == [hand[h] EXCEPT !.at = "call", !.fresh = @ \ hand[h].got, !.got = {}]
<1>t. /\ hand[h] \in Places /\ hand[h].at = "record" /\ SearchTypeOK /\ hand \in [Collectors -> Places]
      /\ hand' = [hand EXCEPT ![h] = new]
      /\ \/ /\ verdict' = [c \in Comments |-> IF c \in hand[h].got THEN hand[h].answer ELSE verdict[c]]
            /\ UNCHANGED wasted
         \/ Wastes(h) /\ UNCHANGED verdict
      /\ UNCHANGED <<run, task, posts, comments, paid, deleting>>
  BY DEF SearchInv, SearchTypeOK, RecordAnalysis
<1>2. /\ new \in Places /\ new.at = "call" /\ new.post = hand[h].post
      /\ new.fresh = hand[h].fresh \ hand[h].got
  BY <1>t DEF Places, Collecting
<1> HIDE DEF new
<1>3. hand'[h] = new /\ \A g \in Collectors : g # h => hand'[g] = hand[g]  BY <1>t
<1>4. SearchTypeOK'  BY <1>t, <1>2 DEF SearchTypeOK, Places, Wastes
<1>5. NotBegun'  BY <1>t, <1>3, SearchAssumption DEF SearchInv, NotBegun
<1>6. OneHand'  BY <1>t, <1>2, <1>3 DEF SearchInv, OneHand, OnPost, Collecting
<1>7. ASSUME deleting.at = "no" PROVE OwnComments' /\ Accounted'
  <2>p. PICK c \in hand[h].fresh : hand[h].got = {c}
    BY <1>t, <1>7 DEF SearchInv, OwnComments
  <2>1. c \in Comments /\ PostOf[c] = hand[h].post /\ verdict[c] # "gemini" /\ OnPost(h)
    BY <1>t, <1>7, <2>p DEF SearchInv, OwnComments, OnPost, Collecting, Places
  <2>2. /\ \A g \in Collectors : g # h /\ hand[g].at \in {"call", "record"} => c \notin hand[g].fresh
        /\ \A g \in Collectors : g # h /\ hand[g].at = "record" => c \notin hand[g].got
    BY <1>7, <2>1, FreshIsFree
  <2>3. \A d \in Comments : d # c => verdict'[d] = verdict[d]
    BY <1>t, <2>p, <2>1
  <2>4. OwnComments'
    <3>1. ASSUME NEW g \in Collectors, g # h PROVE OwnComments!(g)'
      <4>1. hand'[g] = hand[g]  BY <1>3, <3>1
      <4>2. ASSUME hand[g].at \in {"call", "record"}, NEW d \in hand[g].fresh
            PROVE  PostOf[d] = hand[g].post /\ verdict'[d] # "gemini"
        <5>1. d \in Comments  BY <1>t, <3>1 DEF Places
        <5> QED  BY <1>7, <2>2, <2>3, <3>1, <4>2, <5>1 DEF SearchInv, OwnComments
      <4> QED  BY <1>7, <3>1, <4>1, <4>2 DEF SearchInv, OwnComments
    <3>2. OwnComments!(h)'
      <4>1. ASSUME NEW d \in new.fresh PROVE PostOf[d] = new.post /\ verdict'[d] # "gemini"
        <5>1. d \in Comments /\ d # c /\ d \in hand[h].fresh  BY <1>t, <1>2, <2>p, <4>1 DEF Places
        <5> QED  BY <1>t, <1>2, <1>7, <2>3, <5>1 DEF SearchInv, OwnComments
      <4> QED  BY <1>2, <1>3, <4>1
    <3> QED  BY <3>1, <3>2 DEF OwnComments
  <2>5. \A d \in Comments : d # c => (Charged(d)' <=> Charged(d))
    BY <1>t, <1>2, <1>3, <2>p, <2>3 DEF Charged
  <2>8. \A d \in Comments : d # c => wasted'[d] = wasted[d]
    BY <1>t, <2>p DEF Wastes
  <2>9. paid[c] <= wasted'[c] + IF Charged(c)' THEN 1 ELSE 0
    <3>0. paid[c] <= wasted[c] + (IF Charged(c) THEN 1 ELSE 0) /\ paid[c] \in Nat /\ wasted[c] \in Nat
      BY <1>t, <1>7, <2>1 DEF SearchInv, Accounted, SearchTypeOK
    <3>1. hand[h].answer # "gemini" => ~Charged(c)
      BY <1>t, <2>1, <2>2 DEF Charged
    <3>2. CASE verdict'[c] = hand[h].answer /\ UNCHANGED wasted
      <4>1. hand[h].answer = "gemini" => Charged(c)'  BY <3>2 DEF Charged
      <4> QED  BY <3>0, <3>1, <3>2, <4>1
    <3>3. CASE Wastes(h)
      <4>1. wasted'[c] = IF hand[h].answer = "gemini" THEN wasted[c] + 1 ELSE wasted[c]
        BY <1>t, <2>p, <2>1, <3>3 DEF Wastes, HandAt
      <4> QED  BY <3>0, <3>1, <4>1
    <3> QED  BY <1>t, <2>p, <2>1, <3>2, <3>3
  <2>6. Accounted'
    BY <1>t, <1>7, <2>5, <2>8, <2>9 DEF SearchInv, Accounted
  <2> QED  BY <2>4, <2>6
<1> QED  BY <1>t, <1>4, <1>5, <1>6, <1>7 DEF SearchInv

\* What cancels the search or deletes what it found moves no hand.
LEMMA CancelStep ==
  ASSUME SearchInv, CancelSearch \/ DeleteBegins \/ DeleteStep
  PROVE  SearchInv'
<1>1. UNCHANGED <<hand, wasted>> /\ (run' = "none" => run = "none" /\ UNCHANGED task)
  BY DEF CancelSearch, DeleteBegins, DeleteStep
<1>2. NotBegun' /\ OneHand'
  BY <1>1 DEF SearchInv, NotBegun, OneHand, OnPost
<1>3. CASE CancelSearch
  BY <1>1, <1>2, <1>3 DEF CancelSearch, found, SearchInv, SearchTypeOK, OwnComments, Accounted, Charged
<1>4. CASE DeleteBegins
  BY <1>1, <1>2, <1>4 DEF DeleteBegins, found, SearchInv, SearchTypeOK
<1>5. CASE DeleteStep
  <2>1. deleting'.at # "no" /\ deleting' \in [at : {"comments", "leads", "posts", "pages", "run", "done"}, posts : SUBSET Posts]
    BY <1>5 DEF DeleteStep, SearchInv, SearchTypeOK
  <2>2. SearchTypeOK'
    BY <1>1, <1>5, <2>1 DEF DeleteStep, found, SearchInv, SearchTypeOK
  <2> QED  BY <1>2, <2>1, <2>2 DEF SearchInv
<1> QED  BY <1>3, <1>4, <1>5

LEMMA SearchStep == SearchInv /\ [SearchNext]_searchVars /\ ~Overlapping => SearchInv'
<1> SUFFICES ASSUME SearchInv, [SearchNext]_searchVars, ~Overlapping PROVE SearchInv'  OBVIOUS
<1>1. CASE UNCHANGED searchVars
  BY <1>1 DEF searchVars, SearchInv, SearchTypeOK, NotBegun, OneHand, OnPost, OwnComments, Accounted, Charged
<1> QED
  BY <1>1, RunStep, AgainStep, PostStep, ListStep, CallStep, RecordStep, CancelStep DEF SearchNext

\* However often a post is collected and a run resumed, as long as two hands
\* do not work on one post: each comment document is paid for once, and once
\* more for each answer to that very comment that was lost between the charge
\* and the record (analyze_comments_for_post, app/pipeline/comment_ai.py).
THEOREM OncePerCommentCorrect ==
  ASSUME ~Overlapping
  PROVE  SearchSpec => []OncePerComment
<1>1. SearchInv => OncePerComment
  BY DEF SearchInv, SearchTypeOK, Accounted, OncePerComment
<1>2. SearchInv /\ [SearchNext]_searchVars => SearchInv'
  BY SearchStep
<1> QED  BY <1>1, <1>2, SearchStart, PTL DEF SearchSpec
-----------------------------------------------------------------------------
(***************************************************************************)
(* Refunds.  One handler at a time: what it read of the invoice is still   *)
(* there when it writes.  A cumulative event asks for what is missing, so  *)
(* the invoice then says what the event said, and an event is marked only  *)
(* when the invoice says at least that much.                               *)
(***************************************************************************)

Events == [kind : EventKinds, payment : 1 .. Periods, upto : 0 .. Price, minor : 0 .. Price]
States ==
  [pc : {"idle", "find", "read", "write", "pay", "reverse", "mark"},
   event : {[kind |-> "admin"]} \cup Events,
   invoice : 0 .. Periods, asked : Nat, seen : Nat, amount : Nat]
Amounts == [1 .. Periods -> Nat]

RefundsTypeOK ==
  /\ made \in 1 .. Periods
  /\ invoice \in [1 .. Periods ->
       [status : {"paid", "partially_refunded", "refunded"}, refunded : Nat]]
  /\ log \in Amounts /\ reversed \in Amounts /\ returned \in Amounts /\ byAdmin \in Amounts
  /\ payment \in Nat
  /\ events \subseteq Events /\ processed \subseteq Events
  /\ refunder \in [Refunders -> States]

Alone == \A g, h \in Refunders : refunder[g].pc # "idle" /\ refunder[h].pc # "idle" => g = h

\* What the invoices say.
InvoicesAgree ==
  /\ \A i \in 1 .. Periods :
       /\ invoice[i].refunded = log[i] /\ log[i] <= Price /\ reversed[i] <= log[i]
       /\ invoice[i].status = "refunded" => log[i] = Price
       /\ returned[i] <= Price
  /\ payment <= log[1]

\* What a handler has read or written still holds.
HandlerFits(h) ==
  LET r == refunder[h]
      i == refunder[h].invoice IN
  /\ r.pc \in {"read", "write", "pay", "reverse"} => i \in 1 .. made
  /\ r.pc = "write" => r.seen = log[i] /\ r.seen + r.amount <= Price
  /\ r.pc \in {"pay", "reverse"} => reversed[i] + r.amount <= log[i]
  /\ r.pc = "pay" => r.seen + r.amount = log[i]
  /\ r.pc # "idle" /\ r.event.kind # "admin" => r.event \in events
  /\ r.pc \in {"find", "mark"} => r.event.kind # "admin"

\* How far a handler has got with a cumulative event.
EventAdvances(h) ==
  LET r == refunder[h]
      i == refunder[h].invoice IN
  r.event.kind = "cumulative" =>
    /\ r.pc = "read" => r.asked > 0 /\ r.asked + log[i] = r.event.minor
    /\ r.pc = "write" => r.amount + log[i] = r.event.minor
    /\ r.pc \in {"pay", "reverse"} => r.event.minor <= log[i]
    /\ r.pc = "mark" /\ made = 1 => r.event.minor <= log[1]

\* What the provider has said.
ProviderSaid ==
  /\ \A e \in events : e.kind = "cumulative" => e.payment <= made /\ e.minor = e.upto
                                                /\ e.upto <= returned[e.payment]
  /\ \A i \in 1 .. Periods : returned[i] = 0 \/ \E e \in events : e.payment = i /\ e.upto = returned[i]

Totals ==
  /\ made = 1 /\ (\A e \in events : e.kind = "cumulative") => log[1] <= returned[1] + byAdmin[1]
  /\ \A e \in processed : made = 1 /\ e.kind = "cumulative" => e.minor <= log[1]

RefundsInv ==
  /\ RefundsTypeOK /\ Alone /\ InvoicesAgree /\ ProviderSaid /\ Totals
  /\ \A h \in Refunders : HandlerFits(h) /\ EventAdvances(h)

\* The latest of some invoices is one of them.
LEMMA LatestExists ==
  ASSUME NEW set \in SUBSET (1 .. Periods), set # {}
  PROVE  Max(set) \in set
<1> DEFINE left == {Periods - i : i \in set}
<1>1. Periods \in Nat  BY RefundsAssumption
<1>2. left \subseteq Nat /\ left # {}
  <2>1. \A i \in set : Periods - i \in Nat  BY <1>1
  <2> QED  BY <2>1
<1>3. PICK m \in left : \A n \in left : ~(<<n, m>> \in OpToRel(<, Nat))
  BY <1>2, NatLessThanWellFounded, WFMin
<1>4. \A n \in left : m <= n
  <2> SUFFICES ASSUME NEW n \in left, n < m PROVE FALSE  BY <1>2
  <2>1. n \in Nat /\ m \in Nat  BY <1>2
  <2> QED  BY <1>3, <2>1 DEF OpToRel
<1>5. PICK i \in set : m = Periods - i  BY <1>3
<1>6. \A j \in set : i >= j
  <2> SUFFICES ASSUME NEW j \in set PROVE i >= j  OBVIOUS
  <2>1. m <= Periods - j  BY <1>4
  <2> QED  BY <1>1, <1>5, <2>1
<1> QED  BY <1>6 DEF Max

LEMMA RefundsStart == RefundsInit => RefundsInv
<1> SUFFICES ASSUME RefundsInit PROVE RefundsInv  OBVIOUS
<1> USE RefundsAssumption
<1>1. Resting \in States /\ Resting.pc = "idle"  BY DEF Resting, States
<1>2. \A h \in Refunders : refunder[h] = Resting  BY DEF RefundsInit
<1>3. RefundsTypeOK  BY <1>1 DEF RefundsInit, RefundsTypeOK, Amounts
<1>4. Alone  BY <1>1, <1>2 DEF Alone
<1>5. \A h \in Refunders : HandlerFits(h) /\ EventAdvances(h)
  BY <1>1, <1>2 DEF HandlerFits, EventAdvances
<1>6. InvoicesAgree /\ ProviderSaid /\ Totals
  BY DEF RefundsInit, InvoicesAgree, ProviderSaid, Totals
<1> QED  BY <1>3, <1>4, <1>5, <1>6 DEF RefundsInv

\* Who begins, or is at work, does so alone.
LEMMA OthersRest ==
  ASSUME RefundsInv, NEW h \in Refunders, refunder[h].pc # "idle" \/ (MaxRefunders = 1 /\ MayBegin(h))
  PROVE  \A g \in Refunders : g # h => refunder[g].pc = "idle"
<1>1. CASE refunder[h].pc # "idle"
  BY <1>1 DEF RefundsInv, Alone
<1>2. CASE MaxRefunders = 1 /\ MayBegin(h)
  <2>1. IsFiniteSet(Working)
    BY RefundsAssumption, FS_Subset DEF Working
  <2>2. Cardinality(Working) \in Nat /\ Cardinality(Working) < 1
    BY <1>2, <2>1, FS_CardinalityType DEF MayBegin
  <2>3. Working = {}
    BY <2>1, <2>2, FS_EmptySet
  <2> QED  BY <2>3 DEF Working
<1> QED  BY <1>1, <1>2

\* What holds of a handler that is at work is said of it alone.
LEMMA Becomes ==
  ASSUME RefundsInv, NEW h \in Refunders, NEW new \in States, Become(h, new),
         \A g \in Refunders : g # h => refunder[g].pc = "idle"
  PROVE  /\ refunder' \in [Refunders -> States] /\ refunder'[h] = new
         /\ Alone'
         /\ \A g \in Refunders : g # h => HandlerFits(g)' /\ EventAdvances(g)'
<1>1. refunder' \in [Refunders -> States] /\ refunder'[h] = new
      /\ \A g \in Refunders : g # h => refunder'[g] = refunder[g]
  BY DEF RefundsInv, RefundsTypeOK, Become
<1> QED  BY <1>1 DEF Alone, HandlerFits, EventAdvances

LEMMA RenewStep == RefundsInv /\ RenewInvoice => RefundsInv'
<1> SUFFICES ASSUME RefundsInv, RenewInvoice PROVE RefundsInv'  OBVIOUS
<1> USE RefundsAssumption
<1>1. /\ made' = made + 1 /\ made \in 1 .. Periods /\ made' \in 1 .. Periods /\ made' # 1
      /\ UNCHANGED <<invoice, log, payment, reversed, byAdmin, returned, events, processed, refunder>>
  BY DEF RefundsInv, RefundsTypeOK, RenewInvoice, outside
<1>2. RefundsTypeOK' /\ Alone' /\ InvoicesAgree' /\ Totals'
  BY <1>1 DEF RefundsInv, RefundsTypeOK, Alone, InvoicesAgree, Totals
<1>3. ProviderSaid'
  BY <1>1 DEF RefundsInv, RefundsTypeOK, Events, ProviderSaid
<1>4. \A h \in Refunders : HandlerFits(h)' /\ EventAdvances(h)'
  BY <1>1 DEF RefundsInv, RefundsTypeOK, States, HandlerFits, EventAdvances
<1> QED  BY <1>2, <1>3, <1>4 DEF RefundsInv

LEMMA ReturnStep ==
  ASSUME RefundsInv, NEW i \in 1 .. Periods, NEW n \in 1 .. Price, NEW kind \in EventKinds,
         ProviderReturns(i, n, kind)
  PROVE  RefundsInv'
<1> USE RefundsAssumption
<1> DEFINE e == [kind |-> kind, payment |-> i, upto |-> returned'[i],
                 minor |-> IF kind = "cumulative" THEN returned'[i] ELSE n]
<1>1. /\ made \in 1 .. Periods /\ i <= made /\ returned[i] \in Nat /\ returned[i] + n <= Price
      /\ returned' \in Amounts /\ returned'[i] = returned[i] + n
      /\ \A j \in 1 .. Periods : j # i => returned'[j] = returned[j]
  <2>1. made \in 1 .. Periods /\ returned \in Amounts  BY DEF RefundsInv, RefundsTypeOK
  <2>2. /\ i <= made /\ returned[i] + n <= Price /\ returned' = [returned EXCEPT ![i] = @ + n]
    BY DEF ProviderReturns
  <2>3. returned[i] \in Nat /\ returned[i] + n \in Nat  BY <2>1 DEF Amounts
  <2> QED  BY <2>1, <2>2, <2>3 DEF Amounts
<1>2. /\ UNCHANGED <<made, invoice, log, payment, reversed, byAdmin, processed, refunder>>
      /\ events' = events \cup {e}
  BY DEF ProviderReturns, books
<1>3. returned'[i] \in 0 .. Price /\ e.minor \in 0 .. Price  BY <1>1
<1>4. /\ e \in Events /\ e.kind = kind /\ e.payment = i /\ e.upto = returned'[i]
      /\ kind = "cumulative" => e.minor = returned'[i]
  BY <1>3 DEF Events
<1> HIDE DEF e
<1>5. RefundsTypeOK'
  BY <1>1, <1>2, <1>4 DEF RefundsInv, RefundsTypeOK
<1>6. Alone' /\ InvoicesAgree'
  BY <1>1, <1>2 DEF RefundsInv, Alone, InvoicesAgree
<1>7. ProviderSaid'
  <2>1. \A f \in events : f.payment \in 1 .. Periods /\ f.upto \in Nat  BY DEF RefundsInv, RefundsTypeOK, Events
  <2>2. \A j \in 1 .. Periods : returned[j] \in Nat /\ returned'[j] \in Nat /\ returned[j] <= returned'[j]
    <3> SUFFICES ASSUME NEW j \in 1 .. Periods
                 PROVE  returned[j] \in Nat /\ returned'[j] \in Nat /\ returned[j] <= returned'[j]
      OBVIOUS
    <3>1. returned \in Amounts  BY DEF RefundsInv, RefundsTypeOK
    <3>2. returned[j] \in Nat /\ returned'[j] \in Nat  BY <1>1, <3>1 DEF Amounts
    <3>3. returned'[j] = returned[j] \/ returned'[j] = returned[j] + n  BY <1>1
    <3> QED  BY <3>2, <3>3
  <2>3. \A f \in events' : f.kind = "cumulative" =>
           f.payment <= made' /\ f.minor = f.upto /\ f.upto <= returned'[f.payment]
    BY <1>1, <1>2, <1>4, <2>1, <2>2 DEF RefundsInv, ProviderSaid
  <2>4. \A j \in 1 .. Periods :
           returned'[j] = 0 \/ \E f \in events' : f.payment = j /\ f.upto = returned'[j]
    BY <1>1, <1>2, <1>4 DEF RefundsInv, ProviderSaid
  <2> QED  BY <2>3, <2>4 DEF ProviderSaid
<1>8. Totals'
  <2>0. 1 \in 1 .. Periods /\ returned \in Amounts /\ log \in Amounts /\ byAdmin \in Amounts
    BY DEF RefundsInv, RefundsTypeOK
  <2>2. /\ returned[1] \in Nat /\ returned'[1] \in Nat
        /\ log[1] \in Nat /\ byAdmin[1] \in Nat
    BY <1>1, <2>0 DEF Amounts
  <2>3. returned'[1] = returned[1] \/ returned'[1] = returned[1] + n
    BY <1>1, <2>0
  <2>1. returned[1] \in Nat /\ returned'[1] \in Nat /\ returned[1] <= returned'[1]
        /\ log[1] \in Nat /\ byAdmin[1] \in Nat
    BY <2>2, <2>3
  <2> QED  BY <1>2, <2>1 DEF RefundsInv, Totals
<1>9. \A h \in Refunders : HandlerFits(h)' /\ EventAdvances(h)'
  BY <1>2 DEF RefundsInv, HandlerFits, EventAdvances
<1> QED  BY <1>5, <1>6, <1>7, <1>8, <1>9 DEF RefundsInv

\* A handler goes on without writing anything but the mark of its event.
LEMMA ReadingStep ==
  ASSUME RefundsInv, NEW h \in Refunders, NEW new \in States, Become(h, new),
         \A g \in Refunders : g # h => refunder[g].pc = "idle",
         UNCHANGED <<books, outside>>, processed' \subseteq Events, Totals',
         HandlerFits(h)', EventAdvances(h)'
  PROVE  RefundsInv'
<1>1. RefundsTypeOK'
  BY Becomes DEF RefundsInv, RefundsTypeOK, books, outside
<1>2. InvoicesAgree' /\ ProviderSaid'
  BY DEF RefundsInv, InvoicesAgree, ProviderSaid, books, outside
<1> QED  BY <1>1, <1>2, Becomes DEF RefundsInv

\* An idle handler, and one that gives up.
LEMMA RestingFits ==
  ASSUME RefundsInv, NEW h \in Refunders, refunder'[h].pc = "idle"
  PROVE  HandlerFits(h)' /\ EventAdvances(h)'
BY DEF HandlerFits, EventAdvances

\* What a handler becomes.
Points == {"idle", "find", "read", "write", "pay", "reverse", "mark"}
Asking(r, at, i, n) == [r EXCEPT !.pc = at, !.invoice = i, !.asked = n]
Planning(r, sum, n) == [r EXCEPT !.pc = "write", !.seen = sum, !.amount = n]
Delivering(r, e) == [r EXCEPT !.pc = "find", !.event = e]
At(r, at) == [r EXCEPT !.pc = at]

LEMMA AtIs ==
  ASSUME NEW r \in States, NEW at \in Points
  PROVE  /\ At(r, at) \in States /\ At(r, at).pc = at /\ At(r, at).event = r.event
         /\ At(r, at).invoice = r.invoice /\ At(r, at).asked = r.asked
         /\ At(r, at).seen = r.seen /\ At(r, at).amount = r.amount
BY DEF States, Points, At

LEMMA AskingIs ==
  ASSUME NEW r \in States, NEW at \in Points, NEW i \in 0 .. Periods, NEW n \in Nat
  PROVE  /\ Asking(r, at, i, n) \in States /\ Asking(r, at, i, n).pc = at
         /\ Asking(r, at, i, n).event = r.event /\ Asking(r, at, i, n).invoice = i
         /\ Asking(r, at, i, n).asked = n
<1> DEFINE s1 == [r EXCEPT !.pc = at]
           s2 == [s1 EXCEPT !.invoice = i]
           s3 == [s2 EXCEPT !.asked = n]
<1>1. s1 \in States /\ s1.pc = at /\ s1.event = r.event  BY DEF States, Points
<1> HIDE DEF s1
<1>2. s2 \in States /\ s2.pc = at /\ s2.event = r.event /\ s2.invoice = i  BY <1>1 DEF States
<1> HIDE DEF s2
<1>3. s3 \in States /\ s3.pc = at /\ s3.event = r.event /\ s3.invoice = i /\ s3.asked = n
  BY <1>2 DEF States
<1>4. s3 = Asking(r, at, i, n)  BY DEF s1, s2, Asking
<1> QED  BY <1>3, <1>4

LEMMA PlanningIs ==
  ASSUME NEW r \in States, NEW sum \in Nat, NEW n \in Nat
  PROVE  /\ Planning(r, sum, n) \in States /\ Planning(r, sum, n).pc = "write"
         /\ Planning(r, sum, n).event = r.event /\ Planning(r, sum, n).invoice = r.invoice
         /\ Planning(r, sum, n).seen = sum /\ Planning(r, sum, n).amount = n
<1> DEFINE s1 == [r EXCEPT !.pc = "write"]
           s2 == [s1 EXCEPT !.seen = sum]
           s3 == [s2 EXCEPT !.amount = n]
<1>1. s1 \in States /\ s1.pc = "write" /\ s1.event = r.event /\ s1.invoice = r.invoice  BY DEF States
<1> HIDE DEF s1
<1>2. /\ s2 \in States /\ s2.pc = "write" /\ s2.event = r.event /\ s2.invoice = r.invoice
      /\ s2.seen = sum
  BY <1>1 DEF States
<1> HIDE DEF s2
<1>3. /\ s3 \in States /\ s3.pc = "write" /\ s3.event = r.event /\ s3.invoice = r.invoice
      /\ s3.seen = sum /\ s3.amount = n
  BY <1>2 DEF States
<1>4. s3 = Planning(r, sum, n)  BY DEF s1, s2, Planning
<1> QED  BY <1>3, <1>4

LEMMA DeliveringIs ==
  ASSUME NEW r \in States, NEW e \in Events
  PROVE  /\ Delivering(r, e) \in States /\ Delivering(r, e).pc = "find"
         /\ Delivering(r, e).event = e
BY DEF States, Delivering

LEMMA RestingIs == Resting \in States /\ Resting.pc = "idle" /\ Resting.event = [kind |-> "admin"]
BY RefundsAssumption DEF Resting, States

\* A handler that is done with the refund.
LEMMA AfterIs ==
  ASSUME NEW r \in States
  PROVE  /\ After(r) \in States
         /\ \/ After(r).pc = "idle"
            \/ After(r).pc = "mark" /\ After(r).event = r.event /\ r.event.kind # "admin"
<1>1. After(r) = IF r.event.kind = "admin" THEN Resting ELSE At(r, "mark")  BY DEF After, At
<1> QED  BY <1>1, AtIs, RestingIs DEF Points

LEMMA BeginStep ==
  ASSUME RefundsInv, MaxRefunders = 1, NEW h \in Refunders,
         \/ \E i \in 1 .. Periods, n \in 0 .. Price : AdminRefund(h, i, n)
         \/ \E e \in events : Deliver(h, e)
  PROVE  RefundsInv'
<1> USE RefundsAssumption
<1>1. Totals'
  BY DEF RefundsInv, Totals, AdminRefund, Deliver, books, outside

<1>3. ASSUME NEW i \in 1 .. Periods, NEW n \in 0 .. Price, AdminRefund(h, i, n) PROVE RefundsInv'
  <2> DEFINE new == Asking(Resting, "read", i, n)
  <2>1. new \in States /\ new.pc = "read" /\ new.invoice = i /\ new.event = [kind |-> "admin"]
    <3>1. i \in 0 .. Periods /\ n \in Nat /\ "read" \in Points  BY DEF Points
    <3> QED  BY <3>1, RestingIs, AskingIs
  <2>2. Become(h, new) /\ UNCHANGED <<books, outside, processed>> /\ i <= made /\ MayBegin(h)
    BY <1>3 DEF AdminRefund, Asking
  <2> HIDE DEF new
  <2>3. \A g \in Refunders : g # h => refunder[g].pc = "idle"  BY <2>2, OthersRest
  <2>4. refunder'[h] = new /\ made' = made /\ made \in Nat
    BY <2>1, <2>2, <2>3, Becomes DEF RefundsInv, RefundsTypeOK, books
  <2>5. HandlerFits(h)' /\ EventAdvances(h)'
    BY <2>1, <2>2, <2>4 DEF HandlerFits, EventAdvances
  <2> QED  BY <1>1, <2>1, <2>2, <2>3, <2>5, ReadingStep DEF RefundsInv, RefundsTypeOK
<1>4. ASSUME NEW e \in events, Deliver(h, e) PROVE RefundsInv'
  <2> DEFINE new == Delivering(Resting, e)
  <2>0. e \in Events /\ e.kind # "admin"  BY DEF RefundsInv, RefundsTypeOK, Events
  <2>1. new \in States /\ new.pc = "find" /\ new.event = e
    BY <2>0, RestingIs, DeliveringIs
  <2>2. Become(h, new) /\ UNCHANGED <<books, outside, processed>> /\ MayBegin(h)
    BY <1>4 DEF Deliver, Delivering
  <2> HIDE DEF new
  <2>3. \A g \in Refunders : g # h => refunder[g].pc = "idle"  BY <2>2, OthersRest
  <2>4. refunder'[h] = new /\ events' = events
    BY <2>1, <2>2, <2>3, Becomes DEF outside
  <2>5. HandlerFits(h)' /\ EventAdvances(h)'
    BY <2>0, <2>1, <2>4 DEF HandlerFits, EventAdvances
  <2> QED  BY <1>1, <2>1, <2>2, <2>3, <2>5, ReadingStep DEF RefundsInv, RefundsTypeOK
<1> QED  BY <1>3, <1>4

\* What a handler at work can rely on.
Written(i) ==
  /\ log[i] \in Nat /\ reversed[i] \in Nat /\ returned[i] \in Nat /\ byAdmin[i] \in Nat
  /\ invoice[i].refunded = log[i] /\ log[i] <= Price /\ reversed[i] <= log[i]
  /\ invoice[i].status \in {"paid", "partially_refunded", "refunded"}
  /\ invoice[i].status = "refunded" => log[i] = Price

LEMMA AtWork ==
  ASSUME RefundsInv, NEW h \in Refunders, refunder[h].pc # "idle"
  PROVE  /\ refunder[h] \in States /\ (refunder[h].event.kind # "admin" => refunder[h].event \in Events)
         /\ \A g \in Refunders : g # h => refunder[g].pc = "idle"
         /\ HandlerFits(h) /\ EventAdvances(h)
         /\ made \in 1 .. Periods /\ Price \in Nat /\ 1 \in 1 .. Periods
         /\ \A i \in 1 .. Periods : Written(i)
<1>1. \A g \in Refunders : g # h => refunder[g].pc = "idle"  BY OthersRest
<1>2. /\ refunder[h] \in States /\ HandlerFits(h) /\ EventAdvances(h) /\ made \in 1 .. Periods
      /\ log \in Amounts /\ reversed \in Amounts /\ returned \in Amounts /\ byAdmin \in Amounts
      /\ invoice \in [1 .. Periods ->
           [status : {"paid", "partially_refunded", "refunded"}, refunded : Nat]]
  BY DEF RefundsInv, RefundsTypeOK
<1>3. refunder[h].event.kind # "admin" => refunder[h].event \in Events
  BY <1>2 DEF States
<1>4. Price \in Nat /\ 1 \in 1 .. Periods  BY RefundsAssumption
<1>5. ASSUME NEW i \in 1 .. Periods PROVE Written(i)
  <2>1. log[i] \in Nat /\ reversed[i] \in Nat /\ returned[i] \in Nat /\ byAdmin[i] \in Nat
    BY <1>2 DEF Amounts
  <2>2. invoice[i].status \in {"paid", "partially_refunded", "refunded"}
    BY <1>2
  <2> QED  BY <2>1, <2>2 DEF RefundsInv, InvoicesAgree, Written
<1> QED  BY <1>1, <1>2, <1>3, <1>4, <1>5

\* An event asks for what an open invoice does not yet say; if none is open,
\* or nothing is missing, it is done.
LEMMA FindStep ==
  ASSUME RefundsInv, NEW h \in Refunders, FindInvoice(h)
  PROVE  RefundsInv'
<1> DEFINE r == refunder[h]
           open == {i \in 1 .. Periods : Refundable(i)}
           part == NewPart(r.event, Max(open))
<1>1. r.pc = "find" /\ UNCHANGED <<books, outside, processed>>  BY DEF FindInvoice
<1>w. /\ r \in States /\ HandlerFits(h) /\ made \in 1 .. Periods /\ Price \in Nat
      /\ 1 \in 1 .. Periods /\ Periods \in Nat
      /\ \A i \in 1 .. Periods : Written(i)
      /\ \A g \in Refunders : g # h => refunder[g].pc = "idle"
  BY <1>1, AtWork, RefundsAssumption
<1>2. r.event \in events /\ r.event \in Events /\ r.event.kind # "admin"
  BY <1>1, AtWork DEF HandlerFits
<1>3. Totals'  BY <1>1 DEF RefundsInv, Totals, books, outside
<1>4. UNCHANGED <<made, invoice, log, payment, reversed, byAdmin, returned, events>>
  BY <1>1 DEF books, outside
<1>5. /\ r.event.minor \in 0 .. Price /\ r.event.kind \in EventKinds
      /\ r.event.payment \in 1 .. Periods
  BY <1>2 DEF Events
<1>a. CASE Become(h, After(r)) /\ (open = {} \/ part <= 0)
  <2>1. After(r) \in States /\ After(r).pc = "mark" /\ After(r).event = r.event
    <3>1. After(r) = At(r, "mark")  BY <1>2 DEF After, At
    <3>2. "mark" \in Points  BY DEF Points
    <3> QED  BY <1>w, <3>1, <3>2, AtIs
  <2>2. refunder'[h] = After(r)  BY <1>a, <1>w, <2>1, Becomes
  <2>3. r.event.kind = "cumulative" /\ made = 1 => r.event.minor <= log[1]
    <3> SUFFICES ASSUME r.event.kind = "cumulative", made = 1 PROVE r.event.minor <= log[1]  OBVIOUS
    <3>1. CASE open = {}
      <4>1. ~Refundable(1)  BY <1>w, <3>1
      <4>2. invoice[1].status = "refunded"  BY <1>w, <4>1 DEF Refundable, Written
      <4> QED  BY <1>5, <1>w, <4>2 DEF Written
    <3>2. CASE open # {} /\ part <= 0
      <4>1. Max(open) \in open  BY <3>2, LatestExists
      <4>2. Max(open) = 1  BY <1>w, <4>1 DEF Refundable
      <4>3. r.event.minor - invoice[1].refunded <= 0  BY <3>2, <4>2 DEF NewPart
      <4>4. invoice[1].refunded = log[1] /\ log[1] \in Nat  BY <1>w DEF Written
      <4> QED  BY <1>5, <4>3, <4>4
    <3> QED  BY <1>a, <3>1, <3>2
  <2>4. HandlerFits(h)' /\ EventAdvances(h)'
    BY <1>2, <1>4, <2>1, <2>2, <2>3 DEF HandlerFits, EventAdvances
  <2> QED  BY <1>a, <1>1, <1>3, <1>w, <2>1, <2>4, ReadingStep DEF RefundsInv, RefundsTypeOK
<1>b. CASE Become(h, Asking(r, "read", Max(open), part)) /\ open # {} /\ part \in Int /\ part > 0
  <2> DEFINE new == Asking(r, "read", Max(open), part)
  <2>1. Max(open) \in 1 .. made /\ Max(open) \in 1 .. Periods /\ Max(open) \in 0 .. Periods
    <3>1. Max(open) \in open  BY <1>b, LatestExists
    <3>2. Max(open) \in 1 .. Periods /\ Max(open) <= made  BY <3>1 DEF Refundable
    <3> QED  BY <1>w, <3>2
  <2>2. log[Max(open)] \in Nat /\ invoice[Max(open)].refunded = log[Max(open)]
    BY <1>w, <2>1 DEF Written
  <2>3. /\ part \in Nat
        /\ r.event.kind = "cumulative" => part + log[Max(open)] = r.event.minor
    BY <1>b, <1>5, <2>2 DEF NewPart
  <2> HIDE DEF part, open
  <2>4. /\ new \in States /\ new.pc = "read" /\ new.event = r.event /\ new.invoice = Max(open)
        /\ new.asked = part
    <3>1. "read" \in Points  BY DEF Points
    <3>2. r \in States /\ Max(open) \in 0 .. Periods /\ part \in Nat  BY <1>w, <2>1, <2>3
    <3>3. \A m \in 0 .. Periods, k \in Nat :
             /\ Asking(r, "read", m, k) \in States /\ Asking(r, "read", m, k).pc = "read"
             /\ Asking(r, "read", m, k).event = r.event /\ Asking(r, "read", m, k).invoice = m
             /\ Asking(r, "read", m, k).asked = k
      BY <3>1, <3>2, AskingIs
    <3> QED  BY <3>2, <3>3
  <2> HIDE DEF new
  <2>5. Become(h, new)  BY <1>b DEF new
  <2>6. refunder'[h] = new  BY <1>w, <2>4, <2>5, Becomes
  <2>7. HandlerFits(h)' /\ EventAdvances(h)'
    BY <1>b, <1>2, <1>4, <2>1, <2>3, <2>4, <2>6 DEF HandlerFits, EventAdvances
  <2> QED  BY <1>1, <1>3, <1>w, <2>4, <2>5, <2>7, ReadingStep DEF RefundsInv, RefundsTypeOK
<1>c. \/ Become(h, After(r)) /\ (open = {} \/ part <= 0)
      \/ Become(h, Asking(r, "read", Max(open), part)) /\ open # {} /\ ~(part <= 0)
  BY DEF FindInvoice, Asking, Become
<1>d. open # {} => part \in Int
  <2> SUFFICES ASSUME open # {} PROVE part \in Int  OBVIOUS
  <2>1. Max(open) \in 1 .. Periods  BY LatestExists
  <2>2. invoice[Max(open)].refunded \in Nat  BY <1>w, <2>1 DEF Written
  <2> QED  BY <1>5, <2>2 DEF NewPart
<1> QED  BY <1>a, <1>b, <1>c, <1>d

\* What is left on the invoice is read; the amount is never more than that.
LEMMA ReadStep ==
  ASSUME RefundsInv, NEW h \in Refunders, ReadInvoice(h)
  PROVE  RefundsInv'
<1> DEFINE r == refunder[h]
           left == Price - invoice[r.invoice].refunded
           amount == IF r.asked = 0 THEN left ELSE r.asked
           new == Planning(r, Price - left, amount)
<1>1. r.pc = "read" /\ UNCHANGED <<books, outside, processed>>  BY DEF ReadInvoice
<1>w. /\ r \in States /\ HandlerFits(h) /\ EventAdvances(h) /\ made \in 1 .. Periods /\ Price \in Nat
      /\ Periods \in Nat
      /\ \A i \in 1 .. Periods : Written(i)
      /\ \A g \in Refunders : g # h => refunder[g].pc = "idle"
      /\ r.event.kind # "admin" => r.event \in Events /\ r.event \in events
  BY <1>1, AtWork, RefundsAssumption DEF HandlerFits
<1>3. Totals'  BY <1>1 DEF RefundsInv, Totals, books, outside
<1>4. UNCHANGED <<made, invoice, log, payment, reversed, byAdmin, returned, events>>
  BY <1>1 DEF books, outside
<1>5. /\ r.invoice \in 1 .. made /\ r.invoice \in 1 .. Periods /\ Written(r.invoice)
      /\ log[r.invoice] \in Nat /\ left = Price - log[r.invoice] /\ left \in Nat
      /\ r.asked \in Nat
  <2>1. r.invoice \in 1 .. made /\ r.asked \in Nat  BY <1>1, <1>w DEF HandlerFits, States
  <2>2. r.invoice \in 1 .. Periods  BY <1>w, <2>1
  <2> QED  BY <1>w, <2>1, <2>2 DEF Written
<1>a. CASE Become(h, After(r)) /\ left <= 0
  <2>1. log[r.invoice] = Price  BY <1>5, <1>a, <1>w DEF Written
  <2>2. After(r) \in States /\ refunder'[h] = After(r)  BY <1>a, <1>w, AfterIs, Becomes
  <2>3. r.event.kind = "cumulative" /\ made = 1 => r.event.minor <= log[1]
    <3>1. r.event.kind = "cumulative" => r.event.minor \in 0 .. Price  BY <1>w DEF Events
    <3>2. made = 1 => r.invoice = 1  BY <1>5
    <3> QED  BY <1>w, <2>1, <3>1, <3>2
  <2>4. CASE After(r).pc = "idle"
    BY <1>a, <1>1, <1>3, <1>w, <2>2, <2>4, RestingFits, ReadingStep DEF RefundsInv, RefundsTypeOK
  <2>5. CASE After(r).pc = "mark" /\ After(r).event = r.event /\ r.event.kind # "admin"
    <3>1. HandlerFits(h)' /\ EventAdvances(h)'
      BY <1>4, <1>w, <2>2, <2>3, <2>5 DEF HandlerFits, EventAdvances
    <3> QED  BY <1>a, <1>1, <1>3, <1>w, <2>2, <3>1, ReadingStep DEF RefundsInv, RefundsTypeOK
  <2> QED  BY <1>w, <2>4, <2>5, AfterIs
<1>b. CASE Become(h, Resting)
  <2>1. refunder'[h] = Resting  BY <1>b, <1>w, RestingIs, Becomes
  <2> QED  BY <1>b, <1>1, <1>3, <1>w, <2>1, RestingIs, RestingFits, ReadingStep DEF RefundsInv, RefundsTypeOK
<1>c. CASE Become(h, new) /\ left > 0 /\ ~(amount > left)
  <2>1. /\ amount \in Nat /\ Price - left = log[r.invoice] /\ Price - left \in Nat
        /\ log[r.invoice] + amount <= Price
        /\ r.event.kind = "cumulative" => amount + log[r.invoice] = r.event.minor
    BY <1>c, <1>1, <1>5, <1>w DEF EventAdvances
  <2> HIDE DEF left, amount
  <2>2. /\ new \in States /\ new.pc = "write" /\ new.event = r.event /\ new.invoice = r.invoice
        /\ new.seen = log[r.invoice] /\ new.amount = amount
    <3>1. \A m \in Nat, k \in Nat :
             /\ Planning(r, m, k) \in States /\ Planning(r, m, k).pc = "write"
             /\ Planning(r, m, k).event = r.event /\ Planning(r, m, k).invoice = r.invoice
             /\ Planning(r, m, k).seen = m /\ Planning(r, m, k).amount = k
      BY <1>w, PlanningIs
    <3> QED  BY <2>1, <3>1
  <2> HIDE DEF new
  <2>3. refunder'[h] = new  BY <1>c, <1>w, <2>2, Becomes
  <2>4. HandlerFits(h)' /\ EventAdvances(h)'
    BY <1>4, <1>5, <1>w, <2>1, <2>2, <2>3 DEF HandlerFits, EventAdvances
  <2> QED  BY <1>c, <1>1, <1>3, <1>w, <2>2, <2>4, ReadingStep DEF RefundsInv, RefundsTypeOK
<1>d. \/ Become(h, After(r)) /\ left <= 0
      \/ Become(h, Resting)
      \/ Become(h, new) /\ left > 0 /\ ~(amount > left)
  <2>1. Become(h, CASE left <= 0 -> After(r)
                    [] left > 0 /\ amount > left -> Resting
                    [] OTHER -> new)
    BY DEF ReadInvoice, Planning
  <2>2. left \in Nat  BY <1>5
  <2> HIDE DEF left, amount, new, r
  <2>3. CASE left <= 0
    BY <2>1, <2>3
  <2>4. CASE left > 0 /\ amount > left
    <3>1. ~(left <= 0)  BY <2>2, <2>4
    <3> QED  BY <2>1, <2>4, <3>1
  <2>5. CASE ~(left <= 0) /\ ~(left > 0 /\ amount > left)
    <3>1. left > 0 /\ ~(amount > left)  BY <2>2, <2>5
    <3> QED  BY <2>1, <2>5, <3>1
  <2> QED  BY <2>3, <2>4, <2>5
<1> QED  BY <1>a, <1>b, <1>c, <1>d

\* The invoice, its list of refunds and its status change together.
LEMMA WriteStep ==
  ASSUME RefundsInv, NEW h \in Refunders, WriteInvoice(h)
  PROVE  RefundsInv'
<1> DEFINE r == refunder[h]
           sum == r.seen + r.amount
           i == r.invoice
           new == At(r, "pay")
<1>1. /\ r.pc = "write" /\ UNCHANGED <<made, payment, reversed, returned, events, processed>>
      /\ invoice' = [invoice EXCEPT ![i] =
           [status |-> IF sum >= Price THEN "refunded" ELSE "partially_refunded", refunded |-> sum]]
      /\ log' = [log EXCEPT ![i] = @ + r.amount]
      /\ byAdmin' = [byAdmin EXCEPT ![i] = @ + IF r.event.kind = "admin" THEN r.amount ELSE 0]
      /\ Become(h, new)
  BY DEF WriteInvoice, Goto, At, outside
<1>w. /\ r \in States /\ HandlerFits(h) /\ EventAdvances(h) /\ made \in 1 .. Periods /\ Price \in Nat
      /\ Periods \in Nat /\ 1 \in 1 .. Periods
      /\ \A j \in 1 .. Periods : Written(j)
      /\ \A g \in Refunders : g # h => refunder[g].pc = "idle"
      /\ r.event.kind # "admin" => r.event \in Events /\ r.event \in events
  BY <1>1, AtWork, RefundsAssumption DEF HandlerFits
<1>2. /\ i \in 1 .. made /\ i \in 1 .. Periods /\ r.amount \in Nat /\ r.seen = log[i]
      /\ log[i] \in Nat /\ sum = log[i] + r.amount /\ sum \in Nat /\ sum <= Price
      /\ r.event.kind = "cumulative" => sum = r.event.minor
  <2>1. i \in 1 .. made /\ r.amount \in Nat /\ r.seen = log[i] /\ sum <= Price
    BY <1>1, <1>w DEF HandlerFits, States
  <2>2. i \in 1 .. Periods  BY <1>w, <2>1
  <2>3. log[i] \in Nat  BY <1>w, <2>2 DEF Written
  <2> QED  BY <1>1, <1>w, <2>1, <2>2, <2>3 DEF EventAdvances
<1>3. /\ log \in Amounts /\ byAdmin \in Amounts
      /\ invoice \in [1 .. Periods ->
           [status : {"paid", "partially_refunded", "refunded"}, refunded : Nat]]
  BY DEF RefundsInv, RefundsTypeOK
<1>4. /\ new \in States /\ new.pc = "pay" /\ new.event = r.event /\ new.invoice = i
      /\ new.seen = r.seen /\ new.amount = r.amount
  BY <1>w, AtIs DEF Points
<1> HIDE DEF new
<1>5. refunder'[h] = new  BY <1>1, <1>4, <1>w, Becomes
<1>6. /\ log' \in Amounts /\ log'[i] = sum
      /\ \A j \in 1 .. Periods : j # i => log'[j] = log[j]
  BY <1>1, <1>2, <1>3 DEF Amounts
<1>7. /\ byAdmin' \in Amounts
      /\ byAdmin'[i] = byAdmin[i] + IF r.event.kind = "admin" THEN r.amount ELSE 0
      /\ \A j \in 1 .. Periods : j # i => byAdmin'[j] = byAdmin[j]
  <2>1. byAdmin[i] \in Nat  BY <1>2, <1>3 DEF Amounts
  <2>2. byAdmin[i] + (IF r.event.kind = "admin" THEN r.amount ELSE 0) \in Nat  BY <1>2, <2>1
  <2> QED  BY <1>1, <1>2, <1>3, <2>2 DEF Amounts
<1> DEFINE status == IF sum >= Price THEN "refunded" ELSE "partially_refunded"
           entry == [status |-> status, refunded |-> sum]
<1>8. /\ entry \in [status : {"paid", "partially_refunded", "refunded"}, refunded : Nat]
      /\ entry.refunded = sum /\ (entry.status = "refunded" => sum >= Price)
  BY <1>2
<1>9. /\ invoice' \in [1 .. Periods ->
           [status : {"paid", "partially_refunded", "refunded"}, refunded : Nat]]
      /\ invoice'[i] = entry
      /\ \A j \in 1 .. Periods : j # i => invoice'[j] = invoice[j]
  <2> HIDE DEF entry
  <2>1. invoice' = [invoice EXCEPT ![i] = entry]  BY <1>1 DEF entry
  <2> QED  BY <1>2, <1>3, <1>8, <2>1
<1> HIDE DEF entry, status
<1>10. RefundsTypeOK'
  BY <1>1, <1>4, <1>6, <1>7, <1>9, <1>w, Becomes DEF RefundsInv, RefundsTypeOK
<1> HIDE DEF sum
<1>11. InvoicesAgree'
  <2>1. ASSUME NEW j \in 1 .. Periods
        PROVE  /\ invoice'[j].refunded = log'[j] /\ log'[j] <= Price /\ reversed'[j] <= log'[j]
               /\ invoice'[j].status = "refunded" => log'[j] = Price
               /\ returned'[j] <= Price
    <3>1. Written(j) /\ returned[j] <= Price  BY <1>w DEF RefundsInv, InvoicesAgree
    <3>2. CASE j # i
      BY <1>1, <1>6, <1>9, <3>1, <3>2 DEF Written
    <3>3. CASE j = i
      BY <1>1, <1>2, <1>6, <1>8, <1>9, <1>w, <3>1, <3>3 DEF Written
    <3> QED  BY <3>2, <3>3
  <2>2. payment' <= log'[1]
    <3>1. payment \in Nat /\ payment <= log[1]  BY DEF RefundsInv, RefundsTypeOK, InvoicesAgree
    <3>2. log[1] \in Nat  BY <1>w DEF Written
    <3> QED  BY <1>1, <1>2, <1>6, <1>w, <3>1, <3>2
  <2> QED  BY <2>1, <2>2 DEF InvoicesAgree
<1>12. ProviderSaid'
  BY <1>1 DEF RefundsInv, ProviderSaid
<1>13. Totals'
  <2>1. log[1] \in Nat /\ byAdmin[1] \in Nat /\ returned[1] \in Nat  BY <1>w DEF Written
  <2>2. log[1] <= log'[1]  BY <1>2, <1>6, <1>w, <2>1
  <2>3. \A e \in processed : made = 1 /\ e.kind = "cumulative" => e.minor \in Nat
    BY DEF RefundsInv, RefundsTypeOK, Events
  <2>4. ASSUME made = 1, \A e \in events : e.kind = "cumulative"
        PROVE  log'[1] <= returned[1] + byAdmin'[1]
    <3>1. i = 1 /\ log[1] <= returned[1] + byAdmin[1]  BY <1>2, <2>4 DEF RefundsInv, Totals
    <3>2. CASE r.event.kind = "admin"
      BY <1>2, <1>6, <1>7, <2>1, <3>1, <3>2
    <3>3. CASE r.event.kind # "admin"
      <4>1. r.event \in events /\ r.event \in Events /\ r.event.kind = "cumulative"  BY <1>w, <2>4, <3>3
      <4>2. r.event.payment = 1 /\ r.event.minor <= returned[1]
        BY <2>4, <4>1 DEF RefundsInv, ProviderSaid, Events
      <4>3. log'[1] = r.event.minor /\ byAdmin'[1] = byAdmin[1]
        BY <1>2, <1>6, <1>7, <2>1, <3>1, <3>3, <4>1
      <4>4. r.event.minor \in Nat  BY <4>1 DEF Events
      <4> QED  BY <2>1, <4>2, <4>3, <4>4
    <3> QED  BY <3>2, <3>3
  <2>5. log'[1] \in Nat  BY <1>6, <1>w DEF Amounts
  <2> QED  BY <1>1, <2>1, <2>2, <2>3, <2>4, <2>5 DEF RefundsInv, Totals
<1>14. HandlerFits(h)' /\ EventAdvances(h)'
  <2>1. Written(i)  BY <1>2, <1>w
  <2>2. reversed'[i] + r.amount <= log'[i]  BY <1>1, <1>2, <1>6, <2>1 DEF Written
  <2>3. HandlerFits(h)'
    BY <1>1, <1>2, <1>4, <1>5, <1>6, <1>w, <2>2 DEF HandlerFits
  <2>4. EventAdvances(h)'
    BY <1>2, <1>4, <1>5, <1>6 DEF EventAdvances
  <2> QED  BY <2>3, <2>4
<1> QED
  BY <1>1, <1>4, <1>10, <1>11, <1>12, <1>13, <1>14, <1>w, Becomes DEF RefundsInv

\* The payment and the partners are told what the invoice already says.
LEMMA TellStep ==
  ASSUME RefundsInv, NEW h \in Refunders, WritePayments(h) \/ TellPartners(h)
  PROVE  RefundsInv'
<1> DEFINE r == refunder[h]
           i == r.invoice
<1>1. /\ r.pc \in {"pay", "reverse"}
      /\ UNCHANGED <<made, invoice, log, byAdmin, returned, events, processed>>
  BY DEF WritePayments, TellPartners, outside
<1>w. /\ r \in States /\ HandlerFits(h) /\ EventAdvances(h) /\ made \in 1 .. Periods
      /\ Periods \in Nat /\ 1 \in 1 .. Periods
      /\ \A j \in 1 .. Periods : Written(j)
      /\ \A g \in Refunders : g # h => refunder[g].pc = "idle"
      /\ r.event.kind # "admin" => r.event \in Events /\ r.event \in events
  BY <1>1, AtWork, RefundsAssumption DEF HandlerFits
<1>2. /\ i \in 1 .. made /\ i \in 1 .. Periods /\ r.amount \in Nat /\ r.seen \in Nat
      /\ log[i] \in Nat /\ reversed[i] \in Nat /\ reversed[i] + r.amount <= log[i]
      /\ r.event.kind = "cumulative" => r.event.minor <= log[i]
  <2>1. i \in 1 .. made /\ r.amount \in Nat /\ r.seen \in Nat /\ reversed[i] + r.amount <= log[i]
    BY <1>1, <1>w DEF HandlerFits, States
  <2>2. i \in 1 .. Periods  BY <1>w, <2>1
  <2>3. log[i] \in Nat /\ reversed[i] \in Nat  BY <1>w, <2>2 DEF Written
  <2> QED  BY <1>1, <1>w, <2>1, <2>2, <2>3 DEF EventAdvances
<1>3. Totals' /\ ProviderSaid'
  BY <1>1 DEF RefundsInv, Totals, ProviderSaid
<1>p. CASE WritePayments(h)
  <2> DEFINE new == At(r, "reverse")
  <2>1. /\ r.pc = "pay" /\ Become(h, new) /\ UNCHANGED reversed
        /\ payment' = IF i = 1 THEN r.seen + r.amount ELSE payment
    BY <1>p DEF WritePayments, Goto, At
  <2>2. /\ new \in States /\ new.pc = "reverse" /\ new.event = r.event /\ new.invoice = i
        /\ new.amount = r.amount
    BY <1>w, AtIs DEF Points
  <2> HIDE DEF new
  <2>3. refunder'[h] = new  BY <1>w, <2>1, <2>2, Becomes
  <2>4. payment \in Nat /\ payment <= log[1]  BY DEF RefundsInv, RefundsTypeOK, InvoicesAgree
  <2>5. r.seen + r.amount = log[i]  BY <1>w, <2>1 DEF HandlerFits
  <2>6. payment' \in Nat /\ payment' <= log[1]  BY <1>2, <2>1, <2>4, <2>5
  <2>7. RefundsTypeOK'  BY <1>1, <1>w, <2>1, <2>2, <2>6, Becomes DEF RefundsInv, RefundsTypeOK
  <2>8. InvoicesAgree'  BY <1>1, <2>1, <2>6 DEF RefundsInv, InvoicesAgree
  <2>9. HandlerFits(h)' /\ EventAdvances(h)'
    BY <1>1, <1>2, <1>w, <2>1, <2>2, <2>3 DEF HandlerFits, EventAdvances
  <2> QED  BY <1>3, <1>w, <2>1, <2>2, <2>7, <2>8, <2>9, Becomes DEF RefundsInv
<1>t. CASE TellPartners(h)
  <2>1. /\ Become(h, After(r)) /\ UNCHANGED payment
        /\ reversed' = [reversed EXCEPT ![i] = @ + r.amount]
    BY <1>t DEF TellPartners
  <2>2. After(r) \in States /\ refunder'[h] = After(r)  BY <1>w, <2>1, AfterIs, Becomes
  <2>3. /\ reversed' \in Amounts /\ reversed'[i] = reversed[i] + r.amount
        /\ \A j \in 1 .. Periods : j # i => reversed'[j] = reversed[j]
    <3>1. reversed \in Amounts  BY DEF RefundsInv, RefundsTypeOK
    <3> QED  BY <1>2, <2>1, <3>1 DEF Amounts
  <2>4. RefundsTypeOK'  BY <1>1, <1>w, <2>1, <2>2, <2>3, Becomes DEF RefundsInv, RefundsTypeOK
  <2>5. \A j \in 1 .. Periods : reversed'[j] <= log[j]
    BY <1>2, <1>w, <2>3 DEF Written
  <2>6. InvoicesAgree'  BY <1>1, <2>1, <2>5 DEF RefundsInv, InvoicesAgree
  <2>7. HandlerFits(h)' /\ EventAdvances(h)'
    <3>1. CASE After(r).pc = "idle"  BY <2>2, <3>1, RestingFits
    <3>2. CASE After(r).pc = "mark" /\ After(r).event = r.event /\ r.event.kind # "admin"
      BY <1>1, <1>2, <1>w, <2>2, <3>2 DEF HandlerFits, EventAdvances
    <3> QED  BY <1>w, <3>1, <3>2, AfterIs
  <2> QED  BY <1>3, <1>w, <2>1, <2>2, <2>4, <2>6, <2>7, Becomes DEF RefundsInv
<1> QED  BY <1>p, <1>t

\* An event is marked when the invoice says what it said, and a handler may die.
LEMMA EndStep ==
  ASSUME RefundsInv, NEW h \in Refunders, MarkProcessed(h) \/ Dies(h)
  PROVE  RefundsInv'
<1>1. refunder[h].pc # "idle" /\ Become(h, Resting) /\ UNCHANGED <<books, outside>>
  BY DEF MarkProcessed, Dies
<1>2. /\ \A g \in Refunders : g # h => refunder[g].pc = "idle"
      /\ HandlerFits(h) /\ EventAdvances(h)
  BY <1>1, AtWork
<1>3. refunder'[h] = Resting  BY <1>1, <1>2, RestingIs, Becomes
<1>4. HandlerFits(h)' /\ EventAdvances(h)'  BY <1>3, RestingIs, RestingFits
<1>5. processed \subseteq Events /\ events \subseteq Events  BY DEF RefundsInv, RefundsTypeOK
<1>6. CASE Dies(h)
  <2>1. UNCHANGED processed  BY <1>6 DEF Dies
  <2>2. Totals'  BY <1>1, <2>1 DEF RefundsInv, Totals, books, outside
  <2> QED  BY <1>1, <1>2, <1>4, <1>5, <2>1, <2>2, RestingIs, ReadingStep
<1>7. CASE MarkProcessed(h)
  <2>1. /\ processed' = processed \cup {refunder[h].event} /\ refunder[h].pc = "mark"
    BY <1>7 DEF MarkProcessed
  <2>2. refunder[h].event \in events
    BY <1>2, <2>1 DEF HandlerFits
  <2>3. Totals'
    BY <1>1, <1>2, <2>1 DEF RefundsInv, Totals, EventAdvances, books, outside
  <2>4. processed' \subseteq Events  BY <1>5, <2>1, <2>2
  <2> QED  BY <1>1, <1>2, <1>4, <2>3, <2>4, RestingIs, ReadingStep
<1> QED  BY <1>6, <1>7

LEMMA RefundsStep == RefundsInv /\ [RefundsNext]_refundVars /\ MaxRefunders = 1 => RefundsInv'
<1> SUFFICES ASSUME RefundsInv, [RefundsNext]_refundVars, MaxRefunders = 1 PROVE RefundsInv'
  OBVIOUS
<1>1. CASE UNCHANGED refundVars
  BY <1>1 DEF refundVars, RefundsInv, RefundsTypeOK, Alone, InvoicesAgree, ProviderSaid, Totals,
              HandlerFits, EventAdvances
<1> QED
  BY <1>1, RenewStep, ReturnStep, BeginStep, FindStep, ReadStep, WriteStep, TellStep, EndStep
  DEF RefundsNext

\* Where one refund is recorded at a time, and for any number of invoices,
\* amounts, events and deaths: an invoice says what its refunds add up to,
\* neither the partners nor the payment see more than that, and for running
\* totals of one payment nothing is recorded that was not given back, and
\* nothing is missing once all events are handled (app/billing/refunds.py,
\* app/billing/provider.py).
THEOREM RefundsConvergeCorrect ==
  ASSUME MaxRefunders = 1
  PROVE  RefundsSpec => []RefundsConverge
<1>1. RefundsInv => RefundsConverge
  <2> SUFFICES ASSUME RefundsInv PROVE RefundsConverge  OBVIOUS
  <2>1. /\ \A i \in 1 .. Periods : invoice[i].refunded = log[i] /\ log[i] <= Price /\ reversed[i] <= log[i]
        /\ payment <= log[1]
    BY DEF RefundsInv, InvoicesAgree
  <2>2. 1 \in 1 .. Periods /\ log[1] \in Nat /\ returned[1] \in Nat
    BY RefundsAssumption DEF RefundsInv, RefundsTypeOK, Amounts
  <2>3. ASSUME made = 1, \A e \in events : e.kind = "cumulative"
        PROVE  /\ log[1] <= returned[1] + byAdmin[1]
               /\ events \subseteq processed => log[1] >= returned[1]
    <3>1. log[1] <= returned[1] + byAdmin[1]  BY <2>3 DEF RefundsInv, Totals
    <3>2. ASSUME events \subseteq processed PROVE log[1] >= returned[1]
      <4>1. CASE returned[1] = 0  BY <2>2, <4>1
      <4>2. CASE \E e \in events : e.payment = 1 /\ e.upto = returned[1]
        <5>1. PICK e \in events : e.payment = 1 /\ e.upto = returned[1]  BY <4>2
        <5>2. e.minor = returned[1]  BY <2>3, <5>1 DEF RefundsInv, ProviderSaid
        <5>3. e.minor <= log[1]  BY <2>3, <3>2, <5>1 DEF RefundsInv, Totals
        <5> QED  BY <2>2, <5>2, <5>3
      <4> QED  BY <2>2, <4>1, <4>2 DEF RefundsInv, ProviderSaid
    <3> QED  BY <3>1, <3>2
  <2> QED  BY <2>1, <2>3 DEF RefundsConverge
<1>2. RefundsInv /\ [RefundsNext]_refundVars => RefundsInv'
  BY RefundsStep
<1> QED  BY <1>1, <1>2, RefundsStart, PTL DEF RefundsSpec
=============================================================================
