------------------------------ MODULE UrlSearch ------------------------------
(***************************************************************************)
(* What one URL search collects: app/social/url_search.py, the comment     *)
(* filter and the AI analysis it calls (app/pipeline/comment_ai.py), the   *)
(* collection of a post's comments asked for by a person                   *)
(* (collect_post_comments, app/agent/search.py), and the cancellation and  *)
(* deletion of the run (app/api/routes/search.py).                         *)
(*                                                                         *)
(* The hand "run" is the worker of the search, "again" the collection that *)
(* a person started; both store and analyse comments with the same steps.  *)
(* A worker that dies loses its lease and the queue resumes the run from   *)
(* its beginning (JobQueue).                                               *)
(*                                                                         *)
(* Posts and comments are documents.  A post is keyed by its page and a    *)
(* comment by its post, so the same post under another page is another     *)
(* document, and so are its comments.                                      *)
(*                                                                         *)
(* Left out: what pages, posts and comments say (an edited comment is      *)
(* analysed again), the caps, the progress fields, the notices, and        *)
(* failures of the database other than in storing a page or an analysis.   *)
(***************************************************************************)
EXTENDS Integers, FiniteSets

CONSTANTS Collectors,        \* "run", and "again" if people collect as well
          Pages, Posts, Comments,   \* the documents there may be
          PageOf,       \* the page of each post
          PostOf,       \* the post of each comment
          Rejected,     \* the comments the filter does not match
          Overlapping,  \* the two hands may work on one post at once
          MaxCrashes    \* bound on the hands that die half way and the writes that fail

\* There is always the worker.
ASSUME SearchAssumption == "run" \in Collectors

VARIABLES
  run,       \* status of the search in search_history
  wanted,    \* its cancel_requested
  task,      \* the job: none, leased, lapsed, cancelled or done
  pages,     \* of each page: none, made, or lost: never stored, or deleted
  known,     \* the page that was stored with its details, "none" so far
  posts,     \* the posts stored
  heard,     \* comments_status of each post
  comments,  \* the comments stored
  verdict,   \* the analysis of each comment: none, rules or gemini
  paid,      \* how often tokens were taken for a comment
  hand,      \* control point and local variables of each hand
  deleting,  \* progress of a deletion, and the posts it found
  crashes,
  wasted     \* history: the answers of the AI for a comment that were not recorded

searchVars == <<run, wanted, task, pages, known, posts, heard, comments, verdict, paid,
                hand, deleting, crashes, wasted>>
search == <<run, wanted, task, wasted>>
listed == <<pages, known>>
found  == <<listed, posts, heard, comments, verdict, paid>>

Away == [at |-> "idle", page |-> "none", blind |-> FALSE, todo |-> {}, mine |-> {}, post |-> "none",
         got |-> {}, new |-> 0, fresh |-> {}, answer |-> "none"]

SearchInit ==
  /\ run = "none" /\ wanted = FALSE /\ task = "none"
  /\ pages = [k \in Pages |-> "none"] /\ known = "none" /\ wasted = [c \in Comments |-> 0]
  /\ posts = {} /\ heard = [p \in Posts |-> "not_started"] /\ comments = {}
  /\ verdict = [c \in Comments |-> "none"] /\ paid = [c \in Comments |-> 0]
  /\ hand = [h \in Collectors |-> Away]
  /\ deleting = [at |-> "no", posts |-> {}] /\ crashes = 0

HandAt(h, at) == hand[h].at = at
Move(h, new) == hand' = [hand EXCEPT ![h] = new]
HandGoes(h, at) == Move(h, [hand[h] EXCEPT !.at = at])

\* is_run_cancelled, which finds nothing of a deleted run, and is_job_cancelled.
RunCancelled == run # "deleted" /\ wanted
ShouldAbort(h) == RunCancelled \/ (h = "run" /\ task = "cancelled")

\* The worker's checkpoints, at which it marks the run cancelled and returns.
Cancelled(h) ==
  /\ ShouldAbort(h)
  /\ run' = IF run = "deleted" THEN run ELSE "cancelled"
  /\ wanted' = TRUE
  /\ task' = IF h = "run" /\ task = "leased" THEN "done" ELSE task
  /\ Move(h, Away)
  /\ UNCHANGED <<deleting, crashes, wasted>>

-----------------------------------------------------------------------------
(* The run: page, posts, and then the comments of each post *)

\* admit_url_search inserts the run and its thread claims the job.
StartSearch ==
  /\ run = "none"
  /\ run' = "running" /\ task' = "leased"
  /\ HandGoes("run", "page")
  /\ UNCHANGED <<wanted, found, deleting, crashes, wasted>>

\* A job whose lease lapsed is claimed and run again from the start.
ResumeSearch ==
  /\ task = "lapsed" /\ HandAt("run", "idle")
  /\ task' = "leased"
  /\ HandGoes("run", "page")
  /\ UNCHANGED <<run, wanted, found, deleting, crashes, wasted>>

\* The page with its details is the one the run has stored at that address, or
\* a new one.
Described(k) ==
  /\ IF known # "none" THEN k = known ELSE pages[k] \in {"made", "none"}
  /\ pages' = [pages EXCEPT ![k] = "made"] /\ known' = k
  /\ Move("run", [hand["run"] EXCEPT !.at = "posts", !.page = k])

\* Without details (blind, if getting them failed) the run goes on with a page
\* of its own, whether or not that can be stored.
Undescribed(k) ==
  /\ pages[k] = "none" /\ UNCHANGED known
  /\ \E kept \in {"made", "lost"} : pages' = [pages EXCEPT ![k] = kept]
  /\ \E blind \in BOOLEAN :
       Move("run", [hand["run"] EXCEPT !.at = "posts", !.page = k, !.blind = blind])

FetchPage(k) ==
  /\ HandAt("run", "page") /\ ~ShouldAbort("run")
  /\ Described(k) \/ Undescribed(k)
  /\ UNCHANGED <<search, posts, heard, comments, verdict, paid, deleting, crashes>>

FetchPosts ==
  /\ HandAt("run", "posts") /\ ~ShouldAbort("run")
  /\ \E got \in SUBSET {p \in Posts : PageOf[p] = hand["run"].page} :
       Move("run", [hand["run"] EXCEPT !.at = "keep", !.todo = got])
  /\ UNCHANGED <<search, found, deleting, crashes>>

\* upsert_post: a post is stored once per page.
StorePost(p) ==
  /\ HandAt("run", "keep") /\ p \in hand["run"].todo /\ ~ShouldAbort("run")
  /\ posts' = posts \cup {p}
  /\ Move("run", [hand["run"] EXCEPT !.todo = @ \ {p}, !.mine = @ \cup {p}])
  /\ UNCHANGED <<search, listed, heard, comments, verdict, paid, deleting, crashes>>

KeptPosts ==
  /\ HandAt("run", "keep") /\ hand["run"].todo = {}
  /\ Move("run", [hand["run"] EXCEPT !.at = "next", !.blind = @ /\ hand["run"].mine = {}])
  /\ UNCHANGED <<search, found, deleting, crashes>>

SetHeard(p, s) == heard' = IF p \in posts THEN [heard EXCEPT ![p] = s] ELSE heard

\* The runs that keep the hands apart: the code only keeps a collection from
\* a post whose comments are being stored.
Apart(p) == Overlapping \/ \A h \in Collectors : hand[h].post # p

OpenPost(p) ==
  /\ HandAt("run", "next") /\ p \in hand["run"].mine /\ ~ShouldAbort("run")
  /\ Apart(p)
  /\ SetHeard(p, "running")
  /\ Move("run", [hand["run"] EXCEPT !.at = "fetch", !.mine = @ \ {p}, !.post = p, !.new = 0])
  /\ UNCHANGED <<search, listed, posts, comments, verdict, paid, deleting, crashes>>

\* The last write is unconditional: it finds no document of a deleted run.
FinishSearch ==
  /\ HandAt("run", "next") /\ hand["run"].mine = {}
  /\ run' = IF run = "deleted" THEN run
            ELSE IF hand["run"].blind THEN "error" ELSE "completed"
  /\ task' = IF task = "leased" THEN "done" ELSE task
  /\ Move("run", Away)
  /\ UNCHANGED <<wanted, found, deleting, crashes, wasted>>

\* The checkpoints of the worker; a fetch is aborted while it waits.
StopSearch ==
  /\ \/ hand["run"].at \in {"page", "posts", "fetch"}
     \/ HandAt("run", "keep") /\ hand["run"].todo # {}
     \/ HandAt("run", "next") /\ hand["run"].mine # {}
     \/ HandAt("run", "store") /\ hand["run"].got # {}
  /\ Cancelled("run")
  /\ UNCHANGED found

-----------------------------------------------------------------------------
(* The comments of one post again, because a person asks for them *)

\* comments_status is "running" for a post that is being collected, or was
\* when a hand died on it, until that is half an hour ago.
BeingCollected(p) == heard[p] = "running" /\ \E h \in Collectors : ~HandAt(h, "idle") /\ hand[h].post = p

CollectAgain(p) ==
  /\ "again" \in Collectors /\ HandAt("again", "idle") /\ p \in posts /\ ~BeingCollected(p) /\ ~RunCancelled
  /\ Apart(p)
  /\ heard' = [heard EXCEPT ![p] = "running"]
  /\ Move("again", [Away EXCEPT !.at = "fetch", !.post = p])
  /\ UNCHANGED <<search, listed, posts, comments, verdict, paid, deleting, crashes>>

\* A collection asked for after the cancellation marks the run cancelled.
CollectCancelled ==
  /\ "again" \in Collectors /\ HandAt("again", "idle") /\ posts # {} /\ run # "cancelled"
  /\ Cancelled("again")
  /\ UNCHANGED found

StopCollecting ==
  /\ "again" \in Collectors /\ HandAt("again", "fetch")
  /\ Cancelled("again")
  /\ SetHeard(hand["again"].post, "cancelled")
  /\ UNCHANGED <<listed, posts, comments, verdict, paid>>

-----------------------------------------------------------------------------
(* Storing and analysing the comments of a post *)

CommentsOf(p) == {c \in Comments : PostOf[c] = p}

\* fetch_comments; a failure leaves nothing.
FetchComments(h) ==
  /\ HandAt(h, "fetch")
  /\ \E got \in SUBSET CommentsOf(hand[h].post) :
       Move(h, [hand[h] EXCEPT !.at = "store", !.got = got])
  /\ UNCHANGED <<search, found, deleting, crashes>>

\* upsert_comment.  The run counts the comments it inserted, a collection
\* those it stored.
StoreComment(h, c) ==
  /\ HandAt(h, "store") /\ c \in hand[h].got /\ (h = "run" => ~ShouldAbort(h))
  /\ comments' = comments \cup {c}
  /\ Move(h, [hand[h] EXCEPT !.got = @ \ {c},
                             !.new = IF h = "again" \/ c \notin comments THEN 1 ELSE @])
  /\ UNCHANGED <<search, listed, posts, heard, verdict, paid, deleting, crashes>>

\* Where a hand goes when it is done with a post.
Left(h) == IF h = "run" THEN [hand[h] EXCEPT !.at = "next", !.post = "none", !.fresh = {}] ELSE Away

ClosePost(h) ==
  /\ HandAt(h, "store") /\ hand[h].got = {}
  /\ SetHeard(hand[h].post, IF hand[h].new > 0 THEN "completed" ELSE "empty")
  /\ Move(h, IF hand[h].new > 0 THEN [hand[h] EXCEPT !.at = "list"] ELSE Left(h))
  /\ UNCHANGED <<search, listed, posts, comments, verdict, paid, deleting, crashes>>

\* Slip: the comments that were analysed are not left out.
AllMatched(p) == {c \in comments : PostOf[c] = p} \ Rejected

\* The matched comments that the AI has not analysed yet.
Fresh(p) == {c \in comments : PostOf[c] = p /\ verdict[c] # "gemini"} \ Rejected

\* The filter and the list of analyze_comments_for_post.
ListComments(h) ==
  /\ HandAt(h, "list")
  /\ Move(h, IF hand[h].post \in posts
             THEN [hand[h] EXCEPT !.at = "call", !.fresh = Fresh(hand[h].post)]
             ELSE Left(h))
  /\ UNCHANGED <<search, found, deleting, crashes>>

\* analyze_comment_ai answers, and an answer of the AI is charged for unless
\* the key is the organization's own or its tokens are used up.
CallAI(h, c) ==
  /\ HandAt(h, "call") /\ c \in hand[h].fresh
  /\ \E answer \in {"rules", "gemini"}, taken \in 0..1 :
       /\ taken = 1 => answer = "gemini"
       /\ paid' = [paid EXCEPT ![c] = @ + taken]
       /\ Move(h, [hand[h] EXCEPT !.at = "record", !.got = {c}, !.answer = answer])
  /\ UNCHANGED <<search, listed, posts, heard, comments, verdict, deleting, crashes>>

\* An answer that is not recorded.
Wastes(h) ==
  wasted' = [c \in Comments |->
             IF HandAt(h, "record") /\ c \in hand[h].got /\ hand[h].answer = "gemini"
             THEN wasted[c] + 1 ELSE wasted[c]]

\* The analysis is written over the one the comment has; a write that fails is
\* passed over.
RecordAnalysis(h) ==
  /\ HandAt(h, "record")
  /\ \/ /\ verdict' = [c \in Comments |-> IF c \in hand[h].got THEN hand[h].answer ELSE verdict[c]]
        /\ UNCHANGED <<crashes, wasted>>
     \/ /\ crashes < MaxCrashes /\ crashes' = crashes + 1
        /\ Wastes(h) /\ UNCHANGED verdict
  /\ Move(h, [hand[h] EXCEPT !.at = "call", !.fresh = @ \ hand[h].got, !.got = {}])
  /\ UNCHANGED <<run, wanted, task, listed, posts, heard, comments, paid, deleting>>

AnalysedPost(h) ==
  /\ HandAt(h, "call") /\ hand[h].fresh = {}
  /\ Move(h, Left(h))
  /\ UNCHANGED <<search, found, deleting, crashes>>

-----------------------------------------------------------------------------
(* Cancelling, deleting, dying *)

\* The request marks the run, and cancel_job the run and the job.
CancelSearch ==
  /\ run = "running"
  /\ run' = "cancelled" /\ wanted' = TRUE /\ task' = "cancelled"
  /\ UNCHANGED <<found, hand, deleting, crashes, wasted>>

\* A running search is asked to stop, and the job is left alone.  Posts are
\* found by the pages that are stored.
DeleteBegins ==
  /\ deleting.at = "no" /\ run \notin {"none", "deleted"}
  /\ wanted' = (wanted \/ run = "running")
  /\ deleting' = [at |-> "comments",
                  posts |-> {p \in posts : pages[PageOf[p]] = "made"}]
  /\ UNCHANGED <<run, task, found, hand, crashes, wasted>>

\* The comments, the leads, the posts, the pages and at last the run go.
DeleteStep ==
  /\ LET gone == {c \in Comments : PostOf[c] \in deleting.posts}
         to(at) == deleting' = [deleting EXCEPT !.at = at] IN
     \/ /\ deleting.at = "comments" /\ to("leads")
        /\ comments' = comments \ gone
        /\ UNCHANGED <<run, listed, posts, heard, verdict, paid>>
     \/ /\ deleting.at = "leads" /\ to("posts")
        /\ verdict' = [c \in Comments |-> IF c \in gone THEN "none" ELSE verdict[c]]
        /\ UNCHANGED <<run, listed, posts, heard, comments, paid>>
     \/ /\ deleting.at = "posts" /\ to("pages")
        /\ posts' = posts \ deleting.posts
        /\ heard' = [p \in Posts |-> IF p \in deleting.posts THEN "not_started" ELSE heard[p]]
        /\ UNCHANGED <<run, listed, comments, verdict, paid>>
     \/ /\ deleting.at = "pages" /\ to("run")
        /\ pages' = [k \in Pages |-> IF pages[k] = "made" THEN "lost" ELSE pages[k]]
        /\ known' = "none"
        /\ UNCHANGED <<run, posts, heard, comments, verdict, paid>>
     \/ /\ deleting.at = "run" /\ to("done")
        /\ run' = "deleted"
        /\ UNCHANGED found
  /\ UNCHANGED <<wanted, task, hand, crashes, wasted>>

CollectorDies(h) ==
  /\ ~HandAt(h, "idle") /\ crashes < MaxCrashes
  /\ crashes' = crashes + 1
  /\ task' = IF h = "run" /\ task = "leased" THEN "lapsed" ELSE task
  /\ Wastes(h) /\ Move(h, Away)
  /\ UNCHANGED <<run, wanted, found, deleting>>

SearchNext ==
  \/ StartSearch \/ ResumeSearch \/ FetchPosts \/ KeptPosts \/ FinishSearch
  \/ StopSearch \/ CollectCancelled \/ StopCollecting
  \/ \E k \in Pages : FetchPage(k)
  \/ \E p \in Posts : StorePost(p) \/ OpenPost(p) \/ CollectAgain(p)
  \/ \E h \in Collectors :
       \/ FetchComments(h) \/ ClosePost(h) \/ ListComments(h) \/ RecordAnalysis(h)
       \/ AnalysedPost(h) \/ CollectorDies(h)
       \/ \E c \in Comments : StoreComment(h, c) \/ CallAI(h, c)
  \/ CancelSearch \/ DeleteBegins \/ DeleteStep

SearchSpec == SearchInit /\ [][SearchNext]_searchVars

-----------------------------------------------------------------------------
\* However often a post is collected and a run resumed, each comment document
\* is paid for once, and once more for each time that a hand died, or a write
\* failed, between the charge and the record of that very comment: "must not
\* pay for Gemini twice" (analyze_comments_for_post,
\* app/pipeline/comment_ai.py).
OncePerComment ==
  deleting.at = "no" => \A c \in Comments : paid[c] <= 1 + wasted[c]

\* A run that completed analysed every comment it stored and its filter
\* matched ("analyze each post's comments", app/social/url_search.py), also
\* when its process died and the queue resumed it.
CompletedIsAnalysed ==
  run = "completed" /\ deleting.at = "no" /\ (\A h \in Collectors : HandAt(h, "idle"))
    => \A c \in comments \ Rejected : verdict[c] # "none"
=============================================================================
