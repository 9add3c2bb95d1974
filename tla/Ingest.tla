-------------------------------- MODULE Ingest ---------------------------------
(***************************************************************************)
(* The ingest phase of a cycle: run_ingest_cycle (app/services/            *)
(* orchestrator.py) calls ingest_once (app/services/reddit_client.py) for  *)
(* one subreddit after the other.  ingest_once fetches the newest posts,   *)
(* stores the ones that are long enough, fetches and stores the comments   *)
(* of the ones that draw attention, and moves the cursor.                  *)
(*                                                                         *)
(* Reddit is external: posts and comments appear, posts are removed, and   *)
(* any request for them may fail.  Two sources reach it.  "praw" uses the  *)
(* API.  "scrape" renders pages in a browser: it loads the page of every   *)
(* listed post whose card has no body, and names the comments of a page    *)
(* by their position on it, because it does not read their names.          *)
(*                                                                         *)
(* Posts are numbered in the order they were written.  A comment is a pair *)
(* <<post, n>> with n > 0, a post p is the pair <<p, 0>>.                  *)
(***************************************************************************)
EXTENDS Naturals, Sequences, FiniteSets, FiniteSetsExt, Functions

CONSTANTS
    Feeds,         \* Feeds[s]: the posts subreddit s will ever have
    Source,        \* "praw" or "scrape"
    PostBatch,     \* post_batch
    CommentLimit,  \* comments_per_post
    LongPosts,     \* posts whose title and body reach post_max_chars
    HotPosts,      \* posts should_fetch_comments selects
    BrokenPages,   \* posts whose card has no body and whose page never loads
    MaxComments,   \* bound: comments one post ever gets
    MaxAborts      \* bound: cycles that are killed or left by an exception

ASSUME SourceAssumption == Source \in {"praw", "scrape"}
ASSUME FeedsAssumption  == Len(Feeds) \in Nat \ {0}
ASSUME BatchAssumption  == {PostBatch, CommentLimit, MaxComments} \subseteq Nat \ {0} /\ MaxAborts \in Nat

Subs  == 1..Len(Feeds)
Posts == UNION {Feeds[s] : s \in Subs}
Texts == Posts \X (0..MaxComments)

\* Fullnames: t3_<post id>; t1_<comment id>, or t1_<position on the page> when scraped.
PostName(p) == <<"t3", p, 0>>
CommentName(p, c, position) ==
    IF Source = "praw" THEN <<"t1", p, c>> ELSE <<"t1", 0, position>>
Names ==
    {PostName(p) : p \in Posts} \union
    {CommentName(p, c, k) : p \in Posts, c \in 1..MaxComments, k \in 1..MaxComments}

NoText == <<0, 0>>
ASSUME PostsAssumption == Posts \subseteq Nat \ {0} /\ LongPosts \subseteq Posts

VARIABLES
    reddit,   \* the posts Reddit lists now
    comments, \* comments[p]: how many comments p has
    ledger,   \* ledger[n]: the text stored under fullname n, or NoText
    cursor,   \* cursor[s]: the post the cursor of subreddit s names, 0 before the first
    worker,   \* where ingest_once is
    aborts    \* cycles aborted so far

vars == <<reddit, comments, ledger, cursor, worker, aborts>>

\* sub: the subreddit; todo: posts still to handle; newest: posts[0];
\* post: the post in hand; page: its fetched comments; left: the positions still to store;
\* due, failed: what this call of ingest_once set out to store, and what it
\* counted in result.errors (kept to state the properties).
Idle == [at |-> "list", sub |-> 1, todo |-> {}, newest |-> 0, post |-> 0, page |-> <<>>, left |-> {},
         due |-> {}, failed |-> {}]

TypeOK ==
    /\ reddit \subseteq Posts
    /\ comments \in [Posts -> 0..MaxComments]
    /\ ledger \in [Names -> Texts \union {NoText}]
    /\ cursor \in [Subs -> Posts \union {0}]
    /\ worker.at \in {"list", "post", "fetch", "comment", "cursor"}
    /\ worker.sub \in Subs /\ worker.todo \subseteq Posts
    /\ worker.newest \in Posts \union {0} /\ worker.post \in Posts \union {0}
    /\ worker.page \in Seq(1..MaxComments) /\ worker.left \subseteq DOMAIN worker.page
    /\ aborts \in 0..MaxAborts
    /\ worker.due \subseteq Texts /\ worker.failed \subseteq Texts

Init ==
    /\ reddit = {}
    /\ comments = [p \in Posts |-> 0]
    /\ ledger = [n \in Names |-> NoText]
    /\ cursor = [s \in Subs |-> 0]
    /\ worker = Idle
    /\ aborts = 0

Stored(text) == \E n \in Names : ledger[n] = text
NewestOf(S, n) == {p \in S : Cardinality({q \in S : q > p}) < n}
Listing(s) == NewestOf(reddit \intersect Feeds[s], PostBatch)

-------------------------------------------------------------------------------
(***************************************************************************)
(* Reddit.  A post that was removed may be approved and listed again.      *)
(***************************************************************************)
PostAppears(s, p) ==
    /\ p \in Feeds[s] \ reddit
    /\ reddit' = reddit \union {p}
    /\ UNCHANGED <<comments, ledger, cursor, worker, aborts>>

PostRemoved(p) ==
    /\ p \in reddit
    /\ reddit' = reddit \ {p}
    /\ UNCHANGED <<comments, ledger, cursor, worker, aborts>>

CommentAppears(p) ==
    /\ p \in reddit
    /\ comments[p] < MaxComments
    /\ comments' = [comments EXCEPT ![p] = @ + 1]
    /\ UNCHANGED <<reddit, ledger, cursor, worker, aborts>>

-------------------------------------------------------------------------------
(***************************************************************************)
(* ingest_once.                                                            *)
(***************************************************************************)

\* run_ingest_cycle goes on with the next subreddit; after the last one the cycle
\* goes on to submission (see Pipeline) and the next cycle starts over.
NextSub_PastTheEnd == [Idle EXCEPT !.sub = IF worker.sub <= Len(Feeds) THEN worker.sub + 1 ELSE 1]
NextSub == [Idle EXCEPT !.sub = IF worker.sub < Len(Feeds) THEN worker.sub + 1 ELSE 1]

\* list(source.new_posts(...)): scraping loads the page of each card without a body
\* here, inside the listing, so one page that fails fails the listing.
ListPosts ==
    /\ worker.at = "list"
    /\ Source = "scrape" => Listing(worker.sub) \intersect BrokenPages = {}
    /\ LET listed == Listing(worker.sub) IN
       worker' = [worker EXCEPT
           !.at = "post", !.todo = listed,
           !.newest = IF listed = {} THEN 0 ELSE Max(listed),
           !.due = {<<p, 0>> : p \in listed \intersect LongPosts}]
    /\ UNCHANGED <<reddit, comments, ledger, cursor, aborts>>

\* "a listing failure ends the cycle cleanly": nothing stored, the cursor left alone.
ListingFails ==
    /\ worker.at = "list"
    /\ worker' = NextSub
    /\ UNCHANGED <<reddit, comments, ledger, cursor, aborts>>

InHand(p) == p \in worker.todo /\ \A q \in worker.todo : q <= p

SkipShortPost_EndsBatch(p) ==
    /\ worker.at = "post" /\ InHand(p) /\ p \notin LongPosts
    /\ worker' = [worker EXCEPT !.todo = {}]
    /\ UNCHANGED <<reddit, comments, ledger, cursor, aborts>>

\* _should_ingest_post: continue.
SkipShortPost(p) ==
    /\ worker.at = "post" /\ InHand(p) /\ p \notin LongPosts
    /\ worker' = [worker EXCEPT !.todo = @ \ {p}]
    /\ UNCHANGED <<reddit, comments, ledger, cursor, aborts>>

\* insert_item: the first text stored under a name stays.
WithItem(l, name, text) == [l EXCEPT ![name] = IF @ = NoText THEN text ELSE @]

\* The post is stored now or was before; its comments are fetched in both cases.
PersistPost(p) ==
    /\ worker.at = "post" /\ InHand(p) /\ p \in LongPosts
    /\ ledger' = WithItem(ledger, PostName(p), <<p, 0>>)
    /\ worker' = [worker EXCEPT !.todo = @ \ {p}, !.post = p,
                                !.at = IF p \in HotPosts THEN "fetch" ELSE "post"]
    /\ UNCHANGED <<reddit, comments, cursor, aborts>>

PersistPostFails_FetchesOn(p) ==
    /\ worker.at = "post" /\ InHand(p) /\ p \in LongPosts
    /\ worker' = [worker EXCEPT !.todo = @ \ {p}, !.failed = @ \union {<<p, 0>>}, !.post = p,
                                !.at = IF p \in HotPosts THEN "fetch" ELSE "post"]
    /\ UNCHANGED <<reddit, comments, ledger, cursor, aborts>>
PersistPostFails_EndsBatch(p) ==
    /\ worker.at = "post" /\ InHand(p) /\ p \in LongPosts
    /\ worker' = [worker EXCEPT !.todo = {}, !.failed = @ \union {<<p, 0>>}]
    /\ UNCHANGED <<reddit, comments, ledger, cursor, aborts>>

\* insert_item raises: counted, and its comments are not fetched.
PersistPostFails(p) ==
    /\ worker.at = "post" /\ InHand(p) /\ p \in LongPosts
    /\ worker' = [worker EXCEPT !.todo = @ \ {p}, !.failed = @ \union {<<p, 0>>}]
    /\ UNCHANGED <<reddit, comments, ledger, cursor, aborts>>

\* The comments Reddit ranks first, in its order, at most comments_per_post of them.
Rankings(p) ==
    Injection(1..Min({comments[p], CommentLimit}), 1..comments[p])

FetchComments ==
    /\ worker.at = "fetch"
    /\ \E page \in Rankings(worker.post) :
         worker' = [worker EXCEPT !.at = "comment", !.page = page, !.left = DOMAIN page,
                                  !.due = @ \union ({worker.post} \X Range(page))]
    /\ UNCHANGED <<reddit, comments, ledger, cursor, aborts>>

\* The comments are not there to be stored or counted one by one: one error, and on.
FetchFails ==
    /\ worker.at = "fetch"
    /\ worker' = [worker EXCEPT !.at = "post"]
    /\ UNCHANGED <<reddit, comments, ledger, cursor, aborts>>

IsNextComment(k) ==
    worker.at = "comment" /\ k \in worker.left /\ \A j \in worker.left : k <= j

PersistComment(k) ==
    /\ IsNextComment(k)
    /\ LET c == worker.page[k] IN
       ledger' = WithItem(ledger, CommentName(worker.post, c, k), <<worker.post, c>>)
    /\ worker' = [worker EXCEPT !.left = @ \ {k}]
    /\ UNCHANGED <<reddit, comments, cursor, aborts>>

PersistCommentFails(k) ==
    /\ IsNextComment(k)
    /\ worker' = [worker EXCEPT !.left = @ \ {k},
                                !.failed = @ \union {<<worker.post, worker.page[k]>>}]
    /\ UNCHANGED <<reddit, comments, ledger, cursor, aborts>>

CommentsDone ==
    /\ worker.at = "comment" /\ worker.left = {}
    /\ worker' = [worker EXCEPT !.at = "post", !.page = <<>>]
    /\ UNCHANGED <<reddit, comments, ledger, cursor, aborts>>

PostsDone ==
    /\ worker.at = "post" /\ worker.todo = {}
    /\ worker' = [worker EXCEPT !.at = "cursor"]
    /\ UNCHANGED <<reddit, comments, ledger, cursor, aborts>>

\* upsert_cursor with the newest listed post, stored or not; none if nothing was listed.
MoveCursor ==
    /\ worker.at = "cursor"
    /\ cursor' = IF worker.newest = 0 THEN cursor
                 ELSE [cursor EXCEPT ![worker.sub] = worker.newest]
    /\ worker' = NextSub
    /\ UNCHANGED <<reddit, comments, ledger, aborts>>

\* upsert_cursor raises, which nothing catches before run_ingest_forever, or the
\* process is killed: the subreddits after this one have to wait for the next cycle.
AbortCycle ==
    /\ aborts < MaxAborts
    /\ worker # Idle
    /\ worker' = Idle
    /\ aborts' = aborts + 1
    /\ UNCHANGED <<reddit, comments, ledger, cursor>>

-------------------------------------------------------------------------------
Works ==
    \/ ListPosts
    \/ \E p \in Posts : SkipShortPost(p) \/ PersistPost(p)
    \/ FetchComments
    \/ \E k \in 1..MaxComments : PersistComment(k)
    \/ CommentsDone \/ PostsDone \/ MoveCursor

Fails ==
    \/ ListingFails
    \/ \E p \in Posts : PersistPostFails(p)
    \/ FetchFails
    \/ \E k \in 1..MaxComments : PersistCommentFails(k)
    \/ AbortCycle

RedditMoves ==
    \/ \E s \in Subs, p \in Posts : PostAppears(s, p)
    \/ \E p \in Posts : PostRemoved(p) \/ CommentAppears(p)

Next == Works \/ Fails \/ RedditMoves

Spec == Init /\ [][Next]_vars

\* The worker keeps going, and no request or INSERT fails every time it is tried (a
\* page in BrokenPages does: ListPosts is not enabled then).
Fairness ==
    /\ WF_vars(Works \/ Fails)
    /\ \A s \in Subs : SF_vars(worker.sub = s /\ ListPosts)
    /\ \A p \in LongPosts : SF_vars(PersistPost(p))
FairSpec == Spec /\ Fairness

-------------------------------------------------------------------------------
(***************************************************************************)
(* Properties.                                                             *)
(***************************************************************************)

\* ingest_once: "A failure ingesting one post/comment never aborts the batch".  When
\* it is done, whatever it listed and fetched is stored as itself, or was counted.
NothingIsDropped ==
    worker.at = "cursor" => \A text \in worker.due : Stored(text) \/ text \in worker.failed

\* parent_fullname of a stored comment names a stored post.
CommentsHaveTheirPost ==
    \A n \in Names : ledger[n] # NoText => Stored(<<ledger[n][1], 0>>)

\* A post that is long enough is stored, unless newer posts push it off the listing
\* or it is removed first; failures in between only delay it.
PostsAreStored ==
    \A s \in Subs : \A p \in Feeds[s] \intersect LongPosts :
        (p \in Listing(s)) ~> (Stored(<<p, 0>>) \/ p \notin Listing(s))
===============================================================================
