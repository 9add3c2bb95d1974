----------------------------- MODULE IngestProofs ------------------------------
(***************************************************************************)
(* Theorems about Ingest, for all feeds, batch sizes and numbers of        *)
(* comments and aborts, and for any set of posts that is long, hot or      *)
(* broken: what ingest_once stores, and under which names.                 *)
(*                                                                         *)
(* The two sources are told apart only where the code tells them apart: a  *)
(* name of Reddit's belongs to one text, the name a scraped comment is     *)
(* given belongs to a position, so what is proved of comments under their  *)
(* names is proved for "praw".                                             *)
(***************************************************************************)
EXTENDS Ingest, FiniteSetTheorems, WellFoundedInduction, TLAPS

-------------------------------------------------------------------------------
(***************************************************************************)
(* The inductive invariant.                                                *)
(***************************************************************************)

WorkerStates ==
    [at : {"list", "post", "fetch", "comment", "cursor"}, sub : Subs, todo : SUBSET Posts,
     newest : Posts \union {0}, post : Posts \union {0},
     page : Seq(1..MaxComments), left : SUBSET (1..MaxComments),
     due : SUBSET Texts, failed : SUBSET Texts]

\* Reddit lists finitely many posts at any time, of the ones it will ever have.
IngestTypes ==
    /\ reddit \subseteq Posts /\ IsFiniteSet(reddit)
    /\ comments \in [Posts -> 0..MaxComments]
    /\ ledger \in [Names -> Texts \union {NoText}]
    /\ cursor \in [Subs -> Posts \union {0}]
    /\ worker \in WorkerStates
    /\ worker.left \subseteq DOMAIN worker.page
    /\ worker.at \in {"fetch", "comment"} => worker.post \in Posts
    /\ aborts \in 0..MaxAborts

\* A name Reddit gave says which text it belongs to, and only that text is stored under it.
NameTells(n) == n[1] = "t3" \/ Source = "praw"
NamesAreKept == \A n \in Names : NameTells(n) => ledger[n] \in {NoText, <<n[2], n[3]>>}

\* The comments of a post come after the post.
PostsComeFirst ==
    /\ CommentsHaveTheirPost
    /\ worker.at \in {"fetch", "comment"} => Stored(<<worker.post, 0>>)

\* What is due and still ahead of this call of ingest_once.
Ahead(text) ==
    \/ \E p \in worker.todo : text = <<p, 0>>
    \/ worker.at = "comment" /\ \E k \in worker.left : text = <<worker.post, worker.page[k]>>

\* Posts have names that tell, whatever the source; comments have when Reddit names them.
TextTells(text) == text[2] = 0 \/ Source = "praw"
DueIsHandled ==
    /\ \A text \in worker.due :
         /\ text[2] = 0 => text[1] \in LongPosts
         /\ TextTells(text) => Stored(text) \/ text \in worker.failed \/ Ahead(text)
    /\ worker.at = "cursor" => worker.todo = {}

IngestInv == IngestTypes /\ NamesAreKept /\ PostsComeFirst /\ DueIsHandled

-------------------------------------------------------------------------------
(***************************************************************************)
(* Texts, names and the operators of the model.                            *)
(***************************************************************************)

\* A text of a post or of a comment is not NoText.
LEMMA TextsAreTexts ==
    /\ NoText \notin Texts
    /\ \A p \in Posts : <<p, 0>> \in Texts /\ PostName(p) \in Names
    /\ \A p \in Posts, c \in 1..MaxComments, k \in 1..MaxComments :
         <<p, c>> \in Texts /\ CommentName(p, c, k) \in Names
  BY PostsAssumption, BatchAssumption DEF NoText, Texts, Names

\* A set of numbers that is finite and not empty has a greatest one: newest is a listed post.
LEMMA MaxOfFinite ==
    ASSUME NEW S \in SUBSET Nat, IsFiniteSet(S), S # {}
    PROVE  Max(S) \in S
  <1>. DEFINE Above(x) == {y \in S : y > x}
             T == {Above(x) : x \in S}
             F == FiniteSubsetsOf(S)
             R == StrictSubsetOrdering(S)
  <1>1. T \subseteq F /\ T # {}
    <2>1. ASSUME NEW x \in S PROVE Above(x) \in F
      BY FS_Subset DEF FiniteSubsetsOf
    <2>. QED
      BY <2>1
  <1>2. IsWellFoundedOn(R, F)
    BY FS_StrictSubsetOrderingWellFounded
  <1>3. PICK low \in T : \A t \in T : <<t, low>> \notin R
    <2>. HIDE DEF R, F, T
    <2>. QED
      BY <1>1, <1>2, WFMin
  <1>4. PICK m \in S : low = Above(m)
    OBVIOUS
  <1>5. ASSUME NEW x \in S, x > m PROVE FALSE
    <2>1. Above(x) \subseteq Above(m) /\ x \in Above(m) /\ x \notin Above(x)
      <3>1. ASSUME NEW y \in Above(x) PROVE y \in Above(m)
        <4>1. y \in S /\ y > x
          OBVIOUS
        <4>2. y \in Nat /\ x \in Nat /\ m \in Nat
          BY <4>1
        <4>3. y > m
          BY <1>5, <4>1, <4>2
        <4>. QED
          BY <4>1, <4>3
      <3>2. x \in Nat /\ ~(x > x)
        <4>1. x \in Nat
          OBVIOUS
        <4>. QED
          BY <4>1
      <3>3. x \notin Above(x) /\ x \in Above(m)
        BY <1>5, <3>2
      <3>4. Above(x) \subseteq Above(m)
        BY <3>1
      <3>. QED
        BY <3>3, <3>4
    <2>2. <<Above(x), Above(m)>> \in R
      BY <2>1 DEF StrictSubsetOrdering
    <2>. QED
      BY <2>2, <1>3, <1>4
  <1>6. \A y \in S : m >= y
    BY <1>5
  <1>. QED
    BY <1>6 DEF Max

\* The worker between two subreddits.
LEMMA WorkerStarts ==
    ASSUME IngestTypes
    PROVE  Idle \in WorkerStates /\ NextSub \in WorkerStates
  <1>1. 1 \in Subs
    BY FeedsAssumption DEF Subs
  <1>2. Idle \in WorkerStates
    BY <1>1 DEF Idle, WorkerStates
  <1>3. worker.sub \in Subs
    BY DEF IngestTypes, WorkerStates
  <1>. DEFINE next == IF worker.sub < Len(Feeds) THEN worker.sub + 1 ELSE 1
  <1>4. next \in Subs
    BY <1>1, <1>3, FeedsAssumption DEF Subs
  <1>5. NextSub = [Idle EXCEPT !.sub = next]
    BY DEF NextSub
  <1>. HIDE DEF next
  <1>. QED
    BY <1>2, <1>4, <1>5 DEF WorkerStates

LEMMA StartsEmpty ==
    /\ Idle.at = "list" /\ Idle.due = {} /\ Idle.left = {} /\ Idle.page = <<>>
    /\ NextSub.at = "list" /\ NextSub.due = {} /\ NextSub.left = {} /\ NextSub.page = <<>>
  BY DEF Idle, NextSub

\* insert_item: under a name that is free the text is stored, any other keeps its text.
LEMMA InsertKeeps ==
    ASSUME NEW name \in Names, NEW text \in Texts,
           ledger \in [Names -> Texts \union {NoText}],
           ledger' = WithItem(ledger, name, text)
    PROVE  /\ ledger' \in [Names -> Texts \union {NoText}]
           /\ \A n \in Names : n # name => ledger'[n] = ledger[n]
           /\ ledger[name] = NoText => ledger'[name] = text
           /\ ledger[name] # NoText => ledger'[name] = ledger[name]
  BY DEF WithItem

StoredIn(l, text) == \E n \in Names : l[n] = text

\* What is stored stays stored.
LEMMA StoredStays ==
    ASSUME NEW text \in Texts, Stored(text),
           \A n \in Names : ledger[n] # NoText => ledger'[n] = ledger[n]
    PROVE  StoredIn(ledger', text)
  BY TextsAreTexts DEF Stored, StoredIn

\* Reddit ranks the comments a post has, comments_per_post of them at most.
LEMMA FetchedPage ==
    ASSUME NEW p \in Posts, comments[p] \in 0..MaxComments, NEW page \in Rankings(p)
    PROVE  /\ page \in Seq(1..MaxComments) /\ DOMAIN page \subseteq 1..MaxComments
           /\ \A k \in DOMAIN page : page[k] \in 1..MaxComments
  <1>. DEFINE n == Min({comments[p], CommentLimit})
  <1>1. n \in Nat /\ n <= comments[p]
    BY BatchAssumption DEF Min
  <1>2. page \in [1..n -> 1..comments[p]]
    BY DEF Rankings, Injection
  <1>. HIDE DEF n
  <1>3. 1..comments[p] \subseteq 1..MaxComments /\ 1..n \subseteq 1..MaxComments
    BY <1>1, BatchAssumption
  <1>. DEFINE C == 1..MaxComments
  <1>4. page \in [1..n -> C]
    BY <1>2, <1>3
  <1>5. page \in Seq(C) /\ \A k \in DOMAIN page : page[k] \in C
    <2>. HIDE DEF C
    <2>. QED
      BY <1>1, <1>4
  <1>. QED
    BY <1>3, <1>4, <1>5

\* The comments that are left to store are comments.
LEMMA LeftComments ==
    ASSUME IngestTypes, worker.at = "comment", NEW k \in worker.left
    PROVE  worker.post \in Posts /\ worker.page[k] \in 1..MaxComments
  <1>. DEFINE page == worker.page
             C == 1..MaxComments
  <1>1. page \in Seq(C) /\ k \in DOMAIN page /\ worker.post \in Posts
    BY DEF IngestTypes, WorkerStates
  <1>2. page[k] \in C
    <2>. HIDE DEF page, C
    <2>. QED
      BY <1>1
  <1>. QED
    BY <1>1, <1>2

-------------------------------------------------------------------------------
(***************************************************************************)
(* Types.                                                                  *)
(***************************************************************************)

\* Every step of the worker and of Reddit keeps the types.
LEMMA NextIngestTypes == IngestTypes /\ [Next]_vars => IngestTypes'
  <1>. SUFFICES ASSUME IngestTypes, [Next]_vars PROVE IngestTypes'
    OBVIOUS
  <1>. USE DEF IngestTypes
  <1>0. worker \in WorkerStates /\ worker.todo \subseteq Posts /\ worker.left \subseteq 1..MaxComments
    BY DEF WorkerStates
  <1>1. CASE ListPosts
    <2>. DEFINE listed == Listing(worker.sub)
               newest == IF listed = {} THEN 0 ELSE Max(listed)
               due == {<<p, 0>> : p \in listed \intersect LongPosts}
    <2>1. listed \subseteq reddit /\ listed \in SUBSET Posts
      BY DEF Listing, NewestOf
    <2>2. newest \in Posts \union {0}
      <3>1. IsFiniteSet(listed) /\ listed \subseteq Nat
        BY <2>1, FS_Subset, PostsAssumption
      <3>. QED
        BY <2>1, <3>1, MaxOfFinite
    <2>3. due \subseteq Texts
      BY <2>1, TextsAreTexts
    <2>4. worker' = [worker EXCEPT !.at = "post", !.todo = listed, !.newest = newest, !.due = due]
          /\ UNCHANGED <<reddit, comments, ledger, cursor, aborts>>
      BY <1>1 DEF ListPosts
    <2>. HIDE DEF listed, newest, due
    <2>5. worker' \in WorkerStates
      BY <1>0, <2>1, <2>2, <2>3, <2>4 DEF WorkerStates
    <2>. QED
      BY <1>0, <2>4, <2>5 DEF WorkerStates
  <1>2. ASSUME NEW p \in Posts, SkipShortPost(p) PROVE IngestTypes'
    BY <1>0, <1>2 DEF SkipShortPost, WorkerStates
  <1>3. ASSUME NEW p \in Posts, PersistPost(p) PROVE IngestTypes'
    <2>1. ledger' \in [Names -> Texts \union {NoText}]
      BY <1>3, TextsAreTexts, InsertKeeps DEF PersistPost
    <2>2. worker' \in WorkerStates
      BY <1>0, <1>3 DEF PersistPost, WorkerStates
    <2>3. worker'.left = worker.left /\ worker'.page = worker.page /\ worker'.post = p
      BY <1>0, <1>3 DEF PersistPost, WorkerStates
    <2>. QED
      BY <1>3, <2>1, <2>2, <2>3 DEF PersistPost
  <1>4. ASSUME NEW p \in Posts, PersistPostFails(p) PROVE IngestTypes'
    <2>1. <<p, 0>> \in Texts
      BY TextsAreTexts
    <2>. QED
      BY <1>0, <1>4, <2>1 DEF PersistPostFails, WorkerStates
  <1>5. CASE FetchComments
    <2>1. worker.post \in Posts /\ comments[worker.post] \in 0..MaxComments
      BY <1>5 DEF FetchComments
    <2>2. PICK page \in Rankings(worker.post) :
            worker' = [worker EXCEPT !.at = "comment", !.page = page, !.left = DOMAIN page,
                                     !.due = @ \union ({worker.post} \X Range(page))]
      BY <1>5 DEF FetchComments
    <2>3. page \in Seq(1..MaxComments) /\ DOMAIN page \subseteq 1..MaxComments
      BY <2>1, <2>2, FetchedPage
    <2>4. {worker.post} \X Range(page) \subseteq Texts
      <3>1. Range(page) \subseteq 1..MaxComments
        BY <2>1, <2>2, FetchedPage DEF Range
      <3>. QED
        BY <2>1, <3>1, TextsAreTexts
    <2>5. worker' \in WorkerStates
      BY <1>0, <2>2, <2>3, <2>4 DEF WorkerStates
    <2>. QED
      BY <1>5, <2>1, <2>2, <2>5 DEF FetchComments, WorkerStates
  <1>6. CASE FetchFails
    BY <1>0, <1>6 DEF FetchFails, WorkerStates
  <1>7. ASSUME NEW k \in 1..MaxComments, PersistComment(k) PROVE IngestTypes'
    <2>1. worker.post \in Posts /\ worker.page[k] \in 1..MaxComments
      BY <1>7, LeftComments DEF PersistComment, IsNextComment
    <2>2. ledger' \in [Names -> Texts \union {NoText}]
      BY <1>7, <2>1, TextsAreTexts, InsertKeeps DEF PersistComment
    <2>3. worker' \in WorkerStates
      BY <1>0, <1>7 DEF PersistComment, WorkerStates
    <2>. QED
      BY <1>0, <1>7, <2>1, <2>2, <2>3 DEF PersistComment, WorkerStates
  <1>8. ASSUME NEW k \in 1..MaxComments, PersistCommentFails(k) PROVE IngestTypes'
    <2>1. worker.post \in Posts /\ worker.page[k] \in 1..MaxComments
      BY <1>8, LeftComments DEF PersistCommentFails, IsNextComment
    <2>2. <<worker.post, worker.page[k]>> \in Texts
      BY <2>1, TextsAreTexts
    <2>3. worker' \in WorkerStates
      BY <1>0, <1>8, <2>2 DEF PersistCommentFails, WorkerStates
    <2>. QED
      BY <1>0, <1>8, <2>1, <2>3 DEF PersistCommentFails, WorkerStates
  <1>9. CASE CommentsDone
    <2>. DEFINE none == <<>>
    <2>1. none \in Seq(1..MaxComments)
      OBVIOUS
    <2>2. worker' = [worker EXCEPT !.at = "post", !.page = none]
      BY <1>9 DEF CommentsDone
    <2>3. worker' \in WorkerStates
      <3>. HIDE DEF none
      <3>. QED
        BY <1>0, <2>1, <2>2 DEF WorkerStates
    <2>. QED
      BY <1>0, <1>9, <2>3 DEF CommentsDone, WorkerStates
  <1>10. CASE PostsDone
    BY <1>0, <1>10 DEF PostsDone, WorkerStates
  <1>11. CASE ListingFails
    BY <1>11, WorkerStarts, StartsEmpty DEF ListingFails
  <1>12. CASE MoveCursor
    <2>1. cursor' \in [Subs -> Posts \union {0}]
      BY <1>0, <1>12 DEF MoveCursor, WorkerStates
    <2>. QED
      BY <1>12, <2>1, WorkerStarts, StartsEmpty DEF MoveCursor
  <1>13. CASE AbortCycle
    BY <1>13, WorkerStarts, StartsEmpty, BatchAssumption DEF AbortCycle
  <1>14. CASE RedditMoves
    <2>1. ASSUME NEW s \in Subs, NEW p \in Posts, PostAppears(s, p) PROVE IngestTypes'
      BY <2>1, FS_AddElement DEF PostAppears
    <2>2. ASSUME NEW p \in Posts, PostRemoved(p) PROVE IngestTypes'
      BY <2>2, FS_RemoveElement DEF PostRemoved
    <2>3. ASSUME NEW p \in Posts, CommentAppears(p) PROVE IngestTypes'
      BY <2>3, BatchAssumption DEF CommentAppears
    <2>. QED
      BY <1>14, <2>1, <2>2, <2>3 DEF RedditMoves
  <1>15. CASE UNCHANGED vars
    BY <1>15 DEF vars
  <1>. QED
    BY <1>1, <1>2, <1>3, <1>4, <1>5, <1>6, <1>7, <1>8, <1>9, <1>10, <1>11, <1>12, <1>13, <1>14, <1>15
    DEF Next, Works, Fails

-------------------------------------------------------------------------------
(***************************************************************************)
(* The ledger.  Only two steps write to it.                                *)
(***************************************************************************)

\* Every other step leaves the ledger alone.
LEMMA OtherStepsKeepLedger ==
    ASSUME [Next]_vars,
           ~(\E p \in Posts : PersistPost(p)), ~(\E k \in 1..MaxComments : PersistComment(k))
    PROVE  ledger' = ledger
  BY DEF Next, Works, Fails, RedditMoves, vars, ListPosts, SkipShortPost, PersistPostFails,
     FetchComments, FetchFails, PersistCommentFails, CommentsDone, PostsDone, MoveCursor,
     ListingFails, AbortCycle, PostAppears, PostRemoved, CommentAppears

\* A post is stored under its name.
LEMMA PostIsInserted ==
    ASSUME IngestTypes, NamesAreKept, NEW p \in Posts, PersistPost(p)
    PROVE  /\ PostName(p) \in Names /\ ledger'[PostName(p)] = <<p, 0>>
           /\ \A n \in Names : n # PostName(p) => ledger'[n] = ledger[n]
           /\ ledger[PostName(p)] # NoText => ledger'[PostName(p)] = ledger[PostName(p)]
  <1>1. PostName(p) \in Names /\ <<p, 0>> \in Texts /\ NoText # <<p, 0>>
    BY TextsAreTexts
  <1>2. ledger[PostName(p)] \in {NoText, <<p, 0>>}
    <2>1. NameTells(PostName(p)) /\ PostName(p)[2] = p /\ PostName(p)[3] = 0
      BY DEF NameTells, PostName
    <2>. QED
      BY <1>1, <2>1 DEF NamesAreKept
  <1>. QED
    BY <1>1, <1>2, InsertKeeps DEF PersistPost, IngestTypes

\* A comment is stored under the name it is given, unless that name is taken.
LEMMA CommentIsInserted ==
    ASSUME IngestTypes, NamesAreKept, NEW k \in 1..MaxComments, PersistComment(k),
           NEW c, c = worker.page[k], NEW name, name = CommentName(worker.post, c, k)
    PROVE  /\ worker.post \in Posts /\ c \in 1..MaxComments /\ name \in Names
           /\ \A n \in Names : n # name => ledger'[n] = ledger[n]
           /\ ledger[name] # NoText => ledger'[name] = ledger[name]
           /\ ledger[name] = NoText => ledger'[name] = <<worker.post, c>>
           /\ Source = "praw" => ledger'[name] = <<worker.post, c>>
           /\ NameTells(name) => Source = "praw" /\ name[2] = worker.post /\ name[3] = c
  <1>1. worker.post \in Posts /\ c \in 1..MaxComments
    BY LeftComments DEF PersistComment, IsNextComment
  <1>2. name \in Names /\ <<worker.post, c>> \in Texts
    BY <1>1, TextsAreTexts
  <1>3. ledger' = WithItem(ledger, name, <<worker.post, c>>)
    BY DEF PersistComment
  <1>4. NameTells(name) => Source = "praw" /\ name[2] = worker.post /\ name[3] = c
    BY DEF NameTells, CommentName
  <1>5. Source = "praw" => ledger[name] \in {NoText, <<worker.post, c>>}
    BY <1>2, <1>4 DEF NamesAreKept, NameTells
  <1>. QED
    BY <1>1, <1>2, <1>3, <1>4, <1>5, InsertKeeps DEF IngestTypes

\* insert_item never changes a row that is there.
LEMMA LedgerGrows ==
    ASSUME IngestTypes, NamesAreKept, [Next]_vars
    PROVE  \A n \in Names : ledger[n] # NoText => ledger'[n] = ledger[n]
  <1>1. ASSUME NEW p \in Posts, PersistPost(p)
        PROVE  \A n \in Names : ledger[n] # NoText => ledger'[n] = ledger[n]
    BY <1>1, PostIsInserted
  <1>2. ASSUME NEW k \in 1..MaxComments, PersistComment(k)
        PROVE  \A n \in Names : ledger[n] # NoText => ledger'[n] = ledger[n]
    BY <1>2, CommentIsInserted
  <1>. QED
    BY <1>1, <1>2, OtherStepsKeepLedger

LEMMA NextNamesAreKept == IngestTypes /\ NamesAreKept /\ [Next]_vars => NamesAreKept'
  <1>. SUFFICES ASSUME IngestTypes, NamesAreKept, [Next]_vars,
                       NEW n \in Names, NameTells(n)
                PROVE  ledger'[n] \in {NoText, <<n[2], n[3]>>}
    BY DEF NamesAreKept, NameTells
  <1>1. ledger[n] \in {NoText, <<n[2], n[3]>>}
    BY DEF NamesAreKept
  <1>2. ASSUME NEW p \in Posts, PersistPost(p) PROVE ledger'[n] \in {NoText, <<n[2], n[3]>>}
    <2>1. PostName(p)[2] = p /\ PostName(p)[3] = 0
      BY DEF PostName
    <2>. QED
      BY <1>1, <1>2, <2>1, PostIsInserted
  <1>3. ASSUME NEW k \in 1..MaxComments, PersistComment(k)
        PROVE  ledger'[n] \in {NoText, <<n[2], n[3]>>}
    BY <1>1, <1>3, CommentIsInserted
  <1>. QED
    BY <1>1, <1>2, <1>3, OtherStepsKeepLedger

-------------------------------------------------------------------------------
(***************************************************************************)
(* Posts before their comments.                                            *)
(***************************************************************************)

\* The worker gets to the comments of a post by storing the post only.
LEMMA WorkerInComments ==
    ASSUME IngestTypes, [Next]_vars, worker'.at \in {"fetch", "comment"}
    PROVE  \/ \E p \in Posts : PersistPost(p)
           \/ worker'.post = worker.post /\ worker.at \in {"fetch", "comment"}
  <1>1. worker \in WorkerStates
    BY DEF IngestTypes
  <1>2. CASE Works
    BY <1>1, <1>2 DEF Works, ListPosts, SkipShortPost, FetchComments, PersistComment, IsNextComment,
       CommentsDone, PostsDone, MoveCursor, WorkerStates, NextSub, Idle
  <1>3. CASE Fails
    <2>1. CASE ListingFails \/ AbortCycle
      BY <2>1, StartsEmpty DEF ListingFails, AbortCycle
    <2>2. ASSUME NEW p \in Posts, PersistPostFails(p) PROVE FALSE
      BY <1>1, <2>2 DEF PersistPostFails, WorkerStates
    <2>3. CASE FetchFails
      BY <1>1, <2>3 DEF FetchFails, WorkerStates
    <2>4. ASSUME NEW k \in 1..MaxComments, PersistCommentFails(k)
          PROVE  worker'.post = worker.post /\ worker.at \in {"fetch", "comment"}
      BY <1>1, <2>4 DEF PersistCommentFails, IsNextComment, WorkerStates
    <2>. QED
      BY <1>3, <2>1, <2>2, <2>3, <2>4 DEF Fails
  <1>4. CASE RedditMoves \/ UNCHANGED vars
    BY <1>4 DEF RedditMoves, vars, PostAppears, PostRemoved, CommentAppears
  <1>. QED
    BY <1>2, <1>3, <1>4 DEF Next

\* The text stored under a name that was free before the step has its post stored.
LEMMA NextPostsComeFirst ==
    IngestTypes /\ NamesAreKept /\ PostsComeFirst /\ [Next]_vars => PostsComeFirst'
  <1>. SUFFICES ASSUME IngestTypes, NamesAreKept, PostsComeFirst, [Next]_vars
                PROVE  PostsComeFirst'
    OBVIOUS
  <1>1. ASSUME NEW p \in Posts, Stored(<<p, 0>>) PROVE StoredIn(ledger', <<p, 0>>)
    BY <1>1, TextsAreTexts, StoredStays, LedgerGrows
  <1>2. ASSUME NEW n \in Names, ledger'[n] # NoText, ledger'[n] = ledger[n]
        PROVE  StoredIn(ledger', <<ledger[n][1], 0>>)
    <2>1. Stored(<<ledger[n][1], 0>>)
      BY <1>2 DEF PostsComeFirst, CommentsHaveTheirPost
    <2>2. ledger[n][1] \in Posts
      BY <1>2 DEF IngestTypes, Texts
    <2>. QED
      BY <1>1, <2>1, <2>2
  <1>3. ASSUME NEW p \in Posts, PersistPost(p) PROVE StoredIn(ledger', <<p, 0>>)
    BY <1>3, PostIsInserted DEF StoredIn
  <1>4. ASSUME NEW n \in Names, ledger'[n] # NoText PROVE StoredIn(ledger', <<ledger'[n][1], 0>>)
    <2>1. CASE ledger'[n] = ledger[n]
      BY <1>2, <1>4, <2>1
    <2>2. ASSUME NEW p \in Posts, PersistPost(p), ledger'[n] # ledger[n]
          PROVE  StoredIn(ledger', <<ledger'[n][1], 0>>)
      <3>1. ledger'[n] = <<p, 0>>
        BY <2>2, PostIsInserted
      <3>. QED
        BY <1>3, <2>2, <3>1
    <2>3. ASSUME NEW k \in 1..MaxComments, PersistComment(k), ledger'[n] # ledger[n]
          PROVE  StoredIn(ledger', <<ledger'[n][1], 0>>)
      <3>. DEFINE c == worker.page[k]
                 name == CommentName(worker.post, c, k)
      <3>1. worker.post \in Posts /\ ledger'[n] = <<worker.post, c>>
        BY <2>3, CommentIsInserted
      <3>2. Stored(<<worker.post, 0>>)
        BY <2>3 DEF PersistComment, IsNextComment, PostsComeFirst
      <3>. QED
        BY <1>1, <3>1, <3>2
    <2>. QED
      BY <2>1, <2>2, <2>3, OtherStepsKeepLedger
  <1>5. ASSUME worker'.at \in {"fetch", "comment"} PROVE StoredIn(ledger', <<worker'.post, 0>>)
    <2>1. ASSUME NEW p \in Posts, PersistPost(p) PROVE StoredIn(ledger', <<worker'.post, 0>>)
      <3>1. worker'.post = p
        BY <2>1 DEF PersistPost, IngestTypes, WorkerStates
      <3>. QED
        BY <1>3, <2>1, <3>1
    <2>2. CASE worker'.post = worker.post /\ worker.at \in {"fetch", "comment"}
      <3>1. worker.post \in Posts /\ Stored(<<worker.post, 0>>)
        BY <2>2 DEF IngestTypes, PostsComeFirst
      <3>. QED
        BY <1>1, <2>2, <3>1
    <2>3. (\E p \in Posts : PersistPost(p)) \/ (worker'.post = worker.post /\ worker.at \in {"fetch", "comment"})
      BY <1>5, WorkerInComments
    <2>. QED
      BY <2>1, <2>2, <2>3
  <1>. QED
    BY <1>4, <1>5 DEF PostsComeFirst, CommentsHaveTheirPost, Stored, StoredIn

-------------------------------------------------------------------------------
(***************************************************************************)
(* Nothing is dropped.                                                     *)
(***************************************************************************)

Handled(text) == Stored(text) \/ text \in worker.failed \/ Ahead(text)

\* What comes of a text that is ahead in a step that neither lists nor fetches.
LEMMA PostHandled ==
    ASSUME IngestInv, [Next]_vars, NEW p \in Posts, NEW q \in Posts, q \in worker.todo,
           SkipShortPost(p) \/ PersistPost(p) \/ PersistPostFails(p),
           q \in LongPosts
    PROVE  Handled(<<q, 0>>)'
  <1>1. worker \in WorkerStates
    BY DEF IngestInv, IngestTypes
  <1>2. CASE q # p
    <2>1. q \in worker'.todo
      BY <1>1, <1>2 DEF SkipShortPost, PersistPost, PersistPostFails, WorkerStates
    <2>. QED
      BY <2>1 DEF Handled, Ahead
  <1>3. CASE q = p /\ PersistPost(p)
    BY <1>3, PostIsInserted DEF IngestInv, Handled, Stored
  <1>4. CASE q = p /\ PersistPostFails(p)
    <2>1. <<p, 0>> \in worker'.failed
      BY <1>1, <1>4 DEF PersistPostFails, WorkerStates
    <2>. QED
      BY <1>4, <2>1 DEF Handled
  <1>5. CASE q = p /\ SkipShortPost(p)
    BY <1>5 DEF SkipShortPost
  <1>. QED
    BY <1>2, <1>3, <1>4, <1>5

\* A comment under a name that tells is stored as itself, or counted.
LEMMA CommentHandled ==
    ASSUME IngestInv, [Next]_vars, NEW k \in 1..MaxComments, NEW j \in worker.left,
           PersistComment(k) \/ PersistCommentFails(k), Source = "praw",
           NEW text, text = <<worker.post, worker.page[j]>>
    PROVE  Handled(text)'
  <1>1. worker \in WorkerStates /\ worker.at = "comment"
    BY DEF IngestInv, IngestTypes, PersistComment, PersistCommentFails, IsNextComment
  <1>2. worker'.at = "comment" /\ worker'.post = worker.post /\ worker'.page = worker.page
        /\ worker'.left = worker.left \ {k}
    BY <1>1 DEF PersistComment, PersistCommentFails, WorkerStates
  <1>3. CASE j # k
    BY <1>2, <1>3 DEF Handled, Ahead
  <1>4. CASE j = k /\ PersistComment(k)
    <2>. DEFINE c == worker.page[k]
               name == CommentName(worker.post, c, k)
    <2>1. name \in Names /\ ledger'[name] = <<worker.post, c>>
      BY <1>4, CommentIsInserted DEF IngestInv
    <2>. HIDE DEF name
    <2>. QED
      BY <1>4, <2>1 DEF Handled, Stored
  <1>5. CASE j = k /\ PersistCommentFails(k)
    <2>1. text \in worker'.failed
      BY <1>1, <1>5 DEF PersistCommentFails, WorkerStates
    <2>. QED
      BY <2>1 DEF Handled
  <1>. QED
    BY <1>3, <1>4, <1>5

\* A step that neither lists nor fetches sets out to store nothing new, forgets no
\* failure, and handles what was ahead.
LEMMA SameDueHandled ==
    ASSUME IngestInv, [Next]_vars, worker'.due = worker.due, worker.failed \subseteq worker'.failed,
           NEW text \in worker.due, TextTells(text),
           Ahead(text) => Handled(text)'
    PROVE  Handled(text)'
  <1>1. text \in Texts
    BY DEF IngestInv, IngestTypes, WorkerStates
  <1>2. Stored(text) \/ text \in worker.failed \/ Ahead(text)
    BY DEF IngestInv, DueIsHandled
  <1>3. CASE Stored(text)
    BY <1>1, <1>3, StoredStays, LedgerGrows DEF IngestInv, Handled, Stored, StoredIn
  <1>4. CASE text \in worker.failed
    BY <1>4 DEF Handled
  <1>. QED
    BY <1>2, <1>3, <1>4

LEMMA NextDueIsHandled == IngestInv /\ [Next]_vars => DueIsHandled'
  <1>. SUFFICES ASSUME IngestInv, [Next]_vars PROVE DueIsHandled'
    OBVIOUS
  <1>1. IngestTypes /\ worker \in WorkerStates /\ DueIsHandled
    BY DEF IngestInv, IngestTypes
  <1>2. CASE ListingFails \/ MoveCursor \/ AbortCycle
    <2>1. worker'.due = {} /\ worker'.at = "list"
      BY <1>2, StartsEmpty DEF ListingFails, MoveCursor, AbortCycle
    <2>. QED
      BY <2>1 DEF DueIsHandled
  <1>3. CASE ListPosts
    <2>. DEFINE listed == Listing(worker.sub)
    <2>1. worker'.due = {<<p, 0>> : p \in listed \intersect LongPosts} /\ worker'.todo = listed
          /\ worker'.at = "post"
      BY <1>1, <1>3 DEF ListPosts, WorkerStates
    <2>. HIDE DEF listed
    <2>2. ASSUME NEW text \in worker'.due
          PROVE  text[1] \in LongPosts /\ Ahead(text)'
      <3>1. PICK p \in listed \intersect LongPosts : text = <<p, 0>>
        BY <2>1, <2>2
      <3>. QED
        BY <2>1, <3>1 DEF Ahead
    <2>. QED
      BY <2>1, <2>2 DEF DueIsHandled
  <1>4. ASSUME NEW p \in Posts, SkipShortPost(p) \/ PersistPost(p) \/ PersistPostFails(p)
        PROVE  DueIsHandled'
    <2>1. worker'.due = worker.due /\ worker.failed \subseteq worker'.failed /\ worker'.at # "cursor"
          /\ worker.at = "post"
      BY <1>1, <1>4 DEF SkipShortPost, PersistPost, PersistPostFails, WorkerStates
    <2>2. ASSUME NEW text \in worker.due, Ahead(text) PROVE Handled(text)'
      <3>1. PICK q \in worker.todo : text = <<q, 0>>
        BY <2>1, <2>2 DEF Ahead
      <3>2. q \in Posts /\ q \in LongPosts
        BY <1>1, <2>2, <3>1 DEF DueIsHandled, WorkerStates
      <3>. QED
        BY <1>4, <3>1, <3>2, PostHandled
    <2>. QED
      BY <1>1, <2>1, <2>2, SameDueHandled DEF DueIsHandled, Handled, TextTells
  <1>5. CASE FetchComments
    <2>1. PICK page \in Rankings(worker.post) :
            worker' = [worker EXCEPT !.at = "comment", !.page = page, !.left = DOMAIN page,
                                     !.due = @ \union ({worker.post} \X Range(page))]
      BY <1>5 DEF FetchComments
    <2>2. worker'.at = "comment" /\ worker'.page = page /\ worker'.left = DOMAIN page
          /\ worker'.due = worker.due \union ({worker.post} \X Range(page))
          /\ UNCHANGED ledger /\ worker'.post = worker.post /\ worker'.todo = worker.todo
          /\ worker'.failed = worker.failed /\ worker.at = "fetch"
      BY <1>1, <1>5, <2>1 DEF FetchComments, WorkerStates
    <2>3. ASSUME NEW text \in {worker.post} \X Range(page)
          PROVE  text[2] # 0 /\ Ahead(text)'
      <3>1. PICK k \in DOMAIN page : text = <<worker.post, page[k]>>
        BY <2>3 DEF Range
      <3>2. page[k] \in 1..MaxComments
        BY <1>1, <1>5, FetchedPage DEF FetchComments, IngestTypes
      <3>3. page[k] # 0
        BY <3>2, BatchAssumption
      <3>. QED
        BY <2>2, <3>1, <3>3 DEF Ahead
    <2>4. ASSUME NEW text \in worker.due
          PROVE  /\ text[2] = 0 => text[1] \in LongPosts
                 /\ TextTells(text) => Handled(text)'
      BY <1>1, <2>2 DEF DueIsHandled, Handled, Stored, Ahead
    <2>. QED
      BY <2>2, <2>3, <2>4 DEF DueIsHandled, Handled, TextTells
  <1>6. ASSUME NEW k \in 1..MaxComments, PersistComment(k) \/ PersistCommentFails(k)
        PROVE  DueIsHandled'
    <2>1. worker'.due = worker.due /\ worker.failed \subseteq worker'.failed /\ worker'.at # "cursor"
          /\ worker.at = "comment" /\ worker'.todo = worker.todo
      BY <1>1, <1>6 DEF PersistComment, PersistCommentFails, IsNextComment, WorkerStates
    <2>2. ASSUME NEW text \in worker.due, TextTells(text), Ahead(text) PROVE Handled(text)'
      <3>1. CASE \E p \in worker.todo : text = <<p, 0>>
        BY <2>1, <3>1 DEF Handled, Ahead
      <3>2. ASSUME NEW j \in worker.left, text = <<worker.post, worker.page[j]>> PROVE Handled(text)'
        <4>1. worker.page[j] \in 1..MaxComments
          BY <1>1, <2>1, LeftComments
        <4>2. text[2] # 0
          BY <3>2, <4>1, BatchAssumption
        <4>. QED
          BY <1>6, <2>2, <3>2, <4>2, CommentHandled DEF TextTells
      <3>. QED
        BY <2>2, <3>1, <3>2 DEF Ahead
    <2>. QED
      BY <1>1, <2>1, <2>2, SameDueHandled DEF DueIsHandled, Handled, TextTells
  <1>7. CASE FetchFails \/ CommentsDone \/ PostsDone \/ RedditMoves \/ UNCHANGED vars
    <2>1. worker'.due = worker.due /\ worker'.failed = worker.failed /\ worker'.todo = worker.todo
          /\ (worker'.at = "cursor" => worker.todo = {}) /\ ledger' = ledger
      <3>1. CASE FetchFails \/ CommentsDone \/ PostsDone
        BY <1>1, <3>1 DEF FetchFails, CommentsDone, PostsDone, WorkerStates
      <3>2. CASE RedditMoves \/ UNCHANGED vars
        BY <1>1, <3>2 DEF RedditMoves, PostAppears, PostRemoved, CommentAppears, vars, DueIsHandled
      <3>. QED
        BY <1>7, <3>1, <3>2
    <2>2. ASSUME NEW text, Ahead(text) PROVE Ahead(text)'
      <3>1. CASE FetchFails \/ CommentsDone \/ PostsDone
        BY <1>1, <2>1, <2>2, <3>1 DEF FetchFails, CommentsDone, PostsDone, Ahead
      <3>2. CASE RedditMoves \/ UNCHANGED vars
        BY <2>2, <3>2 DEF RedditMoves, PostAppears, PostRemoved, CommentAppears, vars, Ahead
      <3>. QED
        BY <1>7, <3>1, <3>2
    <2>. QED
      BY <1>1, <2>1, <2>2 DEF DueIsHandled, Stored
  <1>. QED
    BY <1>2, <1>3, <1>4, <1>5, <1>6, <1>7 DEF Next, Works, Fails

-------------------------------------------------------------------------------
(***************************************************************************)
(* The invariant is inductive.                                             *)
(***************************************************************************)

\* Before the first post appears nothing is listed, stored or due.
LEMMA InitIngestInv == Init => IngestInv
  <1>. SUFFICES ASSUME Init PROVE IngestInv
    OBVIOUS
  <1>1. IngestTypes
    <2>1. Idle \in WorkerStates
      <3>1. 1 \in Subs
        BY FeedsAssumption DEF Subs
      <3>. QED
        BY <3>1 DEF Idle, WorkerStates
    <2>2. worker.at = "list" /\ worker.left = {}
      BY StartsEmpty DEF Init
    <2>. QED
      BY <2>1, <2>2, FS_EmptySet, BatchAssumption DEF Init, IngestTypes
  <1>2. NamesAreKept /\ CommentsHaveTheirPost
    BY DEF Init, NamesAreKept, CommentsHaveTheirPost
  <1>3. PostsComeFirst /\ DueIsHandled
    BY <1>2, StartsEmpty DEF Init, PostsComeFirst, DueIsHandled
  <1>. QED
    BY <1>1, <1>2, <1>3 DEF IngestInv

LEMMA NextIngestInv == IngestInv /\ [Next]_vars => IngestInv'
  BY NextIngestTypes, NextNamesAreKept, NextPostsComeFirst, NextDueIsHandled DEF IngestInv

\* The invariant holds throughout every run of the ingest phase.
THEOREM IngestInvAlways == Spec => []IngestInv
  BY InitIngestInv, NextIngestInv, PTL DEF Spec

-------------------------------------------------------------------------------
(***************************************************************************)
(* Theorems.                                                               *)
(***************************************************************************)

\* The state of Reddit, of the ledger and of ingest_once keeps its types: the cursor
\* names a listed post, the next subreddit is one of the configured.
THEOREM IngestTypesCorrect == Spec => []TypeOK
  <1>1. IngestInv => TypeOK
    BY DEF IngestInv, IngestTypes, WorkerStates, TypeOK
  <1>. QED
    BY <1>1, IngestInvAlways, PTL

\* parent_fullname of a stored comment names a stored post, with both sources.
THEOREM CommentsAfterPosts == Spec => []CommentsHaveTheirPost
  <1>1. IngestInv => CommentsHaveTheirPost
    BY DEF IngestInv, PostsComeFirst
  <1>. QED
    BY <1>1, IngestInvAlways, PTL

\* With the names of the API, all that ingest_once listed and fetched is stored as
\* itself or counted when it is done, whatever fails on the way.
THEOREM PrawDropsNothing ==
    ASSUME Source = "praw"
    PROVE  Spec => []NothingIsDropped
  <1>1. IngestInv => NothingIsDropped
    BY DEF IngestInv, DueIsHandled, TextTells, Ahead, NothingIsDropped
  <1>. QED
    BY <1>1, IngestInvAlways, PTL

\* With either source the same holds of the posts: what scraping drops is comments only.
NoPostIsDropped ==
    worker.at = "cursor" =>
        \A text \in worker.due : text[2] = 0 => Stored(text) \/ text \in worker.failed
THEOREM PostsAreNeverDropped == Spec => []NoPostIsDropped
  <1>1. IngestInv => NoPostIsDropped
    BY DEF IngestInv, DueIsHandled, TextTells, Ahead, NoPostIsDropped
  <1>. QED
    BY <1>1, IngestInvAlways, PTL
===============================================================================
