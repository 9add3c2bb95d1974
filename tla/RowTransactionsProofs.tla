------------------------- MODULE RowTransactionsProofs -------------------------
(***************************************************************************)
(* Theorems about RowTransactions, for any set of clients, attempt limit   *)
(* and number of deaths.                                                   *)
(***************************************************************************)
EXTENDS RowTransactions, TLAPS

-------------------------------------------------------------------------------
(***************************************************************************)
(* The inductive invariant.  What it says of a client only depends on what *)
(* is committed, on the client and on the locks the client holds.          *)
(***************************************************************************)

Updates == {"distilled", "submitted", "requeue"}

\* The lock of the row: who has it has written draft from the committed row.
Writes(c) ==
    \/ /\ At(c, {"insert"}, "commit")
       /\ item.state = "absent" /\ draft = FreshRow
    \/ /\ At(c, Updates, "commit")
       /\ Matches(client[c].op, item) /\ draft = Updated(client[c].op, c, item)
    \/ /\ At(c, {"fail"}, "select")
       /\ item.state # "absent" /\ draft = [item EXCEPT !.attempts = @ + 1]
    \/ /\ At(c, {"fail"}, "settle")
       /\ item.state # "absent" /\ draft = [item EXCEPT !.attempts = @ + 1]
       /\ client[c].verdict = Verdict(draft.attempts)
    \/ /\ At(c, {"fail"}, "commit")
       /\ item.state # "absent"
       /\ \/ draft = RecordDistillFailure(item, MaxAttempts) /\ client[c].verdict = draft.state
          \/ purged /\ draft = [item EXCEPT !.state = client[c].verdict, !.job = NoJob]
    \/ /\ At(c, {"purge"}, "commit")
       /\ item.state # "absent" /\ draft = AbsentRow
       /\ result = NoJob \/ storer = c

\* The key of the result: who has it is about to insert one, or has deleted the one
\* there is.
Stores(c) ==
    \/ At(c, {"store"}, "key") /\ result = NoJob
    \/ At(c, {"store"}, "commit") /\ result = NoJob /\ c \in sharers
    \/ (At(c, {"purge"}, "delete") \/ At(c, {"purge"}, "commit")) /\ result # NoJob

ClientInv(c) ==
    /\ client[c].at = "idle" => client[c] = Idle
    /\ client[c].at # "idle" => client[c].op \in Methods
    \* Only a purge takes away what the caller has seen.
    /\ client[c].op \in {"distilled", "submitted", "fail", "store"} =>
         item.state # "absent" \/ purged
    /\ At(c, {"insert"}, "reread") => item.state # "absent" \/ purged
    /\ At(c, {"store"}, "reread") => result # NoJob \/ purged
    /\ At(c, {"fail"}, "select") \/ At(c, {"fail"}, "settle") => writer = c \/ purged
    /\ At(c, {"fail"}, "settle") \/ At(c, {"fail"}, "commit") =>
         client[c].verdict \in {"new", "failed"}
    \* Whoever is about to commit has what it wrote, and a result its key before that.
    /\ At(c, {"store"}, "key") => storer = c
    /\ client[c].at = "commit" => IF client[c].op = "store" THEN storer = c ELSE writer = c
    /\ writer = c => Writes(c)
    /\ storer = c => Stores(c)
    /\ c \in sharers => At(c, {"store"}, "commit")

\* The foreign key: a row that a result being inserted refers to stays.
KeyHeld ==
    sharers # {} => item.state # "absent" /\ (writer # Nobody => draft.state # "absent")

\* The types alone: that a lock is held by an open transaction only is a consequence of
\* the invariant of the clients.
Types ==
    /\ item \in Row /\ draft \in Row
    /\ writer \in Clients \union {Nobody} /\ storer \in Clients \union {Nobody}
    /\ sharers \subseteq Clients
    /\ result \in Nat /\ purged \in BOOLEAN
    /\ client \in [Clients -> [op : Methods \union {"none"}, at : Steps,
                               verdict : Verdicts, answer : Answers]]
    /\ deaths \in 0..MaxDeaths

RowInv ==
    /\ Types
    /\ ResultHasItem
    /\ item.state = "absent" => item = AbsentRow
    /\ KeyHeld
    /\ \A c \in Clients : ClientInv(c)

-------------------------------------------------------------------------------
(***************************************************************************)
(* Lemmas about single clients.                                            *)
(***************************************************************************)

\* The invariant says all the type invariant says: who holds a lock is in a transaction.
LEMMA TypesOfRowInv == RowInv => RowTypeOK
  <1>. SUFFICES ASSUME RowInv PROVE RowTypeOK
    OBVIOUS
  <1>1. ASSUME NEW c \in {writer, storer} \union sharers, c # Nobody
        PROVE  client[c].at \notin {"idle", "begin", "reread", "done"}
    <2>1. c \in Clients /\ ClientInv(c)
      BY <1>1 DEF RowInv, Types
    <2>. QED
      BY <1>1, <2>1 DEF ClientInv, Writes, Stores, At
  <1>. QED
    BY <1>1 DEF RowInv, Types, RowTypeOK

\* What is committed, the client itself and the locks it holds are all that the
\* invariant of a client depends on.
LEMMA Undisturbed ==
    ASSUME NEW d \in Clients, ClientInv(d), client'[d] = client[d], UNCHANGED Committed,
           writer' = d <=> writer = d, writer = d => draft' = draft,
           storer' = d <=> storer = d, d \in sharers' <=> d \in sharers
    PROVE  ClientInv(d)'
  BY DEF ClientInv, Writes, Stores, At, Committed, Matches, Updated

\* The next statement of a client is all that Continue changes.
LEMMA ContinueType ==
    ASSUME Types, NEW c \in Clients, NEW step \in Steps, Continue(c, step)
    PROVE  /\ client' \in [Clients -> [op : Methods \union {"none"}, at : Steps,
                                       verdict : Verdicts, answer : Answers]]
           /\ client'[c].at = step /\ client'[c].op = client[c].op
           /\ client'[c].verdict = client[c].verdict /\ client'[c].answer = client[c].answer
           /\ \A d \in Clients \ {c} : client'[d] = client[d]
  BY DEF Types, Continue

\* And AnswerWith only ends the method of the client that answers.
LEMMA AnswerType ==
    ASSUME Types, NEW c \in Clients, NEW answer \in Answers, AnswerWith(c, answer)
    PROVE  /\ client' \in [Clients -> [op : Methods \union {"none"}, at : Steps,
                                       verdict : Verdicts, answer : Answers]]
           /\ client'[c].at = "done" /\ client'[c].op = client[c].op
           /\ client'[c].verdict = client[c].verdict /\ client'[c].answer = answer
           /\ \A d \in Clients \ {c} : client'[d] = client[d]
  BY DEF Types, AnswerWith, Steps

\* A step of c does nothing to what the others hold: their locks, and the row as the
\* one that has its lock has written it.
LeavesOthers(c) ==
    \A d \in Clients \ {c} :
        /\ client'[d] = client[d]
        /\ writer' = d <=> writer = d
        /\ writer = d => draft' = draft
        /\ storer' = d <=> storer = d
        /\ d \in sharers' <=> d \in sharers

\* A statement that commits nothing concerns the client that executes it, and the locks.
LEMMA StatementKeepsOthers ==
    ASSUME RowInv, NEW c \in Clients, UNCHANGED Committed, LeavesOthers(c),
           Types', ClientInv(c)', KeyHeld'
    PROVE  RowInv'
  <1>1. \A d \in Clients \ {c} : ClientInv(d)'
    BY Undisturbed DEF RowInv, LeavesOthers
  <1>2. ResultHasItem' /\ (item.state = "absent" => item = AbsentRow)'
    BY DEF RowInv, Committed, ResultHasItem
  <1>. QED
    BY <1>1, <1>2 DEF RowInv

\* A statement that takes and releases no lock needs its own client looked at only.
LEMMA LocklessStatement ==
    ASSUME RowInv, NEW c \in Clients, UNCHANGED <<Committed, Locks, deaths>>,
           client' \in [Clients -> [op : Methods \union {"none"}, at : Steps,
                                    verdict : Verdicts, answer : Answers]],
           \A d \in Clients \ {c} : client'[d] = client[d],
           ClientInv(c)'
    PROVE  RowInv'
  <1>1. Types'
    BY DEF RowInv, Types, Committed, Locks
  <1>2. KeyHeld'
    BY DEF RowInv, KeyHeld, Committed, Locks
  <1>3. LeavesOthers(c)
    BY DEF LeavesOthers, Locks
  <1>. QED
    BY <1>1, <1>2, <1>3, StatementKeepsOthers DEF Committed

\* Who takes the lock of the row takes it from nobody.
LEMMA LockLeavesOthers ==
    ASSUME Types, NEW c \in Clients, NEW written, writer \in {c, Nobody}, Lock(c, written),
           \A d \in Clients \ {c} : client'[d] = client[d]
    PROVE  LeavesOthers(c)
  BY ClientsAssumption DEF LeavesOthers, Lock, Nobody

\* Who releases its locks leaves the others theirs.
LEMMA ReleaseLeavesOthers ==
    ASSUME Types, NEW c \in Clients, Release(c),
           \A d \in Clients \ {c} : client'[d] = client[d]
    PROVE  /\ LeavesOthers(c)
           /\ writer' # c /\ storer' # c /\ c \notin sharers'
           /\ writer' \in Clients \union {Nobody} /\ storer' \in Clients \union {Nobody}
           /\ sharers' \subseteq sharers
           /\ writer' # Nobody => writer' = writer /\ draft' = draft
           /\ draft' \in {draft, AbsentRow}
  BY ClientsAssumption DEF Types, LeavesOthers, Release, Nobody

\* The row a client starts with, and the one a purge leaves.
LEMMA SomeRows == AbsentRow \in Row /\ FreshRow \in Row /\ LegacyRow \in Row
  BY DEF Row, States, AbsentRow, FreshRow, LegacyRow, NoJob

\* The initial states satisfy the invariant.
LEMMA InitRowInv == Init => RowInv
  <1>. SUFFICES ASSUME Init PROVE RowInv
    OBVIOUS
  <1>1. Types
    <2>1. Idle \in [op : Methods \union {"none"}, at : Steps,
                   verdict : Verdicts, answer : Answers]
      BY DEF Idle, Steps, Verdicts, Answers
    <2>2. result \in Nat /\ deaths \in 0..MaxDeaths
      BY DeathsAssumption DEF Init, NoJob
    <2>. QED
      BY <2>1, <2>2, SomeRows DEF Init, Types
  <1>2. ASSUME NEW c \in Clients PROVE ClientInv(c)
    BY ClientsAssumption DEF Init, ClientInv, At, Idle, Nobody
  <1>3. KeyHeld /\ ResultHasItem /\ (item.state = "absent" => item = AbsentRow)
    BY DEF Init, KeyHeld, ResultHasItem, AbsentRow, FreshRow, LegacyRow
  <1>. QED
    BY <1>1, <1>2, <1>3 DEF RowInv

-------------------------------------------------------------------------------
(***************************************************************************)
(* The statements keep the invariant: those that only read.                *)
(***************************************************************************)

\* A call starts in its first statement.
LEMMA CallKeeps ==
    ASSUME RowInv, NEW c \in Clients, NEW op \in Methods, Call(c, op) PROVE RowInv'
  <1>1. client' \in [Clients -> [op : Methods \union {"none"}, at : Steps,
                                 verdict : Verdicts, answer : Answers]]
    BY DEF RowInv, Types, Call, Steps
  <1>2. /\ client'[c].op = op /\ client'[c].at = "begin"
        /\ \A d \in Clients \ {c} : client'[d] = client[d]
    BY DEF RowInv, Types, Call
  <1>3. ClientInv(c) /\ client[c].at = "idle" /\ client[c] = Idle
    BY DEF RowInv, Call, ClientInv
  <1>4. op \in {"distilled", "submitted", "fail", "store"} => item.state # "absent"
    BY DEF Call, MayCall
  <1>5. writer # c /\ storer # c /\ c \notin sharers
    BY <1>3 DEF ClientInv, Writes, Stores, At
  <1>6. ClientInv(c)'
    BY <1>2, <1>3, <1>4, <1>5 DEF ClientInv, At, Call, Committed, Locks, Idle
  <1>. QED
    BY <1>1, <1>2, <1>6, LocklessStatement DEF Call

\* A client that returns holds nothing.
LEMMA ReturnKeeps ==
    ASSUME RowInv, NEW c \in Clients, Return(c) PROVE RowInv'
  <1>1. client' \in [Clients -> [op : Methods \union {"none"}, at : Steps,
                                 verdict : Verdicts, answer : Answers]]
    BY DEF RowInv, Types, Return, Idle, Steps, Verdicts, Answers
  <1>2. /\ client'[c] = Idle
        /\ \A d \in Clients \ {c} : client'[d] = client[d]
    BY DEF RowInv, Types, Return
  <1>3. writer # c /\ storer # c /\ c \notin sharers
    BY DEF Return, RowInv, ClientInv, Writes, Stores, At
  <1>4. ClientInv(c)'
    BY <1>2, <1>3 DEF ClientInv, At, Return, Locks, Idle
  <1>. QED
    BY <1>1, <1>2, <1>4, LocklessStatement DEF Return

\* Before its first write and after its transaction a client holds no lock.
LEMMA HoldsNothing ==
    ASSUME RowInv, NEW c \in Clients,
           client[c].at \in {"idle", "begin", "insert", "reread", "done"}
    PROVE  writer # c /\ storer # c /\ c \notin sharers
  BY DEF RowInv, ClientInv, Writes, Stores, At

\* A client that holds nothing may answer.
LEMMA AnsweringKeeps ==
    ASSUME RowInv, NEW c \in Clients, NEW answer \in Answers, AnswerWith(c, answer),
           UNCHANGED <<Committed, Locks, deaths>>, client[c].at # "idle",
           writer # c, storer # c, c \notin sharers
    PROVE  RowInv'
  <1>1. Types /\ ClientInv(c)
    BY DEF RowInv
  <1>2. ClientInv(c)'
    BY <1>1, AnswerType DEF ClientInv, At, Committed, Locks
  <1>. QED
    BY <1>1, <1>2, AnswerType, LocklessStatement

\* get_item finds the row, or the INSERT comes next.
LEMMA FindItemKeeps ==
    ASSUME RowInv, NEW c \in Clients, FindItem(c) PROVE RowInv'
  <1>1. Types /\ ClientInv(c) /\ writer # c /\ storer # c /\ c \notin sharers
    BY HoldsNothing DEF RowInv, FindItem, At
  <1>2. CASE item.state # "absent"
    BY <1>1, <1>2, AnsweringKeeps DEF FindItem, At, Answers
  <1>3. CASE item.state = "absent"
    <2>1. Continue(c, "insert") /\ "insert" \in Steps
      BY <1>3 DEF FindItem, Steps
    <2>2. ClientInv(c)'
      BY <1>1, <2>1, ContinueType DEF ClientInv, At, FindItem, Committed, Locks
    <2>. QED
      BY <1>1, <2>1, <2>2, ContinueType, LocklessStatement DEF FindItem
  <1>. QED
    BY <1>2, <1>3

\* The row that got there first is there, or purged.
LEMMA RereadItemKeeps ==
    ASSUME RowInv, NEW c \in Clients, RereadItem(c) PROVE RowInv'
  <1>1. writer # c /\ storer # c /\ c \notin sharers
    BY HoldsNothing DEF RereadItem, At
  <1>. QED
    BY <1>1, AnsweringKeeps DEF RereadItem, At, Answers

\* The check of insert_distillation finds a result, or the INSERT comes next.
LEMMA FindResultKeeps ==
    ASSUME RowInv, NEW c \in Clients, FindResult(c) PROVE RowInv'
  <1>1. Types /\ ClientInv(c) /\ writer # c /\ storer # c /\ c \notin sharers
    BY HoldsNothing DEF RowInv, FindResult, At
  <1>2. CASE result # NoJob
    BY <1>1, <1>2, AnsweringKeeps DEF FindResult, At, Answers
  <1>3. CASE result = NoJob
    <2>1. Continue(c, "insert") /\ "insert" \in Steps
      BY <1>3 DEF FindResult, Steps
    <2>2. ClientInv(c)'
      BY <1>1, <2>1, ContinueType DEF ClientInv, At, FindResult, Committed, Locks
    <2>. QED
      BY <1>1, <2>1, <2>2, ContinueType, LocklessStatement DEF FindResult
  <1>. QED
    BY <1>2, <1>3

\* The result that got there first is there, or purged.
LEMMA RereadResultKeeps ==
    ASSUME RowInv, NEW c \in Clients, RereadResult(c) PROVE RowInv'
  <1>1. writer # c /\ storer # c /\ c \notin sharers
    BY HoldsNothing DEF RereadResult, At
  <1>. QED
    BY <1>1, AnsweringKeeps DEF RereadResult, At, Answers

-------------------------------------------------------------------------------
(***************************************************************************)
(* Those that take the lock of the row.                                    *)
(***************************************************************************)

\* Every transaction of the ledger writes a row.
LEMMA UpdatedType ==
    ASSUME NEW op \in Updates, NEW c \in Clients, NEW r \in Row
    PROVE  Updated(op, c, r) \in Row
  <1>1. c \in Nat
    BY ClientsAssumption
  <1>. QED
    BY <1>1 DEF Updated, Updates, SetItemState, MarkItemSubmitted, RequeueSubmitting, Row, States

\* None of the updates makes a row absent that was not.
LEMMA UpdatedKeepsRow ==
    ASSUME NEW op \in Updates, NEW c \in Clients, NEW r \in Row, r.state # "absent"
    PROVE  Updated(op, c, r).state # "absent"
  BY DEF Updated, Updates, SetItemState, MarkItemSubmitted, RequeueSubmitting, Row, States

\* A client that may have the lock of the row writes it, and goes on.
LEMMA LockingKeeps ==
    ASSUME RowInv, NEW c \in Clients, NEW written \in Row, Lock(c, written),
           writer \in {c, Nobody}, sharers = {} \/ written.state # "absent",
           UNCHANGED <<Committed, deaths>>,
           client' \in [Clients -> [op : Methods \union {"none"}, at : Steps,
                                    verdict : Verdicts, answer : Answers]],
           \A d \in Clients \ {c} : client'[d] = client[d],
           ClientInv(c)'
    PROVE  RowInv'
  <1>1. Types'
    BY DEF RowInv, Types, Committed, Lock
  <1>2. KeyHeld'
    BY DEF RowInv, KeyHeld, Committed, Lock
  <1>3. LeavesOthers(c)
    BY LockLeavesOthers DEF RowInv
  <1>. QED
    BY <1>1, <1>2, <1>3, StatementKeepsOthers

\* The INSERT of insert_item.
LEMMA InsertRowKeeps ==
    ASSUME RowInv, NEW c \in Clients, InsertRow(c) PROVE RowInv'
  <1>1. Types /\ ClientInv(c) /\ writer # c /\ storer # c /\ c \notin sharers
    BY HoldsNothing DEF RowInv, InsertRow, At
  <1>2. CASE item.state = "absent"
    <2>1. Continue(c, "commit") /\ "commit" \in Steps /\ Lock(c, FreshRow)
      BY <1>2 DEF InsertRow, Steps
    <2>2. ClientInv(c)'
      BY <1>1, <1>2, <2>1, ContinueType
      DEF ClientInv, Writes, At, InsertRow, Committed, Lock
    <2>. QED
      BY <1>1, <2>1, <2>2, ContinueType, LockingKeeps, SomeRows DEF InsertRow, FreshRow
  <1>3. CASE item.state # "absent"
    <2>1. Continue(c, "reread") /\ "reread" \in Steps /\ UNCHANGED Locks
      BY <1>3 DEF InsertRow, Steps
    <2>2. ClientInv(c)'
      BY <1>1, <1>3, <2>1, ContinueType DEF ClientInv, At, InsertRow, Committed, Locks
    <2>. QED
      BY <1>1, <2>1, <2>2, ContinueType, LocklessStatement DEF InsertRow
  <1>. QED
    BY <1>2, <1>3

\* The UPDATE of set_item_state, mark_item_submitted and requeue_submitting_items.
LEMMA UpdateRowKeeps ==
    ASSUME RowInv, NEW c \in Clients, UpdateRow(c) PROVE RowInv'
  <1>. DEFINE written == Updated(client[c].op, c, item)
  <1>1. /\ Types /\ ClientInv(c) /\ writer # c /\ storer # c /\ c \notin sharers
        /\ client[c].op \in Updates /\ item \in Row
    BY HoldsNothing DEF RowInv, Types, UpdateRow, At, Updates
  <1>2. CASE Matches(client[c].op, item)
    <2>1. Continue(c, "commit") /\ "commit" \in Steps /\ Lock(c, written)
      BY <1>2 DEF UpdateRow, Steps
    <2>2. client'[c].op = client[c].op /\ client'[c].at = "commit" /\ item' = item
      BY <1>1, <2>1, ContinueType DEF UpdateRow, Committed
    <2>3. Writes(c)'
      <3>1. At(c, Updates, "commit")'
        BY <1>1, <2>2 DEF At
      <3>2. Matches(client[c].op, item)'
        BY <1>2, <2>2 DEF Matches
      <3>3. (draft = Updated(client[c].op, c, item))'
        BY <2>1, <2>2 DEF Lock, Updated
      <3>. QED
        BY <3>1, <3>2, <3>3 DEF Writes
    <2>4. ClientInv(c)'
      BY <1>1, <2>1, <2>2, <2>3, ContinueType
      DEF ClientInv, At, UpdateRow, Committed, Lock, Updates
    <2>5. written \in Row /\ written.state # "absent"
      <3>1. item.state # "absent"
        BY <1>2 DEF Matches
      <3>. QED
        BY <1>1, <3>1, UpdatedType, UpdatedKeepsRow
    <2>. HIDE DEF written
    <2>. QED
      BY <1>1, <1>2, <2>1, <2>4, <2>5, ContinueType, LockingKeeps DEF UpdateRow
  <1>3. CASE ~Matches(client[c].op, item)
    BY <1>1, <1>3, AnsweringKeeps DEF UpdateRow, At, Answers
  <1>. QED
    BY <1>2, <1>3

\* The first UPDATE of record_distill_failure.
LEMMA CountAttemptKeeps ==
    ASSUME RowInv, NEW c \in Clients, CountAttempt(c) PROVE RowInv'
  <1>. DEFINE written == [item EXCEPT !.attempts = @ + 1]
  <1>1. /\ Types /\ ClientInv(c) /\ writer # c /\ storer # c /\ c \notin sharers
        /\ client[c].op = "fail" /\ client[c].at = "begin"
    BY HoldsNothing DEF RowInv, CountAttempt, At
  <1>2. Continue(c, "select") /\ "select" \in Steps /\ item' = item /\ purged' = purged
    BY DEF CountAttempt, Steps, Committed
  <1>3. client'[c].op = "fail" /\ client'[c].at = "select"
    BY <1>1, <1>2, ContinueType
  <1>4. CASE item.state # "absent"
    <2>1. Lock(c, written) /\ writer = Nobody
      BY <1>4 DEF CountAttempt
    <2>2. written \in Row /\ written.state # "absent"
      BY <1>1, <1>4 DEF Types, Row
    <2>3. Writes(c)'
      BY <1>2, <1>3, <1>4, <2>1 DEF Writes, At, Lock
    <2>4. ClientInv(c)'
      BY <1>1, <1>2, <1>3, <1>4, <2>1, <2>3 DEF ClientInv, At, CountAttempt, Lock
    <2>. HIDE DEF written
    <2>. QED
      BY <1>1, <1>2, <2>1, <2>2, <2>4, ContinueType, LockingKeeps DEF CountAttempt
  <1>5. CASE item.state = "absent"
    <2>1. UNCHANGED Locks
      BY <1>5 DEF CountAttempt
    <2>2. ClientInv(c)'
      BY <1>1, <1>2, <1>3, <1>5, <2>1 DEF ClientInv, At, CountAttempt, Locks
    <2>. QED
      BY <1>1, <1>2, <2>1, <2>2, ContinueType, LocklessStatement DEF CountAttempt
  <1>. QED
    BY <1>4, <1>5

\* A client whose transaction is rolled back holds nothing.
LEMMA RollbackKeeps ==
    ASSUME RowInv, NEW c \in Clients, Rollback(c), deaths' \in 0..MaxDeaths,
           client' \in [Clients -> [op : Methods \union {"none"}, at : Steps,
                                    verdict : Verdicts, answer : Answers]],
           \A d \in Clients \ {c} : client'[d] = client[d],
           writer' # c /\ storer' # c /\ c \notin sharers' => ClientInv(c)'
    PROVE  RowInv'
  <1>1. /\ LeavesOthers(c)
        /\ writer' # c /\ storer' # c /\ c \notin sharers'
        /\ writer' \in Clients \union {Nobody} /\ storer' \in Clients \union {Nobody}
        /\ sharers' \subseteq sharers
        /\ writer' # Nobody => writer' = writer /\ draft' = draft
        /\ draft' \in {draft, AbsentRow}
    BY ReleaseLeavesOthers DEF RowInv, Rollback
  <1>2. Types'
    BY <1>1, SomeRows DEF RowInv, Types, Rollback, Committed
  <1>3. KeyHeld'
    BY <1>1 DEF RowInv, KeyHeld, Rollback, Committed
  <1>. QED
    BY <1>1, <1>2, <1>3, StatementKeepsOthers DEF Rollback

\* An exception ends the call and its transaction.
LEMMA RaisingKeeps ==
    ASSUME RowInv, NEW c \in Clients, AnswerWith(c, "raised"), Rollback(c),
           UNCHANGED deaths, client[c].at # "idle"
    PROVE  RowInv'
  <1>1. Types /\ ClientInv(c) /\ "raised" \in Answers
    BY DEF RowInv, Answers
  <1>2. writer' # c /\ storer' # c /\ c \notin sharers' => ClientInv(c)'
    BY <1>1, AnswerType DEF ClientInv, At, Rollback, Committed
  <1>. QED
    BY <1>1, <1>2, AnswerType, RollbackKeeps DEF Types

\* A process that dies comes back without a call.
LEMMA DieKeeps ==
    ASSUME RowInv, NEW c \in Clients, Die(c) PROVE RowInv'
  <1>1. client' \in [Clients -> [op : Methods \union {"none"}, at : Steps,
                                 verdict : Verdicts, answer : Answers]]
    BY DEF RowInv, Types, Die, Idle, Steps, Verdicts, Answers
  <1>2. client'[c] = Idle /\ \A d \in Clients \ {c} : client'[d] = client[d]
    BY DEF RowInv, Types, Die
  <1>3. writer' # c /\ storer' # c /\ c \notin sharers' => ClientInv(c)'
    BY <1>2 DEF ClientInv, At, Idle
  <1>4. deaths' \in 0..MaxDeaths
    BY DeathsAssumption DEF RowInv, Types, Die
  <1>. QED
    BY <1>1, <1>2, <1>3, <1>4, RollbackKeeps DEF Die

\* scalar_one() reads the attempts its own transaction has counted.
LEMMA SelectAttemptsKeeps ==
    ASSUME RowInv, NEW c \in Clients, SelectAttempts(c) PROVE RowInv'
  <1>1. Types /\ ClientInv(c) /\ client[c].op = "fail" /\ client[c].at = "select"
    BY DEF RowInv, SelectAttempts, At
  <1>2. CASE Seen(c).state = "absent"
    BY <1>1, <1>2, RaisingKeeps DEF SelectAttempts
  <1>3. CASE Seen(c).state # "absent"
    <2>1. /\ client' = [client EXCEPT ![c].at = "settle", ![c].verdict = Verdict(Seen(c).attempts)]
          /\ UNCHANGED <<Committed, Locks, deaths>>
      BY <1>3 DEF SelectAttempts
    <2>2. Verdict(Seen(c).attempts) \in {"new", "failed"}
      BY DEF Verdict
    <2>3. /\ client'[c].op = "fail" /\ client'[c].at = "settle"
          /\ client'[c].verdict = Verdict(Seen(c).attempts)
          /\ \A d \in Clients \ {c} : client'[d] = client[d]
      BY <1>1, <2>1 DEF Types
    <2>4. client' \in [Clients -> [op : Methods \union {"none"}, at : Steps,
                                   verdict : Verdicts, answer : Answers]]
      BY <1>1, <2>1, <2>2 DEF Types, Steps, Verdicts
    <2>5. writer' = c => Writes(c)'
      <3>. SUFFICES ASSUME writer = c PROVE Writes(c)'
        BY <2>1 DEF Locks
      <3>1. item.state # "absent" /\ draft = [item EXCEPT !.attempts = @ + 1]
        BY <1>1 DEF ClientInv, Writes, At
      <3>2. item' = item /\ draft' = draft
        BY <2>1 DEF Committed, Locks
      <3>3. (client[c].verdict = Verdict(draft.attempts))'
        BY <2>3, <3>2 DEF Seen, Verdict
      <3>. QED
        BY <2>3, <3>1, <3>2, <3>3 DEF Writes, At
    <2>6. storer # c /\ c \notin sharers
      BY <1>1 DEF ClientInv, Stores, At
    <2>7. ClientInv(c)'
      BY <1>1, <2>1, <2>2, <2>3, <2>5, <2>6 DEF ClientInv, At, Committed, Locks
    <2>. QED
      BY <2>1, <2>3, <2>4, <2>7, LocklessStatement
  <1>. QED
    BY <1>2, <1>3

\* Counting an attempt and settling the row is recording the failure.
LEMMA FailureInTwo ==
    ASSUME NEW r \in Row
    PROVE  LET counted == [r EXCEPT !.attempts = @ + 1] IN
             [counted EXCEPT !.state = Verdict(counted.attempts), !.job = NoJob]
               = RecordDistillFailure(r, MaxAttempts)
  <1>. DEFINE counted == [r EXCEPT !.attempts = @ + 1]
  <1>1. ASSUME NEW q \in Row, NEW v \in States
        PROVE  [q EXCEPT !.state = v, !.job = NoJob]
                 = [state |-> v, job |-> NoJob, attempts |-> q.attempts]
    <2>. DEFINE u == [q EXCEPT !.state = v, !.job = NoJob]
    <2>1. u \in Row /\ u.state = v /\ u.job = NoJob /\ u.attempts = q.attempts
      BY DEF Row, NoJob
    <2>2. \A w \in Row : w = [state |-> w.state, job |-> w.job, attempts |-> w.attempts]
      BY DEF Row
    <2>. QED
      BY <2>1, <2>2
  <1>2. counted \in Row /\ counted.attempts = r.attempts + 1
    BY DEF Row
  <1>. HIDE DEF counted
  <1>3. [counted EXCEPT !.state = Verdict(counted.attempts), !.job = NoJob]
          = RecordDistillFailure(r, MaxAttempts)
    BY <1>1, <1>2 DEF Verdict, RecordDistillFailure, States
  <1>. QED
    BY <1>3 DEF counted

\* The second UPDATE of record_distill_failure.
LEMMA SettleRowKeeps ==
    ASSUME RowInv, NEW c \in Clients, SettleRow(c) PROVE RowInv'
  <1>. DEFINE written == [Seen(c) EXCEPT !.state = client[c].verdict, !.job = NoJob]
  <1>1. /\ Types /\ ClientInv(c) /\ client[c].op = "fail" /\ client[c].at = "settle"
        /\ client[c].verdict \in {"new", "failed"} /\ Seen(c) \in Row
    BY DEF RowInv, Types, SettleRow, At, ClientInv, Seen
  <1>2. storer # c /\ c \notin sharers
    BY <1>1 DEF ClientInv, Stores, At
  <1>3. CASE Seen(c).state # "absent"
    <2>1. /\ writer \in {c, Nobody} /\ Lock(c, written) /\ Continue(c, "commit")
          /\ "commit" \in Steps /\ item' = item /\ purged' = purged
      BY <1>3 DEF SettleRow, Steps, Committed
    <2>2. written \in Row /\ written.state # "absent"
      BY <1>1 DEF Row, States, NoJob
    <2>3. /\ client'[c].op = "fail" /\ client'[c].at = "commit"
          /\ client'[c].verdict = client[c].verdict
      BY <1>1, <2>1, ContinueType
    <2>4. item.state # "absent"
      BY <1>1, <1>3 DEF Seen, ClientInv, Writes, At
    <2>5. \/ written = RecordDistillFailure(item, MaxAttempts) /\ client[c].verdict = written.state
          \/ purged /\ written = [item EXCEPT !.state = client[c].verdict, !.job = NoJob]
      <3>1. CASE writer = c
        <4>1. /\ draft = [item EXCEPT !.attempts = @ + 1]
              /\ client[c].verdict = Verdict(draft.attempts)
          BY <1>1, <3>1 DEF ClientInv, Writes, At
        <4>2. written = RecordDistillFailure(item, MaxAttempts)
          BY <1>1, <3>1, <4>1, FailureInTwo DEF Seen, Types
        <4>3. written.state = client[c].verdict
          BY <1>1 DEF Row
        <4>. QED
          BY <4>2, <4>3
      <3>2. CASE writer # c
        BY <1>1, <3>2 DEF ClientInv, At, Seen
      <3>. QED
        BY <3>1, <3>2
    <2>6. Writes(c)'
      BY <2>1, <2>3, <2>4, <2>5 DEF Writes, At, Lock
    <2>7. ClientInv(c)'
      BY <1>1, <1>2, <2>1, <2>3, <2>4, <2>6 DEF ClientInv, At, Lock
    <2>. HIDE DEF written
    <2>. QED
      BY <1>1, <2>1, <2>2, <2>7, ContinueType, LockingKeeps DEF SettleRow
  <1>4. CASE Seen(c).state = "absent"
    <2>1. writer # c
      BY <1>1, <1>4 DEF ClientInv, Writes, At, Seen, Types, Row
    <2>2. client[c].verdict \in Answers
      BY <1>1 DEF Answers
    <2>. QED
      BY <1>1, <1>2, <1>4, <2>1, <2>2, AnsweringKeeps DEF SettleRow
  <1>. QED
    BY <1>3, <1>4

-------------------------------------------------------------------------------
(***************************************************************************)
(* Those that take the key of the result or a share of the row.            *)
(***************************************************************************)

\* A client that may have the key of the result takes it, and leaves the row alone.
LEMMA StoringKeeps ==
    ASSUME RowInv, NEW c \in Clients, storer' = c, storer \in {c, Nobody},
           UNCHANGED <<Committed, writer, draft, sharers, deaths>>,
           client' \in [Clients -> [op : Methods \union {"none"}, at : Steps,
                                    verdict : Verdicts, answer : Answers]],
           \A d \in Clients \ {c} : client'[d] = client[d],
           ClientInv(c)'
    PROVE  RowInv'
  <1>1. Types'
    BY DEF RowInv, Types, Committed
  <1>2. KeyHeld'
    BY DEF RowInv, KeyHeld, Committed
  <1>3. LeavesOthers(c)
    BY ClientsAssumption DEF LeavesOthers, Nobody
  <1>. QED
    BY <1>1, <1>2, <1>3, StatementKeepsOthers

\* The INSERT of insert_distillation reaches the unique index.
LEMMA InsertResultKeeps ==
    ASSUME RowInv, NEW c \in Clients, InsertResult(c) PROVE RowInv'
  <1>1. /\ Types /\ ClientInv(c) /\ writer # c /\ storer # c /\ c \notin sharers
        /\ client[c].op = "store" /\ client[c].at = "insert"
    BY HoldsNothing DEF RowInv, InsertResult, At
  <1>2. CASE result = NoJob
    <2>1. Continue(c, "key") /\ "key" \in Steps /\ storer' = c /\ storer = Nobody
      BY <1>2 DEF InsertResult, Steps
    <2>2. ClientInv(c)'
      BY <1>1, <1>2, <2>1, ContinueType
      DEF ClientInv, Stores, At, InsertResult, Committed
    <2>. QED
      BY <1>1, <1>2, <2>1, <2>2, ContinueType, StoringKeeps DEF InsertResult
  <1>3. CASE result # NoJob
    <2>1. Continue(c, "reread") /\ "reread" \in Steps /\ UNCHANGED Locks
      BY <1>3 DEF InsertResult, Steps
    <2>2. ClientInv(c)'
      BY <1>1, <1>3, <2>1, ContinueType DEF ClientInv, At, InsertResult, Committed, Locks
    <2>. QED
      BY <1>1, <2>1, <2>2, ContinueType, LocklessStatement DEF InsertResult
  <1>. QED
    BY <1>2, <1>3

\* The foreign key takes its share of the row, or the INSERT fails.
LEMMA CheckForeignKeyKeeps ==
    ASSUME RowInv, NEW c \in Clients, CheckForeignKey(c) PROVE RowInv'
  <1>1. /\ Types /\ ClientInv(c) /\ client[c].op = "store" /\ client[c].at = "key"
        /\ writer # c /\ c \notin sharers
    BY DEF RowInv, CheckForeignKey, At, ClientInv, Writes
  <1>2. CASE item.state # "absent"
    <2>1. /\ Continue(c, "commit") /\ "commit" \in Steps
          /\ sharers' = sharers \union {c}
          /\ UNCHANGED <<Committed, writer, draft, storer, deaths>>
      BY <1>2 DEF CheckForeignKey, Steps
    <2>2. Types'
      BY <1>1, <2>1, ContinueType DEF Types, Committed
    <2>3. KeyHeld'
      BY <1>2, <2>1 DEF KeyHeld, CheckForeignKey, BeingDeleted, Committed
    <2>4. LeavesOthers(c)
      BY <1>1, <2>1, ContinueType DEF LeavesOthers
    <2>5. ClientInv(c)'
      <3>1. client'[c].op = "store" /\ client'[c].at = "commit"
        BY <1>1, <2>1, ContinueType
      <3>2. storer = c => result = NoJob
        BY <1>1 DEF ClientInv, Stores, At
      <3>3. storer = c
        BY <1>1 DEF ClientInv, Stores, At
      <3>. QED
        BY <1>1, <1>2, <2>1, <3>1, <3>2, <3>3 DEF ClientInv, Stores, At, Committed
    <2>. QED
      BY <2>1, <2>2, <2>3, <2>4, <2>5, StatementKeepsOthers
  <1>3. CASE item.state = "absent"
    <2>1. Continue(c, "reread") /\ "reread" \in Steps /\ Rollback(c) /\ UNCHANGED deaths
      BY <1>3 DEF CheckForeignKey, Steps
    <2>2. writer' # c /\ storer' # c /\ c \notin sharers' => ClientInv(c)'
      BY <1>1, <1>3, <2>1, ContinueType DEF ClientInv, At, Rollback, Committed
    <2>. QED
      BY <1>1, <2>1, <2>2, ContinueType, RollbackKeeps DEF Types
  <1>. QED
    BY <1>2, <1>3

\* The first DELETE of a purge.
LEMMA DeleteResultKeeps ==
    ASSUME RowInv, NEW c \in Clients, DeleteResult(c) PROVE RowInv'
  <1>1. /\ Types /\ ClientInv(c) /\ writer # c /\ storer # c /\ c \notin sharers
        /\ client[c].op = "purge" /\ client[c].at = "begin"
    BY HoldsNothing DEF RowInv, DeleteResult, At
  <1>2. Continue(c, "delete") /\ "delete" \in Steps
    BY DEF DeleteResult, Steps
  <1>3. CASE result # NoJob
    <2>1. storer' = c /\ storer = Nobody
      BY <1>3 DEF DeleteResult
    <2>2. ClientInv(c)'
      BY <1>1, <1>2, <1>3, <2>1, ContinueType
      DEF ClientInv, Stores, At, DeleteResult, Committed
    <2>. QED
      BY <1>1, <1>2, <1>3, <2>1, <2>2, ContinueType, StoringKeeps DEF DeleteResult
  <1>4. CASE result = NoJob
    <2>1. UNCHANGED Locks
      BY <1>4 DEF DeleteResult
    <2>2. ClientInv(c)'
      BY <1>1, <1>2, <2>1, ContinueType DEF ClientInv, At, DeleteResult, Committed, Locks
    <2>. QED
      BY <1>1, <1>2, <2>1, <2>2, ContinueType, LocklessStatement DEF DeleteResult
  <1>. QED
    BY <1>3, <1>4

\* The second DELETE of a purge: no result refers to the row, nor is about to.
LEMMA DeleteItemKeeps ==
    ASSUME RowInv, NEW c \in Clients, DeleteItem(c) PROVE RowInv'
  <1>1. /\ Types /\ ClientInv(c) /\ client[c].op = "purge" /\ client[c].at = "delete"
        /\ writer # c /\ c \notin sharers
    BY DEF RowInv, DeleteItem, At, ClientInv, Writes
  <1>2. CASE item.state # "absent" /\ result # NoJob /\ storer # c
    BY <1>1, <1>2, RaisingKeeps DEF DeleteItem
  <1>3. CASE item.state # "absent" /\ ~(result # NoJob /\ storer # c)
    <2>1. /\ Continue(c, "commit") /\ "commit" \in Steps /\ Lock(c, AbsentRow)
          /\ writer = Nobody /\ sharers = {} /\ UNCHANGED <<Committed, deaths>>
      BY <1>3 DEF DeleteItem, Steps
    <2>2. client'[c].op = "purge" /\ client'[c].at = "commit"
      BY <1>1, <2>1, ContinueType
    <2>3. Writes(c)'
      BY <1>3, <2>1, <2>2 DEF Writes, At, Lock, Committed
    <2>4. storer = c => Stores(c)'
      BY <1>1, <2>1, <2>2 DEF ClientInv, Stores, At, Committed
    <2>5. ClientInv(c)'
      BY <1>1, <2>1, <2>2, <2>3, <2>4 DEF ClientInv, At, Committed, Lock
    <2>. QED
      BY <1>1, <2>1, <2>5, ContinueType, LockingKeeps, SomeRows
  <1>4. CASE item.state = "absent"
    <2>1. storer # c
      BY <1>1, <1>4 DEF RowInv, ResultHasItem, ClientInv, Stores, At
    <2>. QED
      BY <1>1, <1>4, <2>1, AnsweringKeeps DEF DeleteItem, Answers
  <1>. QED
    BY <1>2, <1>3, <1>4

-------------------------------------------------------------------------------
(***************************************************************************)
(* Commits.                                                                *)
(***************************************************************************)

\* What a commit publishes: the result of a store, ...
LEMMA CommitOfStore ==
    ASSUME RowInv, NEW c \in Clients, Commit(c), client[c].op = "store"
    PROVE  /\ item' = item /\ item.state # "absent" /\ purged' = purged
           /\ result = NoJob /\ result' = c /\ storer = c /\ writer # c
           /\ writer # Nobody => draft.state # "absent"
  <1>1. /\ ClientInv(c) /\ client[c].at = "commit"
    BY DEF RowInv, Commit
  <1>2. storer = c /\ result = NoJob /\ c \in sharers /\ writer # c
    BY <1>1 DEF ClientInv, Stores, Writes, At, Updates
  <1>3. item.state # "absent" /\ (writer # Nobody => draft.state # "absent")
    BY <1>2 DEF RowInv, KeyHeld
  <1>4. item' = item /\ result' = c
    BY <1>2 DEF Commit, Seen
  <1>5. purged' = purged
    BY DEF Commit, RowInv, Types
  <1>. QED
    BY <1>2, <1>3, <1>4, <1>5

\* ... the deletions of a purge, ...
LEMMA CommitOfPurge ==
    ASSUME RowInv, NEW c \in Clients, Commit(c), client[c].op = "purge"
    PROVE  /\ writer = c /\ item.state # "absent" /\ item' = AbsentRow
           /\ result' = NoJob
           /\ result = NoJob \/ storer = c
           /\ purged' = TRUE /\ sharers = {}
  <1>1. ClientInv(c) /\ client[c].at = "commit"
    BY DEF RowInv, Commit
  <1>2. writer = c /\ Writes(c)
    BY <1>1 DEF ClientInv
  <1>3. item.state # "absent" /\ draft = AbsentRow /\ (result = NoJob \/ storer = c)
    BY <1>2 DEF Writes, At, Updates
  <1>4. item' = AbsentRow /\ result' = NoJob /\ purged' = TRUE
    BY <1>2, <1>3 DEF Commit, Seen
  <1>5. sharers = {}
    BY <1>2, <1>3, ClientsAssumption DEF RowInv, KeyHeld, AbsentRow, Nobody
  <1>. QED
    BY <1>2, <1>3, <1>4, <1>5

\* ... or the row that an insert, an update or a failure has written.
LEMMA CommitOfRow ==
    ASSUME RowInv, NEW c \in Clients, Commit(c), client[c].op \notin {"store", "purge"}
    PROVE  /\ writer = c /\ storer # c /\ item' = draft /\ draft \in Row
           /\ draft.state # "absent" /\ result' = result /\ purged' = purged
           /\ Writes(c)
  <1>1. ClientInv(c) /\ client[c].at = "commit"
    BY DEF RowInv, Commit
  <1>2. writer = c /\ Writes(c) /\ storer # c
    BY <1>1 DEF ClientInv, Stores, At
  <1>3. item \in Row /\ draft \in Row /\ purged \in BOOLEAN
    BY DEF RowInv, Types
  <1>4. draft.state # "absent"
    <2>1. CASE At(c, {"insert"}, "commit")
      BY <1>1, <1>2, <2>1 DEF Writes, At, FreshRow, Updates
    <2>2. CASE At(c, Updates, "commit")
      <3>1. Matches(client[c].op, item) /\ draft = Updated(client[c].op, c, item)
        BY <1>2, <2>2 DEF Writes, At, Updates
      <3>2. client[c].op \in Updates /\ item.state # "absent"
        BY <2>2, <3>1 DEF At, Matches
      <3>. QED
        BY <1>3, <3>1, <3>2, UpdatedKeepsRow
    <2>3. CASE At(c, {"fail"}, "commit")
      <3>1. client[c].verdict \in {"new", "failed"}
        BY <1>1, <2>3 DEF ClientInv
      <3>2. \/ draft = RecordDistillFailure(item, MaxAttempts)
            \/ draft = [item EXCEPT !.state = client[c].verdict, !.job = NoJob]
        BY <1>2, <2>3 DEF Writes, At, Updates
      <3>3. CASE draft = RecordDistillFailure(item, MaxAttempts)
        BY <3>3 DEF RecordDistillFailure
      <3>4. CASE draft = [item EXCEPT !.state = client[c].verdict, !.job = NoJob]
        BY <1>3, <3>1, <3>4 DEF Row
      <3>. QED
        BY <3>2, <3>3, <3>4
    <2>. QED
      BY <1>1, <1>2, <2>1, <2>2, <2>3 DEF Writes, At
  <1>5. item' = draft /\ result' = result /\ purged' = purged
    BY <1>2, <1>3 DEF Commit, Seen
  <1>. QED
    BY <1>2, <1>3, <1>4, <1>5

\* A commit releases the locks, and what it publishes is what the others expect.
LEMMA CommitKeeps ==
    ASSUME RowInv, NEW c \in Clients, Commit(c) PROVE RowInv'
  <1>1. Types /\ ClientInv(c) /\ client[c].at = "commit"
    BY DEF RowInv, Commit
  <1>2. AnswerOf(c) \in Answers
    BY <1>1 DEF AnswerOf, Answers, ClientInv, At
  <1>3. AnswerWith(c, AnswerOf(c)) /\ Release(c) /\ UNCHANGED deaths
    BY DEF Commit
  <1>. HIDE DEF AnswerOf
  <1>4. /\ client' \in [Clients -> [op : Methods \union {"none"}, at : Steps,
                                    verdict : Verdicts, answer : Answers]]
        /\ client'[c].op = client[c].op /\ client'[c].at = "done"
        /\ \A d \in Clients \ {c} : client'[d] = client[d]
    BY <1>1, <1>2, <1>3, AnswerType
  <1>5. /\ LeavesOthers(c)
        /\ writer' # c /\ storer' # c /\ c \notin sharers'
        /\ writer' \in Clients \union {Nobody} /\ storer' \in Clients \union {Nobody}
        /\ sharers' \subseteq sharers
        /\ writer' # Nobody => writer' = writer /\ draft' = draft
        /\ draft' \in {draft, AbsentRow}
    BY <1>1, <1>3, <1>4, ReleaseLeavesOthers
  <1>6. client[c].op \in {"distilled", "submitted", "fail", "store"} =>
          item'.state # "absent" \/ purged'
    BY CommitOfStore, CommitOfPurge, CommitOfRow
  <1>7. ClientInv(c)'
    BY <1>1, <1>4, <1>5, <1>6 DEF ClientInv, At
  <1>8. Types'
    <2>1. item' \in Row /\ result' \in Nat /\ purged' \in BOOLEAN
      <3>1. CASE client[c].op = "store"
        BY <1>1, <3>1, CommitOfStore, ClientsAssumption DEF Types
      <3>2. CASE client[c].op = "purge"
        <4>1. item' = AbsentRow /\ result' = NoJob /\ purged' = TRUE
          BY <3>2, CommitOfPurge
        <4>2. purged' \in BOOLEAN
          BY <4>1, Zenon
        <4>. QED
          BY <4>1, <4>2, SomeRows DEF NoJob
      <3>3. CASE client[c].op \notin {"store", "purge"}
        BY <1>1, <3>3, CommitOfRow DEF Types
      <3>. QED
        BY <3>1, <3>2, <3>3
    <2>. QED
      BY <1>1, <1>3, <1>4, <1>5, <2>1, SomeRows DEF Types
  <1>9. ResultHasItem' /\ (item.state = "absent" => item = AbsentRow)'
    <2>1. CASE client[c].op = "store"
      BY <2>1, CommitOfStore DEF ResultHasItem
    <2>2. CASE client[c].op = "purge"
      BY <2>2, CommitOfPurge DEF ResultHasItem, AbsentRow
    <2>3. CASE client[c].op \notin {"store", "purge"}
      <3>1. result # NoJob => item.state # "absent"
        BY DEF RowInv, ResultHasItem
      <3>. QED
        BY <2>3, <3>1, CommitOfRow DEF ResultHasItem
    <2>. QED
      BY <2>1, <2>2, <2>3
  <1>10. KeyHeld'
    <2>1. CASE client[c].op = "store"
      BY <1>5, <2>1, CommitOfStore DEF KeyHeld
    <2>2. CASE client[c].op = "purge"
      BY <1>5, <2>2, CommitOfPurge DEF KeyHeld
    <2>3. CASE client[c].op \notin {"store", "purge"}
      BY <1>5, <2>3, CommitOfRow DEF KeyHeld
    <2>. QED
      BY <2>1, <2>2, <2>3
  <1>11. ASSUME NEW d \in Clients \ {c} PROVE ClientInv(d)'
    <2>1. /\ ClientInv(d) /\ client'[d] = client[d]
          /\ writer' = d <=> writer = d
          /\ writer = d => draft' = draft
          /\ storer' = d <=> storer = d
          /\ d \in sharers' <=> d \in sharers
      BY <1>5 DEF RowInv, LeavesOthers
    <2>2. CASE client[c].op = "store"
      <3>1. /\ item' = item /\ purged' = purged /\ result' # NoJob /\ storer # d
            /\ writer = d => draft.state # "absent"
        BY <2>2, CommitOfStore, ClientsAssumption DEF NoJob, Nobody
      <3>2. writer = d => Writes(d)'
        <4>. SUFFICES ASSUME writer = d PROVE Writes(d)'
          OBVIOUS
        <4>1. Writes(d) /\ draft' = draft /\ ~At(d, {"purge"}, "commit")
          BY <2>1, <3>1 DEF ClientInv, Writes, At, AbsentRow, Updates
        <4>. QED
          BY <2>1, <3>1, <4>1 DEF Writes, At, Matches, Updated
      <3>. QED
        BY <2>1, <3>1, <3>2 DEF ClientInv, At
    <2>3. CASE client[c].op = "purge"
      <3>1. /\ purged' = TRUE /\ writer # d /\ sharers = {}
            /\ storer = d => result = NoJob /\ result' = NoJob
        BY <2>3, CommitOfPurge
      <3>2. storer = d => Stores(d)'
        BY <2>1, <3>1 DEF ClientInv, Stores, At
      <3>. QED
        BY <2>1, <3>1, <3>2 DEF ClientInv, At
    <2>4. CASE client[c].op \notin {"store", "purge"}
      <3>1. /\ item'.state # "absent" /\ purged' = purged /\ writer # d
            /\ result' = result
        BY <2>4, CommitOfRow
      <3>2. storer = d => Stores(d)'
        BY <2>1, <3>1 DEF ClientInv, Stores, At
      <3>. QED
        BY <2>1, <3>1, <3>2 DEF ClientInv, At
    <2>. QED
      BY <2>2, <2>3, <2>4
  <1>. QED
    BY <1>7, <1>8, <1>9, <1>10, <1>11 DEF RowInv

-------------------------------------------------------------------------------
(***************************************************************************)
(* The theorems.                                                           *)
(***************************************************************************)

\* The invariant is inductive.
LEMMA NextRowInv == RowInv /\ [Next]_vars => RowInv'
  <1>. SUFFICES ASSUME RowInv, [Next]_vars PROVE RowInv'
    OBVIOUS
  <1>1. ASSUME NEW c \in Clients, Statement(c) PROVE RowInv'
    BY <1>1, FindItemKeeps, InsertRowKeeps, RereadItemKeeps, UpdateRowKeeps,
       CountAttemptKeeps, SelectAttemptsKeeps, SettleRowKeeps, FindResultKeeps,
       InsertResultKeeps, CheckForeignKeyKeeps, RereadResultKeeps, DeleteResultKeeps,
       DeleteItemKeeps, CommitKeeps
    DEF Statement
  <1>2. CASE UNCHANGED vars
    <2>1. ASSUME NEW c \in Clients PROVE ClientInv(c)'
      BY <1>2, Undisturbed DEF RowInv, vars, Committed
    <2>2. Types' /\ ResultHasItem' /\ KeyHeld'
      BY <1>2 DEF RowInv, vars, Types, ResultHasItem, KeyHeld
    <2>. QED
      BY <1>2, <2>1, <2>2 DEF RowInv, vars
  <1>. QED
    BY <1>1, <1>2, CallKeeps, ReturnKeeps, DieKeeps DEF Next

\* It holds in every reachable state.
LEMMA RowInvAlways == Spec => []RowInv
  BY InitRowInv, NextRowInv, PTL DEF Spec

\* Every lock is held by a transaction that is open, and whatever the transactions of
\* any number of clients publish is a row the readers know.
THEOREM RowTypesCorrect == Spec => []RowTypeOK
  BY RowInvAlways, TypesOfRowInv, PTL

\* However the check and the INSERT of insert_distillation, its foreign key and the two
\* DELETEs of purges interleave, no result is left without its item.
THEOREM ResultsHaveItems == Spec => []ResultHasItem
  <1>1. RowInv => ResultHasItem
    BY DEF RowInv
  <1>. QED
    BY <1>1, RowInvAlways, PTL

-------------------------------------------------------------------------------
(***************************************************************************)
(* The refinement: every statement is a step of RowCalls or none.          *)
(***************************************************************************)

\* A call that has not answered is open.
LEMMA OpenCall ==
    ASSUME NEW c \in Clients, client[c].at # "done"
    PROVE  Calls!Open(c, client[c].op)
  BY DEF Calls!Open, CallOf

\* A call is a record of the method, whether it is done and the answer.
LEMMA CallRecords ==
    ASSUME NEW op \in Methods \union {"none"}, NEW old \in Answers, NEW answer \in Answers
    PROVE  [[op |-> op, done |-> FALSE, answer |-> old] EXCEPT !.done = TRUE, !.answer = answer]
             = [op |-> op, done |-> TRUE, answer |-> answer]
  <1>. DEFINE records == [op : Methods \union {"none"}, done : BOOLEAN, answer : Answers]
              after == [[op |-> op, done |-> FALSE, answer |-> old] EXCEPT
                           !.done = TRUE, !.answer = answer]
  <1>1. after \in records /\ after.op = op /\ after.done = TRUE /\ after.answer = answer
    OBVIOUS
  <1>2. \A r \in records : r = [op |-> r.op, done |-> r.done, answer |-> r.answer]
    OBVIOUS
  <1>. QED
    BY <1>1, <1>2

\* A client that answers is a call that answers.
LEMMA AnswerOfCall ==
    ASSUME Types, NEW c \in Clients, NEW answer \in Answers, AnswerWith(c, answer),
           client[c].at # "done"
    PROVE  Calls!Answer(c, answer)
  <1>1. CallOf(c)' = [CallOf(c) EXCEPT !.done = TRUE, !.answer = answer]
    <2>1. CallOf(c) = [op |-> client[c].op, done |-> FALSE, answer |-> client[c].answer]
      BY DEF CallOf
    <2>2. CallOf(c)' = [op |-> client[c].op, done |-> TRUE, answer |-> answer]
      BY AnswerType DEF CallOf
    <2>3. client[c].op \in Methods \union {"none"} /\ client[c].answer \in Answers
      BY DEF Types
    <2>4. [[op |-> client[c].op, done |-> FALSE, answer |-> client[c].answer] EXCEPT
               !.done = TRUE, !.answer = answer]
            = [op |-> client[c].op, done |-> TRUE, answer |-> answer]
      BY <2>3, CallRecords
    <2>. QED
      BY <2>1, <2>2, <2>4
  <1>2. ASSUME NEW d \in Clients \ {c} PROVE CallOf(d)' = CallOf(d)
    BY AnswerType DEF CallOf
  <1>. QED
    BY <1>1, <1>2 DEF Calls!Answer

\* A statement in the middle of a call is none of its steps.
LEMMA SilentStatement ==
    ASSUME NEW c \in Clients, UNCHANGED Committed,
           client[c].at # "done", client'[c].at # "done",
           client'[c].op = client[c].op, client'[c].answer = client[c].answer,
           \A d \in Clients \ {c} : client'[d] = client[d]
    PROVE  UNCHANGED Calls!callVars
  <1>1. \A d \in Clients : CallOf(d)' = CallOf(d)
    BY DEF CallOf
  <1>. QED
    BY <1>1 DEF Calls!callVars, Committed

\* A caller looks at the row before it calls, at both levels.
LEMMA CallStep ==
    ASSUME RowInv, NEW c \in Clients, NEW op \in Methods, Call(c, op) PROVE Calls!Call(c, op)
  <1>1. Types /\ client[c] = Idle
    BY DEF RowInv, ClientInv, Call
  <1>2. CallOf(c) = Calls!NoCall
    <2>1. client[c].op = "none" /\ client[c].at # "done" /\ client[c].answer = "none"
      BY <1>1 DEF Idle
    <2>. QED
      BY <2>1 DEF CallOf, Calls!NoCall
  <1>3. client' = [client EXCEPT ![c].op = op, ![c].at = "begin"]
    BY DEF Call
  <1>4. CallOf(c)' = [CallOf(c) EXCEPT !.op = op]
    BY <1>1, <1>3 DEF Types, CallOf, Idle
  <1>5. ASSUME NEW d \in Clients \ {c} PROVE CallOf(d)' = CallOf(d)
    BY <1>1, <1>3 DEF Types, CallOf
  <1>6. Calls!MayCall(op, item)
    BY DEF Call, MayCall, Calls!MayCall
  <1>. QED
    BY <1>2, <1>4, <1>5, <1>6 DEF Calls!Call, Call, Committed

\* Clients return from calls that have answered, and die in the others as well.
LEMMA LeaveStep ==
    ASSUME RowInv, NEW c \in Clients, Return(c) \/ Die(c)
    PROVE  Calls!Return(c) \/ Calls!Die(c)
  <1>1. Types /\ client' = [client EXCEPT ![c] = Idle] /\ UNCHANGED Committed
    BY DEF RowInv, Return, Die, Rollback
  <1>2. CallOf(c)' = Calls!NoCall
    BY <1>1 DEF Types, CallOf, Idle, Calls!NoCall
  <1>3. ASSUME NEW d \in Clients \ {c} PROVE CallOf(d)' = CallOf(d)
    BY <1>1 DEF Types, CallOf
  <1>4. client[c].op \in Methods
    BY DEF RowInv, ClientInv, Return, Die
  <1>5. CallOf(c) # Calls!NoCall
    BY <1>4 DEF CallOf, Calls!NoCall, Methods
  <1>6. [d \in Clients |-> CallOf(d)]'
          = [[d \in Clients |-> CallOf(d)] EXCEPT ![c] = Calls!NoCall]
    BY <1>2, <1>3
  <1>7. Calls!Die(c)
    BY <1>1, <1>5, <1>6 DEF Calls!Die, Committed
  <1>. QED
    BY <1>7

\* insert_item: a row that is found is a duplicate, one that was found and is gone a raise.
LEMMA InsertSteps ==
    ASSUME RowInv, NEW c \in Clients, FindItem(c) \/ InsertRow(c) \/ RereadItem(c)
    PROVE  Calls!Insert(c) \/ Calls!Raise(c) \/ UNCHANGED Calls!callVars
  <1>1. Types /\ ClientInv(c) /\ client[c].op = "insert" /\ client[c].at # "done"
        /\ UNCHANGED Committed
    BY DEF RowInv, FindItem, InsertRow, RereadItem, At
  <1>2. Calls!Open(c, "insert")
    BY <1>1, OpenCall
  <1>3. ASSUME item.state # "absent", AnswerWith(c, "dup") PROVE Calls!Insert(c)
    <2>1. Calls!Answer(c, "dup")
      BY <1>1, <1>3, AnswerOfCall DEF Answers
    <2>. QED
      BY <1>1, <1>2, <1>3, <2>1 DEF Calls!Insert, Calls!InsertItem, Committed
  <1>4. ASSUME NEW step \in Steps \ {"done"}, Continue(c, step)
        PROVE  UNCHANGED Calls!callVars
    BY <1>1, <1>4, ContinueType, SilentStatement
  <1>5. CASE FindItem(c)
    BY <1>3, <1>4, <1>5 DEF FindItem, Steps
  <1>6. CASE InsertRow(c)
    BY <1>4, <1>6 DEF InsertRow, Steps
  <1>7. CASE RereadItem(c)
    <2>1. CASE item.state # "absent"
      BY <1>3, <1>7, <2>1 DEF RereadItem
    <2>2. CASE item.state = "absent"
      <3>1. purged
        BY <1>1, <1>7, <2>2 DEF RereadItem, ClientInv
      <3>2. Calls!Answer(c, "raised")
        BY <1>1, <1>7, <2>2, AnswerOfCall DEF Answers, RereadItem
      <3>. QED
        BY <1>1, <1>2, <3>1, <3>2 DEF Calls!Raise, Committed
    <2>. QED
      BY <2>1, <2>2
  <1>. QED
    BY <1>5, <1>6, <1>7

\* An UPDATE that finds no row has no effect, and the others none before they commit.
LEMMA UpdateStep ==
    ASSUME RowInv, NEW c \in Clients, UpdateRow(c)
    PROVE  Calls!Update(c) \/ UNCHANGED Calls!callVars
  <1>1. /\ Types /\ client[c].op \in Updates /\ client[c].at # "done"
        /\ UNCHANGED Committed
    BY DEF RowInv, UpdateRow, At, Updates
  <1>2. CASE Matches(client[c].op, item)
    <2>1. Continue(c, "commit") /\ "commit" \in Steps
      BY <1>2 DEF UpdateRow, Steps
    <2>. QED
      BY <1>1, <2>1, ContinueType, SilentStatement
  <1>3. CASE ~Matches(client[c].op, item)
    <2>1. Calls!Answer(c, "ok")
      BY <1>1, <1>3, AnswerOfCall DEF Answers, UpdateRow
    <2>2. item = Calls!Updated(client[c].op, c)
      BY <1>1, <1>3 DEF Matches, Updates, Calls!Updated, Calls!SetItemState,
                        Calls!MarkItemSubmitted, Calls!RequeueSubmitting
    <2>. QED
      BY <1>1, <2>1, <2>2, OpenCall DEF Calls!Update, Updates, Committed
  <1>. QED
    BY <1>2, <1>3

\* record_distill_failure: a row purged under it makes it raise, or settle another row.
LEMMA FailSteps ==
    ASSUME RowInv, NEW c \in Clients, CountAttempt(c) \/ SelectAttempts(c) \/ SettleRow(c)
    PROVE  Calls!Raise(c) \/ Calls!LateFail(c) \/ UNCHANGED Calls!callVars
  <1>1. /\ Types /\ ClientInv(c) /\ client[c].op = "fail" /\ client[c].at # "done"
        /\ UNCHANGED Committed
    BY DEF RowInv, CountAttempt, SelectAttempts, SettleRow, Rollback, At
  <1>2. Calls!Open(c, "fail")
    BY <1>1, OpenCall
  <1>3. ASSUME NEW step \in Steps \ {"done"}, Continue(c, step)
        PROVE  UNCHANGED Calls!callVars
    BY <1>1, <1>3, ContinueType, SilentStatement
  <1>4. CASE CountAttempt(c)
    BY <1>3, <1>4 DEF CountAttempt, Steps
  <1>5. CASE SelectAttempts(c)
    <2>1. CASE Seen(c).state = "absent"
      <3>1. writer # c
        BY <1>1, <1>5, <2>1 DEF SelectAttempts, ClientInv, Writes, At, Seen, Types, Row
      <3>2. purged
        BY <1>1, <1>5, <3>1 DEF SelectAttempts, ClientInv
      <3>3. Calls!Answer(c, "raised")
        BY <1>1, <1>5, <2>1, AnswerOfCall DEF Answers, SelectAttempts
      <3>. QED
        BY <1>1, <1>2, <3>2, <3>3 DEF Calls!Raise, Committed
    <2>2. CASE Seen(c).state # "absent"
      <3>1. client' = [client EXCEPT ![c].at = "settle", ![c].verdict = Verdict(Seen(c).attempts)]
        BY <1>5, <2>2 DEF SelectAttempts
      <3>2. /\ client'[c].at = "settle" /\ client'[c].op = client[c].op
            /\ client'[c].answer = client[c].answer
            /\ \A d \in Clients \ {c} : client'[d] = client[d]
        BY <1>1, <3>1 DEF Types
      <3>. QED
        BY <1>1, <3>2, SilentStatement
    <2>. QED
      BY <2>1, <2>2
  <1>6. CASE SettleRow(c)
    <2>1. CASE Seen(c).state = "absent"
      <3>1. writer # c
        BY <1>1, <1>6, <2>1 DEF SettleRow, ClientInv, Writes, At, Seen, Types, Row
      <3>2. purged /\ client[c].verdict \in {"new", "failed"}
        BY <1>1, <1>6, <3>1 DEF SettleRow, ClientInv
      <3>3. Calls!Answer(c, client[c].verdict)
        BY <1>1, <1>6, <2>1, <3>2, AnswerOfCall DEF Answers, SettleRow
      <3>4. item' = item /\ result' = result /\ purged' = purged
        BY <1>1 DEF Committed
      <3>. QED
        BY <1>2, <3>2, <3>3, <3>4 DEF Calls!LateFail
    <2>2. CASE Seen(c).state # "absent"
      BY <1>3, <1>6, <2>2 DEF SettleRow, Steps
    <2>. QED
      BY <2>1, <2>2
  <1>. QED
    BY <1>4, <1>5, <1>6

\* insert_distillation: a result that is found is a duplicate, and its item is there.
LEMMA StoreSteps ==
    ASSUME RowInv, NEW c \in Clients,
           FindResult(c) \/ InsertResult(c) \/ CheckForeignKey(c) \/ RereadResult(c)
    PROVE  Calls!Store(c) \/ Calls!Raise(c) \/ UNCHANGED Calls!callVars
  <1>1. /\ Types /\ ClientInv(c) /\ ResultHasItem
        /\ client[c].op = "store" /\ client[c].at # "done"
        /\ UNCHANGED Committed
    BY DEF RowInv, FindResult, InsertResult, CheckForeignKey, RereadResult, Rollback, At
  <1>2. Calls!Open(c, "store")
    BY <1>1, OpenCall
  <1>3. ASSUME result # NoJob, AnswerWith(c, "dup") PROVE Calls!Store(c)
    <2>1. Calls!Answer(c, "dup")
      BY <1>1, <1>3, AnswerOfCall DEF Answers
    <2>. QED
      BY <1>1, <1>2, <1>3, <2>1 DEF Calls!Store, Calls!NoJob, NoJob, ResultHasItem, Committed
  <1>4. ASSUME NEW step \in Steps \ {"done"}, Continue(c, step)
        PROVE  UNCHANGED Calls!callVars
    BY <1>1, <1>4, ContinueType, SilentStatement
  <1>5. CASE FindResult(c)
    BY <1>3, <1>4, <1>5 DEF FindResult, Steps
  <1>6. CASE InsertResult(c)
    BY <1>4, <1>6 DEF InsertResult, Steps
  <1>7. CASE CheckForeignKey(c)
    BY <1>4, <1>7 DEF CheckForeignKey, Steps
  <1>8. CASE RereadResult(c)
    <2>1. CASE result # NoJob
      BY <1>3, <1>8, <2>1 DEF RereadResult
    <2>2. CASE result = NoJob
      <3>1. purged
        BY <1>1, <1>8, <2>2 DEF RereadResult, ClientInv
      <3>2. Calls!Answer(c, "raised")
        BY <1>1, <1>8, <2>2, AnswerOfCall DEF Answers, RereadResult
      <3>. QED
        BY <1>1, <1>2, <3>1, <3>2 DEF Calls!Raise, Committed
    <2>. QED
      BY <2>1, <2>2
  <1>. QED
    BY <1>5, <1>6, <1>7, <1>8

\* purge_items: a result it has not deleted makes it raise, an item that is gone is
\* an item it need not delete.
LEMMA PurgeSteps ==
    ASSUME RowInv, NEW c \in Clients, DeleteResult(c) \/ DeleteItem(c)
    PROVE  Calls!Purge(c) \/ Calls!PurgeRefused(c) \/ UNCHANGED Calls!callVars
  <1>1. /\ Types /\ ResultHasItem /\ (item.state = "absent" => item = AbsentRow)
        /\ client[c].op = "purge" /\ client[c].at # "done"
    BY DEF RowInv, DeleteResult, DeleteItem, At
  <1>2. UNCHANGED Committed
    BY DEF DeleteResult, DeleteItem, Rollback
  <1>3. Calls!Open(c, "purge")
    BY <1>1, OpenCall
  <1>4. ASSUME NEW step \in Steps \ {"done"}, Continue(c, step)
        PROVE  UNCHANGED Calls!callVars
    BY <1>1, <1>2, <1>4, ContinueType, SilentStatement
  <1>5. CASE DeleteResult(c)
    BY <1>4, <1>5 DEF DeleteResult, Steps
  <1>6. CASE DeleteItem(c)
    <2>1. CASE item.state # "absent" /\ result # NoJob /\ storer # c
      <3>1. Calls!Answer(c, "raised")
        BY <1>1, <1>6, <2>1, AnswerOfCall DEF Answers, DeleteItem
      <3>. QED
        BY <1>2, <1>3, <2>1, <3>1 DEF Calls!PurgeRefused, Calls!NoJob, NoJob, Committed
    <2>2. CASE item.state # "absent" /\ ~(result # NoJob /\ storer # c)
      BY <1>4, <1>6, <2>2 DEF DeleteItem, Steps
    <2>3. CASE item.state = "absent"
      <3>1. Calls!Answer(c, "ok")
        BY <1>1, <1>6, <2>3, AnswerOfCall DEF Answers, DeleteItem
      <3>2. item' = AbsentRow /\ result' = NoJob /\ item = AbsentRow
        BY <1>1, <1>2, <2>3 DEF ResultHasItem, Committed
      <3>3. purged' = (purged \/ item # Calls!AbsentRow)
        BY <1>1, <1>2, <3>2 DEF Types, Committed, AbsentRow, NoJob, Calls!AbsentRow, Calls!NoJob
      <3>. QED
        BY <1>3, <3>1, <3>2, <3>3
        DEF Calls!Purge, AbsentRow, NoJob, Calls!AbsentRow, Calls!NoJob
    <2>. QED
      BY <2>1, <2>2, <2>3
  <1>. QED
    BY <1>5, <1>6

\* A commit is the instant at which a call takes effect.
LEMMA CommitStep ==
    ASSUME RowInv, NEW c \in Clients, Commit(c)
    PROVE  \/ Calls!Insert(c) \/ Calls!Update(c) \/ Calls!Fail(c) \/ Calls!LateFail(c)
           \/ Calls!Store(c) \/ Calls!Purge(c)
  <1>1. Types /\ ClientInv(c) /\ client[c].at = "commit" /\ AnswerWith(c, AnswerOf(c))
    BY DEF RowInv, Commit
  <1>2. client[c].op \in Methods /\ Calls!Open(c, client[c].op)
    BY <1>1, OpenCall DEF ClientInv
  <1>3. AnswerOf(c) \in Answers
    BY <1>1 DEF AnswerOf, Answers, ClientInv, At
  <1>4. Calls!Answer(c, AnswerOf(c))
    BY <1>1, <1>3, AnswerOfCall
  <1>5. CASE client[c].op = "store"
    <2>1. AnswerOf(c) = "new"
      BY <1>5 DEF AnswerOf
    <2>. QED
      BY <1>2, <1>4, <1>5, <2>1, CommitOfStore DEF Calls!Store, Calls!NoJob, NoJob
  <1>6. CASE client[c].op = "purge"
    <2>1. AnswerOf(c) = "ok"
      BY <1>6 DEF AnswerOf
    <2>2. item # Calls!AbsentRow
      <3>1. item.state # "absent"
        BY <1>6, CommitOfPurge
      <3>. QED
        BY <3>1 DEF Calls!AbsentRow
    <2>3. purged' = (purged \/ item # Calls!AbsentRow)
      BY <1>6, <2>2, CommitOfPurge
    <2>. QED
      BY <1>2, <1>4, <1>6, <2>1, <2>3, CommitOfPurge
      DEF Calls!Purge, AbsentRow, NoJob, Calls!AbsentRow, Calls!NoJob
  <1>7. CASE client[c].op \notin {"store", "purge"}
    <2>1. item' = draft /\ result' = result /\ purged' = purged /\ Writes(c)
      BY <1>7, CommitOfRow
    <2>2. CASE client[c].op = "insert"
      <3>1. AnswerOf(c) = "new" /\ item.state = "absent" /\ draft = FreshRow
        BY <1>1, <2>1, <2>2 DEF AnswerOf, Writes, At, Updates
      <3>. QED
        BY <1>2, <1>4, <2>1, <2>2, <3>1
        DEF Calls!Insert, Calls!InsertItem, Calls!FreshRow, FreshRow, Calls!NoJob, NoJob
    <2>3. CASE client[c].op \in Updates
      <3>1. AnswerOf(c) = "ok" /\ draft = Updated(client[c].op, c, item)
        BY <1>1, <2>1, <2>3 DEF AnswerOf, Writes, At, Updates
      <3>2. draft = Calls!Updated(client[c].op, c)
        BY <2>3, <3>1
        DEF Updates, Updated, Calls!Updated, SetItemState, Calls!SetItemState,
            MarkItemSubmitted, Calls!MarkItemSubmitted, RequeueSubmitting,
            Calls!RequeueSubmitting
      <3>. QED
        BY <1>2, <1>4, <2>1, <2>3, <3>1, <3>2 DEF Calls!Update, Updates
    <2>4. CASE client[c].op = "fail"
      <3>1. AnswerOf(c) = client[c].verdict /\ client[c].verdict \in {"new", "failed"}
        BY <1>1, <2>4 DEF AnswerOf, ClientInv, At
      <3>2. item.state # "absent"
        BY <1>1, <2>1, <2>4 DEF Writes, At, Updates
      <3>3. CASE draft = RecordDistillFailure(item, MaxAttempts) /\ client[c].verdict = draft.state
        BY <1>2, <1>4, <2>1, <2>4, <3>1, <3>2, <3>3
        DEF Calls!Fail, Calls!RecordDistillFailure, RecordDistillFailure, NoJob, Calls!NoJob
      <3>4. CASE purged /\ draft = [item EXCEPT !.state = client[c].verdict, !.job = NoJob]
        <4>1. item' = [item EXCEPT !.state = client[c].verdict, !.job = Calls!NoJob]
          BY <2>1, <3>4 DEF NoJob, Calls!NoJob
        <4>. QED
          BY <1>2, <1>4, <2>1, <2>4, <3>1, <3>2, <3>4, <4>1 DEF Calls!LateFail
      <3>. QED
        BY <1>1, <2>1, <2>4, <3>3, <3>4 DEF Writes, At, Updates
    <2>. QED
      BY <1>2, <1>7, <2>2, <2>3, <2>4 DEF Methods, Updates
  <1>. QED
    BY <1>5, <1>6, <1>7

\* The initial states are those of RowCalls.
LEMMA InitCalls == Init => Calls!Init
  <1>. SUFFICES ASSUME Init PROVE Calls!Init
    OBVIOUS
  <1>1. ASSUME NEW c \in Clients PROVE CallOf(c) = Calls!NoCall
    <2>1. client[c].op = "none" /\ client[c].at # "done" /\ client[c].answer = "none"
      BY DEF Init, Idle
    <2>. QED
      BY <2>1 DEF CallOf, Calls!NoCall
  <1>2. item \in {Calls!AbsentRow, Calls!FreshRow, Calls!LegacyRow}
    BY DEF Init, AbsentRow, FreshRow, LegacyRow, NoJob, Calls!AbsentRow, Calls!FreshRow,
           Calls!LegacyRow, Calls!NoJob
  <1>. QED
    BY <1>1, <1>2 DEF Init, Calls!Init, NoJob, Calls!NoJob

\* Every step is one of RowCalls, or none.
LEMMA NextCalls == RowInv /\ [Next]_vars => [Calls!Next]_Calls!callVars
  <1>. SUFFICES ASSUME RowInv, [Next]_vars PROVE [Calls!Next]_Calls!callVars
    OBVIOUS
  <1>1. CASE UNCHANGED vars
    <2>1. \A c \in Clients : CallOf(c)' = CallOf(c)
      BY <1>1 DEF vars, CallOf
    <2>. QED
      BY <1>1, <2>1 DEF vars, Calls!callVars
  <1>2. ASSUME NEW c \in Clients, NEW op \in Methods, Call(c, op) PROVE Calls!Next
    BY <1>2, CallStep DEF Calls!Next, Methods, Calls!Methods
  <1>3. ASSUME NEW c \in Clients, Return(c) \/ Die(c) PROVE Calls!Next
    BY <1>3, LeaveStep DEF Calls!Next
  <1>4. ASSUME NEW c \in Clients, Statement(c) PROVE [Calls!Next]_Calls!callVars
    <2>1. CASE FindItem(c) \/ InsertRow(c) \/ RereadItem(c)
      BY <2>1, InsertSteps DEF Calls!Next
    <2>2. CASE UpdateRow(c)
      BY <2>2, UpdateStep DEF Calls!Next
    <2>3. CASE CountAttempt(c) \/ SelectAttempts(c) \/ SettleRow(c)
      BY <2>3, FailSteps DEF Calls!Next
    <2>4. CASE FindResult(c) \/ InsertResult(c) \/ CheckForeignKey(c) \/ RereadResult(c)
      BY <2>4, StoreSteps DEF Calls!Next
    <2>5. CASE DeleteResult(c) \/ DeleteItem(c)
      BY <2>5, PurgeSteps DEF Calls!Next
    <2>6. CASE Commit(c)
      BY <2>6, CommitStep DEF Calls!Next
    <2>. QED
      BY <1>4, <2>1, <2>2, <2>3, <2>4, <2>5, <2>6 DEF Statement
  <1>. QED
    BY <1>1, <1>2, <1>3, <1>4 DEF Next

\* Whatever the statements of any number of processes do in between, and whichever of
\* them die, each call takes effect at one instant, as the operator of Ledger that the
\* other models apply for it, or raises because a purge came in between.
THEOREM CallsAreAtomic == Spec => ImplementsCalls
  BY InitCalls, NextCalls, RowInvAlways, PTL DEF Spec, ImplementsCalls, Calls!Spec
===============================================================================
