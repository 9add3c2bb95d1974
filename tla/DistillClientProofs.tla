-------------------------- MODULE DistillClientProofs --------------------------
(***************************************************************************)
(* Theorems about DistillClient, for every retry count.                    *)
(***************************************************************************)
EXTENDS DistillClient, TLAPS

-------------------------------------------------------------------------------
(***************************************************************************)
(* The inductive invariant.                                                *)
(***************************************************************************)

\* Every attempt creates at most one job, and an attempt that has been answered 202 has
\* created it.
PostInv ==
    method = "POST" =>
      /\ created <= attempt + 1
      /\ at = "send" => created <= attempt
      /\ at = "answered" /\ response.code = 202 => created >= 1
      /\ outcome = "accepted" => created >= 1

\* A response may be old when it is interpreted, but a job that has ended stays so.
GetInv ==
    /\ response.status \in {"succeeded", "failed"} => job = response.status
    /\ outcome \in {"succeeded", "failed"} => job = outcome

ClientInv == TypeOK /\ PostInv /\ GetInv

\* The loop makes at least one attempt.
LEMMA AttemptsType == Attempts \in Nat \ {0}
  BY RetriesInNat DEF Attempts

\* Every response the network makes is one.
LEMMA ResponseType ==
    ASSUME NEW code \in Codes, NEW body \in Bodies, NEW status \in JobStates
    PROVE  LET r == [code |-> code, body |-> body, status |-> status] IN
           /\ r \in Response
           /\ r.code = code /\ r.body = body /\ r.status = status
  BY DEF Response

\* What a call starts with.
LEMMA InitClientInv == Init => ClientInv
  <1>. SUFFICES ASSUME Init PROVE ClientInv
    OBVIOUS
  <1>1. NoResponse \in Response /\ NoResponse.status = "queued"
    BY DEF NoResponse, Response, Codes, Bodies, JobStates
  <1>2. TypeOK
    BY <1>1, AttemptsType DEF Init, TypeOK, JobStates, Outcomes
  <1>. QED
    BY <1>1, <1>2 DEF Init, ClientInv, PostInv, GetInv

\* Answers, and their absence, keep the invariant.
LEMMA NetworkKeeps == ClientInv /\ Network => ClientInv'
  <1>. SUFFICES ASSUME ClientInv, Network PROVE ClientInv'
    OBVIOUS
  <1>t. /\ attempt \in Nat /\ created \in Nat
        /\ method \in Methods /\ job \in JobStates /\ attempt \in 0..(Attempts - 1)
    BY AttemptsType DEF ClientInv, TypeOK
  <1>1. CASE PostAccepted
    <2>1. PICK code \in {202, 500, 503}, body \in Bodies :
            response' = [code |-> code, body |-> body, status |-> "queued"]
      BY <1>1 DEF PostAccepted
    <2>2. code \in Codes /\ "queued" \in JobStates
      BY <2>1 DEF Codes, JobStates
    <2>3. response' \in Response /\ response'.status = "queued"
      BY <2>1, <2>2, ResponseType
    <2>4. /\ at = "send" /\ method = "POST" /\ created' = created + 1 /\ at' = "answered"
          /\ UNCHANGED <<method, attempt, job, kept, outcome>>
      BY <1>1 DEF PostAccepted
    <2>. QED
      BY <1>t, <2>3, <2>4 DEF ClientInv, TypeOK, PostInv, GetInv
  <1>2. CASE PostRefused
    <2>1. PICK code \in Codes \ {200, 202}, body \in Bodies :
            response' = [code |-> code, body |-> body, status |-> "queued"]
      BY <1>2 DEF PostRefused
    <2>2. response' \in Response /\ response'.status = "queued" /\ response'.code # 202
      BY <2>1, ResponseType DEF JobStates
    <2>3. /\ at = "send" /\ method = "POST" /\ at' = "answered"
          /\ UNCHANGED <<method, attempt, created, job, kept, outcome>>
      BY <1>2 DEF PostRefused
    <2>. QED
      BY <1>t, <2>2, <2>3 DEF ClientInv, TypeOK, PostInv, GetInv
  <1>3. CASE GetAnswered
    <2>1. PICK code \in {IF kept THEN 200 ELSE 404, 500, 503}, body \in Bodies :
            response' = [code |-> code, body |-> body, status |-> job]
      BY <1>3 DEF GetAnswered
    <2>2. code \in Codes
      BY <2>1 DEF Codes
    <2>3. response' \in Response /\ response'.status = job
      BY <1>t, <2>1, <2>2, ResponseType
    <2>4. /\ method = "GET" /\ at' = "answered"
          /\ UNCHANGED <<method, attempt, created, job, kept, outcome>>
      BY <1>3 DEF GetAnswered
    <2>. QED
      BY <1>t, <2>3, <2>4 DEF ClientInv, TypeOK, PostInv, GetInv
  <1>4. CASE NoAnswer
    <2>1. /\ at = "send" /\ at' = "unanswered"
          /\ created' = created \/ (method = "POST" /\ created' = created + 1)
          /\ UNCHANGED <<method, attempt, response, job, kept, outcome>>
      BY <1>4 DEF NoAnswer
    <2>. QED
      BY <1>t, <2>1 DEF ClientInv, TypeOK, PostInv, GetInv
  <1>. QED
    BY <1>1, <1>2, <1>3, <1>4 DEF Network

\* A job that has ended does not move.
LEMMA JobMovesKeeps == ClientInv /\ JobMoves => ClientInv'
  <1>. SUFFICES ASSUME ClientInv, JobMoves PROVE ClientInv'
    OBVIOUS
  <1>1. /\ job' \in JobStates /\ kept' \in BOOLEAN
        /\ job \in {"succeeded", "failed"} => job' = job
        /\ UNCHANGED <<method, at, attempt, response, created, outcome>>
    BY DEF JobMoves, ClientInv, TypeOK, JobStates
  <1>. QED
    BY <1>1 DEF ClientInv, TypeOK, PostInv, GetInv

\* What the two callers of _request may make of a response.
LEMMA OutcomeType ==
    ASSUME NEW r \in Response
    PROVE  /\ SubmitOutcome(r) \in {"accepted", "raised"}
           /\ SubmitOutcome(r) = "accepted" => r.code = 202
           /\ GetJobOutcome(r) \in {r.status, "raised"}
           /\ GetJobOutcome(r) \in Outcomes
  BY DEF SubmitOutcome, GetJobOutcome, Response, JobStates, Outcomes

\* The loop of _request and its callers keep the invariant.
LEMMA CallKeeps == ClientInv /\ Client => ClientInv'
  <1>. SUFFICES ASSUME ClientInv, Client PROVE ClientInv'
    OBVIOUS
  <1>t. /\ attempt \in Nat /\ created \in Nat /\ Attempts \in Nat \ {0}
        /\ attempt \in 0..(Attempts - 1) /\ response \in Response
    BY AttemptsType DEF ClientInv, TypeOK
  <1>1. CASE SendAgain
    <2>1. /\ at' = "send" /\ attempt' = attempt + 1
          /\ UNCHANGED <<method, response, created, job, kept, outcome>>
      BY <1>1 DEF SendAgain
    <2>2. ~(attempt + 1 >= Attempts)
      BY <1>1 DEF SendAgain, Repeats, LastAttempt
    <2>3. attempt' \in 0..(Attempts - 1)
      BY <1>t, <2>1, <2>2
    <2>. QED
      BY <1>t, <2>1, <2>3 DEF ClientInv, TypeOK, PostInv, GetInv
  <1>2. CASE GiveUp
    <2>1. /\ at' = "done" /\ outcome' = "raised"
          /\ UNCHANGED <<method, attempt, response, created, job, kept>>
      BY <1>2 DEF GiveUp
    <2>. QED
      BY <1>t, <2>1 DEF ClientInv, TypeOK, PostInv, GetInv, Outcomes
  <1>3. CASE Interpret
    <2>1. /\ at = "answered" /\ at' = "done"
          /\ UNCHANGED <<method, attempt, response, created, job, kept>>
      BY <1>3 DEF Interpret
    <2>2. CASE method = "POST"
      <3>1. outcome' = SubmitOutcome(response)
        BY <1>3, <2>2 DEF Interpret
      <3>2. outcome' \in {"accepted", "raised"} /\ (outcome' = "accepted" => response.code = 202)
        BY <1>t, <3>1, OutcomeType
      <3>. QED
        BY <1>t, <2>1, <2>2, <3>2 DEF ClientInv, TypeOK, PostInv, GetInv, Outcomes
    <2>3. CASE method # "POST"
      <3>1. outcome' = GetJobOutcome(response)
        BY <1>3, <2>3 DEF Interpret
      <3>2. outcome' \in {response.status, "raised"} /\ outcome' \in Outcomes
        BY <1>t, <3>1, OutcomeType
      <3>. QED
        BY <1>t, <2>1, <2>3, <3>2 DEF ClientInv, TypeOK, PostInv, GetInv
    <2>. QED
      BY <2>2, <2>3
  <1>. QED
    BY <1>1, <1>2, <1>3 DEF Client

\* The invariant holds throughout every call.
LEMMA ClientInvAlways == Spec => []ClientInv
  <1>1. ClientInv /\ [Next]_vars => ClientInv'
    <2>1. ClientInv /\ UNCHANGED vars => ClientInv'
      BY DEF ClientInv, vars, TypeOK, PostInv, GetInv
    <2>. QED
      BY <2>1, NetworkKeeps, JobMovesKeeps, CallKeeps DEF Next
  <1>. QED
    BY <1>1, InitClientInv, PTL DEF Spec

\* The loop never runs past its limit, whatever limit is configured, zero included.
THEOREM ClientTypes == Spec => []TypeOK
  <1>1. ClientInv => TypeOK
    BY DEF ClientInv
  <1>. QED
    BY <1>1, ClientInvAlways, PTL

\* A submission leaves behind at most one job per attempt, and returns the id of one of
\* them if it is accepted: what Pipeline makes one action of.
THEOREM SubmissionsMatchPipeline == Spec => []MatchesPipeline
  <1>1. ClientInv => MatchesPipeline
    <2>. SUFFICES ASSUME ClientInv, method = "POST"
                  PROVE  /\ created <= Attempts
                         /\ outcome = "accepted" => created \in 1..Attempts /\ created <= attempt + 1
      BY DEF MatchesPipeline
    <2>1. /\ attempt \in 0..(Attempts - 1) /\ created \in Nat /\ Attempts \in Nat \ {0}
          /\ created <= attempt + 1 /\ (outcome = "accepted" => created >= 1)
      BY AttemptsType DEF ClientInv, TypeOK, PostInv
    <2>. QED
      BY <2>1
  <1>. QED
    BY <1>1, ClientInvAlways, PTL

\* No error, 404 or old answer is ever taken for the end of a job.
THEOREM VerdictsAreTrue == Spec => []VerdictIsTrue
  <1>1. ClientInv => VerdictIsTrue
    BY DEF ClientInv, GetInv, VerdictIsTrue
  <1>. QED
    BY <1>1, ClientInvAlways, PTL

\* A refusal is the last answer of its call: nothing is sent after it, and the call can
\* only raise.
THEOREM RefusalsEndCalls == Spec => []RefusalEndsTheCall
  <1>1. Init => RefusalEndsTheCall
    BY DEF Init, NoResponse, NonRetryable, RefusalEndsTheCall
  <1>2. RefusalEndsTheCall /\ [Next]_vars => RefusalEndsTheCall'
    <2>. SUFFICES ASSUME RefusalEndsTheCall, [Next]_vars PROVE RefusalEndsTheCall'
      OBVIOUS
    <2>1. CASE Network
      \* Only what is under way is answered, and a refusal that arrives waits for its caller.
      BY <2>1 DEF Network, PostAccepted, PostRefused, GetAnswered, NoAnswer, NonRetryable,
                  RefusalEndsTheCall
    <2>2. CASE SendAgain
      <3>1. response.code \notin NonRetryable
        BY <2>2 DEF SendAgain, Repeats, RefusalEndsTheCall
      <3>. QED
        BY <2>2, <3>1 DEF SendAgain, RefusalEndsTheCall
    <2>3. CASE GiveUp
      BY <2>3 DEF GiveUp, RefusalEndsTheCall
    <2>4. CASE Interpret
      <3>1. response.code \in NonRetryable =>
              SubmitOutcome(response) = "raised" /\ GetJobOutcome(response) = "raised"
        BY DEF NonRetryable, SubmitOutcome, GetJobOutcome
      <3>. QED
        BY <2>4, <3>1 DEF Interpret, RefusalEndsTheCall
    <2>5. CASE JobMoves \/ UNCHANGED vars
      BY <2>5 DEF JobMoves, vars, RefusalEndsTheCall
    <2>. QED
      BY <2>1, <2>2, <2>3, <2>4, <2>5 DEF Next, Client
  <1>. QED
    BY <1>1, <1>2, PTL DEF Spec
===============================================================================
