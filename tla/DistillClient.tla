----------------------------- MODULE DistillClient -----------------------------
(***************************************************************************)
(* One call of DistillClient (app/services/distill_client.py): submit,     *)
(* which POSTs an item to quant_distill, or get_job, which fetches the     *)
(* status of a job.  Both go through _request, the retry loop: an attempt  *)
(* that gets no answer and one answered 5xx are repeated, up to the limit; *)
(* everything else ends the loop and is interpreted by the caller.  (An    *)
(* item without text never comes here: submit raises before the first      *)
(* request, which Pipeline has among its refusals.)                        *)
(*                                                                         *)
(* Pipeline takes a submission as one action that leaves some number of    *)
(* orphaned jobs behind and returns the newest job or raises; the          *)
(* properties here are what entitles it to.                                *)
(*                                                                         *)
(* quant_distill is external: a POST it accepts creates a job whether or   *)
(* not the answer arrives, and the job of a GET moves on meanwhile.        *)
(***************************************************************************)
EXTENDS Naturals

CONSTANT Retries      \* settings.http_retries
ASSUME RetriesInNat == Retries \in Nat

Methods   == {"POST", "GET"}
JobStates == {"queued", "running", "succeeded", "failed"}
NonRetryable == {413, 422}
Codes     == {200, 202, 404, 500, 503} \union NonRetryable

\* body: what response.json() and the lookup of job_id / status make of the payload.
Bodies    == {"complete", "incomplete", "not json"}
Response  == [code : Codes, body : Bodies, status : JobStates]
Outcomes  == {"none", "raised", "accepted", "queued", "running", "succeeded", "failed"}

VARIABLES
    method,    \* which of the two calls this is
    at,        \* "send", "answered", "unanswered" or "done"
    attempt,   \* the index of the loop in _request
    response,  \* the last response that arrived
    created,   \* jobs this call made quant_distill create
    job,       \* the state of the polled job
    kept,      \* whether quant_distill still has the job
    outcome    \* what the call returned

vars == <<method, at, attempt, response, created, job, kept, outcome>>

Attempts == IF Retries > 1 THEN Retries ELSE 1

TypeOK ==
    /\ method \in Methods
    /\ at \in {"send", "answered", "unanswered", "done"}
    /\ attempt \in 0..(Attempts - 1)
    /\ response \in Response
    /\ created \in Nat
    /\ job \in JobStates /\ kept \in BOOLEAN
    /\ outcome \in Outcomes

NoResponse == [code |-> 200, body |-> "complete", status |-> "queued"]

Init ==
    /\ method \in Methods
    /\ at = "send"
    /\ attempt = 0
    /\ response = NoResponse
    /\ created = 0
    /\ job \in {"queued", "running"} /\ kept = TRUE
    /\ outcome = "none"

-------------------------------------------------------------------------------
(***************************************************************************)
(* quant_distill and the network.                                          *)
(***************************************************************************)

\* The item is taken: a job exists, and the answer says so or says 5xx.
PostAccepted ==
    /\ at = "send" /\ method = "POST"
    /\ created' = created + 1
    /\ at' = "answered"
    /\ \E code \in {202, 500, 503}, body \in Bodies :
         response' = [code |-> code, body |-> body, status |-> "queued"]
    /\ UNCHANGED <<method, attempt, job, kept, outcome>>

PostRefused ==
    /\ at = "send" /\ method = "POST"
    /\ at' = "answered"
    /\ \E code \in Codes \ {200, 202}, body \in Bodies :
         response' = [code |-> code, body |-> body, status |-> "queued"]
    /\ UNCHANGED <<method, attempt, created, job, kept, outcome>>

\* The status of the job as it is, 404 if quant_distill no longer has it, or an error.
GetAnswered ==
    /\ at = "send" /\ method = "GET"
    /\ at' = "answered"
    /\ \E code \in {IF kept THEN 200 ELSE 404, 500, 503}, body \in Bodies :
         response' = [code |-> code, body |-> body, status |-> job]
    /\ UNCHANGED <<method, attempt, created, job, kept, outcome>>

\* httpx.HTTPError: no connection, or the answer was too late.
NoAnswer ==
    /\ at = "send"
    /\ at' = "unanswered"
    /\ \/ UNCHANGED created
       \/ method = "POST" /\ created' = created + 1
    /\ UNCHANGED <<method, attempt, response, job, kept, outcome>>

JobMoves ==
    /\ \/ kept /\ job = "queued" /\ job' = "running" /\ UNCHANGED kept
       \/ kept /\ job = "running" /\ job' \in {"succeeded", "failed"} /\ UNCHANGED kept
       \/ kept /\ kept' = FALSE /\ UNCHANGED job
    /\ UNCHANGED <<method, at, attempt, response, created, outcome>>

-------------------------------------------------------------------------------
(***************************************************************************)
(* _request.                                                               *)
(***************************************************************************)
LastAttempt_OffByOne == attempt >= Attempts
LastAttempt_LosesOne == attempt + 2 >= Attempts
LastAttempt == attempt + 1 >= Attempts

Repeats_AnyError(code) == code >= 400 /\ ~LastAttempt
Repeats(code) == code \notin NonRetryable /\ code >= 500 /\ ~LastAttempt

SendAgain ==
    /\ \/ at = "unanswered" /\ ~LastAttempt
       \/ at = "answered" /\ Repeats(response.code)
    /\ at' = "send"
    /\ attempt' = attempt + 1
    /\ UNCHANGED <<method, response, created, job, kept, outcome>>

\* The last attempt got no answer either: DistillApiError.
GiveUp ==
    /\ at = "unanswered" /\ LastAttempt
    /\ at' = "done"
    /\ outcome' = "raised"
    /\ UNCHANGED <<method, attempt, response, created, job, kept>>

-------------------------------------------------------------------------------
(***************************************************************************)
(* What submit and get_job make of the response _request returned.         *)
(***************************************************************************)
SubmitOutcome_AnyStatus(r) == IF r.body = "complete" THEN "accepted" ELSE "raised"
SubmitOutcome(r) == IF r.code = 202 /\ r.body = "complete" THEN "accepted" ELSE "raised"

GetJobOutcome_404IsFailed(r) ==
    CASE r.code = 404 -> "failed"
      [] r.code = 200 /\ r.body = "complete" -> r.status
      [] OTHER -> "raised"
GetJobOutcome(r) ==
    IF r.code = 200 /\ r.body = "complete" THEN r.status ELSE "raised"

Interpret ==
    /\ at = "answered" /\ ~Repeats(response.code)
    /\ at' = "done"
    /\ outcome' = IF method = "POST" THEN SubmitOutcome(response) ELSE GetJobOutcome(response)
    /\ UNCHANGED <<method, attempt, response, created, job, kept>>

Client == SendAgain \/ GiveUp \/ Interpret
Network == PostAccepted \/ PostRefused \/ GetAnswered \/ NoAnswer
Next == Client \/ Network \/ JobMoves

Spec == Init /\ [][Next]_vars

\* A timeout ends every attempt the network does not, and the loop body never blocks.
FairSpec == Spec /\ WF_vars(Client) /\ WF_vars(Network)

-------------------------------------------------------------------------------
(***************************************************************************)
(* Properties.                                                             *)
(***************************************************************************)

\* What Pipeline!SubmitAccepted and Pipeline!SubmitRaises assume: an accepted item
\* has a job, the one just created, and at most one orphan per earlier attempt; a
\* call that raises leaves no more orphans than it made attempts.
MatchesPipeline ==
    method = "POST" =>
      /\ created <= Attempts
      /\ outcome = "accepted" => created \in 1..Attempts /\ created <= attempt + 1

\* runbook.md: a 422 (or 413) is not retried unchanged.  Once one has arrived, also as
\* the answer to a repeated POST, no further request of this call is on its way, and the
\* call can only end by raising.  (response keeps the last answer while a request is out.)
RefusalEndsTheCall ==
    response.code \in NonRetryable =>
      /\ at \in {"answered", "done"}
      /\ at = "done" => outcome = "raised"

\* _poll_submitted_items counts an attempt against the item on "failed" and stores a
\* result on "succeeded": neither may come from an error, a 404 or an old answer.
VerdictIsTrue ==
    outcome \in {"succeeded", "failed"} => job = outcome

\* Nothing has arrived but errors that are to be retried.
OnlyErrors == response = NoResponse \/ response.code >= 500

\* No call keeps its worker for ever, and none gives up on errors before it has made as
\* many attempts as http_retries grants it.
CallReturns ==
    <>(at = "done" /\ (outcome = "raised" /\ OnlyErrors => attempt = Attempts - 1))
===============================================================================
