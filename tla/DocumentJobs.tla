---------------------------- MODULE DocumentJobs ----------------------------
(***************************************************************************)
(* The job queue and its workers: backend/app/document_jobs.py, the        *)
(* processing loop of backend/app/worker.py, and the upload and retry      *)
(* handlers of backend/app/documents.py.  The application a document       *)
(* belongs to is in LifecycleRaces; here requests may come at any time.    *)
(*                                                                         *)
(* A transaction is one action and takes effect at its commit, unless it   *)
(* decides on a row before it locks it.  Two do: retry_job reads the job   *)
(* and writes it at its commit, and finish_job checks the claim and writes *)
(* the job after.  They are two actions each, and the second does not look *)
(* at the job again, whatever has become of it: no UPDATE of theirs names  *)
(* a status or a token.  Between any two actions other workers recover,    *)
(* claim and finish, users upload and retry, time passes, leases lapse and *)
(* workers die.                                                            *)
(*                                                                         *)
(* A document has exactly one job, so jobs are named by their documents.   *)
(* Documents are numbered in the order of their creation, and one tick of  *)
(* the clock is the unit of RenewEvery, StaleAfter and Backoff.            *)
(***************************************************************************)
EXTENDS Integers, FiniteSets

CONSTANTS
    Worker,        \* worker processes
    Survives,      \* those that never die, for liveness only
    Request,       \* sessions of the API server that serve retries
    NumDocs,       \* documents uploaded, at most
    Kinds,         \* kinds of material users upload, a subset of Kind
    Selections,    \* sets of steps users ask to run again
    MaxAttempts,   \* 3 in the code
    StaleAfter,    \* ticks without renewal after which a lease is stale
    RenewEvery,    \* ticks between two renewals by the renewal thread
    MaxRetries,    \* bound of the model: retries users ask for
    MaxClaims      \* bound of the model: claims of a job

Doc == 1 .. NumDocs

ASSUME BoundsAssumption ==
    /\ NumDocs \in Nat /\ MaxRetries \in Nat /\ MaxClaims \in Nat
    /\ MaxAttempts \in Nat \ {0}
    /\ StaleAfter \in Nat \ {0} /\ RenewEvery \in Nat \ {0}

\* The renewal period (30 s) is shorter than the lease (5 minutes).
ASSUME RenewalAssumption == RenewEvery <= StaleAfter

Kind == {"page", "structured", "manual", "oversize"}
Settled == {"success", "partial_success", "failed", "manual_handling"}
Active == {"waiting", "running"}
Status == Active \cup Settled
StepStatus == Status \cup {"not_applicable"}

\* The processing steps.  The sixth, structure_extraction, is created
\* not_applicable and no handler ever selects it.
Parse == {"parsing_ocr", "seal_detection"}
Text == {"classification", "candidate_extraction"}
Step == {"validation"} \cup Parse \cup Text

ASSUME InputsAssumption ==
    /\ Kinds \subseteq Kind /\ Survives \subseteq Worker
    /\ Selections \subseteq (SUBSET Step) \ {{}}

VARIABLES
    \* document_jobs, one row per document
    status,      \* [Doc -> Status \cup {"absent"}]
    token,       \* claim_token: which claim of the job holds it, 0 for none
    attempts,    \* claims since the job was last queued by a user
    age,         \* ticks since claimed_at
    delay,       \* ticks until available_at
    claims,      \* claims so far; the uuid of a claim is its number
    \* processing_steps, documents, document_outputs
    step,        \* [Doc -> [Step -> StepStatus]]
    processing,  \* documents.processing_status
    review,      \* documents.review_status
    output,      \* status of the latest version of the parsed output, or "none"
    \* a worker process
    pc,          \* where it is in process_one
    at,          \* the document of the job it claimed
    tok,         \* the claim token it was given
    renew,       \* its renewal thread
    open,        \* claimed steps its session has not committed yet
    mem,         \* the status of the steps in its session
    dirty,       \* steps whose new status the session has not sent yet
    stored,      \* status of the parsed output in its session, or "none"
    out,         \* the outcome it will ask finish_job for
    transient,   \* whether that outcome may be retried
    shown,       \* the review status of the document as its session read it
    tries,       \* the attempts of the job when finish_job accepted the claim
    \* a request
    wants,       \* the retry it will commit, or NoRetry
    \* bound of the model
    retries      \* retries asked for

jobVars == <<status, token, attempts, age, delay, claims>>
docVars == <<step, processing, review, output>>
sessVars == <<at, tok, open, mem, dirty, stored, out, transient, shown, tries>>
userVars == <<wants, retries>>
vars == <<jobVars, docVars, pc, renew, sessVars, userVars>>

\* done: about to call finish_job.  accepted: finish_job has found the claim
\* in force and has written nothing yet.
PC == {"idle", "polled", "opening", "reading", "working", "done", "accepted", "dead"}
Renewal == {"off", "on", "armed", "dead"}
Parsed == {"success", "partial_success", "failed"}
Review == {"not_ready", "pending_review"}

\* What a request has read: the steps it will queue, whether the job had been
\* claimed since it was queued last and whether the document was offered for
\* review.  The count of the claims, and the review status, are written only
\* if they change what was read.
Retry == [doc : Doc \cup {0}, steps : SUBSET Step, tried : BOOLEAN, offered : BOOLEAN]
NoRetry == [doc |-> 0, steps |-> {}, tried |-> FALSE, offered |-> FALSE]

JobTypes ==
    /\ status \in [Doc -> Status \cup {"absent"}]
    /\ token \in [Doc -> Nat]
    /\ attempts \in [Doc -> Nat]
    /\ age \in [Doc -> 0 .. StaleAfter + 1]
    /\ delay \in [Doc -> Nat]
    /\ claims \in [Doc -> Nat]

DocTypes ==
    /\ step \in [Doc -> [Step -> StepStatus]]
    /\ processing \in [Doc -> Status \cup {"absent"}]
    /\ review \in [Doc -> Review]
    /\ output \in [Doc -> Parsed \cup {"none"}]

SessionTypes ==
    /\ at \in [Worker -> Doc \cup {0}]
    /\ tok \in [Worker -> Nat]
    /\ open \in [Worker -> SUBSET Step]
    /\ mem \in [Worker -> [Step -> StepStatus]]
    /\ dirty \in [Worker -> SUBSET Step]
    /\ stored \in [Worker -> Parsed \cup {"none"}]
    /\ out \in [Worker -> Settled]
    /\ transient \in [Worker -> BOOLEAN]
    /\ shown \in [Worker -> Review]
    /\ tries \in [Worker -> Nat]

TypeOK ==
    /\ JobTypes /\ DocTypes /\ SessionTypes
    /\ pc \in [Worker -> PC]
    /\ renew \in [Worker -> Renewal]
    /\ wants \in [Request -> Retry]
    /\ retries \in 0 .. MaxRetries

-----------------------------------------------------------------------------
(* Predicates the handlers share. *)

Working(w) == pc[w] \in {"opening", "reading", "working", "done", "accepted"}

\* Mutant: a worker is recognised by the status of the job alone.
HoldsByStatus(w) == Working(w) /\ status[at[w]] = "running"

\* The test of renew_claim and of finish_job: the job still runs under the
\* token this worker was given.
Holds(w) ==
    /\ Working(w)
    /\ status[at[w]] = "running"
    /\ token[at[w]] = tok[w]

\* store_parsed_output locks the document row until the session commits;
\* every other writer of that row waits.
DocLocked(d) == \E w \in Worker : stored[w] # "none" /\ at[w] = d

LockedByOther(w) == \E v \in Worker \ {w} : stored[v] # "none" /\ at[v] = at[w]

\* Mutants: leases lapse a tick early; jobs without attempts left are not
\* looked at.
StaleEarly(d) == status[d] = "running" /\ age[d] >= StaleAfter
StaleIfRetriable(d) ==
    status[d] = "running" /\ age[d] > StaleAfter /\ attempts[d] < MaxAttempts

\* recover_stale_jobs: claimed_at < now - stale_after
Stale(d) == status[d] = "running" /\ age[d] > StaleAfter

\* 2 ** (attempts - 1), in ticks
Backoff(n) == 2 ^ (n - 1)

ASSUME BackoffAssumption == \A n \in 1 .. MaxAttempts : Backoff(n) \in Nat

NoSteps == [s \in Step |-> "not_applicable"]

Init ==
    /\ status = [d \in Doc |-> "absent"]
    /\ token = [d \in Doc |-> 0]
    /\ attempts = [d \in Doc |-> 0]
    /\ age = [d \in Doc |-> 0]
    /\ delay = [d \in Doc |-> 0]
    /\ claims = [d \in Doc |-> 0]
    /\ step = [d \in Doc |-> NoSteps]
    /\ processing = [d \in Doc |-> "absent"]
    /\ review = [d \in Doc |-> "not_ready"]
    /\ output = [d \in Doc |-> "none"]
    /\ pc = [w \in Worker |-> "idle"]
    /\ at = [w \in Worker |-> 0]
    /\ tok = [w \in Worker |-> 0]
    /\ renew = [w \in Worker |-> "off"]
    /\ open = [w \in Worker |-> {}]
    /\ mem = [w \in Worker |-> NoSteps]
    /\ dirty = [w \in Worker |-> {}]
    /\ stored = [w \in Worker |-> "none"]
    /\ out = [w \in Worker |-> "success"]
    /\ transient = [w \in Worker |-> FALSE]
    /\ shown = [w \in Worker |-> "not_ready"]
    /\ tries = [w \in Worker |-> 0]
    /\ wants = [r \in Request |-> NoRetry]
    /\ retries = 0

-----------------------------------------------------------------------------
(* Users: documents.upload_document and documents.retry_job.                 *)

\* The status of a new job: FORMATS are queued, MANUAL_EXTENSIONS and unknown
\* extensions need manual handling, oversize material has failed already.
InitialStatus(k) ==
    CASE k \in {"page", "structured"} -> "waiting"
      [] k = "manual" -> "manual_handling"
      [] k = "oversize" -> "failed"

\* documents.document_job: validation takes the status of the job; the parse
\* steps of the format and the text steps are queued with a waiting job.
InitialSteps(k) ==
    [s \in Step |->
        CASE s = "validation" -> InitialStatus(k)
          [] s = "parsing_ocr" -> IF k \in {"page", "structured"} THEN "waiting" ELSE "not_applicable"
          [] s = "seal_detection" -> IF k = "page" THEN "waiting" ELSE "not_applicable"
          [] s \in Text -> IF k \in {"page", "structured"} THEN "waiting" ELSE "not_applicable"]

\* A new document and its job.  A duplicate of a known document changes nothing.
Upload(d, k) ==
    /\ status[d] = "absent"
    /\ \A e \in Doc : e < d => status[e] # "absent"
    /\ status' = [status EXCEPT ![d] = InitialStatus(k)]
    /\ step' = [step EXCEPT ![d] = InitialSteps(k)]
    /\ processing' = [processing EXCEPT ![d] = InitialStatus(k)]
    /\ review' = [review EXCEPT ![d] = IF InitialStatus(k) = "waiting"
                                       THEN "not_ready" ELSE "pending_review"]
    /\ UNCHANGED <<token, attempts, age, delay, claims, output, pc, renew, sessVars, userVars>>

\* Steps the user may select: of a settled job that did not fail the parse
\* steps and the unsuccessful text steps, of one that did its failed steps.
Rerunnable(d) ==
    IF status[d] \in {"success", "partial_success"}
    THEN {s \in Parse : step[d][s] # "not_applicable"} \cup
         {s \in Text : step[d][s] \in {"failed", "partial_success", "manual_handling"}}
    ELSE {s \in Step : step[d][s] \in {"failed", "manual_handling"}}

\* Parsing again implies reading the text again.
WithText(selected) == IF selected \cap Parse # {} THEN selected \cup Text ELSE selected

\* A request finds the job settled.  It reads the job, the document and the
\* steps without a lock, and here in one state.
AskRetry(r, d, selected) ==
    /\ retries < MaxRetries
    /\ wants[r] = NoRetry
    /\ status[d] \in Settled
    /\ selected \subseteq Rerunnable(d)
    /\ wants' = [wants EXCEPT ![r] =
            [doc |-> d,
             steps |-> {s \in WithText(selected) : step[d][s] # "waiting"},
             tried |-> attempts[d] # 0,
             offered |-> review[d] # "not_ready"]]
    /\ retries' = retries + 1
    /\ UNCHANGED <<jobVars, docVars, pc, renew, sessVars>>

\* Its commit puts the job to wait, whatever has become of it; the claim, if
\* there is one now, stays on the row.
CommitRetry(r) ==
    LET d == wants[r].doc
    IN  /\ d # 0
        /\ ~DocLocked(d)
        /\ status' = [status EXCEPT ![d] = "waiting"]
        /\ attempts' = [attempts EXCEPT ![d] = IF wants[r].tried THEN 0 ELSE @]
        /\ step' = [step EXCEPT ![d] = [s \in Step |->
                IF s \in wants[r].steps THEN "waiting" ELSE step[d][s]]]
        /\ processing' = [processing EXCEPT ![d] = "waiting"]
        /\ review' = [review EXCEPT ![d] = IF wants[r].offered THEN "not_ready" ELSE @]
        /\ wants' = [wants EXCEPT ![r] = NoRetry]
        /\ UNCHANGED <<token, age, delay, claims, output, pc, renew, sessVars, retries>>

\* The request fails and its session is rolled back.
AbortRetry(r) ==
    /\ wants[r] # NoRetry
    /\ wants' = [wants EXCEPT ![r] = NoRetry]
    /\ UNCHANGED <<jobVars, docVars, pc, renew, sessVars, retries>>

-----------------------------------------------------------------------------
(* Workers: process_one, one action per transaction and per stretch of       *)
(* private work that ends in a different way.                                *)

\* recover_stale_jobs: every stale job goes back to the queue, or fails when
\* it has no attempts left.  The application is not looked at.
RecoverTo(d) == IF attempts[d] >= MaxAttempts THEN "failed" ELSE "waiting"

Recover(w) ==
    /\ pc[w] = "idle"
    /\ \A d \in Doc : Stale(d) => ~DocLocked(d)
    /\ pc' = [pc EXCEPT ![w] = "polled"]
    /\ status' = [d \in Doc |-> IF Stale(d) THEN RecoverTo(d) ELSE status[d]]
    /\ delay' = [d \in Doc |-> IF Stale(d) /\ RecoverTo(d) = "waiting"
                               THEN Backoff(attempts[d]) ELSE delay[d]]
    /\ token' = [d \in Doc |-> IF Stale(d) THEN 0 ELSE token[d]]
    /\ age' = [d \in Doc |-> IF Stale(d) THEN 0 ELSE age[d]]
    /\ step' = [d \in Doc |-> [s \in Step |->
            IF Stale(d) /\ step[d][s] = "running" THEN RecoverTo(d) ELSE step[d][s]]]
    /\ processing' = [d \in Doc |-> IF Stale(d) THEN RecoverTo(d) ELSE processing[d]]
    /\ UNCHANGED <<attempts, claims, review, output, renew, sessVars, userVars>>

\* claim_next_job: the oldest waiting job whose backoff is over.
Claimable(d) == status[d] = "waiting" /\ delay[d] = 0

\* Mutant: the text steps are left to wait.
ClaimedButText(d) == {s \in Step \ Text : step[d][s] = "waiting"}

ClaimedSteps(d) == {s \in Step : step[d][s] = "waiting"}

\* Mutant: the number of the attempt is the token.
AttemptToken(d) == attempts[d] + 1

\* uuid4: a token no claim was given before.
NextToken(d) == claims[d] + 1

Claim(w, d) ==
    /\ pc[w] = "polled"
    /\ Claimable(d)
    /\ \A e \in Doc : e < d => ~Claimable(e)
    /\ ~DocLocked(d)
    /\ claims[d] < MaxClaims
    /\ pc' = [pc EXCEPT ![w] = "opening"]
    /\ status' = [status EXCEPT ![d] = "running"]
    /\ claims' = [claims EXCEPT ![d] = @ + 1]
    /\ token' = [token EXCEPT ![d] = NextToken(d)]
    /\ age' = [age EXCEPT ![d] = 0]
    /\ attempts' = [attempts EXCEPT ![d] = @ + 1]
    /\ processing' = [processing EXCEPT ![d] = "running"]
    /\ step' = [step EXCEPT ![d] = [s \in Step |->
            IF s \in ClaimedSteps(d) THEN "running" ELSE step[d][s]]]
    /\ at' = [at EXCEPT ![w] = d]
    /\ tok' = [tok EXCEPT ![w] = NextToken(d)]
    /\ open' = [open EXCEPT ![w] = {s \in Step : step'[d][s] = "running"}]
    /\ mem' = [mem EXCEPT ![w] = step'[d]]
    /\ shown' = [shown EXCEPT ![w] = review[d]]
    /\ UNCHANGED <<delay, review, output, renew, dirty, stored, out, transient, tries,
                   userVars>>

NothingToClaim(w) ==
    /\ pc[w] = "polled"
    /\ \A d \in Doc : ~Claimable(d)
    /\ pc' = [pc EXCEPT ![w] = "idle"]
    /\ UNCHANGED <<jobVars, docVars, renew, sessVars, userVars>>

\* The object is open and the renewal thread started.
OpenSource(w) ==
    /\ pc[w] = "opening"
    /\ pc' = [pc EXCEPT ![w] = "reading"]
    /\ renew' = [renew EXCEPT ![w] = "on"]
    /\ UNCHANGED <<jobVars, docVars, sessVars, userVars>>

\* renew_claim of the renewal thread, and of the main thread at every chunk
\* it reads.  A renewal that finds the token gone changes nothing, and the
\* worker does not look at its result.
Renewed(w) ==
    /\ Holds(w)
    /\ age[at[w]] > 0 \/ renew[w] = "on"
    /\ age' = [age EXCEPT ![at[w]] = 0]
    /\ renew' = [renew EXCEPT ![w] = IF renew[w] = "on" THEN "armed" ELSE renew[w]]
    /\ UNCHANGED <<status, token, attempts, delay, claims, docVars, pc,
                   sessVars, userVars>>

Renew(w) == renew[w] \in {"on", "armed"} /\ Renewed(w)

ReadChunk(w) == pc[w] = "reading" /\ Renewed(w)

\* An error of the database ends the renewal thread, not the worker.
RenewalDies(w) ==
    /\ renew[w] \in {"on", "armed"}
    /\ renew' = [renew EXCEPT ![w] = "dead"]
    /\ UNCHANGED <<jobVars, docVars, pc, sessVars, userVars>>

EndOfSource(w) ==
    /\ pc[w] = "reading"
    /\ pc' = [pc EXCEPT ![w] = "working"]
    /\ UNCHANGED <<jobVars, docVars, renew, sessVars, userVars>>

\* Claimed steps of S the session has not settled yet.
Todo(w, S) == {s \in open[w] \cap S : mem[w][s] = "running"}

\* Steps get a status in the session.  The next query of the session sends it
\* to the database and makes room for the next.
InSession(w, S, st) ==
    /\ mem' = [mem EXCEPT ![w] = [s \in Step |-> IF s \in S THEN st ELSE mem[w][s]]]
    /\ dirty' = [dirty EXCEPT ![w] = S]

\* validate accepts a format of FORMATS only, and the object of material over
\* the size limit was deleted: both have no step to parse.
Acceptable(d) == step[d]["parsing_ocr"] # "not_applicable"

Validate(w) ==
    /\ pc[w] = "working"
    /\ Todo(w, {"validation"}) # {}
    /\ Acceptable(at[w])
    /\ InSession(w, {"validation"}, "success")
    /\ UNCHANGED <<jobVars, docVars, pc, renew, at, tok, open, stored, out,
                   transient, shown, tries, userVars>>

\* parse_material or parse_structured, and store_parsed_output.
ParseMaterial(w, result) ==
    /\ pc[w] = "working"
    /\ Todo(w, {"validation"}) = {}
    /\ Todo(w, Parse) # {}
    /\ ~DocLocked(at[w])
    /\ InSession(w, Todo(w, Parse), result)
    /\ stored' = [stored EXCEPT ![w] = result]
    /\ out' = [out EXCEPT ![w] = result]
    /\ UNCHANGED <<jobVars, docVars, pc, renew, at, tok, open, transient, shown,
                   tries, userVars>>

ReadyForText(w) == pc[w] = "working" /\ Todo(w, {"validation"} \cup Parse) = {}

\* The latest version of the output, as this session reads it, has text.
HasText(w) ==
    (IF stored[w] # "none" THEN stored[w] ELSE output[at[w]]) \in {"success", "partial_success"}

Classify(w) ==
    /\ ReadyForText(w) /\ HasText(w)
    /\ Todo(w, {"classification"}) # {}
    /\ InSession(w, {"classification"}, "success")
    /\ UNCHANGED <<jobVars, docVars, pc, renew, at, tok, open, stored, out,
                   transient, shown, tries, userVars>>

\* The worker is through with the material; the renewal thread is joined.
Through(w) ==
    /\ pc' = [pc EXCEPT ![w] = "done"]
    /\ renew' = [renew EXCEPT ![w] = "off"]

\* run_candidate_extraction commits the session, and with it the parsed
\* output and every step settled so far, without looking at the token.  The
\* extraction step gets its status after the commit; no query follows, and
\* finish_job, which refreshes the job and its steps first, discards it.
Extract(w, result) ==
    /\ ReadyForText(w) /\ HasText(w)
    /\ Todo(w, {"classification"}) = {}
    /\ Todo(w, {"candidate_extraction"}) # {}
    /\ step' = [step EXCEPT ![at[w]] = [s \in Step |->
            IF s \in open[w] /\ mem[w][s] # "running" THEN mem[w][s] ELSE step[at[w]][s]]]
    /\ output' = [output EXCEPT ![at[w]] = IF stored[w] # "none" THEN stored[w] ELSE @]
    /\ stored' = [stored EXCEPT ![w] = "none"]
    /\ open' = [open EXCEPT ![w] = {}]
    /\ dirty' = [dirty EXCEPT ![w] = {}]
    /\ out' = [out EXCEPT ![w] = IF result = "partial_success" THEN result ELSE @]
    /\ Through(w)
    /\ UNCHANGED <<jobVars, processing, review, at, tok, mem, transient, shown, tries,
                   userVars>>

\* The worker marks the text steps not applicable; that too is discarded.
NoText(w) ==
    /\ ReadyForText(w) /\ ~HasText(w)
    /\ Todo(w, Text) # {}
    /\ dirty' = [dirty EXCEPT ![w] = {}]
    /\ Through(w)
    /\ UNCHANGED <<jobVars, docVars, at, tok, open, mem, stored, out, transient,
                   shown, tries, userVars>>

NothingLeft(w) ==
    /\ ReadyForText(w)
    /\ Todo(w, Text) = {}
    /\ Through(w)
    /\ UNCHANGED <<jobVars, docVars, sessVars, userVars>>

\* The ways out of the try block: the object store or the network failed, the
\* material was refused by validate, or anything else was raised, before or
\* after a query had sent the last status.
Raised(w) ==
    {e \in [outcome : {"failed", "manual_handling"}, again : BOOLEAN] :
        e.outcome = "manual_handling" =>
            ~e.again /\ pc[w] = "working" /\ Todo(w, {"validation"}) # {}}

Fail(w, e) ==
    /\ pc[w] \in {"opening", "reading", "working"}
    /\ e \in Raised(w)
    /\ \E unsent \in {{}, dirty[w]} : dirty' = [dirty EXCEPT ![w] = unsent]
    /\ out' = [out EXCEPT ![w] = e.outcome]
    /\ transient' = [transient EXCEPT ![w] = e.again]
    /\ Through(w)
    /\ UNCHANGED <<jobVars, docVars, at, tok, open, mem, stored, shown, tries,
                   userVars>>

EndSession(w) ==
    /\ at' = [at EXCEPT ![w] = 0]
    /\ tok' = [tok EXCEPT ![w] = 0]
    /\ open' = [open EXCEPT ![w] = {}]
    /\ mem' = [mem EXCEPT ![w] = NoSteps]
    /\ dirty' = [dirty EXCEPT ![w] = {}]
    /\ stored' = [stored EXCEPT ![w] = "none"]
    /\ out' = [out EXCEPT ![w] = "success"]
    /\ transient' = [transient EXCEPT ![w] = FALSE]
    /\ shown' = [shown EXCEPT ![w] = "not_ready"]
    /\ tries' = [tries EXCEPT ![w] = 0]

\* finish_job reads the job again and refuses a worker whose claim is over; the
\* session of that one is rolled back.
Check(w) ==
    /\ pc[w] = "done"
    /\ IF Holds(w)
       THEN /\ pc' = [pc EXCEPT ![w] = "accepted"]
            /\ tries' = [tries EXCEPT ![w] = attempts[at[w]]]
            /\ UNCHANGED <<at, tok, open, mem, dirty, stored, out, transient, shown>>
       ELSE pc' = [pc EXCEPT ![w] = "idle"] /\ EndSession(w)
    /\ UNCHANGED <<jobVars, docVars, renew, userVars>>

\* Mutant: one attempt too many.
WillRetryOnceMore(w) == transient[w] /\ tries[w] <= MaxAttempts

WillRetry(w) == transient[w] /\ tries[w] < MaxAttempts

SettlesTo(w) == IF WillRetry(w) THEN "waiting" ELSE out[w]

\* Mutant: the outcome, although the job will be tried again.
ShownAsOutcome(w) == out[w]

\* documents.processing_status is that of the job.
ShownAs(w) == SettlesTo(w)

\* Mutant: whatever the outcome.
ReviewableAlways == Settled

Reviewable == {"success", "partial_success", "manual_handling"}

\* Mutant: the outcome is shown, not what it means for the review.
ShowsOutcome(w) == out[w]

Shows(w) == IF out[w] \in Reviewable THEN "pending_review" ELSE "not_ready"

\* What is left of the session when finish_job has refreshed the job: refresh
\* expires the steps before it flushes.
Flushed(w) == {s \in open[w] \ dirty[w] : mem[w][s] # "running"}

\* finish_job writes the job, the document, the steps it settled, those that
\* run with the outcome of the job, and the output it may still hold.  From
\* its first write to the commit it has the row of the job, so that is one
\* step; that the claim is still in force is not looked at again.
Settle(w) ==
    LET d == at[w]
    IN  /\ pc[w] = "accepted"
        /\ ~LockedByOther(w)
        /\ status' = [status EXCEPT ![d] = SettlesTo(w)]
        /\ token' = [token EXCEPT ![d] = 0]
        /\ age' = [age EXCEPT ![d] = 0]
        /\ delay' = [delay EXCEPT ![d] = IF WillRetry(w) THEN Backoff(tries[w]) ELSE @]
        /\ step' = [step EXCEPT ![d] = [s \in Step |->
                IF s \in Flushed(w) THEN mem[w][s]
                ELSE IF step[d][s] = "running" THEN SettlesTo(w) ELSE step[d][s]]]
        /\ output' = [output EXCEPT ![d] = IF stored[w] # "none" THEN stored[w] ELSE @]
        /\ processing' = [processing EXCEPT ![d] = ShownAs(w)]
        /\ review' = [review EXCEPT ![d] = IF Shows(w) = shown[w] THEN @ ELSE Shows(w)]
        /\ pc' = [pc EXCEPT ![w] = "idle"]
        /\ EndSession(w)
        /\ UNCHANGED <<attempts, claims, renew, userVars>>

\* The process dies; the database rolls its session back.
Crash(w) ==
    /\ pc[w] # "dead"
    /\ pc' = [pc EXCEPT ![w] = "dead"]
    /\ renew' = [renew EXCEPT ![w] = "off"]
    /\ EndSession(w)
    /\ UNCHANGED <<jobVars, docVars, userVars>>

Restart(w) ==
    /\ pc[w] = "dead"
    /\ pc' = [pc EXCEPT ![w] = "idle"]
    /\ UNCHANGED <<jobVars, docVars, renew, sessVars, userVars>>

\* Time passes.  A renewal thread that has renewed once and is alive renews
\* again before RenewEvery ticks are over.
Tick ==
    /\ \A w \in Worker : renew[w] = "armed" /\ Holds(w) => age[at[w]] < RenewEvery
    /\ \E d \in Doc : delay[d] > 0 \/ (status[d] = "running" /\ age[d] <= StaleAfter)
    /\ age' = [d \in Doc |-> IF status[d] = "running" /\ age[d] <= StaleAfter
                             THEN age[d] + 1 ELSE age[d]]
    /\ delay' = [d \in Doc |-> IF delay[d] > 0 THEN delay[d] - 1 ELSE 0]
    /\ UNCHANGED <<status, token, attempts, claims, docVars, pc, renew,
                   sessVars, userVars>>

-----------------------------------------------------------------------------

UserStep ==
    \/ \E d \in Doc, k \in Kinds : Upload(d, k)
    \/ \E r \in Request : \/ \E d \in Doc, sel \in Selections : AskRetry(r, d, sel)
                         \/ CommitRetry(r) \/ AbortRetry(r)

\* What a live worker does next of itself.
Progress(w) ==
    \/ Recover(w) \/ NothingToClaim(w) \/ (\E d \in Doc : Claim(w, d))
    \/ OpenSource(w) \/ EndOfSource(w)
    \/ Validate(w) \/ (\E r \in Parsed : ParseMaterial(w, r)) \/ Classify(w)
    \/ (\E r \in {"success", "partial_success"} : Extract(w, r)) \/ NoText(w) \/ NothingLeft(w)
    \/ (\E e \in Raised(w) : Fail(w, e)) \/ Check(w) \/ Settle(w)

WorkerStep(w) == Progress(w) \/ Renew(w) \/ ReadChunk(w) \/ RenewalDies(w) \/ Crash(w) \/ Restart(w)

Next == UserStep \/ (\E w \in Worker : WorkerStep(w)) \/ Tick

Spec == Init /\ [][Next]_vars

\* run() polls for ever and what it calls returns, so a live worker always
\* goes on; the clock and the renewal threads do too.  Nobody restarts a dead
\* worker (the Compose files state no restart policy) and users owe nothing:
\* a worker that Survives is what liveness rests on.
FairSpec ==
    /\ Init /\ [][Next /\ \A w \in Survives : pc'[w] # "dead"]_vars
    /\ \A w \in Worker : WF_vars(Progress(w)) /\ WF_vars(Renew(w))
    /\ WF_vars(Tick)

-----------------------------------------------------------------------------
(* Properties. *)

\* What a retry or a finish wrote with no look at the job does not fit what it
\* had read: the job is not the settled one a user asked to run again, or the
\* claim finish_job accepted is no longer in force.
OvertakenRetry(r) ==
    LET d == wants[r].doc
    IN  \/ status[d] \notin Settled
        \/ attempts[d] # 0 /\ ~wants[r].tried
        \/ review[d] # "not_ready" /\ ~wants[r].offered

OvertakenWorker(w) == pc[w] = "accepted" /\ ~Holds(w)

\* This step is the commit of such a retry, or of such a worker.
Overwritten(d) ==
    \/ \E r \in Request : wants[r].doc = d /\ OvertakenRetry(r) /\ CommitRetry(r)
    \/ \E w \in Worker : at[w] = d /\ OvertakenWorker(w) /\ Settle(w)

\* No two workers ever hold the same job, although any number of them may
\* believe they do (test_documents_integration.py:251).
ExclusiveHolder ==
    \A v, w \in Worker : Holds(v) /\ Holds(w) /\ at[v] = at[w] => v = w

\* A job has a token only while it runs, and does not wait with no attempt
\* left, so a material that kills its workers is given up.
LeaseInOrder(d) ==
    /\ token[d] # 0 => status[d] = "running"
    /\ status[d] \in {"absent", "waiting"} => attempts[d] < MaxAttempts

\* Whatever the order in which workers claim, recover and finish and users
\* retry, only a retry or a worker that was overtaken between its look and its
\* commit leaves a token on a job that does not run, or a job to wait with no
\* attempt left (document_jobs.py:69, :100, documents.py:558).
OnlyOverwritesBreakLeases ==
    [][\A d \in Doc : LeaseInOrder(d) /\ ~LeaseInOrder(d)' => Overwritten(d)]_vars

\* A worker whose renewal thread is alive and has renewed once keeps its job
\* however long parsing takes, since the lease stays younger than StaleAfter
\* (worker.py:63, document_jobs.py:61): only an overtaken retry or worker takes
\* the job away.
OnlyOverwritesTakeArmed ==
    [][\A w \in Worker :
        renew[w] = "armed" /\ Holds(w) /\ renew'[w] = "armed" /\ ~Holds(w)' =>
            Overwritten(at[w])]_vars

\* The steps tell the same story as their job: no step waits or runs in a
\* settled job, none waits while the job runs and none runs while it waits.
StepsFollow(d) == \A s \in Step : step[d][s] \in Active => step[d][s] = status[d]

\* Steps and job part only when an overtaken retry queues the steps it had
\* chosen and leaves the others running, or an overtaken worker settles a job
\* that waits; never by the extraction commit of a superseded worker, a
\* recovery or a claim (document_jobs.py:37, :77, :108, extraction_service.py:388).
OnlyOverwritesSplitSteps ==
    [][\A d \in Doc : StepsFollow(d) /\ ~StepsFollow(d)' => Overwritten(d)]_vars

\* documents.processing_status repeats the status of the job, whoever wrote it
\* last (document_jobs.py:36, :81, :114, documents.py:566).
DocumentMirrorsJob == \A d \in Doc : processing[d] = status[d]

ReviewFollows(d) == review[d] = "pending_review" => status[d] \in Settled

\* A document is offered for review only when its job is settled, but for what
\* an overtaken retry or worker wrote, which does not withdraw an offer it had
\* not read (document_jobs.py:115, documents.py:567).
OnlyOverwritesOfferEarly ==
    [][\A d \in Doc : ReviewFollows(d) /\ ~ReviewFollows(d)' => Overwritten(d)]_vars

Reruns == \E r \in Request : CommitRetry(r) /\ status[wants[r].doc] = "running"

\* "Job cannot be rerun while active" (documents.py:552).  Of two retries of a
\* settled job that overlap, the second puts the job back to wait although a
\* worker may have claimed it for the first.
ActiveJobsNotRerun == [][~Reruns]_vars

\* A job shown as processed (ApplicationDetailView.vue:34) has no failed step.
\* A retry of validation alone, all that page asks for, makes a success of a
\* job whose parse steps failed and stay failed.
SuccessMeansProcessed ==
    \A d \in Doc : status[d] = "success" =>
        \A s \in Step : step[d][s] \notin {"failed", "manual_handling"}

\* The queue keeps the promise of JobQueue.
PhaseOf(d) ==
    CASE status[d] = "absent" -> "absent"
      [] status[d] = "waiting" -> "queued"
      [] status[d] = "running" -> "leased"
      [] OTHER -> "settled"

Entitled(w) ==
    IF pc[w] # "accepted" THEN {}
    ELSE IF tries[w] < MaxAttempts THEN {"settled", "queued"} ELSE {"settled"}

Queue == INSTANCE JobQueue WITH
    Job <- Doc, Client <- Worker, Asker <- Request,
    phase <- [d \in Doc |-> PhaseOf(d)], lease <- token, issued <- claims, tries <- attempts,
    work <- at, mine <- tok, may <- [w \in Worker |-> Entitled(w)],
    asked <- [r \in Request |-> wants[r].doc]

QueueSpec == Queue!Spec

\* Every job is settled in the end, whatever crashes, as long as one worker
\* survives and processing a material ends.
JobsSettle == \A d \in Doc : status[d] \in Active ~> status[d] \in Settled
=============================================================================
