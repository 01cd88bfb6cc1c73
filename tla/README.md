# ICRM-CA: a verification project

ICRM-CA helps approval officers review credit applications. They upload
materials; workers validate, parse and read them; officers look at the evidence,
produce formal completeness and redline reports, and complete, archive or reopen
the application. This directory holds TLA+ models of the program under `src/`,
the TLC runs that check them and theorems about them that TLAPS has proved.

## 1. The system

Two kinds of process share one PostgreSQL database and one object store: the API
server (FastAPI handlers, one SQLAlchemy session per request) and any number of
workers (`app.worker.run`). They never call each other: everything goes through
rows. The isolation level is READ COMMITTED; a handler reads, decides, and
commits once at its end.

| Component | Source (backend/app) | State | Operations |
|---|---|---|---|
| Job queue | document_jobs.py | `document_jobs`: status, attempts, claim_token, claimed_at, available_at | claim_next_job, renew_claim, recover_stale_jobs, finish_job |
| Worker | worker.py | session, claimed steps, renewal thread, the material | process_one, run |
| Upload, retry | documents.py | `documents`, `processing_steps`, objects | upload_document, retry_job |
| Lifecycle | lifecycle.py, lifecycle_guard.py | `applications`: lifecycle_state, version, owner | complete, reopen, archive, reassign, hard delete in two phases |
| Application record | applications.py | `applications` | create, update by version |
| Outputs, extraction, classification | parsed_outputs.py, extraction_service.py, classification.py | versions of outputs, candidates | store_parsed_output, run_candidate_extraction, run_classification |
| Candidate review | candidates.py | resolutions of candidates | resolve, which makes reports stale |
| Formal reports | completeness_api.py, redline_api.py | runs: current or stale | create a run, mappings, waivers, confirmations, staleness |
| Rules | completeness.py, redline.py | none | pure: selection of rules and rates, outcome of items and rules |
| Administration | admin_templates.py, admin_rules.py, admin.py | templates, rule packages, LPR, users | draft, publish or approve, retire |
| Idempotency | idempotency.py | key and request hash to resource | replay |

What is hard:

* **Leases.** A worker claims a job for five minutes, a thread renews the claim
  every thirty seconds, and any worker takes over a job whose claim is older.
  The old worker does not know, goes on, and commits twice more: inside
  `run_candidate_extraction`, which ignores the token, and in `finish_job`, which
  does not.
* **Checks without a lock.** `retry_job` and `finish_job` look at the job, then write
  it; their UPDATE names neither a status nor a token, so the job may have changed
  hands in between.
* **Two writers of the lifecycle.** `lifecycle_state` is written by upload, retry,
  `finish_job` and the officers. Some lock the row, some do not, and some decide
  from a value their session read earlier.
* **One session, several statements.** SQLAlchemy writes only columns that
  changed, sends them at the next query, and forgets what it has not sent when an
  object is refreshed.
* **Crashes** between two commits of a worker; the object store is not in the
  transaction.
* **Reports** are computed from inputs that change under them, and marked as stale by
  handlers that do not see one another.
* **Administrators** read, judge and write without a lock; nothing in the database
  keeps two rules or two templates in force apart.
* **Rows and objects** are not in one transaction: an upload stores first and inserts
  then, a delete deletes first and removes then.

What makes the components correct: one worker at a time holds a job, and whatever
settles it, at most three claims after it was queued, was entitled to when it looked;
it is settled eventually; steps and document agree with the job, and the application
with its jobs, but for what overlapping writers do to one another; an officer's decision is based on the version and
the jobs that are there when it is committed; a completed application is read-only;
a report that is called current was computed from the present inputs; nothing of a
deleted application is left behind unlisted. `PROJECT.json` lists the hazards, each
at its line, with the properties that cover it.

## 2. The modules

| Module | Models |
|---|---|
| `JobQueue` | What the queue promises: submit, ask and requeue, lease, grant and settle, abandon, expire. No clock, no document. |
| `DocumentJobs` | The queue, the worker with its session and renewal thread, upload, and retry split at its commit. |
| `DocumentJobsProofs` | Theorems about it. |
| `LifecycleRaces` | Requests and workers split at their reads, locks and commits, for one application: upload, retry, complete, reopen, archive, update, claim, finish, give back, recover. |
| `LifecycleRacesProofs` | Theorems about it. |
| `Redline` | The pure part of redline.py: selection of rules and LPR rates by date, repayment schedules and the internal rate, the three calculations, references, parameters, overlap of rules. |
| `Completeness` | The pure part of completeness.py: conditions, evidence, the verdict on an item, validation of templates. |
| `EvaluationLaws` | What the evaluators promise, each law as the set of calculations or checklists that obey it on the loans and documents of its constants. EXTENDS both. |
| `EvaluationProofs` | Theorems about the operators of `Redline` and `Completeness`. |
| `CostProofs` | Theorems about the bisection, the present values and the repayment schedules of `Redline`. |
| `EvaluationLawsProofs` | Theorems that everything valid obeys the laws. |
| `FormalReports` | The inputs of the reports of one application, the reports, and what completion asks of them. EXTENDS `Redline`, `Completeness`. |
| `FormalReportsProofs` | Theorems about it. |
| `Catalogue` | Rule packages, templates and LPR imports, and the seeds of a start. EXTENDS `EvaluationLaws`. |
| `CatalogueProofs` | Theorems about it. |
| `ObjectLedger` | What uploads and hard deletes promise about objects: who has each, and who removes it. No session, row or lock. |
| `MaterialCustody` | Uploads with their objects, reassignment, hard delete in two phases, crashes and the object store. |
| `MaterialCustodyProofs` | Theorems about it. |
| `MC...` | Values for TLC, one module for each specification that is run. |

How they fit together: `DocumentJobs` implements `JobQueue`, and `MaterialCustody`
implements `ObjectLedger`. `FormalReports` and
`Catalogue` are built from the same evaluators; `FormalReports` takes each change of
the catalogue as one step, and `Catalogue` is about what administrators do to one
another between the reads and the commit of such a step. `DocumentJobs` is about a job,
its steps and its document, `LifecycleRaces` about the jobs of an application and its
state: the application is in the second alone. It has the jobs that `complete` looks
at, `FormalReports` the reports, and `MaterialCustody`
the objects behind the documents; together they are `completion_blockers` and the
life of an application.

### JobQueue and DocumentJobs

A transaction is one action that takes effect at its commit, unless it decides on a
row before it has locked it. Two do, and are two actions each: `retry_job`, which reads
the job and commits later, and `finish_job`, which refreshes the job to check the claim
and writes it afterwards. Variables are the columns named in the comments of the
module, plus the private state of each worker and request:

* `pc` goes `idle` → `polled` (recover_stale_jobs has run) → `opening` (a claim is
  committed) → `reading` (object open, renewal thread started) → `working` →
  `done` → `accepted` (finish_job has found the claim in force) → `idle`; `dead` is a
  process that died.
* `open`, `mem`, `dirty`, `stored` are its SQLAlchemy session: the claimed steps
  that are not committed, the status they have in memory, those whose last status
  was not sent to the database yet, and the parsed output it has inserted. `shown` and
  `tries` are the review status and the attempts that it has read.
* `tok` is the token it was given, `out` and `transient` what it will ask of
  `finish_job`.
* `wants` is a retry that has been checked and is not committed.

| Action | Code |
|---|---|
| `Upload` | documents.upload_document, as far as the document and its job go |
| `AskRetry`, `CommitRetry`, `AbortRetry` | documents.retry_job: the checks, the commit, an error |
| `Recover`, `Claim`, `NothingToClaim` | process_one up to line 56 |
| `OpenSource`, `ReadChunk`, `EndOfSource` | lines 60-73 |
| `Renew`, `RenewalDies` | the renewal thread |
| `Validate`, `ParseMaterial`, `Classify`, `Extract`, `NoText`, `NothingLeft` | lines 74-142 |
| `Fail` | the except branches |
| `Check`, `Settle` | finish_job up to its test of the claim; the rest of it |
| `Crash`, `Restart`, `Tick` | the environment |

Decisions of the model:

* A document has one job, so jobs are named by documents, numbered in order of
  upload. `structure_extraction` is always not applicable and left out.
* What a retry reads of the job, the document and the steps is of one state.
* A transaction that locks its job first (a claim, a recovery, the writes of a finish)
  is one step from that lock to its commit. An extraction commit of a superseded worker
  that falls in between counts as before or after.
* `AskRetry` may come at any time: that the application must be open is in
  `LifecycleRaces`. The retry of a job that was never claimed (manual or oversize
  material) does not write `attempts`, which it has read as zero; after another retry
  and a claim they are not reset.
* A worker does not meet, in its claim, a job its own recovery has just queued: the
  backoff is a second at least.
* One tick is the unit of `RenewEvery`, `StaleAfter` and `Backoff`. A renewal
  thread that has renewed once and is alive renews again within `RenewEvery`
  ticks (guard of `Tick`). One that was never started, is late for its first
  renewal, or died of a database error does not: then the lease may lapse.
* `store_parsed_output` locks the document row until the session commits
  (`DocLocked`); other writers of that row wait. Locks of `processing_steps`
  rows are not modelled: they only delay.
* `finish_job` begins with `db.refresh(job)`. The relationship to the steps
  cascades, so the refresh expires the steps *before* the session has sent their
  last status: a status that no query has sent is lost, and the step, still
  `running` in the database, gets the outcome of the job. Hence `dirty` and
  `Flushed`. One consequence: the `not_applicable` of worker.py:132-138 never
  reaches the database; a retry of the text steps of a document without text ends
  with these steps in `success`.
* An error of the database in the main session of a worker ends the process in
  the code as it stands (finish_job raises again), which is `Crash`.
* Duplicates, idempotent replays and the capacity limit of an upload leave the
  queue alone and are not modelled; neither is the heartbeat row.

`JobQueue` promises less than one might expect, because the code does. A client may
settle a job, or give it back, once its lease *was* found in force (`Grant`), and a user
may queue a job again once it *was* found settled (`Ask`): neither permission is taken
back when the job changes hands meanwhile. What stays promised: leases are fresh, no
two of one job are in force, a lease ends by itself only for a stale job, and goes back
to the queue then only while attempts are left.

### LifecycleRaces

One application; a request is `asked` (it has read, without a lock), then, for
uploads and officers, `locked` (it has `SELECT ... FOR UPDATE` and has decided),
then committed. A worker is `working`, `accepted` (finish_job has found its claim in
force), `flushed` (it has written the job, not committed), `decided` (it has looked at
the other jobs and at the application). `Flush` says whether it settles the job (`job`)
or queues it again after a transient failure (`giveback`). `Recover` takes any running
jobs whose rows nobody holds and queues some again and fails the others, as
`recover_stale_jobs` does, without the application; there is no clock, so when this
happens is for `DocumentJobs`. `seen` is the state the session read and `goal` the one it will
write; `Write` leaves the column alone when they are equal, as SQLAlchemy does.

* The second `owned_application(..., lock=True)` of an upload returns the object
  its session already has, with the state read at documents.py:252: a query
  without `populate_existing` does not overwrite what is loaded. The officers'
  first read is the locked one, so theirs is fresh.
* A retry takes no lock. Its UPDATE of the application waits for one only if it
  changes the state.
* `update_application` has no effect on `seen`: it is one UPDATE with a condition.
* Requests carry the version their client was shown, never one still to come. Version
  and state are kept in the session only where the handler uses them.
* `Abort` is a request that fails or a worker that dies, at any point.
* `used`, `late` and `overtaken` are history, for the properties only. `overtaken` has
  the sessions whose commit rests on a state, on jobs or on a claim that somebody else
  has changed since they looked (`Outdated`). `late` has the jobs that were queued anew
  while an officer had the row, by a retry or by a worker that had lost the job it gives
  back; it is emptied when the row is released.

### Redline, Completeness and EvaluationLaws

Operators only, named after the functions of the code. What they abstract:

* Dates are positive integers, `NoDay` an absent one. Rates are integers in units
  of `1/Grid` per month; the code compares annual `Decimal` values, twelve times as
  much on both sides. Present values are multiplied by a power of `Grid + r`, so
  that everything is exact and the midpoints of the bisection are integers
  (`GridAssumption`). The code bisects until the width is below 1e-12, the model
  `Halvings` times.
* What is confirmed of a loan is a function on the fields whose value can be
  parsed: redline.py treats the others as missing. Normalisation of the texts of
  values is not modelled.
* Entries of the LPR for one day tie and the query leaves their order open
  (redline.py:182); `LprRates` is the set of what may come out.
* Texts, labels and the wording of reasons are left out.
* `Calculation` and `Checklist` are what the laws are about; `LawAssumption` says that
  the parameters of a calculation are valid and that amounts, rates and terms are
  natural numbers. `Catalogue` asks, in `LawsCover`, that they contain whatever its
  requests and its demo data may put in force: then a law that all of them obey is one
  of everything in force.

### FormalReports

One application. `input` is what officers write: resolutions, rule context, product
and signing date, mappings, waivers, confirmed classifications, reviews. A handler
that writes is `asked` (require_mutable has seen an open application), then
`flushed` (its row and its marks are in its transaction: `marks` are the reports
`mark_runs_stale` has found), then committed. A handler that makes a report is
`asked` (redline: `_live_result` has selected a rule), `read` (build_run_snapshots
has read again and selected again), `flushed`, committed. Of the second reading the
session has the application and the rules it loaded already, with the product, signing
date and statuses of the first; the confirmed values, the rule context, the rates and
the date are new. `complete` is
`decided` under the row lock, then committed.

| Action | Code |
|---|---|
| `Resolve`, `ResolveCollateral` | candidates.create_resolution |
| `ConfirmRuleContext` | redline_api.confirm_rule_context |
| `UpdateApplication` | applications.update_application |
| `ConfirmClassification`, `CreateMapping`, `DeleteMapping`, `CreateWaiver` | completeness_api.py |
| `CreateReview` | document_outputs.create_review (seal and signature) |
| `AskRedline`, `ReadRedline`, `ReadCompleteness`, `FlushReport`, `CommitReport` | create_redline_run, create_completeness_run |
| `Stale` (`Overruled`, `Outdated`) | run_staleness of either API |
| `DecideComplete`, `CommitComplete`, `Reopen` | lifecycle.py |
| `CatalogueStep`, `Hint` | administrators and the clock; run_classification |

* An insert that refers to the application takes a share of its row, for which
  `complete` has the lock: hence `Inserts`. Marks of two sessions are updates of the
  same rows and would wait for one another; here they do not, which allows more.
* `old` is a resolution or review that is committed after a later one: the code
  orders them by created_at, which is that of the flush.
* `raced` is history: a report, or a completion, that was being made while a writer
  of its inputs was between its marks and its commit. `Torn` is a redline report
  whose two selections differ.
* Of older reports only the latest of each kind is kept once they are stale, since
  nothing looks at the others. References are not part of the state, as the code
  does not compare them either.
* One worker adds hints (`Hint`); they mark nothing, and by
  `HintsProveNothingEver` they need not.

### Catalogue

`rules` and `templates` are tables by code and version; `ses` is what a session has
read and will write. Nobody locks: a handler reads (`Ask...`), checks
(`CheckApproval`, `CheckPublish`) or counts versions (`CountRules`,
`CountTemplates`), and commits the columns that differ from what it read
(`Written`). `DeleteItems` is the DELETE of update_template, which sees the items
that are committed by then and waits for another edit. `Fail` is a request that is
refused, meets a unique key or is lost. `Start` is the start of a server that is not
in production: `Seed`, or `SeedFails` on a unique key.

* `raced` marks a row whose last write was overtaken by one it had to see:
  `MissedRule` and `MissedTemplate` say which sessions a write overtakes.
* The hash of a row stands for the content it was computed from.
* Production rejects the demo data instead of seeding it; that is not modelled.
  `admin` replays none of these requests.
* `Demo...` and the products of the codes are constants; `DemoAssumption` says that
  they could have been put in force by hand, which MCCatalogue's values are checked
  for on every run.

### ObjectLedger and MaterialCustody

One application, its rows, and the bucket. An upload is `asked` → `stored` (the
object is put) → `locked` (the second look, `FOR UPDATE`) → `checked` (no duplicate,
room left) → committed; every way out removes the object or says in `adrift` that it
could not. A hard delete is `asked` → `listed` (the keys are read) → `purging` (the
rows are gone, the tombstone has the keys) → recorded. `reassign` reads the version
without a lock and writes it plus one.

* `CommitUnacknowledged` is a commit that succeeds while its session sees an
  exception (documents.py:415); a crash may come between any two steps.
* A material is its content and name, a model value; `Big` ones are above
  `max_material_bytes`, for which the code makes a document without an object. The
  limit on the bytes of an application is the same code as the limit on documents
  and is left out. The branch for a unique key that the insert violates is never
  taken under the row lock, and has no action.
* Which object a purge tries first is free. A reassignment to the same owner is one
  to any owner here.
* `adrift`, `fresh`, `late`, `unsure`, `answers` and `accepted` are history.
* In `ObjectLedger` an object is drawn and `held` (`Take`), then it is a document's
  (`Record`) or given up (`GiveUp`), and goes with the application to the tombstone
  (`Close`) or to nobody. The sets are read off the sessions, the rows and the tombstone.
  `Put` and `PutTooBig` are `Take`, the two commits of an upload `Record`,
  `AnswerExisting` and `Reject` `GiveUp`, `Crash` is `Fail`, `CommitDelete` `Close`,
  `Purge` `Remove` and `RecordPurge` `Forget`; whatever changes none of the sets, all
  other actions among it, is a stutter.

## 3. The runs

| Run | Instance | Shows |
|---|---|---|
| `jobs_one` | 1 document, queued or not, 2 workers, both may die, 2 retries that may overlap, 2 attempts, 3 claims | types, exclusive holders, document status; that only overtaken retries and workers break leases, take a renewed job away, part the steps from the job or offer a document early; refinement of `JobQueue` |
| `jobs_live` | 1 document, 2 workers, one survives | `JobsSettle` under fairness |
| `jobs_retry` | 1 retry | violated: `SuccessMeansProcessed` |
| `jobs_rerun` | 2 retries | violated: `ActiveJobsNotRerun` |
| `races` | 2 requests at a time, 2 workers, 2 documents, 3 versions | `VersionsSerialise`, `UpdatesOnlyMutable`, `QuietCompletion`, `DriftHasTwoCauses` |
| `races_stuck` | 1 request, 1 worker, 1 document | violated: `ProcessingMeansActive` |
| `races_readonly` | the same | violated: `ClosedMeansReadOnly` |
| `races_reopen` | the same | violated: `OnlyReopenReopens` |
| `reports` | 2 sessions, 1 document, 2 products, 2 LPR entries, 2 templates, 3 handlers that write, 1 step of the others | `CurrentReportsHold`, `SignOffHolds` |
| `reports_unsorted` | as `reports`, with two checklist items | violated: `UnblockedReportsCanBeMade` |
| `catalogue` | 2 administrators, 2 rule codes, 2 template codes, 5 commits or starts; loans and checklists of the laws | `OneRuleADay`, `OneTemplate`, `HashedContent`, `FinalContent`, `NoForesight`, `StartsUnlessTemplateRetired`, and the eight laws |
| `custody` | 2 sessions, 2 officers, 1 administrator, 2 files (one too big), 3 objects, 1 delete, 2 versions | `ObjectsNamed`, `DocumentsHaveOriginals`, `WithinCapacity`, `AnswersAgree`, `VersionsSerialise`, `OwnersUpload`, refinement of `ObjectLedger` |

The largest: `custody` has 2.6 million distinct states, `races` 1.7 million,
`jobs_one` 1.6 million, `reports` 0.8 million, `catalogue` 0.6 million.

Bounds: `NumDocs`, `MaxAttempts` (3 in the code, 2 in `jobs_one`), `MaxRetries`,
`MaxClaims` and `MaxVersion` are constants with the values of the `.cfg` files;
`StaleAfter` and `RenewEvery` are one tick, so a lease has three ages: fresh, due
for renewal, and stale. Two workers are enough for one to be superseded by the other,
die, and take over again; two retries overlap, or one follows the other; three claims
are those of a job, of its retry, and of the retry that overtook. One document is enough
for everything that concerns a single job, since jobs meet in the application alone, and
`races` has two documents for that. `jobs_live` has six claims, more than three attempts
need. Two requests at a time are enough since conflicts are between pairs, and finished
requests come back under the same name; three versions let a request be stale, current,
and one ahead of another. Ages stop growing once they are past `StaleAfter`, where
nothing tells them apart. The safety theorems hold without these bounds.

In `reports` a write, a report that overlaps it and a completion are three handlers
that write (`MaxFlushes`), which every way to a wrong report needs; with four there
are 9.1 million states and no violation either. One step of the catalogue
(`MaxChanges`) is enough for a rule, a rate or a template to come or go between two
readings. In `catalogue` the five commits (`MaxWrites`) are a start, two writes
that overlap, what they were to miss, and another start; two administrators suffice
as a write is overtaken by one other. The loans of the laws have amounts, terms,
rates and fees on both sides of every comparison, zero among them, and a rate above
the highest the bisection can find; `Grid` and `Halvings` keep the present values
below the 32-bit integers of TLC. In `custody` an object of an upload, of its duplicate and of one that crashed are three
(`MaxUploads`), a capacity of one is met by the second document, and `MaxVersion`
allows a change of the version that was overtaken.

Symmetry of workers, requests, sessions and administrators is used in runs without
liveness only.

Fairness (`FairSpec`): a live worker goes on (`run` polls for ever and what it
calls has time-outs or ends), its renewal thread and the clock do too. Nothing is
assumed of users. The Compose files give the worker no restart policy, so
`Restart` is not fair: that jobs settle rests on one worker in `Survives` that does
not die. It also rests on processing that ends: a worker that hangs in a
material while its renewal thread lives keeps the job for ever, in the code as in
the model.

Every property of a passing run has a mutant: an operator with a plausible bug,
defined just before the operator it stands in for and marked `Mutant` in the module.
TLC finds the property violated with it.

### Findings

1. `races_stuck`: `recover_stale_jobs` gives up the last active job of an
   application and leaves the application in `processing`, where neither complete
   nor archive is allowed (document_jobs.py:70).
2. `jobs_retry`: retrying `validation` alone turns a job whose parsing failed into
   a success (documents.py:549; the web client asks for exactly that).
3. `jobs_rerun`: of two overlapping retries the second puts the job back to waiting
   although a worker has claimed it for the first, which "Job cannot be rerun while
   active" excludes (documents.py:552, :558).
4. `races_readonly`: an upload or retry that read the application before its
   completion queues a job after it (documents.py:334).
5. `races_reopen`: the same requests take a completed application back to
   `processing`, without a reason or a new version (documents.py:568).
6. `reports_unsorted`: the snapshot of a completeness report sorts dictionaries, so
   that an application with two mappings or two waivers gets no report and cannot be
   completed (completeness.py:572, 582).

Further behaviour that the models have, as exceptions in a property or as steps,
without a run of its own:

* A redline report selects its rule twice; `rule_id` may not be the rule of its
  result (redline_api.py:509, `Torn`).
* A write that is between its marks and its commit while a report is made leaves the
  report current and wrong (`raced`); this is the only way, by `CurrentReportsHold`.
* References are not compared when a redline report is asked whether it is stale
  (redline_api.py:417).
* Two administrators at once can put two contending rules or two templates in
  force, bring back a retired rule with an approval that was under way, or change
  the content of an approved one. Two edits of a template can leave the union of
  their items, with a hash of neither.
* `seed_demo_templates` calls itself idempotent, but inserts version 1 of a demo
  template of which no version is published: once it is retired a server that is
  not in production does not start again (completeness.py:371-394). Nothing else
  keeps it from starting, by `StartsUnlessTemplateRetired`.
* A loan without fees exactly at the threshold is judged by the midpoint of the last
  interval, at most one width too high (redline.py:334-350, 559); the laws allow for
  the width.
* A document that is added between the two statements of a hard delete goes with the
  application, and its object stays in the bucket unlisted (lifecycle.py:407-411,
  `late`). An upload whose commit is not acknowledged removes the object of its
  document (documents.py:415, `unsure`). A crash of an upload leaves its object
  (documents.py:262, `adrift`).
* An overtaken reassignment can repeat a version or lower it (lifecycle.py:291).
* A mapping that is created, deleted and created again with the same
  Idempotency-Key meets a unique key in completeness_api.py:533. Keys of mappings
  are not in the models.

* The claim that such a second retry overtakes keeps its token on a waiting job, the
  steps of the first retry that it did not choose stay `running` in it, and the worker
  loses a job that its thread keeps renewing (documents.py:558-568). `finish_job` does
  the like when the job changes hands between its check and its write
  (document_jobs.py:97): it then settles, or gives back, what another worker holds.
  Nothing else does any of this, by the four `OnlyOverwrites...` properties.
* redline.py:6 says of reference lines that they never produce "not triggered". The
  code gives a reference below its limit the state `not_triggered` and words it with a
  label of its own when it is printed (`_render_reference_state`, redline.py:1198).
  `ReferencesOnlyWarn` is about the rest of that sentence.

And the state of an application may drift from its jobs, in two ways and no other, by
`DriftHasTwoCauses`. An upload, a retry or a worker commits that somebody overtook since
it looked: two workers that finish the last two jobs together each see the other's job
running (document_jobs.py:122), and nobody takes the application out of `processing`; a
worker that did not see an upload, or an upload or retry that had read `processing`,
leaves `pending_review` with a job queued. Or a recovery gives up the last active job,
with nobody else about, which is the first finding. Officers never set the two apart.

## 4. The proofs

`DocumentJobsProofs` proves for any workers, requests, documents, kinds, selections and
bounds, from the assumptions named in `DocumentJobs`: `TypeCorrect`, `Exclusion`,
`LeasesKept`, `ArmedKept`, `StepsKept`, `MirrorsJob`, `OfferedLate`, and `Refinement`,
that the specification implements `JobQueue`.

Few of these properties are inductive. `Inv` is `TypeOK`, `SessionShape` (the
private state of a worker: it has a document exactly while it works, a renewal
thread exactly while it reads or works, and no step of its session waits) and
`LeaseWellFormed` (no token but of a claim that was made, and a running job has a token
and an attempt); `Invariance` proves it with one lemma per group of actions. The rest
is inductive relative to `Inv`:

* that only one worker holds a job follows from `TokensDiffer`, two workers at one
  document have different tokens, since a token is the number of a claim and no
  worker has one above `claims`;
* the four `OnlyOverwrites...` properties are about single steps: the step lemmas show
  that a retry or a worker that is *not* overtaken finds the row as it had read it
  (`RetryInTime`, `SettleInTime`), for which what an accepted worker knows of the
  attempts is one more invariant (`TriesKnown`); then it leaves the job in order, the
  steps with the job and the document rightly offered;
* that nothing but an overwrite takes a job from an armed thread needs `ArmedStaysFresh`:
  the only other way to lose it is an age above `StaleAfter`, which `RenewalAssumption`
  and the guard of `Tick` exclude, and nobody else may settle the job, which is
  `TokensDiffer`;
* that a superseded worker's extraction commit into a job somebody else runs never
  parts the steps from the job needs that such a commit has settled statuses only
  (`SessionShape`);
* the refinement maps each action to one of `JobQueue` or to a stutter: `Recover` is an
  `Expire` of all stale jobs at once, `Check` a `Grant` or an `Abandon`, `Settle` a
  `Settle`, and `AskRetry`, `CommitRetry`, `AbortRetry` are `Ask`, `Requeue`, `Withdraw`.

`LifecycleRacesProofs` proves, for any requests, workers, documents and number of
versions, `TypeCorrect`, `Serialised`, `UpdatesSafe`, `Quiet` and `DriftCauses`. The
invariant has these parts besides the types: what a session in each phase is about
(`SessionShape`); what the row lock protects until an officer commits (`OfficerView`:
the version is still the one of the request, the jobs still the ones looked at, but for
those queued late); what an unlocked update knows (`PayloadView`: while its version is
current, the application it checked is open); that a worker whose claim `finish_job` has
accepted has its job until it is overtaken (`ClaimView`); and `VersionsSerialise`.
`DriftCauses` needs two more: while an officer has the row the state is not `processing`
(`HeldView`), and a session that nobody overtook still knows the state and the other
jobs (`FreshView`), since whatever commits either changes nothing it rests on or
overtakes it (`OthersStayFresh`, `EndLeavesFresh`).

`MaterialCustodyProofs` proves, for any sessions, users, files, keys, capacity and
bounds, the types and every property of its run. `Inv` has nine parts, each with a
lemma that every step preserves it. What makes the properties inductive: the row
lock is held by the owner of a live application (`Life`), so `OwnersUpload` and
`Full` (who has found room keeps it); a delete that has listed its keys, with what
was added since, covers all documents, and a purge forgets only what it has tried
(`Custody`); a session that stores an object has it to itself until its row comes
(`Originals`); answers are on record and records are of documents (`Agree`); and
until an overtaken reassignment commits, all accepted versions are below the present
one (`Versions`).

`LedgerImplemented`, in the same module, is that `MaterialCustody` implements
`ObjectLedger`. It needs one more invariant, `Condemned` (`Condemnation`): what a delete
has listed are still documents when it commits, what it purges is on the tombstone, and
no upload has an object that is on it. Then each action has a lemma that names the step of
`ObjectLedger` it takes, or the stutter (`LedgerStep`). From the same invariants an
object is never with an upload, behind a row and on the tombstone at once (`OnePlace`).

`EvaluationProofs` is about operators, for every loan, checklist, catalogue, `Grid`
and `Halvings`: hints neither prove nor waive an item; several documents prove one if
each would; two validity intervals overlap exactly if they have a common day, so
packages that `approve_rule_package` lets stand side by side select at most one rule
a day, and the selection then never ends in `multiple_match`; a selected rate had
been published; what an evaluation misses has been asked for; an overdue scenario and
references only warn.

`CostProofs` is about the cost of a loan, which the code finds by bisection of a
present value, for every loan, schedule, `Grid` and `Halvings`. The provers have no
induction over data: it is had from `LeastNumber`, over the set of the numbers for
which a statement holds (`Induction`), and a recursive function is known by its
equations, which exactly one function satisfies (`Recursion`, `RecursionUnique`; then
`PowerIs`, `NpvTotal` and `Search` for the three of `Redline`). The argument:

* of flows that pay back after the first one, what is worth something at one rate is
  worth something at any lower one (`Discounting`, `WorthAtLower`), so the present
  value changes its sign once;
* the bisection keeps that change between its bounds and halves their distance, which
  is whole at every step by `GridAssumption` (`Bracket`, `WidthFits`): a cost above a
  threshold is a present value above zero there (`CostAroundThreshold`);
* the flows of both schedules have present value zero at the rate of a loan without
  fees (`InstallmentAtRate`, `PrincipalAtRate`), so its cost is its rate
  (`CostOfLoanIsItsRate`);
* a dearer loan has higher flows, compared in the scales of their schedules, so it is
  worth more at every rate and costs more (`DearerFlows`, `OverdueFlows`,
  `HigherFlowsCostMore`, `DearerCostsMore`).

`EvaluationLawsProofs` proves `Calculation \subseteq law` or `Checklist \subseteq law`
for each law of `EvaluationLaws`: from `LawAssumption` and `GridAssumption` alone, hence
for any amounts, terms, rates, fees, documents and parameters, whereas `catalogue`
tries a few. Its
lemmas lead each law back to `EvaluationProofs` or `CostProofs`; what remains is that
a verdict is monotone in the costs it compares (`StateOfRises`, `DearerRises`).

`FormalReportsProofs` proves `TypeOK`, `CurrentReportsHold` and `SignOffHolds` for
any sessions, documents, rules, rates and templates. The invariant says why marking
works: a write that is not committed has in its marks every current report it
concerns, but for those made while it was under way (`Missed`), and whoever makes
one then knows (`Met`). So a draft (`Drafts`) and a stored current report (`Stored`)
follow from the inputs, rule and rate they name, and `Stale` compares those with the
present ones. That a completion stays right until its commit is `Decided`: the row
lock keeps reports from being committed. Two facts of the evaluators are needed: the
state of a redline report depends on the resolved rate, the rule and its LPR entry
only, and the verdicts of a checklist on nothing that `Marks` does not list.

`CatalogueProofs` proves `TypeOK` and all properties of the catalogue, the eight on
verdicts among them, for any administrators, packages, templates and demo data that
satisfy `DemoAssumption` and `LawsCover`.
`Inv` relates each session to the row it will write: unless it was overtaken, the row
is still the draft that it read (`UnmovedRule`, `UnmovedTemplate`), and what an
approval has checked still holds of all rules in force. Each write either is seen by
every session it concerns, or marks it as raced; drafts that are added concern
nobody. The tables are parameters of the parts, so that one lemma speaks of a table
before and after a step (`RewriteRule`, `RewriteTemplate`, `CommitStep`). `Seeds`
says that the demo codes are there from the first start on. `Sound` and `Fits` say of
every row and every session that its calculation or its items are covered by the laws
(`Covered`): no step, an edit that overtakes another and leaves the union of their
items included, puts anything else in force, so `EvaluationLawsProofs` speaks of all
that is (`InForceIsCovered`, `Obedience`).

All theorems rest on the named ASSUMEs of the modules only, which TLC evaluates in
the runs.

Only model-checked: `JobsSettle`, which is liveness, and the six violations. Every
invariant and every action property of a passing run is proved. The refinements of
`JobQueue` and `ObjectLedger` are proved and checked; the fairness of the queue is only
in `JobsSettle`.

## 5. The plan

Done: `JobQueue`, `DocumentJobs`, `LifecycleRaces`, `FormalReports`, `Catalogue`,
`ObjectLedger`, `MaterialCustody`, the evaluators and their laws, and the proofs of all safety
properties and refinements that a passing run checks.

Left, in order:

1. Idempotency-Keys of mappings, waivers and reports, and the unique keys they meet
   (completeness_api.py:533), in `FormalReports`.
2. A worker whose application is deleted under it: the composition of
   `MaterialCustody` with the queue (lifecycle.py:411).
3. Candidate extraction: the choice of a value among candidates, as operators.
4. References of redline reports as part of the state, to say which changes go
   unnoticed (redline_api.py:417).
5. Theorems: that `FormalReports` refines a specification in which a report is made
   in one step, as long as nothing overlaps.

## 6. Not modelled, and why

Parsing, OCR and validation of bytes are functions of libraries; the models take
their outcomes as inputs. Redaction and the cloud call are regular expressions and
one HTTP request; their failures are inputs of `Extract`. The rules that find values
in texts, the normalisation of values and the keywords of classification are data.
Login, users and the audit log are single rows without a protocol. The responses and
the HTML of reports are layout. The web client shows what the API returns. Back-up
and restore are shell around `pg_dump` and `mc`. Settings, logging and migrations are
plumbing. See "components" in `PROJECT.json` for the list.

## 7. Running

    tlc -workers 2 -config MCDocumentJobs_one.cfg MCDocumentJobs
    tlc -workers 2 -config MCFormalReports_two.cfg MCFormalReports
    tlapm CatalogueProofs.tla

The other runs are in `PROJECT.json`. The largest takes about two minutes with two
workers. A proof module takes from ten seconds to five minutes from nothing.
