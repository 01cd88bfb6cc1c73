--------------------------- MODULE LifecycleRaces ---------------------------
(***************************************************************************)
(* What requests and workers do to one application at the same time.  A    *)
(* handler reads in one step and commits in another, as a session does in  *)
(* PostgreSQL under READ COMMITTED.  backend/app/lifecycle.py and          *)
(* documents.upload_document lock the row of the application;              *)
(* documents.retry_job, applications.update_application and                *)
(* document_jobs.finish_job do not, and document_jobs.recover_stale_jobs   *)
(* does not look at it.                                                    *)
(*                                                                         *)
(* An UPDATE of a locked row waits for the lock and then goes through, and *)
(* SQLAlchemy writes a column only if its value differs from the one the   *)
(* session read.  There is no clock: any running job may be found stale,   *)
(* given up or queued again; when that happens is for DocumentJobs.        *)
(***************************************************************************)
EXTENDS Integers, FiniteSets

CONSTANTS
    Request,      \* sessions of the API server
    Worker,       \* worker processes
    NumDocs,      \* documents, at most, each with its job
    MaxVersion,   \* bound of the model: changes of the application's version
    Nobody        \* no session

Doc == 1 .. NumDocs
Session == Request \cup Worker

ASSUME SessionAssumption == Request \cap Worker = {} /\ Nobody \notin Session
ASSUME BoundsAssumption == NumDocs \in Nat /\ MaxVersion \in Nat \ {0}

Lifecycle == {"draft", "processing", "pending_review", "review_complete", "archived"}
Mutable == {"draft", "processing", "pending_review"}
Status == {"absent", "waiting", "running", "settled"}
Active == {"waiting", "running"}
Officer == {"complete", "reopen", "archive"}

VARIABLES
    lifecycle,   \* applications.lifecycle_state
    version,     \* applications.version
    lock,        \* the session that has the row of the application FOR UPDATE
    status,      \* [Doc -> Status], document_jobs.status
    claimant,    \* [Doc -> Worker \cup {Nobody}], whose claim token the job has
    op,          \* [Session -> what it does, or "none"]
    pc,          \* [Session -> PC]
    doc,         \* [Session -> Doc \cup {0}], the document it is about
    seen,        \* [Session -> Lifecycle], the state as its session read it
    payload,     \* [Session -> Nat], the version its request was made for
    goal,        \* [Session -> Lifecycle], the state it will write
    \* history
    used,        \* versions that a request was accepted for
    late,        \* documents queued anew while the row is locked, by a retry or
                 \* by a worker that no longer had the job
    overtaken    \* sessions that rest on what somebody else has changed since

dbVars == <<lifecycle, version, lock, status, claimant>>
sessVars == <<op, pc, doc, seen, payload, goal>>
history == <<used, late, overtaken>>
vars == <<dbVars, sessVars, history>>

\* asked: it has read, without a lock.  locked: it has the row and has decided.
\* working, accepted, flushed, decided: a worker runs the job, has found its
\* claim in force, has written but not committed it, has looked at the others.
PC == {"idle", "asked", "locked", "working", "accepted", "flushed", "decided"}

\* A worker settles its job, or gives it back to be tried again.
Op == {"none", "upload", "retry", "update", "job", "giveback"} \cup Officer

\* The last conjunct: the session in phase locked has the row, and no other.
TypeOK ==
    /\ lifecycle \in Lifecycle
    /\ version \in 1 .. MaxVersion
    /\ lock \in Session \cup {Nobody}
    /\ status \in [Doc -> Status]
    /\ claimant \in [Doc -> Worker \cup {Nobody}]
    /\ op \in [Session -> Op]
    /\ pc \in [Session -> PC]
    /\ doc \in [Session -> Doc \cup {0}]
    /\ seen \in [Session -> Lifecycle]
    /\ payload \in [Session -> Nat]
    /\ goal \in [Session -> Lifecycle]
    /\ used \subseteq Nat
    /\ late \subseteq Doc
    /\ overtaken \subseteq Session
    /\ \A c \in Session : pc[c] = "locked" <=> lock = c

Init ==
    /\ lifecycle = "draft" /\ version = 1 /\ lock = Nobody
    /\ status = [d \in Doc |-> "absent"]
    /\ claimant = [d \in Doc |-> Nobody]
    /\ op = [c \in Session |-> "none"]
    /\ pc = [c \in Session |-> "idle"]
    /\ doc = [c \in Session |-> 0]
    /\ seen = [c \in Session |-> "draft"]
    /\ payload = [c \in Session |-> 0]
    /\ goal = [c \in Session |-> "draft"]
    /\ used = {} /\ late = {} /\ overtaken = {}

-----------------------------------------------------------------------------

\* Mutant: only queued jobs count.
OthersQueued(d) == \E e \in Doc \ {d} : status[e] = "waiting"

\* has_active_jobs: what is committed, but for the job of d, which the session
\* has settled itself.
OthersActive(d) == \E e \in Doc \ {d} : status[e] \in Active
HasActiveJobs == \E e \in Doc : status[e] \in Active

Unlocked == lock = Nobody

\* A worker has written the row of the job and not committed yet.
RowHeld(d) == \E w \in Worker : pc[w] \in {"flushed", "decided"} /\ doc[w] = d

\* The session writes lifecycle_state l at its commit, if it read another.
Write(c, l) ==
    IF seen[c] = l THEN UNCHANGED lifecycle ELSE lifecycle' = l

\* The test of finish_job.
OwnsJob(w) == status[doc[w]] = "running" /\ claimant[doc[w]] = w

\* History: uploads and retries rest on the state they have read, who holds the
\* row, or has looked around to settle its job, on the other jobs too, and a
\* worker finish_job has accepted on its claim.
RestsOnJobs(s) == pc[s] = "locked" \/ (pc[s] = "decided" /\ op[s] = "job")
RestsOnState(s) == RestsOnJobs(s) \/ (pc[s] = "asked" /\ op[s] \in {"upload", "retry"})
RestsOnClaim(s) == pc[s] \in {"accepted", "flushed", "decided"}

Outdated(s) ==
    \/ RestsOnState(s) /\ lifecycle' # lifecycle
    \/ RestsOnJobs(s) /\ (OthersActive(doc[s])' <=> ~OthersActive(doc[s]))
    \/ RestsOnClaim(s) /\ ~(status'[doc[s]] = "running" /\ claimant'[doc[s]] = s)

\* What the session has changed, if it commits, overtakes who rests on it.
EndSession(c) ==
    /\ op' = [op EXCEPT ![c] = "none"]
    /\ pc' = [pc EXCEPT ![c] = "idle"]
    /\ doc' = [doc EXCEPT ![c] = 0]
    /\ seen' = [seen EXCEPT ![c] = "draft"]
    /\ payload' = [payload EXCEPT ![c] = 0]
    /\ goal' = [goal EXCEPT ![c] = "draft"]
    /\ overtaken' = (overtaken \cup {s \in Session : Outdated(s)}) \ {c}

Asked(c, o) ==
    /\ op[c] = "none"
    /\ op' = [op EXCEPT ![c] = o]
    /\ pc' = [pc EXCEPT ![c] = "asked"]
    /\ UNCHANGED <<dbVars, goal, history>>

\* A request about a document: the handler reads the application, without a lock.
AskForDoc(c, o, d) ==
    /\ Asked(c, o)
    /\ doc' = [doc EXCEPT ![c] = d]
    /\ seen' = [seen EXCEPT ![c] = lifecycle]
    /\ UNCHANGED payload

\* A request for the version of the application its user has been shown.
AskForVersion(c, o) ==
    /\ Asked(c, o)
    /\ payload' = [payload EXCEPT ![c] = version]
    /\ UNCHANGED <<doc, seen>>

Lock(c) ==
    /\ pc[c] = "asked"
    /\ Unlocked
    /\ lock' = c
    /\ pc' = [pc EXCEPT ![c] = "locked"]

Release(c) ==
    /\ lock' = IF lock = c THEN Nobody ELSE lock
    /\ late' = IF lock = c THEN {} ELSE late

QueuedLate(d) == IF Unlocked THEN late ELSE late \cup {d}

\* The request fails, its client is gone or the worker dies: the session is
\* rolled back.
Abort(c) ==
    /\ op[c] # "none"
    /\ Release(c)
    /\ UNCHANGED <<lifecycle, version, status, claimant, used>>
    /\ EndSession(c)

-----------------------------------------------------------------------------
(* documents.upload_document: the handler reads the application and stores   *)
(* the object; then it locks the row, and what it checks again is the state  *)
(* its session read before.                                                  *)

AskUpload(c, d) ==
    /\ status[d] = "absent" /\ \A s \in Session : doc[s] # d
    /\ lifecycle \in Mutable
    /\ AskForDoc(c, "upload", d)

\* Mutant: the row is not locked.
LockNothing(c) ==
    /\ pc[c] = "asked"
    /\ pc' = [pc EXCEPT ![c] = "locked"]
    /\ UNCHANGED lock

LockForUpload(c) == Lock(c)

\* update_application_lifecycle, with the new job queued or settled at once.
Insert(c) ==
    /\ op[c] = "upload"
    /\ LockForUpload(c)
    /\ seen[c] \in Mutable
    /\ goal' = [goal EXCEPT ![c] =
            IF OthersActive(doc[c]) THEN "processing" ELSE "pending_review"]
    /\ UNCHANGED <<lifecycle, version, status, claimant, op, doc, seen, payload, history>>

CommitUpload(c, s) ==
    /\ op[c] = "upload" /\ pc[c] = "locked"
    /\ status' = [status EXCEPT ![doc[c]] = s]
    /\ Write(c, IF s = "waiting" THEN "processing" ELSE goal[c])
    /\ Release(c)
    /\ UNCHANGED <<version, claimant, used>>
    /\ EndSession(c)

-----------------------------------------------------------------------------
(* documents.retry_job: nothing is locked, and the job is written without    *)
(* another look at it.                                                       *)

AskRetry(c, d) ==
    /\ status[d] = "settled"
    /\ lifecycle \in Mutable
    /\ AskForDoc(c, "retry", d)

CommitRetry(c) ==
    /\ op[c] = "retry"
    /\ ~RowHeld(doc[c])
    /\ seen[c] = "processing" \/ Unlocked
    /\ status' = [status EXCEPT ![doc[c]] = "waiting"]
    /\ Write(c, "processing")
    /\ late' = QueuedLate(doc[c])
    /\ UNCHANGED <<version, lock, claimant, used>>
    /\ EndSession(c)

-----------------------------------------------------------------------------
(* complete, reopen and archive of lifecycle.py: row lock, version, state    *)
(* and, but for reopen, jobs.  The reports of complete are current or not.   *)

AskOfficer(c, o) == AskForVersion(c, o)

\* Mutant: only queued jobs count.
NothingQueued == \A d \in Doc : status[d] # "waiting"

NothingActive == ~HasActiveJobs

Allowed(o) ==
    \/ o = "complete" /\ lifecycle = "pending_review" /\ NothingActive
    \/ o = "reopen" /\ lifecycle \in {"review_complete", "archived"}
    \/ o = "archive" /\ lifecycle \notin {"processing", "archived"} /\ NothingActive

Target(o) ==
    CASE o = "complete" -> "review_complete"
      [] o = "reopen" -> "pending_review"
      [] o = "archive" -> "archived"

\* Mutant: the version of the request is not compared.
AnyVersion(c) == TRUE

CurrentVersion(c) == payload[c] = version

Decide(c) ==
    /\ op[c] \in Officer
    /\ CurrentVersion(c) /\ Allowed(op[c])
    /\ Lock(c)
    /\ seen' = [seen EXCEPT ![c] = lifecycle]
    /\ goal' = [goal EXCEPT ![c] = Target(op[c])]
    /\ UNCHANGED <<lifecycle, version, status, claimant, op, doc, payload, history>>

\* 409 for a stale version, a wrong state or running jobs.
Refuse(c) ==
    /\ op[c] \in Officer /\ pc[c] = "asked"
    /\ Unlocked
    /\ ~(CurrentVersion(c) /\ Allowed(op[c]))
    /\ UNCHANGED <<dbVars, used, late>>
    /\ EndSession(c)

CommitOfficer(c) ==
    /\ op[c] \in Officer /\ pc[c] = "locked"
    /\ version < MaxVersion
    /\ Write(c, goal[c])
    /\ version' = version + 1
    /\ used' = used \cup {payload[c]}
    /\ Release(c)
    /\ UNCHANGED <<status, claimant>>
    /\ EndSession(c)

-----------------------------------------------------------------------------
(* applications.update_application: a check without a lock, then an UPDATE   *)
(* of the row that still has the version of the request.                     *)

AskUpdate(c) ==
    /\ lifecycle \in Mutable
    /\ AskForVersion(c, "update")

\* Mutant: the UPDATE has no condition on the version.
UpdateApplies(c) == TRUE

StillCurrent(c) == payload[c] = version

CommitUpdate(c) ==
    /\ op[c] = "update"
    /\ Unlocked
    /\ StillCurrent(c) /\ version < MaxVersion
    /\ version' = version + 1
    /\ used' = used \cup {payload[c]}
    /\ UNCHANGED <<lifecycle, lock, status, claimant, late>>
    /\ EndSession(c)

\* No row has that version: 409.
UpdateRefused(c) ==
    /\ op[c] = "update"
    /\ Unlocked
    /\ ~StillCurrent(c)
    /\ UNCHANGED <<dbVars, used, late>>
    /\ EndSession(c)

-----------------------------------------------------------------------------
(* Workers: recover_stale_jobs, claim_next_job, and finish_job in four steps. *)

\* Stale jobs are queued again, or given up when they have no attempts left;
\* those whose rows are held are skipped.  The application is not looked at.
RecoverJobs(w, stale, spent) ==
    /\ op[w] = "none"
    /\ stale # {} /\ spent \subseteq stale
    /\ \A d \in stale : status[d] = "running" /\ ~RowHeld(d)
    /\ status' = [d \in Doc |-> IF d \in spent THEN "settled"
                                ELSE IF d \in stale THEN "waiting" ELSE status[d]]
    /\ claimant' = [d \in Doc |-> IF d \in stale THEN Nobody ELSE claimant[d]]
    /\ UNCHANGED <<lifecycle, version, lock, sessVars, used, late>>
    /\ overtaken' = overtaken \cup {s \in Session : Outdated(s)}

Recover(w) == \E stale, spent \in SUBSET Doc : RecoverJobs(w, stale, spent)

Claim(w, d) ==
    /\ op[w] = "none"
    /\ status[d] = "waiting" /\ ~RowHeld(d)
    /\ status' = [status EXCEPT ![d] = "running"]
    /\ claimant' = [claimant EXCEPT ![d] = w]
    /\ op' = [op EXCEPT ![w] = "job"]
    /\ pc' = [pc EXCEPT ![w] = "working"]
    /\ doc' = [doc EXCEPT ![w] = d]
    /\ UNCHANGED <<lifecycle, version, lock, seen, payload, goal, history>>

\* finish_job refreshes the job: the claim is in force.
Accept(w) ==
    /\ pc[w] = "working" /\ OwnsJob(w)
    /\ pc' = [pc EXCEPT ![w] = "accepted"]
    /\ UNCHANGED <<dbVars, op, doc, seen, payload, goal, history>>

\* A recovery or a retry took the job away; finish_job refuses.
Superseded(w) ==
    /\ pc[w] = "working" /\ ~OwnsJob(w)
    /\ UNCHANGED <<dbVars, used, late>>
    /\ EndSession(w)

\* The job is written, settled or given back after a transient failure, without
\* another look at the claim.
Flush(w, o) ==
    /\ pc[w] = "accepted"
    /\ ~RowHeld(doc[w])
    /\ op' = [op EXCEPT ![w] = o]
    /\ pc' = [pc EXCEPT ![w] = "flushed"]
    /\ UNCHANGED <<dbVars, doc, seen, payload, goal, history>>

\* It looks for active jobs, of which one it gives back is one, and reads the
\* application, without a lock.
LookAround(w) ==
    /\ pc[w] = "flushed"
    /\ pc' = [pc EXCEPT ![w] = "decided"]
    /\ seen' = [seen EXCEPT ![w] = lifecycle]
    /\ goal' = [goal EXCEPT ![w] =
            IF /\ op[w] = "job" /\ ~OthersActive(doc[w])
               /\ lifecycle \notin {"archived", "review_complete"}
            THEN "pending_review" ELSE lifecycle]
    /\ UNCHANGED <<dbVars, op, doc, payload, history>>

CommitJob(w) ==
    /\ pc[w] = "decided"
    /\ goal[w] = seen[w] \/ Unlocked
    /\ status' = [status EXCEPT ![doc[w]] = IF op[w] = "giveback" THEN "waiting" ELSE "settled"]
    /\ claimant' = [claimant EXCEPT ![doc[w]] = Nobody]
    /\ Write(w, goal[w])
    /\ late' = IF op[w] = "giveback" /\ w \in overtaken THEN QueuedLate(doc[w]) ELSE late
    /\ UNCHANGED <<version, lock, used>>
    /\ EndSession(w)

-----------------------------------------------------------------------------

RequestStep(c) ==
    \/ \E d \in Doc : AskUpload(c, d) \/ AskRetry(c, d)
    \/ \E o \in Officer : AskOfficer(c, o)
    \/ AskUpdate(c)
    \/ Insert(c) \/ (\E s \in {"waiting", "settled"} : CommitUpload(c, s))
    \/ CommitRetry(c) \/ Decide(c) \/ Refuse(c) \/ CommitOfficer(c)
    \/ CommitUpdate(c) \/ UpdateRefused(c) \/ Abort(c)

WorkerStep(w) ==
    \/ Recover(w) \/ (\E d \in Doc : Claim(w, d))
    \/ Accept(w) \/ Superseded(w)
    \/ (\E o \in {"job", "giveback"} : Flush(w, o))
    \/ LookAround(w) \/ CommitJob(w) \/ Abort(w)

Next == (\E c \in Request : RequestStep(c)) \/ (\E w \in Worker : WorkerStep(w))

Spec == Init /\ [][Next]_vars

-----------------------------------------------------------------------------
(* Properties. *)

Closed == lifecycle \in {"review_complete", "archived"}

\* Requests are accepted one after the other, each for the version the last one
\* left: nobody's decision is overwritten unseen, although complete compares the
\* version under a row lock and update in the condition of its UPDATE
\* (lifecycle.py:177, applications.py:202).
VersionsSerialise == used = 1 .. version - 1

UpdateCommits == \E c \in Request : op[c] = "update" /\ version' # version /\ op'[c] = "none"

\* An update is never applied to a completed or archived application, although
\* the state is checked without a lock: completing uses up the version
\* (applications.py:196).
UpdatesOnlyMutable == [][UpdateCommits => ~Closed]_vars

Overlooked == {d \in Doc : status[d] \in Active} \ late

\* Completing or archiving overlooks no job, queued or running, but one that was
\* queued anew after the row was locked, by a retry or by a worker that had lost
\* the job meanwhile: uploads wait for the lock, a recovery and any other worker
\* only queue jobs that were active (lifecycle.py:6, :257).
QuietCompletion == [][lifecycle' # lifecycle /\ Closed' => Overlooked = {}]_vars

\* The state of the application is that of its jobs.
Agreed == HasActiveJobs <=> lifecycle = "processing"

OvertakenEnds ==
    \E c \in overtaken : op[c] \in {"upload", "retry", "job", "giveback"} /\ op'[c] = "none"

\* A recovery gives up the last active job.
GivesUpLast == (\E w \in Worker : Recover(w)) /\ ~HasActiveJobs'

\* The state of an application is set apart from its jobs in two ways only.  An
\* upload, a retry or a worker commits that somebody overtook after its look:
\* two workers that end the last two jobs together, a worker that did not see an
\* upload or lost its job, an upload or a retry that does not write processing
\* because that is what it had read (document_jobs.py:97, :122,
\* documents.py:380, :568).  Or, with nobody else about, a recovery gives up the
\* last active job (document_jobs.py:70).  Officers never do.
DriftHasTwoCauses == [][Agreed /\ ~Agreed' => OvertakenEnds \/ GivesUpLast]_vars

\* An application whose materials are all dealt with does not stay in
\* processing.  A recovery that gives up the last job leaves it there, and no
\* job is left to end that.
ProcessingMeansActive == lifecycle = "processing" => HasActiveJobs

Queues(d) == status[d] \notin Active /\ status'[d] \in Active

\* A completed or archived application answers 409 to every upload and retry
\* (docs/adr/0006, line 3).  The state an upload checks is the one read before
\* the object was stored, and a retry takes no lock at all.
ClosedMeansReadOnly == [][Closed => ~\E d \in Doc : Queues(d)]_vars

Reopens == \E c \in Request : op[c] = "reopen" /\ op'[c] = "none"

\* Leaving review_complete or archived takes a reason (lifecycle.py:9), which
\* only reopen asks for.
OnlyReopenReopens == [][Closed /\ ~Closed' => Reopens]_vars
=============================================================================
