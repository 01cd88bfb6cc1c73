------------------------------ MODULE JobQueue ------------------------------
(***************************************************************************)
(* What the job queue of backend/app/document_jobs.py and the retries of   *)
(* backend/app/documents.py promise, with no clock and no document: a job  *)
(* is queued, leased to a client and settled; every lease is fresh; leases *)
(* end without their clients knowing, and send a job back to the queue     *)
(* only while it has attempts left.                                        *)
(*                                                                         *)
(* The promise is weaker than it looks.  A client may settle a job, or     *)
(* give it back, once its lease was found in force, and a user may queue a *)
(* job again once it was found settled: neither is taken back when the job *)
(* changes hands in between.  DocumentJobs implements this specification.  *)
(***************************************************************************)
EXTENDS Integers

CONSTANTS
    Job,          \* the jobs that may ever be submitted
    Client,       \* those that work on them
    Asker,        \* those that have jobs done again
    MaxAttempts   \* leases of a job before it is given up

VARIABLES
    phase,        \* [Job -> Phase]
    lease,        \* [Job -> Nat], the number of the last lease, 0 once it is over
    issued,       \* [Job -> Nat], leases granted to the job so far
    tries,        \* [Job -> Nat], leases since the job was last queued
    work,         \* [Client -> Job \cup {0}], the job a client works on
    mine,         \* [Client -> Nat], the lease it works under
    may,          \* [Client -> SUBSET Phase], what it may make of the job
    asked         \* [Asker -> Job \cup {0}], the job it may queue again

jobVars == <<phase, lease, issued, tries>>
vars == <<jobVars, work, mine, may, asked>>

Phase == {"absent", "queued", "leased", "settled"}

Init ==
    /\ phase = [j \in Job |-> "absent"]
    /\ lease = [j \in Job |-> 0]
    /\ issued = [j \in Job |-> 0]
    /\ tries = [j \in Job |-> 0]
    /\ work = [c \in Client |-> 0]
    /\ mine = [c \in Client |-> 0]
    /\ may = [c \in Client |-> {}]
    /\ asked = [a \in Asker |-> 0]

\* A job is submitted for processing, or recorded as already settled.
Submit(j) ==
    /\ phase[j] = "absent"
    /\ \E p \in {"queued", "settled"} : phase' = [phase EXCEPT ![j] = p]
    /\ UNCHANGED <<lease, issued, tries, work, mine, may, asked>>

\* A user finds the job settled.
Ask(a, j) ==
    /\ asked[a] = 0
    /\ phase[j] = "settled"
    /\ asked' = [asked EXCEPT ![a] = j]
    /\ UNCHANGED <<jobVars, work, mine, may>>

\* The job is queued again, with all its attempts unless it had them all when
\* the user asked.  A lease that is in force by now ends, with its number kept.
Requeue(a, j) ==
    /\ asked[a] = j
    /\ phase' = [phase EXCEPT ![j] = "queued"]
    /\ \E n \in {0, tries[j]} : tries' = [tries EXCEPT ![j] = n]
    /\ asked' = [asked EXCEPT ![a] = 0]
    /\ UNCHANGED <<lease, issued, work, mine, may>>

Withdraw(a) ==
    /\ asked' = [asked EXCEPT ![a] = 0]
    /\ UNCHANGED <<jobVars, work, mine, may>>

\* A client takes a queued job under a lease number never granted before.
Lease(c, j) ==
    /\ phase[j] = "queued"
    /\ work[c] = 0
    /\ phase' = [phase EXCEPT ![j] = "leased"]
    /\ issued' = [issued EXCEPT ![j] = @ + 1]
    /\ lease' = [lease EXCEPT ![j] = issued[j] + 1]
    /\ tries' = [tries EXCEPT ![j] = @ + 1]
    /\ work' = [work EXCEPT ![c] = j]
    /\ mine' = [mine EXCEPT ![c] = issued[j] + 1]
    /\ UNCHANGED <<may, asked>>

\* The lease of a client is found in force: it may settle the job, or give it
\* back while attempts are left.
Grant(c, j) ==
    /\ work[c] = j
    /\ phase[j] = "leased"
    /\ lease[j] = mine[c]
    /\ may' = [may EXCEPT ![c] =
            IF tries[j] < MaxAttempts THEN {"settled", "queued"} ELSE {"settled"}]
    /\ UNCHANGED <<jobVars, work, mine, asked>>

Quit(c) ==
    /\ work' = [work EXCEPT ![c] = 0]
    /\ mine' = [mine EXCEPT ![c] = 0]
    /\ may' = [may EXCEPT ![c] = {}]
    /\ UNCHANGED asked

Settle(c, j) ==
    /\ work[c] = j
    /\ \E p \in may[c] : phase' = [phase EXCEPT ![j] = p]
    /\ lease' = [lease EXCEPT ![j] = 0]
    /\ Quit(c)
    /\ UNCHANGED <<issued, tries>>

\* A client dies, or is told that its lease is over.
Abandon(c) == Quit(c) /\ UNCHANGED jobVars

\* Leases end, several at a time, and nobody tells their clients.  A job goes
\* back to the queue while it has attempts left.
Expire(js) ==
    /\ js # {}
    /\ \A j \in js : phase[j] = "leased"
    /\ phase' = [j \in Job |->
            IF j \notin js THEN phase[j]
            ELSE IF tries[j] < MaxAttempts THEN "queued" ELSE "settled"]
    /\ lease' = [j \in Job |-> IF j \in js THEN 0 ELSE lease[j]]
    /\ UNCHANGED <<issued, tries, work, mine, may, asked>>

Next ==
    \/ \E j \in Job : Submit(j)
    \/ \E a \in Asker : Withdraw(a) \/ \E j \in Job : Ask(a, j) \/ Requeue(a, j)
    \/ \E c \in Client : Abandon(c) \/ \E j \in Job : Lease(c, j) \/ Grant(c, j) \/ Settle(c, j)
    \/ \E js \in SUBSET Job : Expire(js)

Spec == Init /\ [][Next]_vars
=============================================================================
