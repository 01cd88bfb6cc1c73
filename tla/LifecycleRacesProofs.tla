------------------------ MODULE LifecycleRacesProofs ------------------------
(***************************************************************************)
(* Proofs about LifecycleRaces, for any number of requests, workers and    *)
(* documents.                                                              *)
(***************************************************************************)
EXTENDS LifecycleRaces, TLAPS

(* What a session is about: requests and workers do different things, only   *)
(* uploads and officers hold the row, and what each will write.               *)
SessionShape ==
    /\ \A c \in Request : pc[c] \in {"idle", "asked", "locked"}
                          /\ op[c] \notin {"job", "giveback"}
    /\ \A w \in Worker : pc[w] \in {"idle", "working", "accepted", "flushed", "decided"}
                         /\ op[w] \in {"none", "job", "giveback"}
    /\ \A c \in Session :
        /\ pc[c] = "idle" <=> op[c] = "none"
        /\ op[c] \in {"upload", "retry", "job", "giveback"} => doc[c] \in Doc
        /\ pc[c] = "locked" => op[c] \in Officer \cup {"upload"}
        /\ pc[c] = "locked" /\ op[c] = "upload" => goal[c] \in Mutable
        /\ pc[c] = "decided" => goal[c] \in {seen[c], "pending_review"}
        /\ pc[c] = "decided" /\ op[c] = "giveback" => goal[c] = seen[c]

(* What the lock protects: until an officer commits, the version is the one  *)
(* of the request and the jobs are the ones looked at, but for those queued   *)
(* late; with the lock gone nothing is late.                                  *)
OfficerView ==
    /\ lock = Nobody => late = {}
    /\ \A c \in Request : pc[c] = "locked" /\ op[c] \in Officer =>
        /\ payload[c] = version
        /\ goal[c] = Target(op[c])
        /\ goal[c] # "pending_review" => Overlooked = {}

(* A request whose version is current was checked in a state that still is   *)
(* open.                                                                     *)
PayloadView ==
    \A c \in Session :
        /\ payload[c] <= version
        /\ op[c] = "update" /\ payload[c] = version => ~Closed

(* A worker whose claim finish_job has accepted has the job until somebody   *)
(* overtakes it.                                                             *)
ClaimView ==
    \A w \in Worker \ overtaken :
        pc[w] \in {"accepted", "flushed", "decided"} => OwnsJob(w)

Inv ==
    /\ TypeOK /\ SessionShape /\ OfficerView /\ PayloadView /\ ClaimView
    /\ VersionsSerialise

-----------------------------------------------------------------------------

LEMMA InitInv == Init => Inv
  BY SessionAssumption, BoundsAssumption DEF Init, Inv, TypeOK, SessionShape, OfficerView, PayloadView,
     ClaimView, VersionsSerialise, Lifecycle, Status, Op, PC, Session, Officer, Closed

LEMMA TypeStep == ASSUME Inv, [Next]_vars PROVE TypeOK'
<1> USE SessionAssumption, BoundsAssumption
<1> USE DEF Inv, TypeOK, Session, Lifecycle, Mutable, Status, Officer, Op, PC,
           Active, SessionShape, Target
<1>0. CASE UNCHANGED vars
  BY <1>0 DEF vars, dbVars, history, sessVars
<1>1. ASSUME NEW c \in Request, NEW d \in Doc, AskUpload(c, d) PROVE TypeOK'
  BY <1>1 DEF AskUpload, AskForDoc, Asked, sessVars, dbVars, history
<1>2. ASSUME NEW c \in Request, NEW d \in Doc, AskRetry(c, d) PROVE TypeOK'
  BY <1>2 DEF AskRetry, AskForDoc, Asked, sessVars, dbVars, history
<1>3. ASSUME NEW c \in Request, NEW o \in Officer, AskOfficer(c, o) PROVE TypeOK'
  BY <1>3 DEF AskOfficer, AskForVersion, Asked, sessVars, dbVars, history
<1>4. ASSUME NEW c \in Request, AskUpdate(c) PROVE TypeOK'
  BY <1>4 DEF AskUpdate, AskForVersion, Asked, sessVars, dbVars, history
<1>5. ASSUME NEW c \in Request, Insert(c) PROVE TypeOK'
  BY <1>5 DEF Insert, LockForUpload, Lock, Unlocked, sessVars, dbVars, history
<1>6. ASSUME NEW c \in Request, NEW s \in {"waiting", "settled"},
             CommitUpload(c, s)
       PROVE TypeOK'
  BY <1>6 DEF CommitUpload, Release, Write, EndSession, sessVars, dbVars, history
<1>7. ASSUME NEW c \in Request, CommitRetry(c) PROVE TypeOK'
  BY <1>7 DEF CommitRetry, QueuedLate, Unlocked, Write, EndSession, sessVars,
     dbVars, history
<1>8. ASSUME NEW c \in Request, Decide(c) PROVE TypeOK'
  BY <1>8 DEF Decide, Lock, Unlocked, CurrentVersion, Allowed, NothingActive,
     HasActiveJobs, sessVars, dbVars, history
<1>9. ASSUME NEW c \in Request, Refuse(c) PROVE TypeOK'
  BY <1>9 DEF Refuse, Unlocked, EndSession, sessVars, dbVars, history
<1>10. ASSUME NEW c \in Request, CommitOfficer(c) PROVE TypeOK'
  <2>1. version' \in 1 .. MaxVersion
    BY <1>10 DEF CommitOfficer
  <2>2. lifecycle' \in Lifecycle
    BY <1>10 DEF CommitOfficer, Write
  <2>3. used' \subseteq Nat
    <3>1. payload[c] \in Nat
      OBVIOUS
    <3>2. used' = used \cup {payload[c]}
      BY <1>10 DEF CommitOfficer
    <3> QED
      BY <3>1, <3>2
  <2>4. \A s \in Session : pc'[s] = "locked" <=> lock' = s
    BY <1>10 DEF CommitOfficer, Release, EndSession
  <2> QED
    BY <1>10, <2>1, <2>2, <2>3, <2>4 DEF CommitOfficer, Release, EndSession
<1>11. ASSUME NEW c \in Request, CommitUpdate(c) PROVE TypeOK'
  BY <1>11 DEF CommitUpdate, StillCurrent, Unlocked, EndSession, sessVars, dbVars,
     history
<1>12. ASSUME NEW c \in Request, UpdateRefused(c) PROVE TypeOK'
  BY <1>12 DEF UpdateRefused, Unlocked, EndSession, sessVars, dbVars, history
<1>13. ASSUME NEW c \in Session, Abort(c) PROVE TypeOK'
  BY <1>13 DEF Abort, Release, EndSession, sessVars, dbVars, history
<1>14. ASSUME NEW c \in Worker, NEW stale \in SUBSET Doc, NEW spent \in SUBSET Doc,
             RecoverJobs(c, stale, spent)
       PROVE TypeOK'
  BY <1>14 DEF RecoverJobs, sessVars, dbVars, history
<1>15. ASSUME NEW c \in Worker, NEW d \in Doc, Claim(c, d) PROVE TypeOK'
  BY <1>15 DEF Claim, sessVars, dbVars, history
<1>16. ASSUME NEW c \in Worker, Accept(c) PROVE TypeOK'
  BY <1>16 DEF Accept, OwnsJob, sessVars, dbVars, history
<1>17. ASSUME NEW c \in Worker, Superseded(c) PROVE TypeOK'
  BY <1>17 DEF Superseded, EndSession, sessVars, dbVars, history
<1>18. ASSUME NEW c \in Worker, NEW o \in {"job", "giveback"}, Flush(c, o) PROVE TypeOK'
  BY <1>18 DEF Flush, sessVars, dbVars, history
<1>19. ASSUME NEW c \in Worker, LookAround(c) PROVE TypeOK'
  BY <1>19 DEF LookAround, sessVars, dbVars, history
<1>20. ASSUME NEW c \in Worker, CommitJob(c) PROVE TypeOK'
  BY <1>20 DEF CommitJob, QueuedLate, Unlocked, OwnsJob, Write, EndSession,
     sessVars, dbVars, history
<1> HIDE DEF Inv, TypeOK, Session, Lifecycle, Mutable, Status, Officer, Op, PC,
           Active, SessionShape, Target
<1> QED
  BY <1>0, <1>1, <1>2, <1>3, <1>4, <1>5, <1>6, <1>7, <1>8, <1>9, <1>10, <1>11,
     <1>12, <1>13, <1>14, <1>15, <1>16, <1>17, <1>18, <1>19, <1>20
     DEF Next, RequestStep, WorkerStep, Recover, Session

LEMMA ShapeStep == ASSUME Inv, [Next]_vars PROVE SessionShape'
<1> USE SessionAssumption, BoundsAssumption
<1> USE DEF Inv, TypeOK, Session, Lifecycle, Mutable, Status, Officer, Op, PC,
           Active, SessionShape, Target
<1>0. CASE UNCHANGED vars
  BY <1>0 DEF vars, dbVars, history, sessVars
<1>1. ASSUME NEW c \in Request, NEW d \in Doc, AskUpload(c, d) PROVE SessionShape'
  BY <1>1 DEF AskUpload, AskForDoc, Asked, sessVars, dbVars, history
<1>2. ASSUME NEW c \in Request, NEW d \in Doc, AskRetry(c, d) PROVE SessionShape'
  BY <1>2 DEF AskRetry, AskForDoc, Asked, sessVars, dbVars, history
<1>3. ASSUME NEW c \in Request, NEW o \in Officer, AskOfficer(c, o) PROVE SessionShape'
  BY <1>3 DEF AskOfficer, AskForVersion, Asked, sessVars, dbVars, history
<1>4. ASSUME NEW c \in Request, AskUpdate(c) PROVE SessionShape'
  BY <1>4 DEF AskUpdate, AskForVersion, Asked, sessVars, dbVars, history
<1>5. ASSUME NEW c \in Request, Insert(c) PROVE SessionShape'
  BY <1>5 DEF Insert, LockForUpload, Lock, Unlocked, sessVars, dbVars, history
<1>6. ASSUME NEW c \in Request, NEW s \in {"waiting", "settled"},
             CommitUpload(c, s)
       PROVE SessionShape'
  BY <1>6 DEF CommitUpload, Release, Write, EndSession, sessVars, dbVars, history
<1>7. ASSUME NEW c \in Request, CommitRetry(c) PROVE SessionShape'
  BY <1>7 DEF CommitRetry, QueuedLate, Unlocked, Write, EndSession, sessVars,
     dbVars, history
<1>8. ASSUME NEW c \in Request, Decide(c) PROVE SessionShape'
  BY <1>8 DEF Decide, Lock, Unlocked, CurrentVersion, Allowed, NothingActive,
     HasActiveJobs, sessVars, dbVars, history
<1>9. ASSUME NEW c \in Request, Refuse(c) PROVE SessionShape'
  BY <1>9 DEF Refuse, Unlocked, EndSession, sessVars, dbVars, history
<1>10. ASSUME NEW c \in Request, CommitOfficer(c) PROVE SessionShape'
  BY <1>10 DEF CommitOfficer, Release, Write, EndSession, sessVars, dbVars, history
<1>11. ASSUME NEW c \in Request, CommitUpdate(c) PROVE SessionShape'
  BY <1>11 DEF CommitUpdate, StillCurrent, Unlocked, EndSession, sessVars, dbVars,
     history
<1>12. ASSUME NEW c \in Request, UpdateRefused(c) PROVE SessionShape'
  BY <1>12 DEF UpdateRefused, Unlocked, EndSession, sessVars, dbVars, history
<1>13. ASSUME NEW c \in Session, Abort(c) PROVE SessionShape'
  BY <1>13 DEF Abort, Release, EndSession, sessVars, dbVars, history
<1>14. ASSUME NEW c \in Worker, NEW stale \in SUBSET Doc, NEW spent \in SUBSET Doc,
             RecoverJobs(c, stale, spent)
       PROVE SessionShape'
  BY <1>14 DEF RecoverJobs, sessVars, dbVars, history
<1>15. ASSUME NEW c \in Worker, NEW d \in Doc, Claim(c, d) PROVE SessionShape'
  BY <1>15 DEF Claim, sessVars, dbVars, history
<1>16. ASSUME NEW c \in Worker, Accept(c) PROVE SessionShape'
  BY <1>16 DEF Accept, OwnsJob, sessVars, dbVars, history
<1>17. ASSUME NEW c \in Worker, Superseded(c) PROVE SessionShape'
  BY <1>17 DEF Superseded, EndSession, sessVars, dbVars, history
<1>18. ASSUME NEW c \in Worker, NEW o \in {"job", "giveback"},
             Flush(c, o)
       PROVE SessionShape'
  BY <1>18 DEF Flush, sessVars, dbVars, history
<1>19. ASSUME NEW c \in Worker, LookAround(c) PROVE SessionShape'
  BY <1>19 DEF LookAround, sessVars, dbVars, history
<1>20. ASSUME NEW c \in Worker, CommitJob(c) PROVE SessionShape'
  BY <1>20 DEF CommitJob, QueuedLate, Unlocked, OwnsJob, Write, EndSession,
     sessVars, dbVars, history
<1> HIDE DEF Inv, TypeOK, Session, Lifecycle, Mutable, Status, Officer, Op, PC,
           Active, SessionShape, Target
<1> QED
  BY <1>0, <1>1, <1>2, <1>3, <1>4, <1>5, <1>6, <1>7, <1>8, <1>9, <1>10, <1>11,
     <1>12, <1>13, <1>14, <1>15, <1>16, <1>17, <1>18, <1>19, <1>20
     DEF Next, RequestStep, WorkerStep, Recover, Session

LEMMA VersionStep == ASSUME Inv, [Next]_vars PROVE VersionsSerialise'
<1> USE SessionAssumption, BoundsAssumption
<1> USE DEF Inv, TypeOK, Session, Lifecycle, Mutable, Status, Officer, Op, PC,
           Active, SessionShape, OfficerView, VersionsSerialise
<1>0. CASE UNCHANGED vars
  BY <1>0 DEF vars, dbVars, history, sessVars
<1>1. ASSUME NEW c \in Request, NEW d \in Doc, AskUpload(c, d) PROVE VersionsSerialise'
  BY <1>1 DEF AskUpload, AskForDoc, Asked, sessVars, dbVars, history
<1>2. ASSUME NEW c \in Request, NEW d \in Doc, AskRetry(c, d) PROVE VersionsSerialise'
  BY <1>2 DEF AskRetry, AskForDoc, Asked, sessVars, dbVars, history
<1>3. ASSUME NEW c \in Request, NEW o \in Officer,
             AskOfficer(c, o)
       PROVE VersionsSerialise'
  BY <1>3 DEF AskOfficer, AskForVersion, Asked, sessVars, dbVars, history
<1>4. ASSUME NEW c \in Request, AskUpdate(c) PROVE VersionsSerialise'
  BY <1>4 DEF AskUpdate, AskForVersion, Asked, sessVars, dbVars, history
<1>5. ASSUME NEW c \in Request, Insert(c) PROVE VersionsSerialise'
  BY <1>5 DEF Insert, LockForUpload, Lock, Unlocked, sessVars, dbVars, history
<1>6. ASSUME NEW c \in Request, NEW s \in {"waiting", "settled"},
             CommitUpload(c, s)
       PROVE VersionsSerialise'
  BY <1>6 DEF CommitUpload, Release, Write, EndSession, sessVars, dbVars, history
<1>7. ASSUME NEW c \in Request, CommitRetry(c) PROVE VersionsSerialise'
  BY <1>7 DEF CommitRetry, QueuedLate, Unlocked, Write, EndSession, sessVars,
     dbVars, history
<1>8. ASSUME NEW c \in Request, Decide(c) PROVE VersionsSerialise'
  BY <1>8 DEF Decide, Lock, Unlocked, CurrentVersion, Allowed, NothingActive,
     HasActiveJobs, sessVars, dbVars, history
<1>9. ASSUME NEW c \in Request, Refuse(c) PROVE VersionsSerialise'
  BY <1>9 DEF Refuse, Unlocked, EndSession, sessVars, dbVars, history
<1>10. ASSUME NEW c \in Request, CommitOfficer(c) PROVE VersionsSerialise'
  BY <1>10 DEF CommitOfficer, Release, Write, EndSession, sessVars, dbVars, history
<1>11. ASSUME NEW c \in Request, CommitUpdate(c) PROVE VersionsSerialise'
  BY <1>11 DEF CommitUpdate, StillCurrent, Unlocked, EndSession, sessVars, dbVars,
     history
<1>12. ASSUME NEW c \in Request, UpdateRefused(c) PROVE VersionsSerialise'
  BY <1>12 DEF UpdateRefused, Unlocked, EndSession, sessVars, dbVars, history
<1>13. ASSUME NEW c \in Session, Abort(c) PROVE VersionsSerialise'
  BY <1>13 DEF Abort, Release, EndSession, sessVars, dbVars, history
<1>14. ASSUME NEW c \in Worker, NEW stale \in SUBSET Doc, NEW spent \in SUBSET Doc,
             RecoverJobs(c, stale, spent)
       PROVE VersionsSerialise'
  BY <1>14 DEF RecoverJobs, sessVars, dbVars, history
<1>15. ASSUME NEW c \in Worker, NEW d \in Doc, Claim(c, d) PROVE VersionsSerialise'
  BY <1>15 DEF Claim, sessVars, dbVars, history
<1>16. ASSUME NEW c \in Worker, Accept(c) PROVE VersionsSerialise'
  BY <1>16 DEF Accept, OwnsJob, sessVars, dbVars, history
<1>17. ASSUME NEW c \in Worker, Superseded(c) PROVE VersionsSerialise'
  BY <1>17 DEF Superseded, EndSession, sessVars, dbVars, history
<1>18. ASSUME NEW c \in Worker, NEW o \in {"job", "giveback"},
             Flush(c, o)
       PROVE VersionsSerialise'
  BY <1>18 DEF Flush, sessVars, dbVars, history
<1>19. ASSUME NEW c \in Worker, LookAround(c) PROVE VersionsSerialise'
  BY <1>19 DEF LookAround, sessVars, dbVars, history
<1>20. ASSUME NEW c \in Worker, CommitJob(c) PROVE VersionsSerialise'
  BY <1>20 DEF CommitJob, QueuedLate, Unlocked, OwnsJob, Write, EndSession,
     sessVars, dbVars, history
<1> HIDE DEF Inv, TypeOK, Session, Lifecycle, Mutable, Status, Officer, Op, PC,
           Active, SessionShape, OfficerView, VersionsSerialise
<1> QED
  BY <1>0, <1>1, <1>2, <1>3, <1>4, <1>5, <1>6, <1>7, <1>8, <1>9, <1>10, <1>11,
     <1>12, <1>13, <1>14, <1>15, <1>16, <1>17, <1>18, <1>19, <1>20
     DEF Next, RequestStep, WorkerStep, Recover, Session

LEMMA PayloadStep == ASSUME Inv, [Next]_vars PROVE PayloadView'
<1> USE SessionAssumption, BoundsAssumption
<1> USE DEF Inv, TypeOK, Session, Lifecycle, Mutable, Status, Officer, Op, PC,
           Active, SessionShape, OfficerView, PayloadView, Closed
<1>0. CASE UNCHANGED vars
  BY <1>0 DEF vars, dbVars, history, sessVars
<1>1. ASSUME NEW c \in Request, NEW d \in Doc, AskUpload(c, d) PROVE PayloadView'
  BY <1>1 DEF AskUpload, AskForDoc, Asked, sessVars, dbVars, history
<1>2. ASSUME NEW c \in Request, NEW d \in Doc, AskRetry(c, d) PROVE PayloadView'
  BY <1>2 DEF AskRetry, AskForDoc, Asked, sessVars, dbVars, history
<1>3. ASSUME NEW c \in Request, NEW o \in Officer, AskOfficer(c, o) PROVE PayloadView'
  BY <1>3 DEF AskOfficer, AskForVersion, Asked, sessVars, dbVars, history
<1>4. ASSUME NEW c \in Request, AskUpdate(c) PROVE PayloadView'
  BY <1>4 DEF AskUpdate, AskForVersion, Asked, sessVars, dbVars, history
<1>5. ASSUME NEW c \in Request, Insert(c) PROVE PayloadView'
  BY <1>5 DEF Insert, LockForUpload, Lock, Unlocked, sessVars, dbVars, history
<1>6. ASSUME NEW c \in Request, NEW s \in {"waiting", "settled"},
             CommitUpload(c, s)
       PROVE PayloadView'
  BY <1>6 DEF CommitUpload, Release, Write, EndSession, sessVars, dbVars, history
<1>7. ASSUME NEW c \in Request, CommitRetry(c) PROVE PayloadView'
  BY <1>7 DEF CommitRetry, QueuedLate, Unlocked, Write, EndSession, sessVars,
     dbVars, history
<1>8. ASSUME NEW c \in Request, Decide(c) PROVE PayloadView'
  BY <1>8 DEF Decide, Lock, Unlocked, CurrentVersion, Allowed, NothingActive,
     HasActiveJobs, sessVars, dbVars, history
<1>9. ASSUME NEW c \in Request, Refuse(c) PROVE PayloadView'
  BY <1>9 DEF Refuse, Unlocked, EndSession, sessVars, dbVars, history
<1>10. ASSUME NEW c \in Request, CommitOfficer(c) PROVE PayloadView'
  BY <1>10 DEF CommitOfficer, Release, Write, EndSession, sessVars, dbVars, history
<1>11. ASSUME NEW c \in Request, CommitUpdate(c) PROVE PayloadView'
  BY <1>11 DEF CommitUpdate, StillCurrent, Unlocked, EndSession, sessVars, dbVars,
     history
<1>12. ASSUME NEW c \in Request, UpdateRefused(c) PROVE PayloadView'
  BY <1>12 DEF UpdateRefused, Unlocked, EndSession, sessVars, dbVars, history
<1>13. ASSUME NEW c \in Session, Abort(c) PROVE PayloadView'
  BY <1>13 DEF Abort, Release, EndSession, sessVars, dbVars, history
<1>14. ASSUME NEW c \in Worker, NEW stale \in SUBSET Doc, NEW spent \in SUBSET Doc,
             RecoverJobs(c, stale, spent)
       PROVE PayloadView'
  BY <1>14 DEF RecoverJobs, sessVars, dbVars, history
<1>15. ASSUME NEW c \in Worker, NEW d \in Doc, Claim(c, d) PROVE PayloadView'
  BY <1>15 DEF Claim, sessVars, dbVars, history
<1>16. ASSUME NEW c \in Worker, Accept(c) PROVE PayloadView'
  BY <1>16 DEF Accept, OwnsJob, sessVars, dbVars, history
<1>17. ASSUME NEW c \in Worker, Superseded(c) PROVE PayloadView'
  BY <1>17 DEF Superseded, EndSession, sessVars, dbVars, history
<1>18. ASSUME NEW c \in Worker, NEW o \in {"job", "giveback"},
             Flush(c, o)
       PROVE PayloadView'
  BY <1>18 DEF Flush, sessVars, dbVars, history
<1>19. ASSUME NEW c \in Worker, LookAround(c) PROVE PayloadView'
  BY <1>19 DEF LookAround, sessVars, dbVars, history
<1>20. ASSUME NEW c \in Worker, CommitJob(c) PROVE PayloadView'
  BY <1>20 DEF CommitJob, QueuedLate, Unlocked, OwnsJob, Write, EndSession,
     sessVars, dbVars, history
<1> HIDE DEF Inv, TypeOK, Session, Lifecycle, Mutable, Status, Officer, Op, PC,
           Active, SessionShape, OfficerView, PayloadView, Closed
<1> QED
  BY <1>0, <1>1, <1>2, <1>3, <1>4, <1>5, <1>6, <1>7, <1>8, <1>9, <1>10, <1>11,
     <1>12, <1>13, <1>14, <1>15, <1>16, <1>17, <1>18, <1>19, <1>20
     DEF Next, RequestStep, WorkerStep, Recover, Session

(* Whoever takes a job away from a worker overtakes it.                       *)
LEMMA ClaimStep == ASSUME Inv, [Next]_vars PROVE ClaimView'
<1> USE SessionAssumption, BoundsAssumption
<1> USE DEF Inv, TypeOK, Session, SessionShape, ClaimView
<1>0. CASE UNCHANGED vars
  BY <1>0 DEF vars, dbVars, history, sessVars, OwnsJob, Outdated, RestsOnClaim
<1>1. ASSUME NEW c \in Request, NEW d \in Doc, AskUpload(c, d) PROVE ClaimView'
  BY <1>1 DEF AskUpload, AskForDoc, Asked, sessVars, dbVars, history, OwnsJob,
     Outdated, RestsOnClaim
<1>2. ASSUME NEW c \in Request, NEW d \in Doc, AskRetry(c, d) PROVE ClaimView'
  BY <1>2 DEF AskRetry, AskForDoc, Asked, sessVars, dbVars, history, OwnsJob,
     Outdated, RestsOnClaim
<1>3. ASSUME NEW c \in Request, NEW o \in Officer, AskOfficer(c, o) PROVE ClaimView'
  BY <1>3 DEF AskOfficer, AskForVersion, Asked, sessVars, dbVars, history, OwnsJob,
     Outdated, RestsOnClaim
<1>4. ASSUME NEW c \in Request, AskUpdate(c) PROVE ClaimView'
  BY <1>4 DEF AskUpdate, AskForVersion, Asked, sessVars, dbVars, history, OwnsJob,
     Outdated, RestsOnClaim
<1>5. ASSUME NEW c \in Request, Insert(c) PROVE ClaimView'
  BY <1>5 DEF Insert, LockForUpload, Lock, Unlocked, sessVars, dbVars, history,
     OwnsJob, Outdated, RestsOnClaim
<1>6. ASSUME NEW c \in Request, NEW s \in {"waiting", "settled"},
             CommitUpload(c, s)
       PROVE ClaimView'
  BY <1>6 DEF CommitUpload, Release, Write, EndSession, sessVars, dbVars, history,
     OwnsJob, Outdated, RestsOnClaim
<1>7. ASSUME NEW c \in Request, CommitRetry(c) PROVE ClaimView'
  BY <1>7 DEF CommitRetry, QueuedLate, Unlocked, Write, EndSession, sessVars,
     dbVars, history, OwnsJob, Outdated, RestsOnClaim
<1>8. ASSUME NEW c \in Request, Decide(c) PROVE ClaimView'
  BY <1>8 DEF Decide, Lock, Unlocked, CurrentVersion, Allowed, NothingActive,
     HasActiveJobs, sessVars, dbVars, history, OwnsJob, Outdated, RestsOnClaim
<1>9. ASSUME NEW c \in Request, Refuse(c) PROVE ClaimView'
  BY <1>9 DEF Refuse, Unlocked, EndSession, sessVars, dbVars, history, OwnsJob,
     Outdated, RestsOnClaim
<1>10. ASSUME NEW c \in Request, CommitOfficer(c) PROVE ClaimView'
  BY <1>10 DEF CommitOfficer, Release, Write, EndSession, sessVars, dbVars, history,
     OwnsJob, Outdated, RestsOnClaim
<1>11. ASSUME NEW c \in Request, CommitUpdate(c) PROVE ClaimView'
  BY <1>11 DEF CommitUpdate, StillCurrent, Unlocked, EndSession, sessVars, dbVars,
     history, OwnsJob, Outdated, RestsOnClaim
<1>12. ASSUME NEW c \in Request, UpdateRefused(c) PROVE ClaimView'
  BY <1>12 DEF UpdateRefused, Unlocked, EndSession, sessVars, dbVars, history,
     OwnsJob, Outdated, RestsOnClaim
<1>13. ASSUME NEW c \in Session, Abort(c) PROVE ClaimView'
  BY <1>13 DEF Abort, Release, EndSession, sessVars, dbVars, history, OwnsJob,
     Outdated, RestsOnClaim
<1>14. ASSUME NEW c \in Worker, NEW stale \in SUBSET Doc, NEW spent \in SUBSET Doc,
             RecoverJobs(c, stale, spent)
       PROVE ClaimView'
  BY <1>14 DEF RecoverJobs, sessVars, dbVars, history, OwnsJob, Outdated,
     RestsOnClaim
<1>15. ASSUME NEW c \in Worker, NEW d \in Doc, Claim(c, d) PROVE ClaimView'
  BY <1>15 DEF Claim, sessVars, dbVars, history, OwnsJob, Outdated, RestsOnClaim
<1>16. ASSUME NEW c \in Worker, Accept(c) PROVE ClaimView'
  BY <1>16 DEF Accept, OwnsJob, sessVars, dbVars, history, OwnsJob, Outdated,
     RestsOnClaim
<1>17. ASSUME NEW c \in Worker, Superseded(c) PROVE ClaimView'
  BY <1>17 DEF Superseded, EndSession, sessVars, dbVars, history, OwnsJob, Outdated,
     RestsOnClaim
<1>18. ASSUME NEW c \in Worker, NEW o \in {"job", "giveback"},
             Flush(c, o)
       PROVE ClaimView'
  BY <1>18 DEF Flush, sessVars, dbVars, history, OwnsJob, Outdated, RestsOnClaim
<1>19. ASSUME NEW c \in Worker, LookAround(c) PROVE ClaimView'
  BY <1>19 DEF LookAround, sessVars, dbVars, history, OwnsJob, Outdated,
     RestsOnClaim
<1>20. ASSUME NEW c \in Worker, CommitJob(c) PROVE ClaimView'
  BY <1>20 DEF CommitJob, QueuedLate, Unlocked, OwnsJob, Write, EndSession,
     sessVars, dbVars, history, OwnsJob, Outdated, RestsOnClaim
<1> HIDE DEF Inv, TypeOK, Session, SessionShape, ClaimView
<1> QED
  BY <1>0, <1>1, <1>2, <1>3, <1>4, <1>5, <1>6, <1>7, <1>8, <1>9, <1>10, <1>11,
     <1>12, <1>13, <1>14, <1>15, <1>16, <1>17, <1>18, <1>19, <1>20
     DEF Next, RequestStep, WorkerStep, Recover, Session

LEMMA OfficerStep == ASSUME Inv, [Next]_vars PROVE OfficerView'
<1> USE SessionAssumption, BoundsAssumption
<1> USE DEF Inv, TypeOK, Session, Lifecycle, Mutable, Status, Officer, Op, PC,
           Active, SessionShape, OfficerView, Overlooked, Target
<1>0. CASE UNCHANGED vars
  BY <1>0 DEF vars, dbVars, history, sessVars
<1>1. ASSUME NEW c \in Request, NEW d \in Doc, AskUpload(c, d) PROVE OfficerView'
  BY <1>1 DEF AskUpload, AskForDoc, Asked, sessVars, dbVars, history
<1>2. ASSUME NEW c \in Request, NEW d \in Doc, AskRetry(c, d) PROVE OfficerView'
  BY <1>2 DEF AskRetry, AskForDoc, Asked, sessVars, dbVars, history
<1>3. ASSUME NEW c \in Request, NEW o \in Officer, AskOfficer(c, o) PROVE OfficerView'
  BY <1>3 DEF AskOfficer, AskForVersion, Asked, sessVars, dbVars, history
<1>4. ASSUME NEW c \in Request, AskUpdate(c) PROVE OfficerView'
  BY <1>4 DEF AskUpdate, AskForVersion, Asked, sessVars, dbVars, history
<1>5. ASSUME NEW c \in Request, Insert(c) PROVE OfficerView'
  BY <1>5 DEF Insert, LockForUpload, Lock, Unlocked, sessVars, dbVars, history
<1>6. ASSUME NEW c \in Request, NEW s \in {"waiting", "settled"},
             CommitUpload(c, s)
       PROVE OfficerView'
  BY <1>6 DEF CommitUpload, Release, Write, EndSession, sessVars, dbVars, history
<1>7. ASSUME NEW c \in Request, CommitRetry(c) PROVE OfficerView'
  BY <1>7 DEF CommitRetry, QueuedLate, Unlocked, Write, EndSession, sessVars,
     dbVars, history
<1>8. ASSUME NEW c \in Request, Decide(c) PROVE OfficerView'
  BY <1>8 DEF Decide, Lock, Unlocked, CurrentVersion, Allowed, NothingActive,
     HasActiveJobs, sessVars, dbVars, history
<1>9. ASSUME NEW c \in Request, Refuse(c) PROVE OfficerView'
  BY <1>9 DEF Refuse, Unlocked, EndSession, sessVars, dbVars, history
<1>10. ASSUME NEW c \in Request, CommitOfficer(c) PROVE OfficerView'
  BY <1>10 DEF CommitOfficer, Release, Write, EndSession, sessVars, dbVars, history
<1>11. ASSUME NEW c \in Request, CommitUpdate(c) PROVE OfficerView'
  BY <1>11 DEF CommitUpdate, StillCurrent, Unlocked, EndSession, sessVars, dbVars,
     history
<1>12. ASSUME NEW c \in Request, UpdateRefused(c) PROVE OfficerView'
  BY <1>12 DEF UpdateRefused, Unlocked, EndSession, sessVars, dbVars, history
<1>13. ASSUME NEW c \in Session, Abort(c) PROVE OfficerView'
  BY <1>13 DEF Abort, Release, EndSession, sessVars, dbVars, history
<1>14. ASSUME NEW c \in Worker, NEW stale \in SUBSET Doc, NEW spent \in SUBSET Doc,
             RecoverJobs(c, stale, spent)
       PROVE OfficerView'
  BY <1>14 DEF RecoverJobs, sessVars, dbVars, history
<1>15. ASSUME NEW c \in Worker, NEW d \in Doc, Claim(c, d) PROVE OfficerView'
  BY <1>15 DEF Claim, sessVars, dbVars, history
<1>16. ASSUME NEW c \in Worker, Accept(c) PROVE OfficerView'
  BY <1>16 DEF Accept, OwnsJob, sessVars, dbVars, history
<1>17. ASSUME NEW c \in Worker, Superseded(c) PROVE OfficerView'
  BY <1>17 DEF Superseded, EndSession, sessVars, dbVars, history
<1>18. ASSUME NEW c \in Worker, NEW o \in {"job", "giveback"},
             Flush(c, o)
       PROVE OfficerView'
  BY <1>18 DEF Flush, sessVars, dbVars, history
<1>19. ASSUME NEW c \in Worker, LookAround(c) PROVE OfficerView'
  BY <1>19 DEF LookAround, sessVars, dbVars, history
<1>20. ASSUME NEW c \in Worker, CommitJob(c) PROVE OfficerView'
  <2>1. \A d \in Doc : status'[d] \in Active =>
           status[d] \in Active \/ (d = doc[c] /\ op[c] = "giveback" /\ c \in overtaken)
    BY <1>20 DEF CommitJob, ClaimView, OwnsJob
  <2>2. late \subseteq late'
    BY <1>20 DEF CommitJob, QueuedLate, Unlocked
  <2>3. op[c] = "giveback" /\ c \in overtaken /\ lock # Nobody => doc[c] \in late'
    BY <1>20 DEF CommitJob, QueuedLate, Unlocked
  <2>4. lock = Nobody => late' = {}
    BY <1>20 DEF CommitJob, QueuedLate, Unlocked
  <2>5. lock # Nobody => Overlooked' \subseteq Overlooked
    BY <2>1, <2>2, <2>3
  <2> QED
    BY <1>20, <2>4, <2>5 DEF CommitJob, EndSession
<1> HIDE DEF Inv, TypeOK, Session, Lifecycle, Mutable, Status, Officer, Op, PC,
           Active, SessionShape, OfficerView, Overlooked, Target
<1> QED
  BY <1>0, <1>1, <1>2, <1>3, <1>4, <1>5, <1>6, <1>7, <1>8, <1>9, <1>10, <1>11,
     <1>12, <1>13, <1>14, <1>15, <1>16, <1>17, <1>18, <1>19, <1>20
     DEF Next, RequestStep, WorkerStep, Recover, Session

-----------------------------------------------------------------------------

(* In every behaviour the model has: the sessions' phases and the row lock    *)
(* agree, the officers and updates that can still commit have seen the truth, *)
(* and a worker finish_job has accepted has its job until it is overtaken.    *)
THEOREM Invariance == Spec => []Inv
<1>1. Inv /\ [Next]_vars => Inv'
  BY TypeStep, ShapeStep, VersionStep, PayloadStep, ClaimStep,
     OfficerStep DEF Inv
<1> QED
  BY InitInv, <1>1, PTL DEF Spec

(* The row lock of the application is held by the one session that is between *)
(* its FOR UPDATE and its commit (lifecycle.py:168, documents.py:334).        *)
THEOREM TypeCorrect == Spec => []TypeOK
<1>1. Inv => TypeOK
  BY DEF Inv
<1> QED
  BY Invariance, <1>1, PTL

(* Whatever complete, reopen, archive and update do at the same time, each    *)
(* version of the application is the basis of one accepted change at most,    *)
(* and no change skips one (lifecycle.py:177, applications.py:202).           *)
THEOREM Serialised == Spec => []VersionsSerialise
<1>1. Inv => VersionsSerialise
  BY DEF Inv
<1> QED
  BY Invariance, <1>1, PTL

(* An update checked before the application was completed never goes through  *)
(* after it (applications.py:196).                                            *)
THEOREM UpdatesSafe == Spec => UpdatesOnlyMutable
<1>1. ASSUME Inv, [Next]_vars, UpdateCommits PROVE ~Closed
  <2>1. PICK u \in Request : op[u] = "update" /\ version' # version /\ op'[u] = "none"
    BY <1>1 DEF UpdateCommits
  <2>2. ~ UNCHANGED vars
    BY <2>1 DEF vars, dbVars, history
  <2>3. CASE \E c \in Request : CommitUpdate(c)
    <3>1. PICK c \in Request : CommitUpdate(c)
      BY <2>3
    <3>2. c = u
      BY <1>1, <2>1, <3>1 DEF CommitUpdate, EndSession, Inv, TypeOK, Session
    <3> QED
      BY <1>1, <3>1, <3>2 DEF CommitUpdate, StillCurrent, Inv, PayloadView, Session
  <2>4. CASE \E c \in Request : CommitOfficer(c)
    <3>1. PICK c \in Request : CommitOfficer(c)
      BY <2>4
    <3>2. c = u
      BY <1>1, <2>1, <3>1 DEF CommitOfficer, EndSession, Inv, TypeOK, Session
    <3> QED
      BY <2>1, <3>1, <3>2 DEF CommitOfficer, Officer
  <2>5. (\E c \in Request : CommitUpdate(c) \/ CommitOfficer(c)) \/ version' = version
    BY <1>1 DEF Next, RequestStep, WorkerStep, vars, dbVars, history, AskUpload, AskRetry,
       AskOfficer, AskUpdate, AskForDoc, AskForVersion, Asked, Insert, CommitUpload,
       CommitRetry, Decide, Refuse, UpdateRefused, Abort, Recover, RecoverJobs, Claim,
       Accept, Superseded, Flush, LookAround, CommitJob
  <2> QED
    BY <2>1, <2>3, <2>4, <2>5
<1>2. Inv /\ [Next]_vars => [UpdateCommits => ~Closed]_vars
  BY <1>1
<1> QED
  BY Invariance, <1>2, PTL DEF Spec, UpdatesOnlyMutable

(* No job is overlooked when an application is completed or archived, but one *)
(* queued late, while the row was locked, by a retry or by a worker that had   *)
(* lost it (lifecycle.py:6, :257).                                            *)
THEOREM Quiet == Spec => QuietCompletion
<1>1. ASSUME Inv, [Next]_vars, lifecycle' # lifecycle, Closed' PROVE Overlooked = {}
  <2>1. ASSUME NEW c \in Request, NEW s \in {"waiting", "settled"}, CommitUpload(c, s)
        PROVE  FALSE
    BY <1>1, <2>1 DEF CommitUpload, Write, Closed, Inv, SessionShape, Session, Mutable
  <2>2. ASSUME NEW c \in Request, CommitRetry(c) PROVE FALSE
    BY <1>1, <2>2 DEF CommitRetry, Write, Closed
  <2>3. ASSUME NEW c \in Worker, CommitJob(c) PROVE FALSE
    BY <1>1, <2>3 DEF CommitJob, Write, Closed, Inv, SessionShape, Session
  <2>4. ASSUME NEW c \in Request, CommitOfficer(c) PROVE Overlooked = {}
    BY <1>1, <2>4 DEF CommitOfficer, Write, Closed, Inv, OfficerView
  <2>5. \/ \E c \in Request : CommitRetry(c) \/ CommitOfficer(c)
        \/ \E c \in Request : \E s \in {"waiting", "settled"} : CommitUpload(c, s)
        \/ \E c \in Worker : CommitJob(c)
    BY <1>1 DEF Next, RequestStep, WorkerStep, vars, dbVars, history, AskUpload, AskRetry,
       AskOfficer, AskUpdate, AskForDoc, AskForVersion, Asked, Insert, CommitUpdate,
       Decide, Refuse, UpdateRefused, Abort, Recover, RecoverJobs, Claim, Accept,
       Superseded, Flush, LookAround
  <2> QED
    BY <2>1, <2>2, <2>3, <2>4, <2>5
<1>2. Inv /\ [Next]_vars => [lifecycle' # lifecycle /\ Closed' => Overlooked = {}]_vars
  BY <1>1
<1> QED
  BY Invariance, <1>2, PTL DEF Spec, QuietCompletion

-----------------------------------------------------------------------------

(* While an officer has the row, the state is the one looked at, and it is    *)
(* not processing: a writer that does not wait for the row writes nothing.    *)
HeldView ==
    \A c \in Request : pc[c] = "locked" /\ op[c] \in Officer =>
        lifecycle = seen[c] /\ lifecycle # "processing"

(* Whom nobody overtook still knows the state, and what is true of the other  *)
(* jobs.                                                                     *)
FreshView ==
    \A c \in Session \ overtaken :
        /\ RestsOnState(c) /\ op[c] \notin Officer => seen[c] = lifecycle
        /\ pc[c] = "locked" /\ op[c] = "upload" =>
              goal[c] = IF OthersActive(doc[c]) THEN "processing" ELSE "pending_review"
        /\ pc[c] = "decided" /\ op[c] = "job" =>
              goal[c] = IF OthersActive(doc[c]) \/ Closed THEN lifecycle ELSE "pending_review"

(* The row lock keeps the state.                                             *)
LEMMA HeldStep == ASSUME Inv, HeldView, [Next]_vars PROVE HeldView'
<1> USE SessionAssumption, BoundsAssumption
<1> USE DEF Inv, TypeOK, Session, SessionShape, Officer, HeldView
<1>0. CASE UNCHANGED vars
  BY <1>0 DEF vars, dbVars, history, sessVars, Mutable
<1>1. ASSUME NEW c \in Request, NEW d \in Doc, AskUpload(c, d) PROVE HeldView'
  BY <1>1 DEF AskUpload, AskForDoc, Asked, sessVars, dbVars, history, Mutable
<1>2. ASSUME NEW c \in Request, NEW d \in Doc, AskRetry(c, d) PROVE HeldView'
  BY <1>2 DEF AskRetry, AskForDoc, Asked, sessVars, dbVars, history, Mutable
<1>3. ASSUME NEW c \in Request, NEW o \in Officer, AskOfficer(c, o) PROVE HeldView'
  BY <1>3 DEF AskOfficer, AskForVersion, Asked, sessVars, dbVars, history, Mutable
<1>4. ASSUME NEW c \in Request, AskUpdate(c) PROVE HeldView'
  BY <1>4 DEF AskUpdate, AskForVersion, Asked, sessVars, dbVars, history, Mutable
<1>5. ASSUME NEW c \in Request, Insert(c) PROVE HeldView'
  BY <1>5 DEF Insert, LockForUpload, Lock, Unlocked, sessVars, dbVars, history,
     Mutable
<1>6. ASSUME NEW c \in Request, NEW s \in {"waiting", "settled"},
             CommitUpload(c, s)
       PROVE HeldView'
  BY <1>6 DEF CommitUpload, Release, Write, EndSession, sessVars, dbVars, history,
     Mutable
<1>7. ASSUME NEW c \in Request, CommitRetry(c) PROVE HeldView'
  BY <1>7 DEF CommitRetry, QueuedLate, Unlocked, Write, EndSession, sessVars,
     dbVars, history, Mutable
<1>8. ASSUME NEW c \in Request, Decide(c) PROVE HeldView'
  BY <1>8 DEF Decide, Lock, Unlocked, CurrentVersion, Allowed, NothingActive,
     HasActiveJobs, sessVars, dbVars, history, Mutable
<1>9. ASSUME NEW c \in Request, Refuse(c) PROVE HeldView'
  BY <1>9 DEF Refuse, Unlocked, EndSession, sessVars, dbVars, history, Mutable
<1>10. ASSUME NEW c \in Request, CommitOfficer(c) PROVE HeldView'
  BY <1>10 DEF CommitOfficer, Release, Write, EndSession, sessVars, dbVars, history,
     Mutable
<1>11. ASSUME NEW c \in Request, CommitUpdate(c) PROVE HeldView'
  BY <1>11 DEF CommitUpdate, StillCurrent, Unlocked, EndSession, sessVars, dbVars,
     history, Mutable
<1>12. ASSUME NEW c \in Request, UpdateRefused(c) PROVE HeldView'
  BY <1>12 DEF UpdateRefused, Unlocked, EndSession, sessVars, dbVars, history,
     Mutable
<1>13. ASSUME NEW c \in Session, Abort(c) PROVE HeldView'
  BY <1>13 DEF Abort, Release, EndSession, sessVars, dbVars, history, Mutable
<1>14. ASSUME NEW c \in Worker, NEW stale \in SUBSET Doc, NEW spent \in SUBSET Doc,
             RecoverJobs(c, stale, spent)
       PROVE HeldView'
  BY <1>14 DEF RecoverJobs, sessVars, dbVars, history, Mutable
<1>15. ASSUME NEW c \in Worker, NEW d \in Doc, Claim(c, d) PROVE HeldView'
  BY <1>15 DEF Claim, sessVars, dbVars, history, Mutable
<1>16. ASSUME NEW c \in Worker, Accept(c) PROVE HeldView'
  BY <1>16 DEF Accept, OwnsJob, sessVars, dbVars, history, Mutable
<1>17. ASSUME NEW c \in Worker, Superseded(c) PROVE HeldView'
  BY <1>17 DEF Superseded, EndSession, sessVars, dbVars, history, Mutable
<1>18. ASSUME NEW c \in Worker, NEW o \in {"job", "giveback"}, Flush(c, o) PROVE HeldView'
  BY <1>18 DEF Flush, sessVars, dbVars, history, Mutable
<1>19. ASSUME NEW c \in Worker, LookAround(c) PROVE HeldView'
  BY <1>19 DEF LookAround, sessVars, dbVars, history, Mutable
<1>20. ASSUME NEW c \in Worker, CommitJob(c) PROVE HeldView'
  BY <1>20 DEF CommitJob, QueuedLate, Unlocked, OwnsJob, Write, EndSession,
     sessVars, dbVars, history, Mutable
<1> HIDE DEF Inv, TypeOK, Session, SessionShape, Officer, HeldView
<1> QED
  BY <1>0, <1>1, <1>2, <1>3, <1>4, <1>5, <1>6, <1>7, <1>8, <1>9, <1>10, <1>11,
     <1>12, <1>13, <1>14, <1>15, <1>16, <1>17, <1>18, <1>19, <1>20
     DEF Next, RequestStep, WorkerStep, Recover, Session

(* A session that ends, or that only recovers jobs, leaves the others what    *)
(* they know, or overtakes them.                                              *)
LEMMA OthersStayFresh ==
  ASSUME Inv, FreshView, NEW c \in Session,
         pc'[c] = "idle",
         \A s \in Session \ {c} : /\ op'[s] = op[s] /\ pc'[s] = pc[s] /\ doc'[s] = doc[s]
                                  /\ seen'[s] = seen[s] /\ goal'[s] = goal[s],
         \A s \in Session \ {c} : s \in overtaken \/ Outdated(s) => s \in overtaken'
  PROVE  FreshView'
<1> USE DEF Inv, TypeOK
<1>1. ASSUME NEW s \in Session \ overtaken', RestsOnState(s)'
      PROVE  /\ s # c /\ s \in Session \ overtaken /\ ~Outdated(s) /\ RestsOnState(s)
             /\ op'[s] = op[s] /\ pc'[s] = pc[s] /\ doc'[s] = doc[s]
             /\ seen'[s] = seen[s] /\ goal'[s] = goal[s] /\ lifecycle' = lifecycle
  <2>1. s # c
    BY <1>1 DEF RestsOnState, RestsOnJobs
  <2>2. /\ op'[s] = op[s] /\ pc'[s] = pc[s] /\ doc'[s] = doc[s]
        /\ seen'[s] = seen[s] /\ goal'[s] = goal[s]
    BY <2>1
  <2>3. s \notin overtaken /\ ~Outdated(s)
    BY <1>1, <2>1
  <2>4. RestsOnState(s)
    BY <1>1, <2>2 DEF RestsOnState, RestsOnJobs
  <2> QED
    BY <2>1, <2>2, <2>3, <2>4 DEF Outdated
<1>2. ASSUME NEW s \in Session \ overtaken', RestsOnState(s)', RestsOnJobs(s)'
      PROVE  OthersActive(doc[s])' <=> OthersActive(doc[s])
  <2>1. ~Outdated(s) /\ RestsOnJobs(s)
    BY <1>1, <1>2 DEF RestsOnJobs
  <2> QED
    BY <2>1 DEF Outdated
<1>3. ASSUME NEW s \in Session \ overtaken'
      PROVE  /\ RestsOnState(s)' /\ op'[s] \notin Officer => seen'[s] = lifecycle'
             /\ pc'[s] = "locked" /\ op'[s] = "upload" =>
                   goal'[s] = IF OthersActive(doc[s])' THEN "processing" ELSE "pending_review"
             /\ pc'[s] = "decided" /\ op'[s] = "job" =>
                   goal'[s] = IF OthersActive(doc[s])' \/ Closed' THEN lifecycle'
                              ELSE "pending_review"
  <2>1. CASE ~RestsOnState(s)'
    BY <2>1 DEF RestsOnState, RestsOnJobs
  <2>2. CASE RestsOnState(s)'
    <3>1. RestsOnJobs(s)' => (OthersActive(doc[s])' <=> OthersActive(doc[s]))
      BY <1>2, <2>2
    <3>2. Closed' <=> Closed
      BY <1>1, <2>2 DEF Closed
    <3> QED
      BY <1>1, <2>2, <3>1, <3>2 DEF FreshView, RestsOnJobs
  <2> QED
    BY <2>1, <2>2
<1> QED
  BY <1>3 DEF FreshView

LEMMA EndLeavesFresh ==
  ASSUME Inv, FreshView, NEW c \in Session, EndSession(c) PROVE FreshView'
<1>1. pc'[c] = "idle"
  BY DEF EndSession, Inv, TypeOK
<1>2. \A s \in Session \ {c} : /\ op'[s] = op[s] /\ pc'[s] = pc[s] /\ doc'[s] = doc[s]
                               /\ seen'[s] = seen[s] /\ goal'[s] = goal[s]
  BY DEF EndSession, Inv, TypeOK
<1>3. \A s \in Session \ {c} : s \in overtaken \/ Outdated(s) => s \in overtaken'
  BY DEF EndSession
<1> QED
  BY <1>1, <1>2, <1>3, OthersStayFresh

(* A step overtakes whoever does not know what it has changed.                *)
LEMMA FreshStep == ASSUME Inv, FreshView, [Next]_vars PROVE FreshView'
<1> USE SessionAssumption, BoundsAssumption
<1> USE DEF Inv, TypeOK, Session, SessionShape, FreshView
<1>0. CASE UNCHANGED vars
  BY <1>0 DEF vars, dbVars, history, sessVars, Officer, RestsOnState, RestsOnJobs, OthersActive, Active, Closed
<1>1. ASSUME NEW c \in Request, NEW d \in Doc, AskUpload(c, d) PROVE FreshView'
  BY <1>1 DEF AskUpload, AskForDoc, Asked, sessVars, dbVars, history, Officer,
     RestsOnState, RestsOnJobs, OthersActive, Active, Closed
<1>2. ASSUME NEW c \in Request, NEW d \in Doc, AskRetry(c, d) PROVE FreshView'
  BY <1>2 DEF AskRetry, AskForDoc, Asked, sessVars, dbVars, history, Officer,
     RestsOnState, RestsOnJobs, OthersActive, Active, Closed
<1>3. ASSUME NEW c \in Request, NEW o \in Officer, AskOfficer(c, o) PROVE FreshView'
  BY <1>3 DEF AskOfficer, AskForVersion, Asked, sessVars, dbVars, history, Officer,
     RestsOnState, RestsOnJobs, OthersActive, Active, Closed
<1>4. ASSUME NEW c \in Request, AskUpdate(c) PROVE FreshView'
  BY <1>4 DEF AskUpdate, AskForVersion, Asked, sessVars, dbVars, history, Officer,
     RestsOnState, RestsOnJobs, OthersActive, Active, Closed
<1>5. ASSUME NEW c \in Request, Insert(c) PROVE FreshView'
  BY <1>5 DEF Insert, LockForUpload, Lock, Unlocked, sessVars, dbVars, history,
     Officer, RestsOnState, RestsOnJobs, OthersActive, Active, Closed
<1>6. ASSUME NEW c \in Request, NEW s \in {"waiting", "settled"},
             CommitUpload(c, s)
       PROVE FreshView'
  BY <1>6, EndLeavesFresh DEF Session, CommitUpload
<1>7. ASSUME NEW c \in Request, CommitRetry(c) PROVE FreshView'
  BY <1>7, EndLeavesFresh DEF Session, CommitRetry
<1>8. ASSUME NEW c \in Request, Decide(c) PROVE FreshView'
  BY <1>8 DEF Decide, Lock, Unlocked, CurrentVersion, Allowed, NothingActive,
     HasActiveJobs, sessVars, dbVars, history, Officer, RestsOnState, RestsOnJobs,
     OthersActive, Active, Closed
<1>9. ASSUME NEW c \in Request, Refuse(c) PROVE FreshView'
  BY <1>9, EndLeavesFresh DEF Session, Refuse
<1>10. ASSUME NEW c \in Request, CommitOfficer(c) PROVE FreshView'
  BY <1>10, EndLeavesFresh DEF Session, CommitOfficer
<1>11. ASSUME NEW c \in Request, CommitUpdate(c) PROVE FreshView'
  BY <1>11, EndLeavesFresh DEF Session, CommitUpdate
<1>12. ASSUME NEW c \in Request, UpdateRefused(c) PROVE FreshView'
  BY <1>12, EndLeavesFresh DEF Session, UpdateRefused
<1>13. ASSUME NEW c \in Session, Abort(c) PROVE FreshView'
  BY <1>13, EndLeavesFresh DEF Session, Abort
<1>14. ASSUME NEW c \in Worker, NEW stale \in SUBSET Doc, NEW spent \in SUBSET Doc,
             RecoverJobs(c, stale, spent)
       PROVE FreshView'
  <2>1. pc[c] = "idle"
    BY <1>14 DEF RecoverJobs
  <2> QED
    BY <1>14, <2>1, OthersStayFresh DEF RecoverJobs, sessVars
<1>15. ASSUME NEW c \in Worker, NEW d \in Doc, Claim(c, d) PROVE FreshView'
  BY <1>15 DEF Claim, sessVars, dbVars, history, Officer, RestsOnState, RestsOnJobs,
     OthersActive, Active, Closed
<1>16. ASSUME NEW c \in Worker, Accept(c) PROVE FreshView'
  BY <1>16 DEF Accept, OwnsJob, sessVars, dbVars, history, Officer, RestsOnState,
     RestsOnJobs, OthersActive, Active, Closed
<1>17. ASSUME NEW c \in Worker, Superseded(c) PROVE FreshView'
  BY <1>17, EndLeavesFresh DEF Session, Superseded
<1>18. ASSUME NEW c \in Worker, NEW o \in {"job", "giveback"},
             Flush(c, o)
       PROVE FreshView'
  BY <1>18 DEF Flush, sessVars, dbVars, history, Officer, RestsOnState, RestsOnJobs,
     OthersActive, Active, Closed
<1>19. ASSUME NEW c \in Worker, LookAround(c) PROVE FreshView'
  BY <1>19 DEF LookAround, sessVars, dbVars, history, Officer, RestsOnState,
     RestsOnJobs, OthersActive, Active, Closed
<1>20. ASSUME NEW c \in Worker, CommitJob(c) PROVE FreshView'
  BY <1>20, EndLeavesFresh DEF Session, CommitJob
<1> HIDE DEF Inv, TypeOK, Session, SessionShape, FreshView
<1> QED
  BY <1>0, <1>1, <1>2, <1>3, <1>4, <1>5, <1>6, <1>7, <1>8, <1>9, <1>10, <1>11,
     <1>12, <1>13, <1>14, <1>15, <1>16, <1>17, <1>18, <1>19, <1>20
     DEF Next, RequestStep, WorkerStep, Recover, Session

(* An officer decides on a state that is not processing, whom nobody overtook  *)
(* writes what its jobs ask for, and a worker that still has its job gives     *)
(* back one that was active; so the state of an application is set apart from  *)
(* its jobs only by an upload, a retry or a worker that was overtaken          *)
(* (document_jobs.py:97, :122, documents.py:380, :568), or by a recovery that   *)
(* gives up the last active job, which looks at no application                 *)
(* (document_jobs.py:70).                                                      *)
THEOREM DriftCauses == Spec => DriftHasTwoCauses
<1> DEFINE Known == Inv /\ HeldView /\ FreshView
<1>1. Init => HeldView /\ FreshView
  BY SessionAssumption DEF Init, HeldView, FreshView, RestsOnState, RestsOnJobs, Session
<1>2. Known /\ [Next]_vars => HeldView' /\ FreshView'
  BY HeldStep, FreshStep
<1>3. Spec => []Known
  BY Invariance, <1>1, <1>2, PTL DEF Spec
<1>4. ASSUME Known, [Next]_vars, Agreed, ~Agreed'
      PROVE  OvertakenEnds \/ GivesUpLast
  <2> USE SessionAssumption DEF Inv, TypeOK, Session, SessionShape
  <2>1. ASSUME NEW c \in Request, NEW s \in {"waiting", "settled"}, CommitUpload(c, s)
        PROVE  c \in overtaken /\ op[c] = "upload" /\ op'[c] = "none"
    <3>1. op[c] = "upload" /\ op'[c] = "none" /\ pc[c] = "locked" /\ doc[c] \in Doc
      BY <1>4, <2>1 DEF CommitUpload, EndSession
    <3>2. HasActiveJobs' <=> (s = "waiting" \/ OthersActive(doc[c]))
      BY <1>4, <2>1, <3>1 DEF CommitUpload, HasActiveJobs, OthersActive, Active
    <3>3. ASSUME c \notin overtaken PROVE FALSE
      <4>1. /\ seen[c] = lifecycle
            /\ goal[c] = IF OthersActive(doc[c]) THEN "processing" ELSE "pending_review"
        BY <1>4, <3>1, <3>3 DEF FreshView, RestsOnState, RestsOnJobs, Officer
      <4>2. lifecycle' = IF s = "waiting" THEN "processing" ELSE goal[c]
        BY <2>1, <4>1 DEF CommitUpload, Write
      <4> QED
        BY <1>4, <3>2, <4>1, <4>2 DEF Agreed
    <3> QED
      BY <3>1, <3>3
  <2>2. ASSUME NEW c \in Request, CommitRetry(c)
        PROVE  c \in overtaken /\ op[c] = "retry" /\ op'[c] = "none"
    <3>1. op[c] = "retry" /\ op'[c] = "none" /\ pc[c] = "asked" /\ doc[c] \in Doc
      BY <1>4, <2>2 DEF CommitRetry, EndSession, Officer
    <3>2. HasActiveJobs'
      BY <1>4, <2>2, <3>1 DEF CommitRetry, HasActiveJobs, Active
    <3>3. ASSUME c \notin overtaken PROVE FALSE
      <4>1. seen[c] = lifecycle
        BY <1>4, <3>1, <3>3 DEF FreshView, RestsOnState, Officer
      <4>2. lifecycle' = "processing"
        BY <2>2, <4>1 DEF CommitRetry, Write
      <4> QED
        BY <1>4, <3>2, <4>2 DEF Agreed
    <3> QED
      BY <3>1, <3>3
  <2>3. ASSUME NEW w \in Worker, CommitJob(w)
        PROVE  w \in overtaken /\ op[w] \in {"job", "giveback"} /\ op'[w] = "none"
    <3>1. /\ op[w] \in {"job", "giveback"} /\ op'[w] = "none"
          /\ pc[w] = "decided" /\ doc[w] \in Doc
      BY <1>4, <2>3 DEF CommitJob, EndSession
    <3>2. CASE op[w] = "job" /\ w \notin overtaken
      <4>1. HasActiveJobs' <=> OthersActive(doc[w])
        BY <1>4, <2>3, <3>1, <3>2 DEF CommitJob, HasActiveJobs, OthersActive, Active
      <4>2. /\ seen[w] = lifecycle
            /\ goal[w] = IF OthersActive(doc[w]) \/ Closed THEN lifecycle ELSE "pending_review"
        BY <1>4, <3>1, <3>2 DEF FreshView, RestsOnState, RestsOnJobs, Officer
      <4>3. lifecycle' = goal[w]
        BY <2>3, <4>2 DEF CommitJob, Write
      <4>4. OthersActive(doc[w]) => HasActiveJobs
        BY DEF OthersActive, HasActiveJobs
      <4> QED
        BY <1>4, <4>1, <4>2, <4>3, <4>4 DEF Agreed, Closed
    <3>3. CASE op[w] = "giveback" /\ w \notin overtaken
      <4>1. lifecycle' = lifecycle
        BY <1>4, <2>3, <3>1, <3>3 DEF CommitJob, Write
      <4>2. HasActiveJobs'
        BY <1>4, <2>3, <3>1, <3>3 DEF CommitJob, HasActiveJobs, Active
      <4>3. HasActiveJobs
        BY <1>4, <3>1, <3>3 DEF ClaimView, OwnsJob, HasActiveJobs, Active
      <4> QED
        BY <1>4, <4>1, <4>2, <4>3 DEF Agreed
    <3> QED
      BY <3>1, <3>2, <3>3
  <2>4. ASSUME NEW c \in Request, CommitOfficer(c) PROVE FALSE
    <3>1. lifecycle = seen[c] /\ lifecycle # "processing" /\ goal[c] = Target(op[c])
      BY <1>4, <2>4 DEF CommitOfficer, HeldView, OfficerView
    <3>2. lifecycle' # "processing"
      BY <2>4, <3>1 DEF CommitOfficer, Write, Target, Officer
    <3>3. HasActiveJobs' <=> HasActiveJobs
      BY <2>4 DEF CommitOfficer, HasActiveJobs
    <3> QED
      BY <1>4, <3>1, <3>2, <3>3 DEF Agreed
  <2>5. ASSUME NEW w \in Worker, NEW d \in Doc, Claim(w, d) PROVE FALSE
    <3>1. HasActiveJobs' <=> HasActiveJobs
      BY <2>5 DEF Claim, HasActiveJobs, Active
    <3> QED
      BY <1>4, <2>5, <3>1 DEF Claim, Agreed
  <2>6. ASSUME NEW w \in Worker, Recover(w) PROVE GivesUpLast
    <3>1. PICK stale \in SUBSET Doc, spent \in SUBSET Doc : RecoverJobs(w, stale, spent)
      BY <2>6 DEF Recover
    <3>2. HasActiveJobs /\ lifecycle' = lifecycle
      BY <3>1 DEF RecoverJobs, HasActiveJobs, Active
    <3> QED
      BY <1>4, <2>6, <3>2 DEF Agreed, GivesUpLast
  <2>7. \/ \E c \in Request : CommitRetry(c) \/ CommitOfficer(c)
        \/ \E c \in Request : \E s \in {"waiting", "settled"} : CommitUpload(c, s)
        \/ \E w \in Worker : CommitJob(w) \/ Recover(w) \/ \E d \in Doc : Claim(w, d)
        \/ lifecycle' = lifecycle /\ status' = status
    <3> DEFINE same == lifecycle' = lifecycle /\ status' = status
    <3>1. ASSUME NEW c \in Request, NEW d \in Doc, AskUpload(c, d) \/ AskRetry(c, d) PROVE same
      BY <3>1 DEF AskUpload, AskRetry, AskForDoc, Asked, dbVars
    <3>2. ASSUME NEW c \in Request, NEW o \in Officer, AskOfficer(c, o) PROVE same
      BY <3>2 DEF AskOfficer, AskForVersion, Asked, dbVars
    <3>3. ASSUME NEW c \in Request, AskUpdate(c) \/ CommitUpdate(c) \/ UpdateRefused(c) PROVE same
      BY <3>3 DEF AskUpdate, CommitUpdate, UpdateRefused, AskForVersion, Asked, dbVars
    <3>4. ASSUME NEW c \in Request, Insert(c) \/ Decide(c) \/ Refuse(c) PROVE same
      BY <3>4 DEF Insert, Decide, Refuse, dbVars
    <3>5. ASSUME NEW w \in Worker, Accept(w) \/ Superseded(w) \/ LookAround(w) PROVE same
      BY <3>5 DEF Accept, Superseded, LookAround, dbVars
    <3>6. ASSUME NEW w \in Worker, NEW o \in {"job", "giveback"}, Flush(w, o) PROVE same
      BY <3>6 DEF Flush, dbVars
    <3>7. ASSUME NEW c \in Session, Abort(c) PROVE same
      BY <3>7 DEF Abort
    <3>8. UNCHANGED vars => same
      BY DEF vars, dbVars
    <3> HIDE DEF same
    <3>9. \/ \E c \in Request : CommitRetry(c) \/ CommitOfficer(c)
          \/ \E c \in Request : \E s \in {"waiting", "settled"} : CommitUpload(c, s)
          \/ \E w \in Worker : CommitJob(w) \/ Recover(w) \/ \E d \in Doc : Claim(w, d)
          \/ same
      BY <1>4, <3>1, <3>2, <3>3, <3>4, <3>5, <3>6, <3>7, <3>8 DEF Next, RequestStep, WorkerStep
    <3> QED
      BY <3>9 DEF same
  <2>8. CASE lifecycle' = lifecycle /\ status' = status
    BY <1>4, <2>8 DEF Agreed, HasActiveJobs
  <2> QED
    BY <2>1, <2>2, <2>3, <2>4, <2>5, <2>6, <2>7, <2>8 DEF OvertakenEnds
<1>5. Known /\ [Next]_vars => [Agreed /\ ~Agreed' => OvertakenEnds \/ GivesUpLast]_vars
  BY <1>4
<1> QED
  BY <1>3, <1>5, PTL DEF Spec, DriftHasTwoCauses

=============================================================================
