------------------------- MODULE DocumentJobsProofs -------------------------
(***************************************************************************)
(* Proofs about DocumentJobs, for any number of workers, requests,         *)
(* documents, attempts, retries and claims.                                *)
(***************************************************************************)
EXTENDS DocumentJobs, TLAPS

(* What holds of a worker's own variables whatever the others do: it has a   *)
(* document exactly while it works, a renewal thread exactly while it reads   *)
(* or works, only a failure may be retried, and no step of its session waits. *)
SessionShape ==
    \A w \in Worker :
        /\ Working(w) <=> at[w] # 0
        /\ ~Working(w) => tok[w] = 0
        /\ renew[w] # "off" <=> pc[w] \in {"reading", "working"}
        /\ transient[w] => pc[w] \in {"done", "accepted"} /\ out[w] = "failed"
        /\ pc[w] = "accepted" => tries[w] > 0
        /\ \A s \in open[w] : mem[w][s] # "waiting"

(* What holds of the leases however they are overwritten: no token is in use *)
(* that was not given out, and a job that runs was claimed since it was last  *)
(* queued.                                                                   *)
LeaseWellFormed ==
    /\ \A d \in Doc : /\ token[d] <= claims[d]
                      /\ status[d] = "running" => token[d] # 0 /\ attempts[d] > 0
    /\ \A w \in Worker : Working(w) => tok[w] \in 1 .. claims[at[w]]

Inv == TypeOK /\ SessionShape /\ LeaseWellFormed

-----------------------------------------------------------------------------

(* The invariant holds of an empty system with idle workers. *)
THEOREM InitInv == Init => Inv
<1> SUFFICES ASSUME Init PROVE Inv
  OBVIOUS
<1>1. JobTypes /\ DocTypes
  BY BoundsAssumption DEF Init, JobTypes, DocTypes, NoSteps, StepStatus, Review
<1>2. SessionTypes
  BY DEF Init, SessionTypes, NoSteps, StepStatus, Settled, Review
<1>3. wants \in [Request -> Retry]
  BY DEF Init, Retry, NoRetry
<1>4. TypeOK
  BY <1>1, <1>2, <1>3, BoundsAssumption DEF Init, TypeOK, PC, Renewal
<1>5. SessionShape
  BY DEF Init, SessionShape, Working, NoSteps
<1>6. LeaseWellFormed
  BY DEF Init, LeaseWellFormed, Working
<1> QED
  BY <1>4, <1>5, <1>6 DEF Inv

(* Which steps change the rows of the database. *)

LEMMA RowsChange ==
    ASSUME [Next]_vars
    PROVE  \/ UNCHANGED <<jobVars, docVars>>
           \/ \E d \in Doc, k \in Kinds : Upload(d, k)
           \/ \E r \in Request : CommitRetry(r)
           \/ Tick
           \/ \E w \in Worker : \/ Recover(w) \/ (\E d \in Doc : Claim(w, d)) \/ Renewed(w)
                                \/ (\E r \in {"success", "partial_success"} : Extract(w, r))
                                \/ Settle(w)
<1>1. CASE UNCHANGED vars
  BY <1>1 DEF vars
<1>2. CASE UserStep \/ Tick
  BY <1>2 DEF UserStep, AskRetry, AbortRetry
<1>3. ASSUME NEW w \in Worker, WorkerStep(w),
             ~Recover(w), \A d \in Doc : ~Claim(w, d), ~Renewed(w),
             \A r \in {"success", "partial_success"} : ~Extract(w, r), ~Settle(w)
      PROVE  UNCHANGED <<jobVars, docVars>>
  BY <1>3 DEF WorkerStep, Progress, Renew, ReadChunk, NothingToClaim, OpenSource, EndOfSource,
     Validate, ParseMaterial, Classify, NoText, NothingLeft, Fail, Check, RenewalDies, Crash, Restart
<1> QED
  BY <1>1, <1>2, <1>3 DEF Next

-----------------------------------------------------------------------------
(* Types, one group of variables at a time. *)

LEMMA SameJobTypes == ASSUME JobTypes, UNCHANGED jobVars PROVE JobTypes'
  BY DEF JobTypes, jobVars

LEMMA SameDocTypes == ASSUME DocTypes, UNCHANGED docVars PROVE DocTypes'
  BY DEF DocTypes, docVars

LEMMA SameSessionTypes == ASSUME SessionTypes, UNCHANGED sessVars PROVE SessionTypes'
  BY DEF SessionTypes, sessVars

LEMMA SameUserTypes ==
    ASSUME wants \in [Request -> Retry], retries \in 0 .. MaxRetries, UNCHANGED userVars
    PROVE  wants' \in [Request -> Retry] /\ retries' \in 0 .. MaxRetries
  BY DEF userVars

LEMMA EndSessionTypes ==
    ASSUME SessionTypes, NEW w \in Worker, EndSession(w) PROVE SessionTypes'
<1>1. NoSteps \in [Step -> StepStatus]
  BY DEF NoSteps, StepStatus
<1> QED
  BY <1>1 DEF SessionTypes, EndSession, Settled, Review

LEMMA InSessionTypes ==
    ASSUME NEW w \in Worker, NEW S, NEW st \in StepStatus,
           mem \in [Worker -> [Step -> StepStatus]], InSession(w, S, st)
    PROVE  mem' \in [Worker -> [Step -> StepStatus]]
  BY DEF InSession

LEMMA InSessionDirty ==
    ASSUME NEW w \in Worker, NEW S \in SUBSET Step, NEW st,
           dirty \in [Worker -> SUBSET Step], InSession(w, S, st)
    PROVE  dirty' \in [Worker -> SUBSET Step]
  BY DEF InSession

LEMMA ThroughTypes ==
    ASSUME NEW w \in Worker, pc \in [Worker -> PC], renew \in [Worker -> Renewal], Through(w)
    PROVE  pc' \in [Worker -> PC] /\ renew' \in [Worker -> Renewal]
  BY DEF Through, PC, Renewal

LEMMA Outcomes ==
    /\ Parsed \subseteq Settled
    /\ Settled \subseteq Status /\ Status \subseteq StepStatus
    /\ {"waiting", "running"} \subseteq Status
  BY DEF Parsed, Settled, Active, Status, StepStatus

LEMMA InitialTypes ==
    ASSUME NEW k \in Kinds
    PROVE  /\ InitialStatus(k) \in {"waiting", "manual_handling", "failed"}
           /\ InitialSteps(k) \in [Step -> StepStatus]
  BY InputsAssumption DEF InitialStatus, InitialSteps, Kind, Step, Parse, Text, StepStatus,
     Status, Settled, Active

LEMMA UserTypes ==
    ASSUME TypeOK, UserStep PROVE TypeOK'
<1> USE DEF TypeOK
<1>1. ASSUME NEW d \in Doc, NEW k \in Kinds, Upload(d, k) PROVE TypeOK'
  <2>1. JobTypes'
    BY <1>1, InitialTypes, Outcomes DEF Upload, JobTypes, Settled
  <2>2. DocTypes'
    BY <1>1, InitialTypes, Outcomes DEF Upload, DocTypes, Settled, Review
  <2> QED
    BY <1>1, <2>1, <2>2, SameSessionTypes, SameUserTypes DEF Upload
<1>2. ASSUME NEW r \in Request, NEW d \in Doc, NEW sel \in Selections, AskRetry(r, d, sel)
      PROVE  TypeOK'
  <2>1. sel \subseteq Step
    BY InputsAssumption
  <2>2. {s \in WithText(sel) : step[d][s] # "waiting"} \subseteq Step
    BY <2>1 DEF WithText, Step
  <2>3. wants' \in [Request -> Retry]
    BY <1>2, <2>2 DEF AskRetry, Retry
  <2>4. retries' \in 0 .. MaxRetries
    BY <1>2, BoundsAssumption DEF AskRetry
  <2> QED
    BY <1>2, <2>3, <2>4, SameJobTypes, SameDocTypes, SameSessionTypes DEF AskRetry
<1>3. ASSUME NEW r \in Request, CommitRetry(r) PROVE TypeOK'
  <2> DEFINE d == wants[r].doc
  <2>1. d \in Doc
    BY <1>3 DEF CommitRetry, Retry
  <2>2. JobTypes'
    BY <1>3, <2>1, Outcomes DEF CommitRetry, JobTypes
  <2>3. step' \in [Doc -> [Step -> StepStatus]]
    BY <1>3, <2>1, Outcomes DEF CommitRetry, DocTypes
  <2>4. DocTypes'
    BY <1>3, <2>1, <2>3, Outcomes DEF CommitRetry, DocTypes, Review
  <2>5. NoRetry \in Retry
    BY DEF NoRetry, Retry
  <2> QED
    BY <1>3, <2>2, <2>4, <2>5, SameSessionTypes DEF CommitRetry
<1>4. ASSUME NEW r \in Request, AbortRetry(r) PROVE TypeOK'
  <2>1. NoRetry \in Retry
    BY DEF NoRetry, Retry
  <2> QED
    BY <1>4, <2>1, SameJobTypes, SameDocTypes, SameSessionTypes DEF AbortRetry
<1> QED
  BY <1>1, <1>2, <1>3, <1>4 DEF UserStep

LEMMA RecoverTypes ==
    ASSUME Inv, NEW w \in Worker, Recover(w) PROVE TypeOK'
<1> USE DEF TypeOK, Inv
<1>1. \A d \in Doc : RecoverTo(d) \in Status \cap StepStatus
  BY Outcomes DEF RecoverTo, Settled
<1>2. \A d \in Doc : Stale(d) /\ RecoverTo(d) = "waiting" => Backoff(attempts[d]) \in Nat
  BY BackoffAssumption, BoundsAssumption DEF Stale, RecoverTo, JobTypes, LeaseWellFormed
<1>3. status' \in [Doc -> Status \cup {"absent"}]
  BY <1>1 DEF Recover, JobTypes
<1>4. delay' \in [Doc -> Nat]
  BY <1>2 DEF Recover, JobTypes
<1>5. token' \in [Doc -> Nat] /\ age' \in [Doc -> 0 .. StaleAfter + 1]
  BY BoundsAssumption DEF Recover, JobTypes
<1>6. JobTypes'
  BY <1>3, <1>4, <1>5 DEF Recover, JobTypes
<1>7. step' \in [Doc -> [Step -> StepStatus]]
  BY <1>1 DEF Recover, DocTypes
<1>8. processing' \in [Doc -> Status \cup {"absent"}]
  BY <1>1 DEF Recover, DocTypes
<1>9. DocTypes'
  BY <1>7, <1>8 DEF Recover, DocTypes
<1>10. pc' \in [Worker -> PC]
  BY DEF Recover, PC
<1> QED
  BY <1>6, <1>9, <1>10, SameSessionTypes, SameUserTypes DEF Recover

LEMMA ClaimTypes ==
    ASSUME TypeOK, NEW w \in Worker, NEW d \in Doc, Claim(w, d) PROVE TypeOK'
<1> USE DEF TypeOK
<1>1. JobTypes'
  <2>1. status' \in [Doc -> Status \cup {"absent"}]
    BY Outcomes DEF Claim, JobTypes
  <2>2. attempts' \in [Doc -> Nat] /\ claims' \in [Doc -> Nat] /\ token' \in [Doc -> Nat]
    BY DEF Claim, NextToken, JobTypes
  <2>3. age' \in [Doc -> 0 .. StaleAfter + 1]
    BY BoundsAssumption DEF Claim, JobTypes
  <2> QED
    BY <2>1, <2>2, <2>3 DEF Claim, JobTypes
<1>2. step' \in [Doc -> [Step -> StepStatus]]
  BY Outcomes DEF Claim, DocTypes
<1>3. processing' \in [Doc -> Status \cup {"absent"}]
  BY Outcomes DEF Claim, DocTypes
<1>4. DocTypes'
  BY <1>2, <1>3 DEF Claim, DocTypes
<1>5. SessionTypes'
  BY <1>2 DEF Claim, NextToken, SessionTypes, JobTypes, DocTypes
<1> QED
  BY <1>1, <1>4, <1>5, SameUserTypes DEF Claim, PC

LEMMA SettlesToTypes ==
    ASSUME SessionTypes, NEW w \in Worker
    PROVE  /\ SettlesTo(w) \in Status
           /\ SettlesTo(w) \in Settled \/ (SettlesTo(w) = "waiting" /\ tries[w] < MaxAttempts)
  BY Outcomes DEF SettlesTo, WillRetry, SessionTypes

LEMMA SettleTypes ==
    ASSUME Inv, NEW w \in Worker, Settle(w) PROVE TypeOK'
<1> USE DEF TypeOK, Inv
<1> DEFINE d == at[w]
<1>1. d \in Doc
  BY DEF Settle, SessionShape, SessionTypes, Working
<1>2. WillRetry(w) => Backoff(tries[w]) \in Nat
  <2>1. tries[w] \in Nat /\ tries[w] > 0
    BY DEF Settle, SessionTypes, SessionShape
  <2>2. WillRetry(w) => tries[w] \in 1 .. MaxAttempts
    BY <2>1, BoundsAssumption DEF WillRetry
  <2> QED
    BY <2>2, BackoffAssumption
<1>3. JobTypes'
  <2>1. status' \in [Doc -> Status \cup {"absent"}]
    BY <1>1, SettlesToTypes DEF Settle, JobTypes
  <2>2. delay' \in [Doc -> Nat]
    BY <1>1, <1>2 DEF Settle, JobTypes
  <2>3. token' \in [Doc -> Nat] /\ age' \in [Doc -> 0 .. StaleAfter + 1]
    BY <1>1, BoundsAssumption DEF Settle, JobTypes
  <2> QED
    BY <2>1, <2>2, <2>3 DEF Settle, JobTypes
<1>4. step' \in [Doc -> [Step -> StepStatus]]
  BY <1>1, SettlesToTypes, Outcomes DEF Settle, DocTypes, SessionTypes
<1>5. output' \in [Doc -> Parsed \cup {"none"}] /\ review' \in [Doc -> Review]
  BY <1>1 DEF Settle, Shows, DocTypes, SessionTypes, Review
<1>6. processing' \in [Doc -> Status \cup {"absent"}]
  BY <1>1, SettlesToTypes DEF Settle, ShownAs, DocTypes
<1>7. DocTypes'
  BY <1>4, <1>5, <1>6 DEF DocTypes
<1>8. pc' \in [Worker -> PC] /\ renew' \in [Worker -> Renewal]
  BY DEF Settle, PC
<1> QED
  BY <1>3, <1>7, <1>8, EndSessionTypes, SameUserTypes DEF Settle

LEMMA PrivateTypes ==
    ASSUME TypeOK, SessionShape, NEW w \in Worker, WorkerStep(w),
           ~Recover(w), \A d \in Doc : ~Claim(w, d), ~Settle(w)
    PROVE  TypeOK'
<1> USE DEF TypeOK
<1>1. CASE NothingToClaim(w)
  BY <1>1, SameJobTypes, SameDocTypes, SameSessionTypes, SameUserTypes DEF NothingToClaim, PC
<1>2. CASE OpenSource(w)
  BY <1>2, SameJobTypes, SameDocTypes, SameSessionTypes, SameUserTypes DEF OpenSource, PC, Renewal
<1>3. CASE EndOfSource(w)
  BY <1>3, SameJobTypes, SameDocTypes, SameSessionTypes, SameUserTypes DEF EndOfSource, PC
<1>4. CASE Renewed(w)
  <2> 0 \in 0 .. StaleAfter + 1
    BY BoundsAssumption
  <2>1. JobTypes'
    BY <1>4 DEF Renewed, JobTypes
  <2>2. DocTypes' /\ SessionTypes'
    BY <1>4, SameDocTypes, SameSessionTypes DEF Renewed
  <2> QED
    BY <1>4, <2>1, <2>2, SameUserTypes DEF Renewed, Renewal
<1>5. CASE RenewalDies(w)
  BY <1>5, SameJobTypes, SameDocTypes, SameSessionTypes, SameUserTypes DEF RenewalDies, Renewal
<1>6. CASE Validate(w)
  <2>1. SessionTypes'
    BY <1>6, InSessionTypes, InSessionDirty, Outcomes DEF Validate, SessionTypes, Settled, Step
  <2> QED
    BY <1>6, <2>1, SameJobTypes, SameDocTypes, SameUserTypes DEF Validate
<1>7. ASSUME NEW r \in Parsed, ParseMaterial(w, r) PROVE TypeOK'
  <2>1. SessionTypes'
    <3>1. Todo(w, Parse) \in SUBSET Step
      BY DEF Todo, Step
    <3>2. mem' \in [Worker -> [Step -> StepStatus]]
      BY <1>7, InSessionTypes, Outcomes DEF ParseMaterial, SessionTypes
    <3>3. dirty' \in [Worker -> SUBSET Step]
      BY <1>7, <3>1, InSessionDirty DEF ParseMaterial, SessionTypes
    <3> QED
      BY <1>7, <3>2, <3>3, Outcomes DEF ParseMaterial, SessionTypes
  <2> QED
    BY <1>7, <2>1, SameJobTypes, SameDocTypes, SameUserTypes DEF ParseMaterial
<1>8. CASE Classify(w)
  <2>1. SessionTypes'
    BY <1>8, InSessionTypes, InSessionDirty, Outcomes DEF Classify, SessionTypes, Settled, Step, Text
  <2> QED
    BY <1>8, <2>1, SameJobTypes, SameDocTypes, SameUserTypes DEF Classify
<1>9. ASSUME NEW r \in {"success", "partial_success"}, Extract(w, r) PROVE TypeOK'
  <2>1. step' \in [Doc -> [Step -> StepStatus]]
    <3>1. mem[w] \in [Step -> StepStatus] /\ step \in [Doc -> [Step -> StepStatus]]
      BY DEF DocTypes, SessionTypes
    <3>2. ASSUME NEW d \in Doc
          PROVE  [s \in Step |-> IF s \in open[w] /\ mem[w][s] # "running" THEN mem[w][s]
                                 ELSE step[d][s]] \in [Step -> StepStatus]
      BY <3>1
    <3>3. step' = [step EXCEPT ![at[w]] = [s \in Step |->
             IF s \in open[w] /\ mem[w][s] # "running" THEN mem[w][s] ELSE step[at[w]][s]]]
      BY <1>9 DEF Extract
    <3> QED
      BY <3>1, <3>2, <3>3
  <2>2. DocTypes'
    BY <1>9, <2>1 DEF Extract, DocTypes, SessionTypes
  <2>3. SessionTypes'
    BY <1>9, Outcomes DEF Extract, SessionTypes, Settled
  <2> QED
    BY <1>9, <2>2, <2>3, SameJobTypes, SameUserTypes, ThroughTypes DEF Extract
<1>10. CASE NoText(w)
  <2>1. SessionTypes'
    BY <1>10 DEF NoText, SessionTypes
  <2> QED
    BY <1>10, <2>1, SameJobTypes, SameDocTypes, SameUserTypes, ThroughTypes DEF NoText
<1>11. CASE NothingLeft(w)
  BY <1>11, SameJobTypes, SameDocTypes, SameSessionTypes, SameUserTypes, ThroughTypes DEF NothingLeft
<1>12. ASSUME NEW e \in Raised(w), Fail(w, e) PROVE TypeOK'
  <2>1. e.outcome \in Settled /\ e.again \in BOOLEAN
    BY DEF Raised, Settled
  <2>2. SessionTypes'
    BY <1>12, <2>1 DEF Fail, SessionTypes
  <2> QED
    BY <1>12, <2>2, SameJobTypes, SameDocTypes, SameUserTypes, ThroughTypes DEF Fail
<1>13. CASE Check(w)
  <2>1. CASE Holds(w)
    <3>1. attempts[at[w]] \in Nat
      BY <2>1 DEF Holds, SessionShape, JobTypes, SessionTypes
    <3>2. SessionTypes'
      BY <1>13, <2>1, <3>1 DEF Check, SessionTypes
    <3> QED
      BY <1>13, <2>1, <3>2, SameJobTypes, SameDocTypes, SameUserTypes DEF Check, PC
  <2>2. CASE ~Holds(w)
    BY <1>13, <2>2, SameJobTypes, SameDocTypes, SameUserTypes, EndSessionTypes DEF Check, PC
  <2> QED
    BY <2>1, <2>2
<1>14. CASE Crash(w)
  BY <1>14, SameJobTypes, SameDocTypes, SameUserTypes, EndSessionTypes DEF Crash, PC, Renewal
<1>15. CASE Restart(w)
  BY <1>15, SameJobTypes, SameDocTypes, SameSessionTypes, SameUserTypes DEF Restart, PC
<1> HIDE DEF TypeOK
<1> QED
  BY <1>1, <1>2, <1>3, <1>4, <1>5, <1>6, <1>7, <1>8, <1>9, <1>10, <1>11, <1>12, <1>13, <1>14, <1>15
     DEF WorkerStep, Progress, Renew, ReadChunk

LEMMA TickTypes ==
    ASSUME TypeOK, Tick PROVE TypeOK'
<1>1. JobTypes'
  BY BoundsAssumption DEF Tick, TypeOK, JobTypes
<1> QED
  BY <1>1, SameDocTypes, SameSessionTypes, SameUserTypes DEF Tick, TypeOK

LEMMA TypeStep ==
    ASSUME Inv, Next PROVE TypeOK'
<1>1. ASSUME NEW w \in Worker, WorkerStep(w) PROVE TypeOK'
  BY <1>1, RecoverTypes, ClaimTypes, SettleTypes, PrivateTypes DEF Inv
<1> QED
  BY <1>1, UserTypes, TickTypes DEF Inv, Next

-----------------------------------------------------------------------------
(* The worker's own variables. *)

LEMMA SameSession ==
    ASSUME SessionShape, UNCHANGED <<pc, renew, sessVars>> PROVE SessionShape'
  BY DEF SessionShape, Working, sessVars

LEMMA InSessionShape ==
    ASSUME SessionTypes, SessionShape, NEW w \in Worker, NEW S, NEW st, st # "waiting",
           InSession(w, S, st)
    PROVE  \A v \in Worker : \A s \in open[v] : mem'[v][s] # "waiting"
  BY DEF SessionTypes, SessionShape, InSession

LEMMA SessionStep ==
    ASSUME Inv, Next PROVE SessionShape'
<1> USE DEF Inv, SessionShape, Working
<1>1. CASE UserStep
  BY <1>1, SameSession DEF UserStep, Upload, AskRetry, CommitRetry, AbortRetry
<1>2. CASE Tick
  BY <1>2, SameSession DEF Tick
<1> SUFFICES ASSUME NEW w \in Worker, WorkerStep(w) PROVE SessionShape'
  BY <1>1, <1>2 DEF Next
<1> USE DEF TypeOK, SessionTypes
<1>3. CASE Recover(w)
  BY <1>3 DEF Recover, sessVars
<1>4. ASSUME NEW d \in Doc, Claim(w, d) PROVE SessionShape'
  <2>1. d # 0
    BY BoundsAssumption DEF Doc
  <2>2. \A v \in Worker : \A s \in open'[v] : mem'[v][s] # "waiting"
    <3>1. /\ open' = [open EXCEPT ![w] = {s \in Step : step'[d][s] = "running"}]
          /\ mem' = [mem EXCEPT ![w] = step'[d]]
      BY <1>4 DEF Claim
    <3>2. \A s \in open'[w] : mem'[w][s] = "running"
      BY <3>1
    <3>3. \A v \in Worker \ {w} : open'[v] = open[v] /\ mem'[v] = mem[v]
      BY <3>1
    <3>4. \A v \in Worker \ {w} : \A s \in open[v] : mem[v][s] # "waiting"
      OBVIOUS
    <3>5. ASSUME NEW v \in Worker, NEW s \in open'[v] PROVE mem'[v][s] # "waiting"
      <4>1. CASE v = w
        BY <3>2, <3>5, <4>1
      <4>2. CASE v # w
        BY <3>3, <3>4, <3>5, <4>2
      <4> QED
        BY <4>1, <4>2
    <3> QED
      BY <3>5, Zenon
  <2>3. \A v \in Worker : Working(v)' <=> at'[v] # 0
    BY <1>4, <2>1 DEF Claim
  <2> QED
    BY <1>4, <2>2, <2>3 DEF Claim
<1>5. CASE NothingToClaim(w)
  BY <1>5 DEF NothingToClaim, sessVars
<1>6. CASE OpenSource(w)
  BY <1>6 DEF OpenSource, sessVars
<1>7. CASE EndOfSource(w)
  BY <1>7 DEF EndOfSource, sessVars
<1>8. CASE Renewed(w)
  BY <1>8 DEF Renewed, sessVars
<1>9. CASE RenewalDies(w)
  BY <1>9 DEF RenewalDies, sessVars
<1>10. CASE Validate(w)
  BY <1>10, InSessionShape DEF Validate
<1>11. ASSUME NEW r \in Parsed, ParseMaterial(w, r) PROVE SessionShape'
  BY <1>11, InSessionShape DEF ParseMaterial, Parsed
<1>12. CASE Classify(w)
  BY <1>12, InSessionShape DEF Classify
<1>13. ASSUME NEW r \in {"success", "partial_success"}, Extract(w, r) PROVE SessionShape'
  BY <1>13 DEF Extract, Through, ReadyForText
<1>14. CASE NoText(w)
  BY <1>14 DEF NoText, Through, ReadyForText
<1>15. CASE NothingLeft(w)
  BY <1>15 DEF NothingLeft, Through, ReadyForText, sessVars
<1>16. ASSUME NEW e \in Raised(w), Fail(w, e) PROVE SessionShape'
  BY <1>16 DEF Fail, Raised, Through
<1>17. CASE Check(w)
  <2>1. CASE Holds(w)
    <3>1. attempts[at[w]] > 0
      BY <2>1 DEF Holds, LeaseWellFormed
    <3>2. tries' = [tries EXCEPT ![w] = attempts[at[w]]]
      BY <1>17, <2>1 DEF Check
    <3>3. tries'[w] > 0 /\ \A v \in Worker \ {w} : tries'[v] = tries[v]
      BY <3>1, <3>2
    <3> QED
      BY <1>17, <2>1, <3>3 DEF Check
  <2>2. CASE ~Holds(w)
    BY <1>17, <2>2 DEF Check, EndSession
  <2> QED
    BY <2>1, <2>2
<1>18. CASE Settle(w)
  BY <1>18 DEF Settle, EndSession
<1>19. CASE Crash(w)
  BY <1>19 DEF Crash, EndSession
<1>20. CASE Restart(w)
  BY <1>20 DEF Restart, sessVars
<1> HIDE DEF Inv, SessionShape, Working, TypeOK, SessionTypes
<1> QED
  BY <1>3, <1>4, <1>5, <1>6, <1>7, <1>8, <1>9, <1>10, <1>11, <1>12, <1>13, <1>14, <1>15, <1>16,
     <1>17, <1>18, <1>19, <1>20 DEF WorkerStep, Progress, Renew, ReadChunk

-----------------------------------------------------------------------------
(* Leases. *)

\* Only a claim makes a worker work, and while it works nobody changes what it
\* works on.
LEMMA OnlyClaimGrants ==
    ASSUME Inv, [Next]_vars, \A w \in Worker, d \in Doc : ~Claim(w, d)
    PROVE  \A v \in Worker : Working(v)' => Working(v) /\ at'[v] = at[v] /\ tok'[v] = tok[v]
<1> USE DEF Inv, TypeOK, Working
<1>1. CASE UserStep
  BY <1>1 DEF UserStep, Upload, AskRetry, CommitRetry, AbortRetry, sessVars
<1>2. CASE Tick \/ UNCHANGED vars
  BY <1>2 DEF Tick, vars, sessVars
<1> SUFFICES ASSUME NEW w \in Worker, WorkerStep(w), NEW v \in Worker, Working(v)'
             PROVE  Working(v) /\ at'[v] = at[v] /\ tok'[v] = tok[v]
  BY <1>1, <1>2 DEF Next
<1>3. CASE Check(w) \/ Settle(w) \/ Crash(w)
  BY <1>3 DEF Check, Settle, Crash, EndSession, SessionTypes
<1>4. CASE Recover(w) \/ NothingToClaim(w) \/ OpenSource(w) \/ EndOfSource(w) \/ RenewalDies(w) \/ Restart(w)
  BY <1>4 DEF Recover, NothingToClaim, OpenSource, EndOfSource, RenewalDies, Restart, sessVars
<1>5. CASE Renewed(w)
  BY <1>5 DEF Renewed, sessVars
<1>6. CASE Validate(w) \/ Classify(w) \/ \E r \in Parsed : ParseMaterial(w, r)
  BY <1>6 DEF Validate, Classify, ParseMaterial
<1>7. CASE NoText(w) \/ NothingLeft(w) \/ \E e \in Raised(w) : Fail(w, e)
  BY <1>7 DEF NoText, NothingLeft, Fail, Through, ReadyForText, sessVars
<1>8. CASE \E r \in {"success", "partial_success"} : Extract(w, r)
  BY <1>8 DEF Extract, Through, ReadyForText
<1> HIDE DEF Inv, TypeOK, Working
<1> QED
  BY <1>3, <1>4, <1>5, <1>6, <1>7, <1>8 DEF WorkerStep, Progress, Renew, ReadChunk

\* Only a claim makes a job run, or changes the lease of one that does.
LEMMA LeaseRows ==
    ASSUME Inv, [Next]_vars, \A w \in Worker, d \in Doc : ~Claim(w, d)
    PROVE  /\ claims' = claims
           /\ \A d \in Doc :
                 /\ token'[d] \in {0, token[d]}
                 /\ status'[d] = "running" =>
                       status[d] = "running" /\ token'[d] = token[d] /\ attempts'[d] = attempts[d]
<1> USE DEF Inv, TypeOK
<1>1. CASE UNCHANGED <<jobVars, docVars>> \/ Tick
  BY <1>1 DEF jobVars, Tick
<1>2. ASSUME NEW d \in Doc, NEW k \in Kinds, Upload(d, k)
      PROVE  /\ UNCHANGED <<token, attempts, claims>>
             /\ \A e \in Doc : status'[e] = "running" => status[e] = "running"
  BY <1>2, InitialTypes DEF Upload, JobTypes
<1>3. ASSUME NEW r \in Request, CommitRetry(r)
      PROVE  /\ UNCHANGED <<token, claims>>
             /\ \A e \in Doc : status'[e] = "running" => status[e] = "running" /\ attempts'[e] = attempts[e]
  BY <1>3 DEF CommitRetry, JobTypes
<1>4. ASSUME NEW w \in Worker, Recover(w)
      PROVE  /\ UNCHANGED <<attempts, claims>>
             /\ \A e \in Doc : /\ token'[e] \in {0, token[e]}
                               /\ status'[e] = "running" => status[e] = "running" /\ token'[e] = token[e]
  BY <1>4 DEF Recover, RecoverTo, JobTypes
<1>5. ASSUME NEW w \in Worker, Settle(w)
      PROVE  /\ UNCHANGED <<attempts, claims>>
             /\ \A e \in Doc : /\ token'[e] \in {0, token[e]}
                               /\ status'[e] = "running" => status[e] = "running" /\ token'[e] = token[e]
  <2>1. SettlesTo(w) # "running"
    BY SettlesToTypes DEF Settled
  <2> QED
    BY <1>5, <2>1 DEF Settle, JobTypes
<1>6. ASSUME NEW w \in Worker, Renewed(w) PROVE UNCHANGED <<status, token, attempts, claims>>
  BY <1>6 DEF Renewed
<1>7. ASSUME NEW w \in Worker, NEW r \in {"success", "partial_success"}, Extract(w, r)
      PROVE  UNCHANGED <<status, token, attempts, claims>>
  BY <1>7 DEF Extract, jobVars
<1> HIDE DEF Inv, TypeOK
<1> QED
  BY <1>1, <1>2, <1>3, <1>4, <1>5, <1>6, <1>7, RowsChange

LEMMA LeaseStep ==
    ASSUME Inv, [Next]_vars PROVE LeaseWellFormed'
<1>1. ASSUME NEW w \in Worker, NEW d \in Doc, Claim(w, d) PROVE LeaseWellFormed'
  <2> USE DEF Inv, TypeOK
  <2>1. \A v \in Worker \ {w} : Working(v)' => Working(v) /\ at'[v] = at[v] /\ tok'[v] = tok[v]
    BY <1>1 DEF Claim, Working
  <2>2. at'[w] = d /\ tok'[w] = claims[d] + 1
    BY <1>1 DEF Claim, NextToken, SessionTypes
  <2>3. \A e \in Doc : claims'[e] = IF e = d THEN claims[e] + 1 ELSE claims[e]
    BY <1>1 DEF Claim, JobTypes
  <2>4. \A v \in Worker : Working(v) => at[v] \in Doc
    BY DEF SessionShape, SessionTypes
  <2>5. ASSUME NEW v \in Worker, Working(v)' PROVE tok'[v] \in 1 .. claims'[at'[v]]
    <3>1. CASE v = w
      BY <2>2, <2>3, <3>1 DEF JobTypes
    <3>2. CASE v # w
      <4>1. at[v] \in Doc /\ tok[v] \in 1 .. claims[at[v]]
        BY <2>1, <2>4, <2>5, <3>2 DEF LeaseWellFormed
      <4> QED
        BY <2>1, <2>3, <2>5, <3>2, <4>1 DEF JobTypes
    <3> QED
      BY <3>1, <3>2
  <2>6. \A e \in Doc : /\ token'[e] <= claims'[e]
                       /\ status'[e] = "running" => token'[e] # 0 /\ attempts'[e] > 0
    BY <1>1, <2>3 DEF Claim, NextToken, LeaseWellFormed, JobTypes
  <2> QED
    BY <2>5, <2>6 DEF LeaseWellFormed
<1>2. CASE \A w \in Worker, d \in Doc : ~Claim(w, d)
  <2>1. \A d \in Doc : token[d] \in Nat /\ claims[d] \in Nat
    BY DEF Inv, TypeOK, JobTypes
  <2> QED
    BY <1>2, <2>1, OnlyClaimGrants, LeaseRows DEF LeaseWellFormed, Inv
<1> QED
  BY <1>1, <1>2

LEMMA SameInv == ASSUME Inv, UNCHANGED vars PROVE TypeOK' /\ SessionShape'
  BY SameJobTypes, SameDocTypes, SameSessionTypes, SameUserTypes, SameSession
     DEF Inv, TypeOK, vars

\* The inductive invariant of DocumentJobs, on which every other proof rests.
THEOREM Invariance == Spec => []Inv
<1>1. Inv /\ [Next]_vars => Inv'
  BY TypeStep, SessionStep, LeaseStep, SameInv DEF Inv
<1> QED
  BY InitInv, <1>1, PTL DEF Spec

\* Every variable keeps its type, whatever is uploaded, retried, overwritten,
\* crashed or recovered.
THEOREM TypeCorrect == Spec => []TypeOK
<1>1. Inv => TypeOK
  BY DEF Inv
<1> QED
  BY Invariance, <1>1, PTL

-----------------------------------------------------------------------------
(* Who holds a job.                                                          *)

\* No two workers were given the same token of the same job.
TokensDiffer ==
    \A v, w \in Worker :
        v # w /\ Working(v) /\ Working(w) /\ at[v] = at[w] => tok[v] # tok[w]

LEMMA TokensStep ==
    ASSUME Inv, TokensDiffer, [Next]_vars PROVE TokensDiffer'
<1>1. ASSUME NEW w \in Worker, NEW d \in Doc, Claim(w, d) PROVE TokensDiffer'
  <2> USE DEF Inv, TypeOK, Working
  <2>1. \A v \in Worker \ {w} : Working(v)' => Working(v) /\ at'[v] = at[v] /\ tok'[v] = tok[v]
    BY <1>1 DEF Claim
  <2>2. at'[w] = d /\ tok'[w] = claims[d] + 1
    BY <1>1 DEF Claim, NextToken, SessionTypes
  <2>3. \A v \in Worker \ {w} : Working(v) /\ at[v] = d => tok[v] # claims[d] + 1
    BY DEF LeaseWellFormed, JobTypes
  <2> QED
    BY <2>1, <2>2, <2>3 DEF TokensDiffer
<1>2. CASE \A w \in Worker, d \in Doc : ~Claim(w, d)
  BY <1>2, OnlyClaimGrants DEF TokensDiffer
<1> QED
  BY <1>1, <1>2

LEMMA HoldersDiffer == ASSUME TokensDiffer PROVE ExclusiveHolder
  BY DEF TokensDiffer, ExclusiveHolder, Holds

\* Whatever lapses, crashes, is overwritten and is claimed again, at most one
\* worker passes the test with which finish_job and renew_claim begin.
THEOREM Exclusion == Spec => []ExclusiveHolder
<1>1. Init => TokensDiffer
  BY DEF Init, TokensDiffer, Working
<1>2. Inv /\ TokensDiffer /\ [Next]_vars => TokensDiffer'
  BY TokensStep
<1>3. TokensDiffer => ExclusiveHolder
  BY HoldersDiffer
<1> QED
  BY Invariance, <1>1, <1>2, <1>3, PTL DEF Spec

\* A claim that is over stays over: a worker holds its job after a step only if
\* it did before or has just claimed it, and the attempts are those it claimed.
LEMMA HeldBefore ==
    ASSUME Inv, [Next]_vars, NEW w \in Worker, Holds(w)', \A d \in Doc : ~Claim(w, d)
    PROVE  /\ Holds(w) /\ at'[w] = at[w] /\ at[w] \in Doc
           /\ attempts'[at[w]] = attempts[at[w]]
<1>1. CASE \A v \in Worker, d \in Doc : ~Claim(v, d)
  <2>1. Working(w) /\ at'[w] = at[w] /\ tok'[w] = tok[w]
    BY <1>1, OnlyClaimGrants DEF Holds
  <2>2. at[w] \in Doc
    BY <2>1 DEF Inv, TypeOK, SessionShape, SessionTypes
  <2> QED
    BY <1>1, <2>1, <2>2, LeaseRows DEF Holds
<1>2. ASSUME NEW v \in Worker, NEW d \in Doc, Claim(v, d), v # w
      PROVE  /\ Holds(w) /\ at'[w] = at[w] /\ at[w] \in Doc
             /\ attempts'[at[w]] = attempts[at[w]]
  <2> USE DEF Inv, TypeOK
  <2>1. Working(w) /\ at'[w] = at[w] /\ tok'[w] = tok[w]
    BY <1>2 DEF Claim, Holds, Working
  <2>2. at[w] \in Doc /\ tok[w] \in 1 .. claims[at[w]]
    BY <2>1 DEF SessionShape, SessionTypes, LeaseWellFormed
  <2>3. token'[d] = claims[d] + 1 /\ claims[d] \in Nat
    BY <1>2 DEF Claim, NextToken, JobTypes
  <2>4. at[w] # d
    BY <2>1, <2>2, <2>3 DEF Holds
  <2>5. UNCHANGED <<status[at[w]], token[at[w]], attempts[at[w]]>>
    BY <1>2, <2>2, <2>4 DEF Claim, JobTypes
  <2> QED
    BY <2>1, <2>2, <2>5 DEF Holds
<1> QED
  BY <1>1, <1>2

\* finish_job plans with the attempts of the claim it accepted.
TriesKnown == \A w \in Worker : pc[w] = "accepted" /\ Holds(w) => tries[w] = attempts[at[w]]

LEMMA TriesStep ==
    ASSUME Inv, TriesKnown, [Next]_vars PROVE TriesKnown'
<1> SUFFICES ASSUME NEW w \in Worker, pc'[w] = "accepted", Holds(w)'
             PROVE  tries'[w] = attempts'[at'[w]]
  BY DEF TriesKnown
<1>1. \A d \in Doc : ~Claim(w, d)
  BY DEF Claim, Inv, TypeOK
<1>2. Holds(w) /\ at'[w] = at[w] /\ at[w] \in Doc /\ attempts'[at[w]] = attempts[at[w]]
  BY <1>1, HeldBefore
<1>3. CASE Check(w)
  BY <1>2, <1>3 DEF Check, Inv, TypeOK, SessionTypes
<1>4. CASE ~Check(w)
  <2>1. pc[w] = "accepted" /\ tries'[w] = tries[w]
    <3> USE DEF Inv, TypeOK, SessionTypes
    <3>1. CASE UserStep \/ Tick \/ UNCHANGED vars
      BY <3>1 DEF UserStep, Upload, AskRetry, CommitRetry, AbortRetry, Tick, vars, sessVars
    <3>2. ASSUME NEW v \in Worker, WorkerStep(v) PROVE pc[w] = "accepted" /\ tries'[w] = tries[w]
      <4>1. CASE Check(v) \/ Settle(v) \/ Crash(v)
        BY <1>4, <4>1 DEF Check, Settle, Crash, EndSession
      <4>2. CASE \E d \in Doc : Claim(v, d)
        BY <1>1, <4>2 DEF Claim
      <4>3. CASE \/ Recover(v) \/ NothingToClaim(v) \/ OpenSource(v) \/ EndOfSource(v)
                 \/ Renewed(v) \/ RenewalDies(v) \/ Restart(v)
        BY <4>3 DEF Recover, NothingToClaim, OpenSource, EndOfSource, Renewed, RenewalDies, Restart, sessVars
      <4>4. CASE \/ Validate(v) \/ Classify(v) \/ (\E r \in Parsed : ParseMaterial(v, r))
                 \/ NoText(v) \/ NothingLeft(v) \/ (\E e \in Raised(v) : Fail(v, e))
                 \/ \E r \in {"success", "partial_success"} : Extract(v, r)
        BY <4>4 DEF Validate, Classify, ParseMaterial, NoText, NothingLeft, Fail, Extract, Through, sessVars
      <4> QED
        BY <3>2, <4>1, <4>2, <4>3, <4>4 DEF WorkerStep, Progress, Renew, ReadChunk
    <3> QED
      BY <3>1, <3>2 DEF Next
  <2> QED
    BY <1>2, <2>1 DEF TriesKnown
<1> QED
  BY <1>3, <1>4

LEMMA TriesInvariance == Spec => []TriesKnown
<1>1. Init => TriesKnown
  BY DEF Init, TriesKnown
<1>2. Inv /\ TriesKnown /\ [Next]_vars => TriesKnown'
  BY TriesStep
<1> QED
  BY Invariance, <1>1, <1>2, PTL DEF Spec

\* What Overwritten leaves: a retry that finds what it had read, and a worker
\* whose claim is still in force.
LEMMA RetryInTime ==
    ASSUME Inv, NEW r \in Request, CommitRetry(r), ~Overwritten(wants[r].doc)
    PROVE  LET d == wants[r].doc
           IN  /\ d \in Doc /\ status[d] \in Settled
               /\ attempts[d] # 0 => wants[r].tried
               /\ review[d] # "not_ready" => wants[r].offered
<1>1. wants[r].doc \in Doc
  BY DEF CommitRetry, Inv, TypeOK, Retry
<1> QED
  BY <1>1 DEF Overwritten, OvertakenRetry

LEMMA SettleInTime ==
    ASSUME Inv, TriesKnown, NEW w \in Worker, Settle(w), ~Overwritten(at[w])
    PROVE  /\ at[w] \in Doc /\ Holds(w)
           /\ tries[w] = attempts[at[w]]
<1>1. at[w] \in Doc /\ pc[w] = "accepted"
  BY DEF Settle, Inv, TypeOK, SessionShape, SessionTypes, Working
<1>2. Holds(w)
  BY <1>1 DEF Overwritten, OvertakenWorker
<1> QED
  BY <1>1, <1>2 DEF TriesKnown

-----------------------------------------------------------------------------
(* Leases end in order, unless they are overwritten.                         *)

LEMMA LeaseOrderStep ==
    ASSUME Inv, TriesKnown, [Next]_vars, NEW d \in Doc, LeaseInOrder(d), ~Overwritten(d)
    PROVE  LeaseInOrder(d)'
<1> USE DEF Inv, TypeOK
<1> DEFINE Order == /\ token'[d] # 0 => status'[d] = "running"
                    /\ status'[d] \in {"absent", "waiting"} => attempts'[d] < MaxAttempts
<1> SUFFICES Order
  BY DEF LeaseInOrder
<1>1. /\ token[d] # 0 => status[d] = "running"
      /\ status[d] \in {"absent", "waiting"} => attempts[d] < MaxAttempts
  BY DEF LeaseInOrder
<1>2. CASE UNCHANGED <<jobVars, docVars>> \/ Tick
  BY <1>1, <1>2 DEF jobVars, Tick
<1>3. ASSUME NEW e \in Doc, NEW k \in Kinds, Upload(e, k) PROVE Order
  BY <1>1, <1>3 DEF Upload, JobTypes
<1>4. ASSUME NEW r \in Request, CommitRetry(r) PROVE Order
  <2>1. CASE wants[r].doc = d
    <3>1. status[d] \in Settled /\ (attempts[d] # 0 => wants[r].tried)
      BY <1>4, <2>1, RetryInTime
    <3>2. token[d] = 0
      BY <1>1, <3>1 DEF Settled
    <3>3. attempts'[d] = 0
      BY <1>4, <2>1, <3>1 DEF CommitRetry, JobTypes
    <3> QED
      BY <1>4, <3>2, <3>3, BoundsAssumption DEF CommitRetry
  <2>2. CASE wants[r].doc # d
    BY <1>1, <1>4, <2>2 DEF CommitRetry, JobTypes
  <2> QED
    BY <2>1, <2>2
<1> SUFFICES ASSUME NEW w \in Worker,
                    \/ Recover(w) \/ (\E e \in Doc : Claim(w, e)) \/ Renewed(w)
                    \/ (\E r \in {"success", "partial_success"} : Extract(w, r))
                    \/ Settle(w)
             PROVE  Order
  BY <1>2, <1>3, <1>4, RowsChange
<1>5. CASE Recover(w)
  BY <1>1, <1>5, BoundsAssumption DEF Recover, RecoverTo, Stale, JobTypes
<1>6. ASSUME NEW e \in Doc, Claim(w, e) PROVE Order
  BY <1>1, <1>6 DEF Claim, JobTypes
<1>7. CASE Settle(w)
  <2>1. CASE at[w] = d
    <3>1. tries[w] = attempts[d]
      BY <1>7, <2>1, SettleInTime
    <3> QED
      BY <1>7, <2>1, <3>1, SettlesToTypes DEF Settle, JobTypes, Settled
  <2>2. CASE at[w] # d
    BY <1>1, <1>7, <2>2 DEF Settle, JobTypes
  <2> QED
    BY <2>1, <2>2
<1>8. CASE Renewed(w)
  BY <1>1, <1>8 DEF Renewed
<1>9. CASE \E r \in {"success", "partial_success"} : Extract(w, r)
  BY <1>1, <1>9 DEF Extract, jobVars
<1> QED
  BY <1>5, <1>6, <1>7, <1>8, <1>9

\* A job keeps no token when it stops running and is given up when its attempts
\* are used, whoever claims, recovers, finishes and retries it: only a retry or
\* a worker overtaken between its look and its commit breaks that.
THEOREM LeasesKept == Spec => OnlyOverwritesBreakLeases
<1>1. Inv /\ TriesKnown /\ [Next]_vars =>
         [\A d \in Doc : LeaseInOrder(d) /\ ~LeaseInOrder(d)' => Overwritten(d)]_vars
  BY LeaseOrderStep
<1> QED
  BY Invariance, TriesInvariance, <1>1, PTL DEF Spec, OnlyOverwritesBreakLeases

-----------------------------------------------------------------------------
(* The renewal thread.                                                       *)

\* As long as its worker holds the job, an armed renewal thread keeps the lease
\* young.
ArmedStaysFresh ==
    \A w \in Worker : renew[w] = "armed" /\ Holds(w) => age[at[w]] <= RenewEvery

\* What the steps do to the age of a lease.
LEMMA Ages ==
    ASSUME Inv, [Next]_vars, ~Tick, NEW d \in Doc
    PROVE  age'[d] \in {0, age[d]}
<1> USE DEF Inv, TypeOK
<1>1. CASE UNCHANGED <<jobVars, docVars>>
  BY <1>1 DEF jobVars
<1>2. ASSUME NEW e \in Doc, NEW k \in Kinds, Upload(e, k) PROVE age' = age
  BY <1>2 DEF Upload
<1>3. ASSUME NEW r \in Request, CommitRetry(r) PROVE age' = age
  BY <1>3 DEF CommitRetry
<1>4. ASSUME NEW w \in Worker,
             \/ Recover(w) \/ (\E e \in Doc : Claim(w, e)) \/ Renewed(w)
             \/ (\E r \in {"success", "partial_success"} : Extract(w, r)) \/ Settle(w)
      PROVE  age'[d] \in {0, age[d]}
  BY <1>4 DEF Recover, Claim, Renewed, Extract, Settle, jobVars, JobTypes
<1> QED
  BY <1>1, <1>2, <1>3, <1>4, RowsChange

\* A thread becomes armed only by renewing the lease.
LEMMA Arming ==
    ASSUME Inv, [Next]_vars, NEW w \in Worker, renew'[w] = "armed", renew[w] # "armed"
    PROVE  at'[w] = at[w] /\ age'[at[w]] = 0
<1> USE DEF Inv, TypeOK
<1>1. UserStep \/ Tick \/ UNCHANGED vars => renew' = renew
  BY DEF UserStep, Upload, AskRetry, CommitRetry, AbortRetry, Tick, vars
<1> SUFFICES ASSUME NEW v \in Worker, WorkerStep(v) PROVE at'[w] = at[w] /\ age'[at[w]] = 0
  BY <1>1 DEF Next
<1>2. CASE Renewed(v)
  <2>1. v = w
    BY <1>2 DEF Renewed
  <2>2. at[w] \in Doc
    BY <1>2, <2>1 DEF Renewed, Holds, SessionShape, SessionTypes
  <2> QED
    BY <1>2, <2>1, <2>2 DEF Renewed, sessVars, JobTypes
<1>3. CASE ~Renewed(v)
  <2>1. CASE \/ Recover(v) \/ NothingToClaim(v) \/ (\E d \in Doc : Claim(v, d)) \/ OpenSource(v)
             \/ EndOfSource(v) \/ RenewalDies(v) \/ Check(v) \/ Settle(v) \/ Crash(v) \/ Restart(v)
    BY <2>1 DEF Recover, NothingToClaim, Claim, OpenSource, EndOfSource, RenewalDies, Check, Settle,
       Crash, Restart
  <2>2. CASE \/ Validate(v) \/ Classify(v) \/ (\E r \in Parsed : ParseMaterial(v, r))
             \/ NoText(v) \/ NothingLeft(v) \/ (\E e \in Raised(v) : Fail(v, e))
             \/ \E r \in {"success", "partial_success"} : Extract(v, r)
    BY <2>2 DEF Validate, Classify, ParseMaterial, NoText, NothingLeft, Fail, Extract, Through
  <2> QED
    BY <1>3, <2>1, <2>2 DEF WorkerStep, Progress, Renew, ReadChunk
<1> QED
  BY <1>2, <1>3

LEMMA FreshStep ==
    ASSUME Inv, ArmedStaysFresh, [Next]_vars PROVE ArmedStaysFresh'
<1> SUFFICES ASSUME NEW w \in Worker, renew'[w] = "armed", Holds(w)'
             PROVE  age'[at'[w]] <= RenewEvery
  BY DEF ArmedStaysFresh
<1>1. CASE renew[w] # "armed"
  BY <1>1, Arming, BoundsAssumption
<1>2. CASE renew[w] = "armed"
  <2>1. \A d \in Doc : ~Claim(w, d)
    BY <1>2 DEF Claim, Inv, TypeOK, SessionShape
  <2>2. Holds(w) /\ at'[w] = at[w] /\ at[w] \in Doc
    BY <2>1, HeldBefore
  <2>3. age[at[w]] \in Nat /\ age[at[w]] <= RenewEvery
    BY <1>2, <2>2 DEF ArmedStaysFresh, Inv, TypeOK, JobTypes
  <2>4. CASE Tick
    <3>1. age[at[w]] < RenewEvery
      BY <1>2, <2>2, <2>4 DEF Tick
    <3>2. age'[at[w]] \in {age[at[w]], age[at[w]] + 1}
      BY <2>2, <2>4 DEF Tick
    <3> QED
      BY <2>2, <2>3, <3>1, <3>2, BoundsAssumption
  <2>5. CASE ~Tick
    BY <2>2, <2>3, <2>5, Ages, BoundsAssumption
  <2> QED
    BY <2>4, <2>5
<1> QED
  BY <1>1, <1>2

LEMMA FreshInvariance == Spec => []ArmedStaysFresh
<1>1. Init => ArmedStaysFresh
  BY DEF Init, ArmedStaysFresh
<1>2. Inv /\ ArmedStaysFresh /\ [Next]_vars => ArmedStaysFresh'
  BY FreshStep
<1> QED
  BY Invariance, <1>1, <1>2, PTL DEF Spec

LEMMA ArmedStep ==
    ASSUME Inv, ExclusiveHolder, TriesKnown, ArmedStaysFresh, [Next]_vars,
           NEW w \in Worker, renew[w] = "armed", Holds(w), renew'[w] = "armed",
           ~Overwritten(at[w])
    PROVE  Holds(w)'
<1> USE DEF Inv, TypeOK
<1> DEFINE d == at[w]
<1>1. d \in Doc /\ pc[w] \in {"reading", "working"} /\ status[d] = "running"
  BY DEF Holds, SessionShape, SessionTypes
<1>2. ~Stale(d)
  BY <1>1, BoundsAssumption, RenewalAssumption DEF ArmedStaysFresh, Stale, JobTypes
<1>3. status'[d] = "running" /\ token'[d] = token[d]
  <2>1. CASE UNCHANGED <<jobVars, docVars>> \/ Tick
    BY <1>1, <2>1 DEF jobVars, Tick
  <2>2. ASSUME NEW e \in Doc, NEW k \in Kinds, Upload(e, k)
        PROVE  status'[d] = "running" /\ token'[d] = token[d]
    BY <1>1, <2>2 DEF Upload, JobTypes
  <2>3. ASSUME NEW r \in Request, CommitRetry(r)
        PROVE  status'[d] = "running" /\ token'[d] = token[d]
    <3>1. wants[r].doc # d
      BY <1>1, <2>3, RetryInTime DEF Settled
    <3> QED
      BY <1>1, <2>3, <3>1 DEF CommitRetry, JobTypes
  <2> SUFFICES ASSUME NEW v \in Worker,
                      \/ Recover(v) \/ (\E e \in Doc : Claim(v, e)) \/ Renewed(v)
                      \/ (\E r \in {"success", "partial_success"} : Extract(v, r))
                      \/ Settle(v)
               PROVE  status'[d] = "running" /\ token'[d] = token[d]
    BY <2>1, <2>2, <2>3, RowsChange
  <2>4. CASE Recover(v)
    BY <1>1, <1>2, <2>4 DEF Recover
  <2>5. ASSUME NEW e \in Doc, Claim(v, e) PROVE status'[d] = "running" /\ token'[d] = token[d]
    BY <1>1, <2>5 DEF Claim, Claimable, JobTypes
  <2>6. CASE Renewed(v)
    BY <1>1, <2>6 DEF Renewed
  <2>7. CASE \E r \in {"success", "partial_success"} : Extract(v, r)
    BY <1>1, <2>7 DEF Extract, jobVars
  <2>8. CASE Settle(v)
    <3>1. v # w
      BY <1>1, <2>8 DEF Settle
    <3>2. at[v] # d
      BY <2>8, <3>1, SettleInTime DEF ExclusiveHolder
    <3> QED
      BY <1>1, <2>8, <3>2 DEF Settle, JobTypes
  <2> QED
    BY <2>4, <2>5, <2>6, <2>7, <2>8
<1>4. pc'[w] \in {"reading", "working"} /\ at'[w] = at[w] /\ tok'[w] = tok[w]
  <2>1. CASE UserStep \/ Tick \/ UNCHANGED vars
    BY <1>1, <2>1 DEF UserStep, Upload, AskRetry, CommitRetry, AbortRetry, Tick, vars, sessVars
  <2> SUFFICES ASSUME NEW v \in Worker, WorkerStep(v)
               PROVE  pc'[w] \in {"reading", "working"} /\ at'[w] = at[w] /\ tok'[w] = tok[w]
    BY <2>1 DEF Next
  <2>2. CASE Check(v) \/ Settle(v) \/ Crash(v) \/ \E e \in Doc : Claim(v, e)
    BY <1>1, <2>2 DEF Check, Settle, Crash, Claim, EndSession, SessionTypes
  <2>3. CASE \/ Recover(v) \/ NothingToClaim(v) \/ OpenSource(v) \/ EndOfSource(v)
             \/ Renewed(v) \/ RenewalDies(v) \/ Restart(v)
    BY <1>1, <2>3 DEF Recover, NothingToClaim, OpenSource, EndOfSource, Renewed, RenewalDies, Restart,
       sessVars
  <2>4. CASE \/ Validate(v) \/ Classify(v) \/ (\E r \in Parsed : ParseMaterial(v, r))
    BY <1>1, <2>4 DEF Validate, Classify, ParseMaterial
  <2>5. CASE \/ NoText(v) \/ NothingLeft(v) \/ (\E e \in Raised(v) : Fail(v, e))
             \/ \E r \in {"success", "partial_success"} : Extract(v, r)
    BY <1>1, <2>5 DEF NoText, NothingLeft, Fail, Extract, Through, sessVars
  <2> QED
    BY <2>2, <2>3, <2>4, <2>5 DEF WorkerStep, Progress, Renew, ReadChunk
<1> QED
  BY <1>1, <1>3, <1>4 DEF Holds, Working

\* A live renewal thread keeps its worker the job, however long it takes: only
\* an overtaken retry or worker takes the job away.
THEOREM ArmedKept == Spec => OnlyOverwritesTakeArmed
<1>1. Inv /\ ExclusiveHolder /\ TriesKnown /\ ArmedStaysFresh /\ [Next]_vars =>
         [\A w \in Worker :
             renew[w] = "armed" /\ Holds(w) /\ renew'[w] = "armed" /\ ~Holds(w)' =>
                 Overwritten(at[w])]_vars
  BY ArmedStep
<1> QED
  BY Invariance, Exclusion, TriesInvariance, FreshInvariance, <1>1, PTL
     DEF Spec, OnlyOverwritesTakeArmed

-----------------------------------------------------------------------------
(* Steps and documents follow their jobs.                                    *)

LEMMA InitialStepsFollow ==
    ASSUME NEW k \in Kinds, NEW s \in Step, InitialSteps(k)[s] \in Active
    PROVE  InitialSteps(k)[s] = InitialStatus(k)
  BY InputsAssumption DEF InitialStatus, InitialSteps, Kind, Step, Parse, Text, Active

\* A status the session has settled neither waits nor runs, whoever holds the
\* job by the time it reaches the database.
LEMMA SettledInSession ==
    ASSUME SessionShape, NEW w \in Worker, NEW s \in open[w], mem[w][s] # "running"
    PROVE  mem[w][s] \notin Active
  BY DEF SessionShape, Active

LEMMA StepsStep ==
    ASSUME Inv, TriesKnown, [Next]_vars, NEW d \in Doc, StepsFollow(d), ~Overwritten(d)
    PROVE  StepsFollow(d)'
<1> USE DEF Inv, TypeOK
<1> SUFFICES ASSUME NEW s \in Step, step'[d][s] \in Active PROVE step'[d][s] = status'[d]
  BY DEF StepsFollow
<1>1. step[d][s] \in Active => step[d][s] = status[d]
  BY DEF StepsFollow
<1>2. CASE UNCHANGED <<jobVars, docVars>> \/ Tick
  BY <1>1, <1>2 DEF jobVars, docVars, Tick
<1>3. ASSUME NEW e \in Doc, NEW k \in Kinds, Upload(e, k) PROVE step'[d][s] = status'[d]
  BY <1>1, <1>3, InitialStepsFollow DEF Upload, JobTypes, DocTypes
<1>4. ASSUME NEW r \in Request, CommitRetry(r) PROVE step'[d][s] = status'[d]
  <2>1. CASE wants[r].doc = d
    <3>1. step[d][s] \notin Active
      BY <1>1, <1>4, <2>1, RetryInTime DEF Settled, Active
    <3> QED
      BY <1>4, <2>1, <3>1 DEF CommitRetry, JobTypes, DocTypes
  <2>2. CASE wants[r].doc # d
    BY <1>1, <1>4, <2>2 DEF CommitRetry, JobTypes, DocTypes
  <2> QED
    BY <2>1, <2>2
<1> SUFFICES ASSUME NEW w \in Worker,
                    \/ Recover(w) \/ (\E e \in Doc : Claim(w, e)) \/ Renewed(w)
                    \/ (\E r \in {"success", "partial_success"} : Extract(w, r))
                    \/ Settle(w)
             PROVE  step'[d][s] = status'[d]
  BY <1>2, <1>3, <1>4, RowsChange
<1>5. CASE Recover(w)
  BY <1>1, <1>5 DEF Recover, Stale, Active, JobTypes, DocTypes
<1>6. ASSUME NEW e \in Doc, Claim(w, e) PROVE step'[d][s] = status'[d]
  BY <1>1, <1>6 DEF Claim, Claimable, ClaimedSteps, JobTypes, DocTypes, Active
<1>7. CASE Settle(w)
  <2>1. CASE at[w] = d
    <3>1. status[d] = "running"
      BY <1>7, <2>1, SettleInTime DEF Holds
    <3>2. s \in Flushed(w) => mem[w][s] \notin Active
      BY SettledInSession DEF Flushed
    <3>3. step'[d][s] = IF s \in Flushed(w) THEN mem[w][s]
                        ELSE IF step[d][s] = "running" THEN SettlesTo(w) ELSE step[d][s]
      BY <1>7, <2>1 DEF Settle, DocTypes
    <3>4. status'[d] = SettlesTo(w)
      BY <1>7, <2>1 DEF Settle, JobTypes
    <3> QED
      BY <1>1, <3>1, <3>2, <3>3, <3>4
  <2>2. CASE at[w] # d
    BY <1>1, <1>7, <2>2 DEF Settle, JobTypes, DocTypes
  <2> QED
    BY <2>1, <2>2
<1>8. CASE Renewed(w)
  BY <1>1, <1>8 DEF Renewed, docVars
<1>9. ASSUME NEW r \in {"success", "partial_success"}, Extract(w, r) PROVE step'[d][s] = status'[d]
  <2>1. step'[d][s] = step[d][s] \/ \E t \in open[w] : t = s /\ mem[w][t] # "running" /\ step'[d][s] = mem[w][t]
    BY <1>9 DEF Extract, DocTypes
  <2>2. step'[d][s] = step[d][s]
    BY <2>1, SettledInSession
  <2> QED
    BY <1>1, <1>9, <2>2 DEF Extract, jobVars
<1> QED
  BY <1>5, <1>6, <1>7, <1>8, <1>9

\* The steps shown for a material tell the same story as its job, although
\* superseded workers write them without looking at their token, unless a
\* retry or a worker was overtaken.
THEOREM StepsKept == Spec => OnlyOverwritesSplitSteps
<1>1. Inv /\ TriesKnown /\ [Next]_vars =>
         [\A d \in Doc : StepsFollow(d) /\ ~StepsFollow(d)' => Overwritten(d)]_vars
  BY StepsStep
<1> QED
  BY Invariance, TriesInvariance, <1>1, PTL DEF Spec, OnlyOverwritesSplitSteps

LEMMA MirrorStep ==
    ASSUME Inv, DocumentMirrorsJob, [Next]_vars PROVE DocumentMirrorsJob'
<1> USE DEF Inv, TypeOK
<1> SUFFICES ASSUME NEW d \in Doc PROVE processing'[d] = status'[d]
  BY DEF DocumentMirrorsJob
<1>1. processing[d] = status[d]
  BY DEF DocumentMirrorsJob
<1>2. CASE UNCHANGED <<jobVars, docVars>> \/ Tick
  BY <1>1, <1>2 DEF jobVars, docVars, Tick
<1>3. ASSUME NEW e \in Doc, NEW k \in Kinds, Upload(e, k) PROVE processing'[d] = status'[d]
  BY <1>1, <1>3 DEF Upload, JobTypes, DocTypes
<1>4. ASSUME NEW r \in Request, CommitRetry(r) PROVE processing'[d] = status'[d]
  BY <1>1, <1>4 DEF CommitRetry, JobTypes, DocTypes
<1>5. ASSUME NEW w \in Worker, Recover(w) PROVE processing'[d] = status'[d]
  BY <1>1, <1>5 DEF Recover
<1>6. ASSUME NEW w \in Worker, NEW e \in Doc, Claim(w, e) PROVE processing'[d] = status'[d]
  BY <1>1, <1>6 DEF Claim, JobTypes, DocTypes
<1>7. ASSUME NEW w \in Worker, Settle(w) PROVE processing'[d] = status'[d]
  BY <1>1, <1>7 DEF Settle, ShownAs, JobTypes, DocTypes
<1>8. ASSUME NEW w \in Worker, Renewed(w) PROVE processing'[d] = status'[d]
  BY <1>1, <1>8 DEF Renewed, docVars
<1>9. ASSUME NEW w \in Worker, NEW r \in {"success", "partial_success"}, Extract(w, r)
      PROVE  processing'[d] = status'[d]
  BY <1>1, <1>9 DEF Extract, jobVars
<1> QED
  BY <1>2, <1>3, <1>4, <1>5, <1>6, <1>7, <1>8, <1>9, RowsChange

\* What a document shows of its processing is its job, overwritten or not.
THEOREM MirrorsJob == Spec => []DocumentMirrorsJob
<1>1. Init => DocumentMirrorsJob
  BY DEF Init, DocumentMirrorsJob
<1>2. Inv /\ DocumentMirrorsJob /\ [Next]_vars => DocumentMirrorsJob'
  BY MirrorStep
<1> QED
  BY Invariance, <1>1, <1>2, PTL DEF Spec

LEMMA OfferStep ==
    ASSUME Inv, TriesKnown, [Next]_vars, NEW d \in Doc, ReviewFollows(d), ~Overwritten(d)
    PROVE  ReviewFollows(d)'
<1> USE DEF Inv, TypeOK
<1> SUFFICES ASSUME review'[d] = "pending_review" PROVE status'[d] \in Settled
  BY DEF ReviewFollows
<1>1. review[d] = "pending_review" => status[d] \in Settled
  BY DEF ReviewFollows
<1>2. CASE UNCHANGED <<jobVars, docVars>> \/ Tick
  BY <1>1, <1>2 DEF jobVars, docVars, Tick
<1>3. ASSUME NEW e \in Doc, NEW k \in Kinds, Upload(e, k) PROVE status'[d] \in Settled
  <2>1. InitialStatus(k) = "waiting" \/ InitialStatus(k) \in Settled
    BY InitialTypes DEF Settled
  <2> QED
    BY <1>1, <1>3, <2>1 DEF Upload, JobTypes, DocTypes
<1>4. ASSUME NEW r \in Request, CommitRetry(r) PROVE status'[d] \in Settled
  <2>1. CASE wants[r].doc = d
    <3>1. review[d] # "not_ready" => wants[r].offered
      BY <1>4, <2>1, RetryInTime
    <3>2. review'[d] = "not_ready"
      BY <1>4, <2>1, <3>1 DEF CommitRetry, DocTypes, Review
    <3> QED
      BY <3>2
  <2>2. CASE wants[r].doc # d
    BY <1>1, <1>4, <2>2 DEF CommitRetry, JobTypes, DocTypes
  <2> QED
    BY <2>1, <2>2
<1> SUFFICES ASSUME NEW w \in Worker,
                    \/ Recover(w) \/ (\E e \in Doc : Claim(w, e)) \/ Renewed(w)
                    \/ (\E r \in {"success", "partial_success"} : Extract(w, r))
                    \/ Settle(w)
             PROVE  status'[d] \in Settled
  BY <1>2, <1>3, <1>4, RowsChange
<1>5. CASE Recover(w)
  BY <1>1, <1>5 DEF Recover, Stale, Settled
<1>6. ASSUME NEW e \in Doc, Claim(w, e) PROVE status'[d] \in Settled
  BY <1>1, <1>6 DEF Claim, Claimable, Settled, JobTypes
<1>7. CASE Settle(w)
  <2>1. CASE at[w] = d
    <3>1. review[d] # "pending_review"
      BY <1>1, <1>7, <2>1, SettleInTime DEF Holds, Settled
    <3>2. Shows(w) = "pending_review"
      BY <1>7, <2>1, <3>1 DEF Settle, DocTypes
    <3>3. SettlesTo(w) = out[w] /\ out[w] \in Settled
      BY <3>2 DEF Shows, Reviewable, SettlesTo, WillRetry, SessionShape, SessionTypes
    <3> QED
      BY <1>7, <2>1, <3>3 DEF Settle, JobTypes
  <2>2. CASE at[w] # d
    BY <1>1, <1>7, <2>2 DEF Settle, JobTypes, DocTypes
  <2> QED
    BY <2>1, <2>2
<1>8. CASE Renewed(w)
  BY <1>1, <1>8 DEF Renewed, docVars
<1>9. CASE \E r \in {"success", "partial_success"} : Extract(w, r)
  BY <1>1, <1>9 DEF Extract, jobVars
<1> QED
  BY <1>5, <1>6, <1>7, <1>8, <1>9

\* A material is offered for review only once its job is settled, unless a
\* retry or a worker was overtaken.
THEOREM OfferedLate == Spec => OnlyOverwritesOfferEarly
<1>1. Inv /\ TriesKnown /\ [Next]_vars =>
         [\A d \in Doc : ReviewFollows(d) /\ ~ReviewFollows(d)' => Overwritten(d)]_vars
  BY OfferStep
<1> QED
  BY Invariance, TriesInvariance, <1>1, PTL DEF Spec, OnlyOverwritesOfferEarly

-----------------------------------------------------------------------------
(* DocumentJobs implements JobQueue.                                         *)

LEMMA Phases ==
    ASSUME NEW d \in Doc
    PROVE  /\ status[d] = "absent" => PhaseOf(d) = "absent"
           /\ status[d] = "waiting" => PhaseOf(d) = "queued"
           /\ status[d] = "running" => PhaseOf(d) = "leased"
           /\ status[d] \in Settled => PhaseOf(d) = "settled"
           /\ status'[d] = "waiting" => PhaseOf(d)' = "queued"
           /\ status'[d] = "running" => PhaseOf(d)' = "leased"
           /\ status'[d] \in Settled => PhaseOf(d)' = "settled"
           /\ status'[d] = status[d] => PhaseOf(d)' = PhaseOf(d)
  BY DEF PhaseOf, Settled

\* What a worker may make of its job, while nobody else is concerned.
LEMMA SameEntitled ==
    ASSUME NEW v \in Worker,
           \/ pc'[v] = pc[v] /\ tries'[v] = tries[v]
           \/ pc[v] # "accepted" /\ pc'[v] # "accepted"
    PROVE  Entitled(v)' = Entitled(v)
  BY DEF Entitled

LEMMA SameRequests ==
    ASSUME UNCHANGED wants PROVE UNCHANGED [r \in Request |-> wants[r].doc]
  OBVIOUS

\* A step of the model that is none of the queue.
LEMMA QueueStutters ==
    ASSUME UNCHANGED <<status, token, claims, attempts, at, tok, wants>>,
           \A v \in Worker : Entitled(v)' = Entitled(v)
    PROVE  UNCHANGED Queue!vars
  BY DEF Queue!vars, Queue!jobVars, PhaseOf

LEMMA QueueInit == ASSUME Init PROVE Queue!Init
  BY DEF Init, Queue!Init, PhaseOf, Entitled, NoRetry

LEMMA UserQueueStep ==
    ASSUME Inv, UserStep PROVE [Queue!Next]_(Queue!vars)
<1> USE DEF Inv, TypeOK
<1>1. \A v \in Worker : Entitled(v)' = Entitled(v)
  BY SameEntitled DEF UserStep, Upload, AskRetry, CommitRetry, AbortRetry, sessVars
<1>2. ASSUME NEW d \in Doc, NEW k \in Kinds, Upload(d, k) PROVE Queue!Submit(d)
  <2>1. PhaseOf(d) = "absent" /\ PhaseOf(d)' \in {"queued", "settled"}
    BY <1>2, InitialTypes, Phases DEF Upload, JobTypes, Settled
  <2>2. \A e \in Doc \ {d} : PhaseOf(e)' = PhaseOf(e)
    BY <1>2, Phases DEF Upload, JobTypes
  <2> QED
    BY <1>1, <1>2, <2>1, <2>2 DEF Upload, Queue!Submit, sessVars, userVars
<1>3. ASSUME NEW r \in Request, NEW d \in Doc, NEW sel \in Selections, AskRetry(r, d, sel)
      PROVE  Queue!Ask(r, d)
  <2>1. PhaseOf(d) = "settled"
    BY <1>3, Phases DEF AskRetry
  <2>2. wants[r].doc = 0 /\ wants'[r].doc = d /\ \A q \in Request \ {r} : wants'[q] = wants[q]
    BY <1>3 DEF AskRetry, NoRetry
  <2>3. \A e \in Doc : PhaseOf(e)' = PhaseOf(e)
    BY <1>3, Phases DEF AskRetry, jobVars
  <2> QED
    BY <1>1, <1>3, <2>1, <2>2, <2>3 DEF AskRetry, Queue!Ask, Queue!jobVars, jobVars, sessVars
<1>4. ASSUME NEW r \in Request, NEW d \in Doc, wants[r].doc = d, CommitRetry(r)
      PROVE  Queue!Requeue(r, d)
  <2>1. PhaseOf(d)' = "queued" /\ \A e \in Doc \ {d} : PhaseOf(e)' = PhaseOf(e)
    BY <1>4, Phases DEF CommitRetry, JobTypes
  <2>2. \E n \in {0, attempts[d]} : attempts' = [attempts EXCEPT ![d] = n]
    BY <1>4 DEF CommitRetry
  <2>3. wants'[r].doc = 0 /\ \A q \in Request \ {r} : wants'[q] = wants[q]
    BY <1>4 DEF CommitRetry, NoRetry
  <2> QED
    BY <1>1, <1>4, <2>1, <2>2, <2>3 DEF CommitRetry, Queue!Requeue, sessVars
<1>5. ASSUME NEW r \in Request, AbortRetry(r) PROVE Queue!Withdraw(r)
  <2>1. wants'[r].doc = 0 /\ \A q \in Request \ {r} : wants'[q] = wants[q]
    BY <1>5 DEF AbortRetry, NoRetry
  <2>2. \A e \in Doc : PhaseOf(e)' = PhaseOf(e)
    BY <1>5, Phases DEF AbortRetry, jobVars
  <2> QED
    BY <1>1, <1>5, <2>1, <2>2 DEF AbortRetry, Queue!Withdraw, Queue!jobVars, jobVars, sessVars
<1>6. \A r \in Request : CommitRetry(r) => \E d \in Doc : wants[r].doc = d
  BY DEF CommitRetry, Retry
<1> HIDE DEF Inv, TypeOK
<1> QED
  BY <1>2, <1>3, <1>4, <1>5, <1>6 DEF UserStep, Queue!Next

LEMMA RecoverQueueStep ==
    ASSUME Inv, NEW w \in Worker, Recover(w) PROVE [Queue!Next]_(Queue!vars)
<1> USE DEF Inv, TypeOK
<1> DEFINE js == {d \in Doc : Stale(d)}
<1>1. \A v \in Worker : Entitled(v)' = Entitled(v)
  BY SameEntitled DEF Recover, sessVars
<1>2. \A d \in js : PhaseOf(d) = "leased"
  BY Phases DEF Stale
<1>3. \A d \in js : PhaseOf(d)' = IF attempts[d] < MaxAttempts THEN "queued" ELSE "settled"
  BY Phases, BoundsAssumption DEF Recover, RecoverTo, Settled, JobTypes
<1>4. \A d \in Doc \ js : PhaseOf(d)' = PhaseOf(d)
  BY Phases DEF Recover
<1>5. CASE js = {}
  <2>1. status' = status /\ token' = token
    BY <1>5 DEF Recover, JobTypes
  <2> QED
    BY <1>1, <2>1, QueueStutters DEF Recover, sessVars, userVars
<1>6. CASE js # {}
  <2>1. Queue!Expire(js)
    BY <1>1, <1>2, <1>3, <1>4, <1>6 DEF Recover, Queue!Expire, sessVars, userVars
  <2> QED
    BY <2>1 DEF Queue!Next
<1> QED
  BY <1>5, <1>6

LEMMA ClaimQueueStep ==
    ASSUME Inv, NEW w \in Worker, NEW d \in Doc, Claim(w, d) PROVE [Queue!Next]_(Queue!vars)
<1> USE DEF Inv, TypeOK
<1>1. \A v \in Worker : Entitled(v)' = Entitled(v)
  BY SameEntitled DEF Claim
<1>2. PhaseOf(d) = "queued" /\ PhaseOf(d)' = "leased"
  BY Phases DEF Claim, Claimable, JobTypes
<1>3. \A e \in Doc \ {d} : PhaseOf(e)' = PhaseOf(e)
  BY Phases DEF Claim, JobTypes
<1>4. at[w] = 0
  BY DEF Claim, SessionShape, Working
<1>5. Queue!Lease(w, d)
  BY <1>1, <1>2, <1>3, <1>4 DEF Claim, NextToken, Queue!Lease, userVars
<1> QED
  BY <1>5 DEF Queue!Next

\* The end of a session, of a worker that died or whose claim is over.
LEMMA AbandonQueueStep ==
    ASSUME Inv, NEW w \in Worker, EndSession(w), UNCHANGED <<jobVars, userVars>>,
           pc' = [pc EXCEPT ![w] = pc'[w]], pc'[w] # "accepted"
    PROVE  [Queue!Next]_(Queue!vars)
<1> USE DEF Inv, TypeOK
<1>1. \A v \in Worker \ {w} : Entitled(v)' = Entitled(v)
  <2>1. \A v \in Worker \ {w} : pc'[v] = pc[v] /\ tries'[v] = tries[v]
    BY DEF EndSession, SessionTypes
  <2> QED
    BY <2>1, SameEntitled
<1>2. Entitled(w)' = {}
  BY DEF Entitled
<1>3. \A e \in Doc : PhaseOf(e)' = PhaseOf(e)
  BY Phases DEF jobVars
<1>4. Queue!Abandon(w)
  BY <1>1, <1>2, <1>3 DEF EndSession, Queue!Abandon, Queue!Quit, Queue!jobVars, jobVars, userVars
<1> QED
  BY <1>4 DEF Queue!Next

LEMMA CheckQueueStep ==
    ASSUME Inv, NEW w \in Worker, Check(w) PROVE [Queue!Next]_(Queue!vars)
<1> USE DEF Inv, TypeOK
<1>1. CASE Holds(w)
  <2> PICK d \in Doc : d = at[w]
    BY <1>1 DEF Holds, SessionShape, SessionTypes
  <2>1. status[d] = "running" /\ token[d] = tok[w]
    BY <1>1 DEF Holds
  <2>2. PhaseOf(d) = "leased" /\ \A e \in Doc : PhaseOf(e)' = PhaseOf(e)
    BY <2>1, Phases DEF Check, jobVars
  <2>3. \A v \in Worker \ {w} : Entitled(v)' = Entitled(v)
    BY <1>1, SameEntitled DEF Check, SessionTypes
  <2>4. Entitled(w)' = IF attempts[d] < MaxAttempts THEN {"settled", "queued"} ELSE {"settled"}
    BY <1>1 DEF Check, Entitled, SessionTypes
  <2>5. Queue!Grant(w, d)
    BY <1>1, <2>1, <2>2, <2>3, <2>4 DEF Check, Queue!Grant, Queue!jobVars, jobVars, userVars
  <2> QED
    BY <2>1, <2>5 DEF Queue!Next
<1>2. CASE ~Holds(w)
  BY <1>2, AbandonQueueStep DEF Check
<1> QED
  BY <1>1, <1>2

LEMMA SettleQueueStep ==
    ASSUME Inv, NEW w \in Worker, Settle(w) PROVE [Queue!Next]_(Queue!vars)
<1> USE DEF Inv, TypeOK
<1> PICK d \in Doc : d = at[w]
  BY DEF Settle, SessionShape, SessionTypes, Working
<1>1. pc[w] = "accepted"
  BY DEF Settle
<1>2. \A v \in Worker \ {w} : Entitled(v)' = Entitled(v)
  <2>1. \A v \in Worker \ {w} : pc'[v] = pc[v] /\ tries'[v] = tries[v]
    BY DEF Settle, EndSession, SessionTypes
  <2> QED
    BY <2>1, SameEntitled
<1>3. Entitled(w)' = {}
  BY DEF Settle, Entitled
<1>4. status' = [status EXCEPT ![d] = SettlesTo(w)] /\ token' = [token EXCEPT ![d] = 0]
  BY DEF Settle
<1>5. PhaseOf(d)' \in Entitled(w)
  BY <1>1, <1>4, SettlesToTypes, Phases DEF Entitled, JobTypes
<1>6. \A e \in Doc \ {d} : PhaseOf(e)' = PhaseOf(e)
  BY <1>4, Phases DEF JobTypes
<1>7. Queue!Quit(w)
  BY <1>2, <1>3 DEF Settle, EndSession, Queue!Quit, userVars
<1>8. \E p \in [v \in Worker |-> Entitled(v)][w] :
         [e \in Doc |-> PhaseOf(e)]' = [[e \in Doc |-> PhaseOf(e)] EXCEPT ![d] = p]
  BY <1>5, <1>6
<1>9. Queue!Settle(w, d)
  BY <1>4, <1>7, <1>8 DEF Settle, Queue!Settle
<1> QED
  BY <1>9 DEF Queue!Next

LEMMA QueueStep ==
    ASSUME Inv, [Next]_vars PROVE [Queue!Next]_(Queue!vars)
<1>1. CASE Tick \/ UNCHANGED vars
  BY <1>1, SameEntitled, QueueStutters DEF Tick, vars, jobVars, sessVars, userVars
<1> SUFFICES ASSUME NEW w \in Worker, WorkerStep(w) PROVE [Queue!Next]_(Queue!vars)
  BY <1>1, UserQueueStep DEF Next
<1>2. CASE NothingToClaim(w) \/ OpenSource(w) \/ EndOfSource(w) \/ Restart(w)
  <2>1. \A v \in Worker : Entitled(v)' = Entitled(v)
    BY <1>2, SameEntitled DEF NothingToClaim, OpenSource, EndOfSource, Restart, sessVars, Inv, TypeOK
  <2> QED
    BY <1>2, <2>1, QueueStutters DEF NothingToClaim, OpenSource, EndOfSource, Restart,
       jobVars, sessVars, userVars
<1>3. CASE Renewed(w) \/ RenewalDies(w)
  BY <1>3, SameEntitled, QueueStutters DEF Renewed, RenewalDies, jobVars, sessVars, userVars
<1>4. CASE Validate(w) \/ Classify(w) \/ \E r \in Parsed : ParseMaterial(w, r)
  BY <1>4, SameEntitled, QueueStutters DEF Validate, Classify, ParseMaterial, jobVars, userVars
<1>5. CASE NoText(w) \/ NothingLeft(w) \/ \E e \in Raised(w) : Fail(w, e)
  <2>1. \A v \in Worker : Entitled(v)' = Entitled(v)
    BY <1>5, SameEntitled DEF NoText, NothingLeft, Fail, Through, ReadyForText, sessVars, Inv, TypeOK
  <2> QED
    BY <1>5, <2>1, QueueStutters DEF NoText, NothingLeft, Fail, jobVars, sessVars, userVars
<1>6. CASE \E r \in {"success", "partial_success"} : Extract(w, r)
  <2>1. \A v \in Worker : Entitled(v)' = Entitled(v)
    BY <1>6, SameEntitled DEF Extract, Through, ReadyForText, Inv, TypeOK
  <2> QED
    BY <1>6, <2>1, QueueStutters DEF Extract, jobVars, userVars
<1>7. CASE Crash(w)
  BY <1>7, AbandonQueueStep DEF Crash, Inv, TypeOK
<1> QED
  BY <1>2, <1>3, <1>4, <1>5, <1>6, <1>7, RecoverQueueStep, ClaimQueueStep, CheckQueueStep,
     SettleQueueStep DEF WorkerStep, Progress, Renew, ReadChunk

\* The queue of the code, with its clock, crashes, documents, renewal threads
\* and unlocked looks, implements the promise of JobQueue.
THEOREM Refinement == Spec => QueueSpec
<1>1. Init => Queue!Init
  BY QueueInit
<1>2. Inv /\ [Next]_vars => [Queue!Next]_(Queue!vars)
  BY QueueStep
<1> QED
  BY Invariance, <1>1, <1>2, PTL DEF Spec, QueueSpec, Queue!Spec
=============================================================================
