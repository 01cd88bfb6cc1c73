------------------------ MODULE FormalReportsProofs ------------------------
(***************************************************************************)
(* Proofs about FormalReports, for any sessions, documents, products,      *)
(* rules, rates, templates and bounds.                                     *)
(***************************************************************************)
EXTENDS FormalReports, EvaluationProofs

RedlineFields == {"kind", "id", "status", "raced", "rule", "state", "selected",
                  "usesLpr", "asOf", "entry"}
CompletenessFields == {"kind", "id", "status", "raced", "template", "verdicts"}
Fields(kind) == IF kind = "redline" THEN RedlineFields ELSE CompletenessFields

SessionFields == {"op", "pc", "value", "stamp", "old", "marks", "raced", "report"}

(* What a handler may write.                                                 *)
Writes(part, v) ==
    /\ part = "rate" => v \in Rate
    /\ part = "collateral" => v = TRUE
    /\ part = "context" => v \in Context
    /\ part = "application" => v[1] \in Product /\ v[2] \in Signing
    /\ part \in {"mapped", "unmapped"} => v \in Doc \X Template \X Code
    /\ part = "waived" => v \in Template \X Code
    /\ part = "confirmed" => v \in Doc \X Category
    /\ part = "sealed" => v[1] \in Doc /\ v[2] \in BOOLEAN

(* Which stages an operation has, and what a session carries in them.        *)
Formed(s) ==
    /\ DOMAIN s = SessionFields
    /\ s.pc \in Phases /\ s.op \in Op
    /\ s.pc = "idle" <=> s = Idle
    /\ s.op = None <=> s.pc = "idle"
    /\ s.raced \in BOOLEAN /\ s.old \in BOOLEAN
    /\ s.op = "write" => s.pc = "asked"
    /\ s.op = "complete" => s.pc = "decided"
    /\ s.op \in Part => s.pc = "flushed" /\ Writes(s.op, s.value[2])
    /\ s.op \in Making => s.pc \in {"asked", "read", "flushed"}
    /\ s.op \in Making /\ s.pc \in {"read", "flushed"} =>
          /\ s.report.kind = s.op
          /\ s.report.status = "current"
          /\ DOMAIN s.report = Fields(s.op)

Shape ==
    /\ DOMAIN ses = Session
    /\ \A c \in Session : Formed(ses[c])
    /\ \A r \in reports : DOMAIN r = Fields(r.kind) /\ r.raced \in BOOLEAN

(* Whoever has written has a place in the order of writes of its own.        *)
Stamps ==
    \A c \in Session : ses[c].pc = "flushed" =>
        /\ ses[c].stamp \in 1 .. flushes
        /\ \A b \in Session : ses[b].pc = "flushed" /\ ses[b].stamp = ses[c].stamp => b = c
        /\ \A r \in reports : ses[c].op \in Making => r.id # ses[c].stamp

(* A write that is not committed yet will mark the reports of its kinds that *)
(* are current, or they were made while it was under way.                    *)
Missed ==
    \A c \in Session, r \in reports :
        ses[c].op \in Part /\ r.status = "current" /\ r.kind \in Marks(ses[c].op) =>
            r.raced \/ r.id \in ses[c].marks

(* Whoever makes a report of these kinds, or decides a completion, knows.    *)
Met ==
    \A b, c \in Session :
        ses[c].op \in Part /\ ses[b].op \in Marks(ses[c].op) \cup {"complete"} => ses[b].raced

(* What is stored in a report follows from the inputs: for a redline report, *)
(* from the rule and the rate that it names.                                 *)
NeedsLpr(rule) == rule # None /\ RuleBook[rule].calc = "lpr_multiple_limit"

Follows(r) ==
    IF r.kind = "redline"
    THEN /\ r.state = RedlineState(input, r.selected, r.entry)
         /\ NeedsLpr(r.selected) => r.usesLpr
         /\ r.selected = None \/ r.selected \in Rule
    ELSE r.verdicts = Established(Verdicts(r.template, input))

Drafts ==
    \A c \in Session :
        ses[c].op \in Making /\ ses[c].pc \in {"read", "flushed"} /\ ~ses[c].raced =>
            Follows(ses[c].report)

Stored == \A r \in reports : r.status = "current" /\ ~r.raced => Follows(r)

(* While a completion is decided nobody commits a report, and what it rests  *)
(* on stays unless it is told.                                               *)
Decided ==
    \A c \in Session : ses[c].op = "complete" =>
        /\ \A b \in Session : ~(ses[b].op \in Making /\ ses[b].pc = "flushed")
        /\ ~ses[c].raced => ReportsCurrent

Inv == TypeOK /\ Shape /\ Stamps /\ Missed /\ Met /\ Drafts /\ Stored /\ Decided

-----------------------------------------------------------------------------
(* What reports depend on.                                                   *)

(* The verdict on a loan depends on its rate alone.                          *)
LEMMA StateByRate ==
  ASSUME NEW i, NEW j, i.rate = j.rate, NEW rule, NEW entry
  PROVE  RedlineState(i, rule, entry) = RedlineState(j, rule, entry)
  BY DEF RedlineState, Loan

(* Without an LPR rule it does not depend on the LPR.                        *)
LEMMA StateWithoutLpr ==
  ASSUME NEW i, NEW rule, rule = None \/ rule \in Rule, ~NeedsLpr(rule), NEW e, NEW f
  PROVE  RedlineState(i, rule, e) = RedlineState(i, rule, f)
<1>1. CASE rule = None
  BY <1>1 DEF RedlineState
<1>2. CASE rule # None
  <2>1. RuleBook[rule].calc \in {"annual_rate_limit", "effective_cost_limit"}
    BY <1>2, BookAssumption DEF NeedsLpr
  <2>2. EvaluateRule(RuleBook[rule], Loan(i), LprValue(e))
          = EvaluateRule(RuleBook[rule], Loan(i), LprValue(f))
    BY <2>1 DEF EvaluateRule
  <2> QED
    BY <1>2, <2>2 DEF RedlineState
<1> QED
  BY <1>1, <1>2

(* A step that changes no rate keeps what follows for a redline report, and  *)
(* one that changes no material keeps what follows for a completeness one.   *)
LEMMA FollowsByRate ==
  ASSUME NEW r, r.kind = "redline", input'.rate = input.rate, Follows(r)
  PROVE  Follows(r)'
<1>1. RedlineState(input', r.selected, r.entry) = RedlineState(input, r.selected, r.entry)
  BY StateByRate
<1>2. RedlineState(input, r.selected, r.entry)' = RedlineState(input', r.selected, r.entry)
  BY DEF RedlineState, LprValue, Loan
<1>3. NeedsLpr(r.selected)' <=> NeedsLpr(r.selected)
  BY DEF NeedsLpr
<1> QED
  BY <1>1, <1>2, <1>3 DEF Follows

SameMaterial ==
    /\ input'.waived = input.waived /\ input'.collateral = input.collateral
    /\ input'.mapped = input.mapped /\ input'.sealed = input.sealed

LEMMA VerdictsByMaterial ==
  ASSUME SameMaterial, NEW t
  PROVE  Established(Verdicts(t, input))' = Established(Verdicts(t, input))
<1>1. SameButHints(Checked(input)', Checked(input))
  BY DEF SameButHints, Checked, SameMaterial
<1>2. Established(EvaluateItems(TemplateBook[t].items, Checked(input)'))
        = Established(EvaluateItems(TemplateBook[t].items, Checked(input)))
  BY <1>1, HintsProveNothingEver
<1>3. Established(Verdicts(t, input))'
        = Established(EvaluateItems(TemplateBook[t].items, Checked(input)'))
  BY DEF Verdicts, Established, EvaluateItems, EvaluateItem, Evidence, Proven, Hinted,
         ItemConditionMet
<1> QED
  BY <1>2, <1>3 DEF Verdicts

LEMMA FollowsByMaterial ==
  ASSUME NEW r, r.kind # "redline", SameMaterial, Follows(r)
  PROVE  Follows(r)'
  BY VerdictsByMaterial DEF Follows

LEMMA FollowsKept ==
  ASSUME NEW r, UNCHANGED input, Follows(r)
  PROVE  Follows(r)'
  BY FollowsByRate, FollowsByMaterial DEF SameMaterial

-----------------------------------------------------------------------------
(* What the steps do to the sessions.                                        *)

LEMMA IdleIsFormed == Formed(Idle)
  BY DEF Formed, Idle, SessionFields, Phases, Op, Part, Making, None

LEMMA RacedIsFormed ==
  ASSUME NEW s, Formed(s), s.op \in Making \cup {"complete"}
  PROVE  Formed([s EXCEPT !.raced = TRUE])
<1> DEFINE t == [s EXCEPT !.raced = TRUE]
<1>1. /\ DOMAIN t = SessionFields /\ t.raced = TRUE
      /\ t.op = s.op /\ t.pc = s.pc /\ t.old = s.old /\ t.value = s.value /\ t.report = s.report
  BY DEF Formed, SessionFields
<1>2. s.op # None
  BY DEF None, Making
<1>3. t.pc # "idle" /\ t # Idle
  BY <1>1, <1>2 DEF Formed, Idle
<1> HIDE DEF t
<1>4. Formed(t)
  BY <1>1, <1>3 DEF Formed
<1> QED
  BY <1>4 DEF t

(* Exactly the session c changes, to s.                                      *)
Replaced(c, s) == DOMAIN ses' = Session /\ ses'[c] = s /\ \A b \in Session \ {c} : ses'[b] = ses[b]

(* The others stay where they are; they may have met a change.               *)
SameSession(b) ==
    /\ ses'[b].op = ses[b].op /\ ses'[b].pc = ses[b].pc /\ ses'[b].stamp = ses[b].stamp
    /\ ses'[b].marks = ses[b].marks /\ ses'[b].report = ses[b].report
    /\ ses[b].raced => ses'[b].raced

Aside(c) == \A b \in Session \ {c} : SameSession(b)

AllFormed == DOMAIN ses = Session /\ \A c \in Session : Formed(ses[c])

LEMMA ReplacedSession ==
  ASSUME Inv, NEW c \in Session, NEW s, ses' = [ses EXCEPT ![c] = s]
  PROVE  Replaced(c, s)
  BY DEF Inv, Shape, Replaced

LEMMA AskEffect ==
  ASSUME Inv, NEW c \in Session, Ask(c)
  PROVE  /\ Replaced(c, [Idle EXCEPT !.op = "write", !.pc = "asked"])
         /\ Formed(ses'[c])
<1> DEFINE s == [Idle EXCEPT !.op = "write", !.pc = "asked"]
<1>1. Formed(s)
  BY DEF Formed, Idle, SessionFields, Phases, Op, Part, Making, None
<1>2. ses' = [ses EXCEPT ![c] = s]
  BY DEF Ask
<1> QED
  BY <1>1, <1>2, ReplacedSession DEF Replaced

LEMMA IdleEffect ==
  ASSUME Inv, NEW c \in Session, ses' = [ses EXCEPT ![c] = Idle]
  PROVE  Replaced(c, Idle) /\ Formed(ses'[c])
  BY IdleIsFormed, ReplacedSession DEF Replaced

(* The rows a session that asks for a redline report keeps.                  *)
Kept == [rule |-> Selected(input), status |-> ruleStatus,
         product |-> input.product, signing |-> input.signing]

LEMMA AskRedlineEffect ==
  ASSUME Inv, NEW c \in Session, AskRedline(c)
  PROVE  /\ Replaced(c, [Idle EXCEPT !.op = "redline", !.pc = "asked",
                                     !.report = Kept,
                                     !.raced = Writers("redline") # {}])
         /\ Formed(ses'[c])
<1> DEFINE s == [Idle EXCEPT !.op = "redline", !.pc = "asked",
                             !.report = Kept,
                             !.raced = Writers("redline") # {}]
<1>1. Formed(s)
  BY DEF Formed, Idle, SessionFields, Phases, Op, Part, Making, None
<1>2. ses' = [ses EXCEPT ![c] = s]
  BY DEF AskRedline, Begin, Kept
<1> QED
  BY <1>1, <1>2, ReplacedSession DEF Replaced

(* The report that a redline handler has read.                               *)
RedlineDraft(c) ==
    LET kept == ses[c].report
        rule == SelectedAmong([input EXCEPT !.product = kept.product], kept.status)
        asOf == LprDay(kept.signing, today)
        entry == EntryFor(asOf)
    IN  [kind |-> "redline", id |-> 0, status |-> "current", raced |-> FALSE,
         rule |-> kept.rule, state |-> RedlineState(input, rule, entry),
         selected |-> rule,
         usesLpr |-> UsesLpr([input EXCEPT !.product = kept.product], kept.status, rule),
         asOf |-> asOf, entry |-> entry]

LEMMA ReadRedlineEffect ==
  ASSUME Inv, NEW c \in Session, ReadRedline(c)
  PROVE  /\ Replaced(c, [ses[c] EXCEPT !.pc = "read", !.report = RedlineDraft(c)])
         /\ ses'[c].op = "redline" /\ ses'[c].pc = "read" /\ ses'[c].raced = ses[c].raced
         /\ ses[c].op = "redline"
         /\ ses'[c].report = RedlineDraft(c)
         /\ Formed(ses'[c])
<1> DEFINE s == [ses[c] EXCEPT !.pc = "read", !.report = RedlineDraft(c)]
<1>1. ses' = [ses EXCEPT ![c] = s]
  BY DEF ReadRedline, RedlineDraft
<1>2. Formed(ses[c]) /\ ses[c].op = "redline"
  BY DEF ReadRedline, Inv, Shape
<1>3. /\ DOMAIN s = SessionFields
      /\ s.op = "redline" /\ s.pc = "read" /\ s.raced = ses[c].raced /\ s.old = ses[c].old
      /\ s.report = RedlineDraft(c)
  BY <1>2 DEF Formed, SessionFields
<1>4. /\ DOMAIN RedlineDraft(c) = RedlineFields
      /\ RedlineDraft(c).kind = "redline" /\ RedlineDraft(c).status = "current"
  BY DEF RedlineDraft, RedlineFields
<1>5. s # Idle
  BY <1>3 DEF Idle
<1> HIDE DEF s
<1>6. Formed(s)
  BY <1>2, <1>3, <1>4, <1>5 DEF Formed, Fields, Phases, Op, Part, Making, None
<1> QED
  BY <1>1, <1>2, <1>3, <1>6, ReplacedSession DEF Replaced, s

CompletenessDraft ==
    [kind |-> "completeness", id |-> 0, status |-> "current", raced |-> FALSE,
     template |-> Applicable(input), verdicts |-> Established(Verdicts(Applicable(input), input))]

LEMMA ReadCompletenessEffect ==
  ASSUME Inv, NEW c \in Session, ReadCompleteness(c)
  PROVE  /\ Replaced(c, [Idle EXCEPT !.op = "completeness", !.pc = "read",
                                     !.report = CompletenessDraft,
                                     !.raced = Writers("completeness") # {}])
         /\ Formed(ses'[c])
<1> DEFINE s == [Idle EXCEPT !.op = "completeness", !.pc = "read",
                             !.report = CompletenessDraft,
                             !.raced = Writers("completeness") # {}]
<1>1. /\ DOMAIN CompletenessDraft = CompletenessFields
      /\ CompletenessDraft.kind = "completeness" /\ CompletenessDraft.status = "current"
  BY DEF CompletenessDraft, CompletenessFields
<1>2. Formed(s)
  BY <1>1 DEF Formed, Idle, SessionFields, Phases, Op, Part, Making, None, Fields
<1>3. ses' = [ses EXCEPT ![c] = s]
  BY DEF ReadCompleteness, Begin, CompletenessDraft
<1> QED
  BY <1>2, <1>3, ReplacedSession DEF Replaced

LEMMA FlushReportEffect ==
  ASSUME Inv, NEW c \in Session, FlushReport(c)
  PROVE  /\ Replaced(c, [ses[c] EXCEPT !.pc = "flushed", !.stamp = flushes + 1,
                                       !.marks = Visible({ses[c].op})])
         /\ ses[c].op \in Making /\ ses[c].pc = "read"
         /\ ses'[c].op = ses[c].op /\ ses'[c].pc = "flushed" /\ ses'[c].stamp = flushes + 1
         /\ ses'[c].raced = ses[c].raced /\ ses'[c].report = ses[c].report
         /\ Formed(ses'[c])
<1> DEFINE s == [ses[c] EXCEPT !.pc = "flushed", !.stamp = flushes + 1,
                               !.marks = Visible({ses[c].op})]
<1>1. ses' = [ses EXCEPT ![c] = s]
  BY DEF FlushReport
<1>2. Formed(ses[c]) /\ ses[c].op \in Making /\ ses[c].pc = "read"
  BY DEF FlushReport, Inv, Shape
<1>3. /\ DOMAIN s = SessionFields
      /\ s.op = ses[c].op /\ s.pc = "flushed" /\ s.raced = ses[c].raced /\ s.old = ses[c].old
      /\ s.report = ses[c].report /\ s.stamp = flushes + 1
  BY <1>2 DEF Formed, SessionFields
<1>4. s # Idle
  BY <1>3 DEF Idle
<1> HIDE DEF s
<1>5. Formed(s)
  BY <1>2, <1>3, <1>4 DEF Formed, Phases, Op, Part, Making, None
<1> QED
  BY <1>1, <1>2, <1>3, <1>5, ReplacedSession DEF Replaced, s

LEMMA DecideEffect ==
  ASSUME Inv, NEW c \in Session, DecideComplete(c)
  PROVE  /\ Replaced(c, [Idle EXCEPT !.op = "complete", !.pc = "decided",
                                     !.raced = \E kind \in Kind : Writers(kind) # {}])
         /\ Formed(ses'[c])
<1> DEFINE s == [Idle EXCEPT !.op = "complete", !.pc = "decided",
                             !.raced = \E kind \in Kind : Writers(kind) # {}]
<1>1. Formed(s)
  BY DEF Formed, Idle, SessionFields, Phases, Op, Part, Making, None
<1>2. ses' = [ses EXCEPT ![c] = s]
  BY DEF DecideComplete
<1> QED
  BY <1>1, <1>2, ReplacedSession DEF Replaced

LEMMA ReplacedAside ==
  ASSUME Inv, NEW c \in Session, NEW s, Replaced(c, s), Formed(ses'[c])
  PROVE  Aside(c) /\ AllFormed'
  BY DEF Inv, Shape, Replaced, Aside, SameSession, AllFormed

(* What each stage of a session leaves behind.                               *)
LEMMA IdleFacts ==
  ASSUME Inv, NEW c \in Session, ses' = [ses EXCEPT ![c] = Idle]
  PROVE  /\ Aside(c) /\ AllFormed'
         /\ ses'[c] = Idle /\ ses'[c].op = None /\ ses'[c].pc = "idle"
<1>1. Replaced(c, Idle) /\ Formed(ses'[c])
  BY IdleEffect
<1>2. Aside(c) /\ AllFormed' /\ ses'[c] = Idle
  BY <1>1, ReplacedAside DEF Replaced
<1>3. Idle.op = None /\ Idle.pc = "idle"
  BY DEF Idle
<1> QED
  BY <1>2, <1>3

LEMMA AskFacts ==
  ASSUME Inv, NEW c \in Session, Ask(c)
  PROVE  /\ Aside(c) /\ AllFormed'
         /\ ses'[c].op = "write" /\ ses'[c].pc = "asked"
<1> DEFINE s == [Idle EXCEPT !.op = "write", !.pc = "asked"]
<1>1. Replaced(c, s) /\ Formed(ses'[c])
  BY AskEffect
<1>2. s.op = "write" /\ s.pc = "asked"
  BY DEF Idle
<1> HIDE DEF s
<1>3. Aside(c) /\ AllFormed' /\ ses'[c] = s
  BY <1>1, ReplacedAside DEF Replaced
<1> QED
  BY <1>2, <1>3

LEMMA AskRedlineFacts ==
  ASSUME Inv, NEW c \in Session, AskRedline(c)
  PROVE  /\ Aside(c) /\ AllFormed'
         /\ ses'[c].op = "redline" /\ ses'[c].pc = "asked"
         /\ ses'[c].raced = (Writers("redline") # {})
<1> DEFINE s == [Idle EXCEPT !.op = "redline", !.pc = "asked",
                             !.report = Kept,
                             !.raced = Writers("redline") # {}]
<1>1. Replaced(c, s) /\ Formed(ses'[c])
  BY AskRedlineEffect
<1>2. s.op = "redline" /\ s.pc = "asked" /\ s.raced = (Writers("redline") # {})
  BY DEF Idle
<1> HIDE DEF s
<1>3. Aside(c) /\ AllFormed' /\ ses'[c] = s
  BY <1>1, ReplacedAside DEF Replaced
<1> QED
  BY <1>2, <1>3

LEMMA ReadRedlineFacts ==
  ASSUME Inv, NEW c \in Session, ReadRedline(c)
  PROVE  /\ Aside(c) /\ AllFormed'
         /\ ses[c].op = "redline"
         /\ ses'[c].op = "redline" /\ ses'[c].pc = "read"
         /\ ses'[c].raced = ses[c].raced /\ ses'[c].report = RedlineDraft(c)
<1> DEFINE s == [ses[c] EXCEPT !.pc = "read", !.report = RedlineDraft(c)]
<1>1. /\ Replaced(c, s) /\ Formed(ses'[c])
      /\ ses[c].op = "redline" /\ ses'[c].op = "redline" /\ ses'[c].pc = "read"
      /\ ses'[c].raced = ses[c].raced /\ ses'[c].report = RedlineDraft(c)
  BY ReadRedlineEffect
<1> HIDE DEF s
<1>2. Aside(c) /\ AllFormed'
  BY <1>1, ReplacedAside
<1> QED
  BY <1>1, <1>2

LEMMA ReadCompletenessFacts ==
  ASSUME Inv, NEW c \in Session, ReadCompleteness(c)
  PROVE  /\ Aside(c) /\ AllFormed'
         /\ ses'[c].op = "completeness" /\ ses'[c].pc = "read"
         /\ ses'[c].report = CompletenessDraft
         /\ ses'[c].raced = (Writers("completeness") # {})
<1> DEFINE s == [Idle EXCEPT !.op = "completeness", !.pc = "read",
                             !.report = CompletenessDraft,
                             !.raced = Writers("completeness") # {}]
<1>1. Replaced(c, s) /\ Formed(ses'[c])
  BY ReadCompletenessEffect
<1>2. /\ s.op = "completeness" /\ s.pc = "read" /\ s.report = CompletenessDraft
      /\ s.raced = (Writers("completeness") # {})
  BY DEF Idle
<1> HIDE DEF s
<1>3. Aside(c) /\ AllFormed' /\ ses'[c] = s
  BY <1>1, ReplacedAside DEF Replaced
<1> QED
  BY <1>2, <1>3

LEMMA DecideFacts ==
  ASSUME Inv, NEW c \in Session, DecideComplete(c)
  PROVE  /\ Aside(c) /\ AllFormed'
         /\ ses'[c].op = "complete" /\ ses'[c].pc = "decided"
         /\ ses'[c].raced = \E kind \in Kind : Writers(kind) # {}
<1> DEFINE s == [Idle EXCEPT !.op = "complete", !.pc = "decided",
                             !.raced = \E kind \in Kind : Writers(kind) # {}]
<1>1. Replaced(c, s) /\ Formed(ses'[c])
  BY DecideEffect
<1>2. /\ s.op = "complete" /\ s.pc = "decided"
      /\ s.raced = \E kind \in Kind : Writers(kind) # {}
  BY DEF Idle
<1> HIDE DEF s
<1>3. Aside(c) /\ AllFormed' /\ ses'[c] = s
  BY <1>1, ReplacedAside DEF Replaced
<1> QED
  BY <1>2, <1>3

(* A handler that writes comes to be in flight with what it writes.          *)
LEMMA WriteFlushes ==
  ASSUME Inv, NEW c \in Session, Write(c)
  PROVE  \E part \in Part : \E v : Writes(part, v) /\ Flush(c, part, v)
<1>1. ASSUME NEW rate \in Rate, Resolve(c, rate)
      PROVE  Writes("rate", rate) /\ Flush(c, "rate", rate)
  BY <1>1 DEF Resolve, Writes
<1>2. ASSUME ResolveCollateral(c)
      PROVE  Writes("collateral", TRUE) /\ Flush(c, "collateral", TRUE)
  BY <1>2 DEF ResolveCollateral, Writes
<1>3. ASSUME NEW context \in Context, ConfirmRuleContext(c, context)
      PROVE  Writes("context", context) /\ Flush(c, "context", context)
  BY <1>3 DEF ConfirmRuleContext, Writes
<1>4. ASSUME NEW product \in Product, NEW signing \in Signing,
             UpdateApplication(c, product, signing)
      PROVE  Writes("application", <<product, signing>>)
             /\ Flush(c, "application", <<product, signing>>)
  BY <1>4 DEF UpdateApplication, Writes
<1>5. ASSUME NEW d \in Doc, NEW category \in Category, ConfirmClassification(c, d, category)
      PROVE  Writes("confirmed", <<d, category>>) /\ Flush(c, "confirmed", <<d, category>>)
  BY <1>5 DEF ConfirmClassification, Writes
<1>6. ASSUME NEW d \in Doc, NEW present \in BOOLEAN, CreateReview(c, d, present)
      PROVE  Writes("sealed", <<d, present>>) /\ Flush(c, "sealed", <<d, present>>)
  BY <1>6 DEF CreateReview, Writes
<1>7. Applicable(input) # None => Applicable(input) \in Template
  BY DEF Applicable
<1>8. ASSUME NEW d \in Doc, NEW code \in Code, CreateMapping(c, d, code)
      PROVE  LET m == <<d, Applicable(input), code>>
             IN  Writes("mapped", m) /\ Flush(c, "mapped", m)
  BY <1>7, <1>8 DEF CreateMapping, InForce, Writes
<1>9. ASSUME NEW m \in input.mapped, DeleteMapping(c, m)
      PROVE  Writes("unmapped", m) /\ Flush(c, "unmapped", m)
  <2>1. m \in Doc \X Template \X Code
    BY DEF Inv, TypeOK, Input
  <2> QED
    BY <1>9, <2>1 DEF DeleteMapping, Writes
<1>10. ASSUME NEW code \in Code, CreateWaiver(c, code)
       PROVE  LET w == <<Applicable(input), code>> IN Writes("waived", w) /\ Flush(c, "waived", w)
  BY <1>7, <1>10 DEF CreateWaiver, InForce, Writes
<1> QED
  BY <1>1, <1>2, <1>3, <1>4, <1>5, <1>6, <1>8, <1>9, <1>10 DEF Write, Part

LEMMA MeetEffect ==
  ASSUME NEW sessions, DOMAIN sessions = Session, \A b \in Session : Formed(sessions[b]),
         NEW kinds, kinds \subseteq Making, ses' = Meet(sessions, kinds)
  PROVE  /\ AllFormed'
         /\ \A b \in Session : /\ sessions[b].op \notin Making \cup {"complete"} => ses'[b] = sessions[b]
                               /\ ses'[b].op = sessions[b].op /\ ses'[b].pc = sessions[b].pc
                               /\ ses'[b].stamp = sessions[b].stamp
                               /\ ses'[b].marks = sessions[b].marks
                               /\ ses'[b].report = sessions[b].report
                               /\ sessions[b].raced => ses'[b].raced
                               /\ sessions[b].op \in kinds \cup {"complete"} => ses'[b].raced
<1> USE DEF Meet
<1>1. ASSUME NEW b \in Session, sessions[b].op \in kinds \cup {"complete"}
      PROVE  /\ ses'[b] = [sessions[b] EXCEPT !.raced = TRUE] /\ Formed(ses'[b])
             /\ sessions[b].op \in Making \cup {"complete"}
  BY <1>1, RacedIsFormed
<1>2. ASSUME NEW b \in Session, sessions[b].op \notin kinds \cup {"complete"}
      PROVE  ses'[b] = sessions[b]
  BY <1>2
<1>3. DOMAIN ses' = Session
  OBVIOUS
<1> DEFINE Fine(b) ==
             /\ Formed(ses'[b])
             /\ sessions[b].op \notin Making \cup {"complete"} => ses'[b] = sessions[b]
             /\ ses'[b].op = sessions[b].op /\ ses'[b].pc = sessions[b].pc
             /\ ses'[b].stamp = sessions[b].stamp
             /\ ses'[b].marks = sessions[b].marks
             /\ ses'[b].report = sessions[b].report
             /\ sessions[b].raced => ses'[b].raced
             /\ sessions[b].op \in kinds \cup {"complete"} => ses'[b].raced
<1>4. ASSUME NEW b \in Session PROVE Fine(b)
  <2>1. DOMAIN sessions[b] = SessionFields
    BY DEF Formed
  <2>2. CASE sessions[b].op \in kinds \cup {"complete"}
    BY <1>1, <2>1, <2>2 DEF SessionFields
  <2>3. CASE sessions[b].op \notin kinds \cup {"complete"}
    BY <1>2, <2>3
  <2> QED
    BY <2>2, <2>3
<1>5. AllFormed'
  BY <1>3, <1>4 DEF AllFormed
<1> QED
  BY <1>4, <1>5

LEMMA FlushEffect ==
  ASSUME Inv, NEW c \in Session, NEW part \in Part, NEW v, Writes(part, v), Flush(c, part, v)
  PROVE  /\ AllFormed' /\ Aside(c)
         /\ ses[c].op = "write"
         /\ ses'[c] = [Idle EXCEPT !.op = part, !.pc = "flushed", !.value = <<part, v>>,
                                   !.stamp = flushes + 1, !.marks = Visible(Marks(part))]
         /\ \A b \in Session \ {c} :
               ses[b].op \in Marks(part) \cup {"complete"} => ses'[b].raced
<1> DEFINE mine == [Idle EXCEPT !.op = part, !.pc = "flushed", !.value = <<part, v>>,
                                !.stamp = flushes + 1, !.marks = Visible(Marks(part))]
           mid == [ses EXCEPT ![c] = mine]
<1>1. ses' = Meet(mid, Marks(part)) /\ ses[c].op = "write"
  BY DEF Flush, Marked
<1>2. DOMAIN ses = Session /\ \A b \in Session : Formed(ses[b])
  BY DEF Inv, Shape
<1>3. DOMAIN mid = Session /\ mid[c] = mine /\ \A b \in Session \ {c} : mid[b] = ses[b]
  BY <1>2
<1>4. Formed(mine) /\ mine.op = part
  BY DEF Formed, Idle, SessionFields, Phases, Op, Part, Making, None
<1>5. Marks(part) \subseteq Making /\ part \notin Making \cup {"complete"}
  BY DEF Part, Marks, Kind, Making
<1> HIDE DEF mine, mid
<1>6. \A b \in Session : Formed(mid[b])
  BY <1>2, <1>3, <1>4
<1>7. ses'[c] = mine
  BY <1>1, <1>3, <1>4, <1>5, <1>6, MeetEffect
<1> QED
  BY <1>1, <1>3, <1>5, <1>6, <1>7, MeetEffect DEF mine, Aside, SameSession

LEMMA CatalogueEffect ==
  ASSUME Inv, CatalogueStep
  PROVE  /\ AllFormed' /\ \A b \in Session : SameSession(b)
         /\ \A b \in Session : ses[b].op = "complete" => ses'[b].raced
<1>1. DOMAIN ses = Session /\ \A b \in Session : Formed(ses[b])
  BY DEF Inv, Shape
<1>2. ses' = Meet(ses, {})
  BY DEF CatalogueStep
<1> QED
  BY <1>1, <1>2, MeetEffect DEF SameSession

LEMMA CommitInputEffect ==
  ASSUME Inv, NEW c \in Session, CommitInput(c)
  PROVE  AllFormed' /\ Aside(c) /\ ses'[c] = Idle /\ ses[c].op \in Part
<1>1. DOMAIN ses = Session /\ \A b \in Session : Formed(ses[b])
  BY DEF Inv, Shape
<1>2. /\ DOMAIN ses' = Session /\ ses'[c] = Idle /\ ses[c].op \in Part
      /\ \A b \in Session \ {c} :
            ses'[b] = IF Older(ses[b], ses[c]) THEN [ses[b] EXCEPT !.old = TRUE] ELSE ses[b]
  BY DEF CommitInput
<1>3. ASSUME NEW b \in Session \ {c}, Older(ses[b], ses[c])
      PROVE  Formed(ses'[b]) /\ SameSession(b)
  <2> DEFINE t == [ses[b] EXCEPT !.old = TRUE]
  <2>1. Formed(ses[b]) /\ ses'[b] = t /\ ses[b].op # None
    BY <1>1, <1>2, <1>3 DEF Older, None
  <2>2. /\ DOMAIN t = SessionFields /\ t.op = ses[b].op /\ t.pc = ses[b].pc
        /\ t.stamp = ses[b].stamp /\ t.marks = ses[b].marks /\ t.report = ses[b].report
        /\ t.raced = ses[b].raced /\ t.old = TRUE /\ t.value = ses[b].value
    BY <2>1 DEF Formed, SessionFields
  <2>3. t # Idle
    BY <2>1, <2>2 DEF Idle
  <2> HIDE DEF t
  <2> QED
    BY <2>1, <2>2, <2>3 DEF Formed, SameSession
<1>4. ASSUME NEW b \in Session \ {c}, ~Older(ses[b], ses[c])
      PROVE  Formed(ses'[b]) /\ SameSession(b)
  BY <1>1, <1>2, <1>4 DEF SameSession
<1> QED
  BY <1>2, <1>3, <1>4, IdleIsFormed DEF AllFormed, Aside

-----------------------------------------------------------------------------
(* What a commit does to the reports.                                        *)

LEMMA SettledFrom ==
  ASSUME NEW all, NEW marked, \A q \in all : DOMAIN q = Fields(q.kind), NEW r \in Settled(all, marked)
  PROVE  \E q \in all :
            /\ r = IF q.id \in marked THEN [q EXCEPT !.status = "stale"] ELSE q
            /\ DOMAIN r = DOMAIN q /\ r.kind = q.kind /\ r.id = q.id /\ r.raced = q.raced
            /\ r.status \in {q.status, "stale"}
            /\ r.status = "current" => r = q /\ q.id \notin marked
<1>1. PICK q \in all : r = IF q.id \in marked THEN [q EXCEPT !.status = "stale"] ELSE q
  BY DEF Settled
<1>2. "kind" \in DOMAIN q /\ "id" \in DOMAIN q /\ "raced" \in DOMAIN q /\ "status" \in DOMAIN q
  BY DEF Fields, RedlineFields, CompletenessFields
<1>3. CASE q.id \in marked
  BY <1>1, <1>2, <1>3
<1>4. CASE q.id \notin marked
  BY <1>1, <1>2, <1>4
<1> QED
  BY <1>3, <1>4

(* The report of a handler, as it is committed.                              *)
NewReport(c) == [ses[c].report EXCEPT !.id = ses[c].stamp, !.raced = ses[c].raced]

LEMMA NewReportFields ==
  ASSUME Inv, NEW c \in Session, CommitReport(c)
  PROVE  /\ ses[c].op \in Making /\ ses[c].pc = "flushed"
         /\ NewReport(c).kind = ses[c].op /\ DOMAIN NewReport(c) = Fields(ses[c].op)
         /\ NewReport(c).id = ses[c].stamp /\ NewReport(c).raced = ses[c].raced
         /\ NewReport(c).status = "current"
         /\ \A f \in DOMAIN NewReport(c) \ {"id", "raced"} : NewReport(c)[f] = ses[c].report[f]
         /\ reports' = Settled(reports \cup {NewReport(c)}, ses[c].marks)
         /\ \A q \in reports \cup {NewReport(c)} : DOMAIN q = Fields(q.kind)
<1>1. Formed(ses[c]) /\ ses[c].op \in Making /\ ses[c].pc = "flushed"
  BY DEF CommitReport, Inv, Shape
<1>2. /\ ses[c].report.kind = ses[c].op /\ ses[c].report.status = "current"
      /\ DOMAIN ses[c].report = Fields(ses[c].op)
  BY <1>1 DEF Formed
<1>3. "kind" \in Fields(ses[c].op) /\ "id" \in Fields(ses[c].op) /\ "raced" \in Fields(ses[c].op)
      /\ "status" \in Fields(ses[c].op)
  BY DEF Fields, RedlineFields, CompletenessFields
<1>4. /\ NewReport(c).kind = ses[c].op /\ DOMAIN NewReport(c) = Fields(ses[c].op)
      /\ NewReport(c).id = ses[c].stamp /\ NewReport(c).raced = ses[c].raced
      /\ NewReport(c).status = "current"
      /\ \A f \in DOMAIN NewReport(c) \ {"id", "raced"} : NewReport(c)[f] = ses[c].report[f]
  BY <1>2, <1>3 DEF NewReport
<1>5. reports' = Settled(reports \cup {NewReport(c)}, ses[c].marks)
  BY DEF CommitReport, NewReport
<1> QED
  BY <1>1, <1>4, <1>5 DEF Inv, Shape

(* A committed write leaves an input of its type.                            *)
LEMMA AppliedTyped ==
  ASSUME NEW s, s.op \in Part, Writes(s.op, s.value[2]), input \in Input,
         \A m, n \in input.confirmed : m[1] = n[1] => m = n
  PROVE  /\ Applied(s) \in Input
         /\ \A m, n \in Applied(s).confirmed : m[1] = n[1] => m = n
<1> DEFINE v == s.value[2]
<1> USE DEF Input
<1>0. CASE s.old
  BY <1>0 DEF Applied
<1>1. CASE ~s.old /\ s.op = "rate"
  <2>1. Applied(s) = [input EXCEPT !.rate = v] /\ v \in Rate
    BY <1>1 DEF Applied, Writes
  <2> QED
    BY <2>1
<1>2. CASE ~s.old /\ s.op = "collateral"
  <2>1. Applied(s) = [input EXCEPT !.collateral = v] /\ v = TRUE
    BY <1>2 DEF Applied, Writes
  <2> QED
    BY <2>1
<1>3. CASE ~s.old /\ s.op = "context"
  <2>1. Applied(s) = [input EXCEPT !.context = v] /\ v \in Context
    BY <1>3 DEF Applied, Writes
  <2> QED
    BY <2>1
<1>4. CASE ~s.old /\ s.op = "application"
  <2>1. /\ Applied(s) = [input EXCEPT !.product = v[1], !.signing = v[2]]
        /\ v[1] \in Product /\ v[2] \in Signing
    BY <1>4 DEF Applied, Writes
  <2> QED
    BY <2>1
<1>5. CASE ~s.old /\ s.op = "mapped"
  <2>1. Applied(s) = [input EXCEPT !.mapped = @ \cup {v}] /\ v \in Doc \X Template \X Code
    BY <1>5 DEF Applied, Writes
  <2> QED
    BY <2>1
<1>6. CASE ~s.old /\ s.op = "unmapped"
  <2>1. Applied(s) = [input EXCEPT !.mapped = @ \ {v}]
    BY <1>6 DEF Applied
  <2> QED
    BY <2>1
<1>7. CASE ~s.old /\ s.op = "waived"
  <2>1. Applied(s) = [input EXCEPT !.waived = @ \cup {v}] /\ v \in Template \X Code
    BY <1>7 DEF Applied, Writes
  <2> QED
    BY <2>1
<1>8. CASE ~s.old /\ s.op = "confirmed"
  <2>1. /\ Applied(s) = [input EXCEPT !.confirmed = {m \in @ : m[1] # v[1]} \cup {v}]
        /\ v \in Doc \X Category
    BY <1>8 DEF Applied, Writes
  <2> HIDE DEF v
  <2>2. {m \in input.confirmed : m[1] # v[1]} \cup {v} \in SUBSET (Doc \X Category)
    BY <2>1
  <2>3. Applied(s).confirmed = {m \in input.confirmed : m[1] # v[1]} \cup {v}
    BY <2>1
  <2> QED
    BY <2>1, <2>2, <2>3
<1>9. CASE ~s.old /\ s.op = "sealed"
  <2>1. /\ Applied(s) = [input EXCEPT !.sealed = IF v[2] THEN @ \cup {v[1]} ELSE @ \ {v[1]}]
        /\ v[1] \in Doc
    BY <1>9 DEF Applied, Writes
  <2> QED
    BY <2>1
<1> QED
  BY <1>0, <1>1, <1>2, <1>3, <1>4, <1>5, <1>6, <1>7, <1>8, <1>9 DEF Part

(* The types of all but the sessions.                                        *)
Data ==
    /\ lifecycle \in {"open", "complete"}
    /\ input \in Input
    /\ \A m, n \in input.confirmed : m[1] = n[1] => m = n
    /\ hints \subseteq Doc \X Category
    /\ today \in 1 .. LastDay
    /\ ruleStatus \in [Rule -> Status] /\ published \subseteq Entry
    /\ templateStatus \in [Template -> Status]
    /\ flushes \in 0 .. MaxFlushes /\ changes \in 0 .. MaxChanges

Rows ==
    /\ \A r \in reports :
          /\ r.kind \in Kind /\ r.id \in 1 .. flushes /\ r.status \in {"current", "stale"}
          /\ DOMAIN r = Fields(r.kind) /\ r.raced \in BOOLEAN
    /\ \A r, q \in reports : r.id = q.id => r = q

LEMMA TypesFromParts == Data /\ Rows /\ AllFormed <=> TypeOK /\ Shape
  BY DEF Data, Rows, AllFormed, TypeOK, Shape, Formed

-----------------------------------------------------------------------------
(* The steps, in the terms of the invariant.                                 *)

Static == <<input, today, ruleStatus, published, templateStatus>>

(* A step of which nobody learns.                                            *)
PrivateStep(c) ==
    Ask(c) \/ Abort(c) \/ AskRedline(c) \/ ReadRedline(c) \/ ReadCompleteness(c)
    \/ DecideComplete(c)

LEMMA PrivateFacts ==
  ASSUME Inv, NEW c \in Session, PrivateStep(c)
  PROVE  /\ UNCHANGED <<lifecycle, hints, Static, reports, flushes>>
         /\ Aside(c)
         /\ ses'[c].pc # "flushed" /\ ses'[c].op \notin Part
<1> USE DEF Part
<1>1. UNCHANGED <<lifecycle, hints, Static, reports, flushes>>
  BY DEF PrivateStep, Ask, Abort, AskRedline, ReadRedline, ReadCompleteness, Begin,
         DecideComplete, catalogue, Static
<1>2. ASSUME Ask(c) PROVE Aside(c) /\ ses'[c].pc # "flushed" /\ ses'[c].op \notin Part
  BY <1>2, AskFacts
<1>3. ASSUME Abort(c) PROVE Aside(c) /\ ses'[c].pc # "flushed" /\ ses'[c].op \notin Part
  BY <1>3, IdleFacts DEF Abort, None
<1>4. ASSUME AskRedline(c) PROVE Aside(c) /\ ses'[c].pc # "flushed" /\ ses'[c].op \notin Part
  BY <1>4, AskRedlineFacts
<1>5. ASSUME ReadRedline(c) PROVE Aside(c) /\ ses'[c].pc # "flushed" /\ ses'[c].op \notin Part
  BY <1>5, ReadRedlineFacts
<1>6. ASSUME ReadCompleteness(c)
      PROVE  Aside(c) /\ ses'[c].pc # "flushed" /\ ses'[c].op \notin Part
  BY <1>6, ReadCompletenessFacts
<1>7. ASSUME DecideComplete(c)
      PROVE  Aside(c) /\ ses'[c].pc # "flushed" /\ ses'[c].op \notin Part
  BY <1>7, DecideFacts
<1> QED
  BY <1>1, <1>2, <1>3, <1>4, <1>5, <1>6, <1>7 DEF PrivateStep

LEMMA FlushFacts ==
  ASSUME Inv, NEW c \in Session, NEW part \in Part, NEW v, Writes(part, v), Flush(c, part, v)
  PROVE  /\ UNCHANGED <<lifecycle, hints, Static, reports>>
         /\ flushes \in Nat /\ flushes' = flushes + 1
         /\ Aside(c)
         /\ ses'[c].op = part /\ ses'[c].pc = "flushed" /\ ses'[c].stamp = flushes + 1
         /\ ses'[c].marks = Visible(Marks(part))
         /\ \A b \in Session \ {c} : ses[b].op \in Marks(part) \cup {"complete"} => ses'[b].raced
<1>1. UNCHANGED <<lifecycle, hints, Static, reports>> /\ flushes' = flushes + 1
  BY DEF Flush, catalogue, Static
<1>2. /\ ses'[c].op = part /\ ses'[c].pc = "flushed" /\ ses'[c].stamp = flushes + 1
      /\ ses'[c].marks = Visible(Marks(part))
  <2>1. ses'[c] = [Idle EXCEPT !.op = part, !.pc = "flushed", !.value = <<part, v>>,
                               !.stamp = flushes + 1, !.marks = Visible(Marks(part))]
    BY FlushEffect
  <2> QED
    BY <2>1 DEF Idle
<1>3. flushes \in Nat
  BY FirstAssumption DEF Inv, TypeOK
<1> QED
  BY <1>1, <1>2, <1>3, FlushEffect

LEMMA CommitInputFacts ==
  ASSUME Inv, NEW c \in Session, CommitInput(c)
  PROVE  /\ UNCHANGED <<lifecycle, hints, today, ruleStatus, published, templateStatus, flushes>>
         /\ Aside(c)
         /\ ses[c].op \in Part
         /\ ses'[c].op = None /\ ses'[c].pc = "idle"
         /\ input' = Applied(ses[c])
         /\ \A r \in reports' : \E q \in reports :
               /\ r.kind = q.kind /\ r.id = q.id /\ r.raced = q.raced
               /\ r.status = "current" => r = q /\ q.id \notin ses[c].marks
<1>1. /\ UNCHANGED <<lifecycle, hints, today, ruleStatus, published, templateStatus, flushes>>
      /\ reports' = Settled(reports, ses[c].marks) /\ input' = Applied(ses[c])
  BY DEF CommitInput, catalogue
<1>2. \A q \in reports : DOMAIN q = Fields(q.kind)
  BY DEF Inv, Shape
<1>3. \A r \in reports' : \E q \in reports :
         /\ r.kind = q.kind /\ r.id = q.id /\ r.raced = q.raced
         /\ r.status = "current" => r = q /\ q.id \notin ses[c].marks
  BY <1>1, <1>2, SettledFrom
<1>4. ses'[c].op = None /\ ses'[c].pc = "idle"
  BY CommitInputEffect DEF Idle
<1> QED
  BY <1>1, <1>3, <1>4, CommitInputEffect

LEMMA FlushReportFacts ==
  ASSUME Inv, NEW c \in Session, FlushReport(c)
  PROVE  /\ UNCHANGED <<lifecycle, hints, Static, reports>>
         /\ flushes \in Nat /\ flushes' = flushes + 1
         /\ Aside(c)
         /\ ses[c].op \in Making /\ ses[c].pc = "read"
         /\ ses'[c].op = ses[c].op /\ ses'[c].pc = "flushed" /\ ses'[c].stamp = flushes + 1
         /\ ses'[c].raced = ses[c].raced /\ ses'[c].report = ses[c].report
         /\ ~Completing
<1>1. UNCHANGED <<lifecycle, hints, Static, reports>> /\ flushes' = flushes + 1 /\ ~Completing
  BY DEF FlushReport, catalogue, Static
<1>2. flushes \in Nat
  BY FirstAssumption DEF Inv, TypeOK
<1> QED
  BY <1>1, <1>2, FlushReportEffect, ReplacedAside

LEMMA CommitReportFacts ==
  ASSUME Inv, NEW c \in Session, CommitReport(c)
  PROVE  /\ UNCHANGED <<lifecycle, hints, Static, flushes>>
         /\ Aside(c)
         /\ ses'[c].op = None /\ ses'[c].pc = "idle"
         /\ ses[c].op \in Making /\ ses[c].pc = "flushed"
         /\ \A r \in reports' : \E q \in reports \cup {NewReport(c)} :
               /\ r.kind = q.kind /\ r.id = q.id /\ r.raced = q.raced
               /\ r.status = "current" => r = q /\ q.id \notin ses[c].marks
<1>1. UNCHANGED <<lifecycle, hints, Static, flushes>> /\ ses' = [ses EXCEPT ![c] = Idle]
  BY DEF CommitReport, catalogue, Static
<1>2. Aside(c) /\ ses'[c] = Idle
  BY <1>1, IdleFacts
<1>3. ses'[c].op = None /\ ses'[c].pc = "idle"
  BY <1>2 DEF Idle
<1>4. \A r \in reports' : \E q \in reports \cup {NewReport(c)} :
         /\ r.kind = q.kind /\ r.id = q.id /\ r.raced = q.raced
         /\ r.status = "current" => r = q /\ q.id \notin ses[c].marks
  <2>1. /\ reports' = Settled(reports \cup {NewReport(c)}, ses[c].marks)
        /\ \A q \in reports \cup {NewReport(c)} : DOMAIN q = Fields(q.kind)
    BY NewReportFields
  <2> QED
    BY <2>1, SettledFrom
<1> QED
  BY <1>1, <1>2, <1>3, <1>4, NewReportFields

LEMMA CompleteFacts ==
  ASSUME Inv, NEW c \in Session, CommitComplete(c)
  PROVE  /\ UNCHANGED <<hints, Static, reports, flushes>>
         /\ Aside(c) /\ ses'[c].op = None /\ ses'[c].pc = "idle"
         /\ ses[c].op = "complete"
<1>1. /\ UNCHANGED <<hints, Static, reports, flushes>> /\ ses' = [ses EXCEPT ![c] = Idle]
      /\ ses[c].op = "complete"
  BY DEF CommitComplete, catalogue, Static
<1>2. Aside(c) /\ ses'[c] = Idle
  BY <1>1, IdleFacts
<1> QED
  BY <1>1, <1>2 DEF Idle

(* Steps that leave every session and every report alone.                    *)
LEMMA QuietFacts ==
  ASSUME UNCHANGED vars \/ (\E c \in Session : Reopen(c))
         \/ (\E d \in Doc, category \in Category : Hint(d, category))
  PROVE  UNCHANGED <<Static, reports, flushes, ses>>
  BY DEF vars, Reopen, Hint, catalogue, Static

LEMMA MarksAreKinds ==
  ASSUME NEW part \in Part
  PROVE  Marks(part) \subseteq Making /\ Marks(part) # {} /\ Making = Kind
  BY DEF Part, Marks, Making, Kind

(* A write that does not mark reports of a kind keeps what they follow from. *)
LEMMA AppliedKeeps ==
  ASSUME NEW s, s.op \in Part, input \in Input, input' = Applied(s)
  PROVE  /\ "redline" \notin Marks(s.op) => input'.rate = input.rate
         /\ "completeness" \notin Marks(s.op) => SameMaterial
<1>1. CASE s.old
  BY <1>1 DEF Applied, SameMaterial
<1>2. ASSUME ~s.old, "redline" \notin Marks(s.op) PROVE input'.rate = input.rate
  <2>1. s.op \in {"mapped", "unmapped", "waived", "confirmed", "sealed"}
    BY <1>2 DEF Marks, Part, Kind
  <2>2. CASE s.op \in {"mapped", "waived"}
    BY <1>2, <2>2 DEF Applied, Input
  <2>3. CASE s.op = "unmapped"
    BY <1>2, <2>3 DEF Applied, Input
  <2>4. CASE s.op = "confirmed"
    BY <1>2, <2>4 DEF Applied, Input
  <2>5. CASE s.op = "sealed"
    BY <1>2, <2>5 DEF Applied, Input
  <2> QED
    BY <2>1, <2>2, <2>3, <2>4, <2>5
<1>3. ASSUME ~s.old, "completeness" \notin Marks(s.op) PROVE SameMaterial
  <2>1. s.op \in {"context", "application"}
    BY <1>3 DEF Marks, Part, Kind
  <2>2. CASE s.op = "context"
    BY <1>3, <2>2 DEF Applied, Input, SameMaterial
  <2>3. CASE s.op = "application"
    BY <1>3, <2>3 DEF Applied, Input, SameMaterial
  <2> QED
    BY <2>1, <2>2, <2>3
<1> QED
  BY <1>1, <1>2, <1>3

(* Hence a commit keeps what follows for reports that it does not mark.      *)
LEMMA FollowsUnmarked ==
  ASSUME Inv, NEW c \in Session, CommitInput(c),
         NEW r, r.kind \in Making, r.kind \notin Marks(ses[c].op), Follows(r)
  PROVE  Follows(r)'
<1>1. ses[c].op \in Part /\ input' = Applied(ses[c]) /\ input \in Input
  BY CommitInputFacts DEF Inv, TypeOK
<1>2. CASE r.kind = "redline"
  <2>1. input'.rate = input.rate
    BY <1>1, <1>2, AppliedKeeps
  <2> QED
    BY <1>2, <2>1, FollowsByRate
<1>3. CASE r.kind = "completeness"
  <2>1. SameMaterial
    BY <1>1, <1>3, AppliedKeeps
  <2> QED
    BY <1>3, <2>1, FollowsByMaterial
<1> QED
  BY <1>2, <1>3 DEF Making

(* The rule that is selected is one of the packages.                         *)
LEMMA SelectedIsARule == 
  ASSUME NEW i, NEW status PROVE SelectedAmong(i, status) = None \/ SelectedAmong(i, status) \in Rule
<1> DEFINE matches == PrimaryMatches(Rules(status), Lender, i.context, i.product, today)
<1>1. CASE SelectionReason(i.context, matches) # "unique"
  BY <1>1 DEF SelectedAmong
<1>2. CASE SelectionReason(i.context, matches) = "unique"
  <2>1. Cardinality(matches) = 1
    BY <1>2 DEF SelectionReason
  <2>2. matches # {}
    BY <2>1, FS_EmptySet
  <2>3. matches \subseteq Rules(status)
    BY DEF PrimaryMatches
  <2> HIDE DEF matches
  <2>4. \E r \in Rule : Package(r, status) \in matches
    BY <2>2, <2>3 DEF Rules
  <2>5. SelectedAmong(i, status) = CHOOSE r \in Rule : Package(r, status) \in matches
    BY <1>2 DEF SelectedAmong, matches
  <2> QED
    BY <2>4, <2>5
<1> QED
  BY <1>1, <1>2

(* As long as nothing that an evaluation reads changes, a report is as       *)
(* current as it was.                                                        *)
LEMMA CurrentKept ==
  ASSUME UNCHANGED <<Static, reports>>, ReportsCurrent
  PROVE  ReportsCurrent'
<1> USE DEF Static
<1>1. Selected(input)' = Selected(input)
  <2>1. \A r : Package(r, ruleStatus)' = Package(r, ruleStatus)
    BY DEF Package
  <2>2. Rules(ruleStatus)' = Rules(ruleStatus)
    BY <2>1 DEF Rules
  <2> DEFINE matches == PrimaryMatches(Rules(ruleStatus), Lender, input.context, input.product, today)
             reason == SelectionReason(input.context, matches)
             choice == CHOOSE r \in Rule : Package(r, ruleStatus) \in matches
  <2>3. matches' = matches
    BY <2>2 DEF PrimaryMatches, RuleInEffect
  <2>4. reason' = reason
    <3> HIDE DEF matches
    <3> QED
      BY <2>3, Zenon DEF SelectionReason
  <2>5. choice' = choice
    <3>1. ASSUME NEW r PROVE (Package(r, ruleStatus) \in matches)' <=> Package(r, ruleStatus) \in matches
      BY <2>1, <2>3
    <3> HIDE DEF matches
    <3> QED
      BY <3>1, Zenon
  <2>6. Selected(input) = IF reason = "unique" THEN choice ELSE None
    BY Zenon DEF Selected, SelectedAmong
  <2>7. Selected(input)' = IF reason' = "unique" THEN choice' ELSE None
    BY Zenon DEF Selected, SelectedAmong
  <2> HIDE DEF matches, reason, choice
  <2> QED
    BY <2>4, <2>5, <2>6, <2>7
<1>2. ASSUME NEW day PROVE EntryFor(day)' = EntryFor(day)
  BY DEF EntryFor, LprCandidates
<1>3. Applicable(input)' = Applicable(input)
  BY DEF Applicable
<1>4. ASSUME NEW r PROVE Stale(r)' <=> Stale(r)
  BY <1>1, <1>2, <1>3 DEF Stale, Overruled, Outdated
<1>5. ASSUME NEW kind PROVE Of(kind)' = Of(kind) /\ Latest(kind)' = Latest(kind)
  BY DEF Of, Latest
<1> QED
  BY <1>4, <1>5 DEF ReportsCurrent

(* A draft follows from what is read.                                         *)
LEMMA RedlineDraftFollows ==
  ASSUME NEW c \in Session PROVE Follows(RedlineDraft(c))
<1> DEFINE r == RedlineDraft(c)
           kept == ses[c].report
           among == [input EXCEPT !.product = kept.product]
<1>1. /\ r.kind = "redline" /\ r.selected = SelectedAmong(among, kept.status)
      /\ r.state = RedlineState(input, r.selected, r.entry)
      /\ r.usesLpr = UsesLpr(among, kept.status, r.selected)
  BY DEF RedlineDraft
<1> HIDE DEF r, among
<1>2. NeedsLpr(r.selected) => r.usesLpr
  BY <1>1 DEF NeedsLpr, UsesLpr
<1>3. r.selected = None \/ r.selected \in Rule
  BY <1>1, SelectedIsARule
<1>4. Follows(r)
  BY <1>1, <1>2, <1>3 DEF Follows
<1> QED
  BY <1>4 DEF r

LEMMA CompletenessDraftFollows == Follows(CompletenessDraft)
<1> DEFINE r == CompletenessDraft
<1>1. /\ r.kind = "completeness"
      /\ r.verdicts = Established(Verdicts(r.template, input))
  BY DEF CompletenessDraft
<1> HIDE DEF r
<1> QED
  BY <1>1 DEF Follows, r

LEMMA NewReportFollows ==
  ASSUME Inv, NEW c \in Session, CommitReport(c), Follows(ses[c].report)
  PROVE  Follows(NewReport(c))
<1> DEFINE r == NewReport(c)
           d == ses[c].report
<1> HIDE DEF r, d
<1>0. Formed(ses[c])
  BY DEF Inv, Shape
<1>1. /\ r.kind = d.kind /\ d.kind \in Making /\ DOMAIN r = Fields(d.kind)
      /\ \A f \in DOMAIN r \ {"id", "raced"} : r[f] = d[f]
  <2>1. ses[c].op \in Making /\ ses[c].pc = "flushed" => d.kind = ses[c].op
    BY <1>0 DEF Formed, d
  <2> QED
    BY <2>1, NewReportFields, Zenon DEF r, d
<1>2. CASE d.kind = "redline"
  <2>1. r.state = d.state /\ r.selected = d.selected /\ r.entry = d.entry /\ r.usesLpr = d.usesLpr
    BY <1>1, <1>2 DEF Fields, RedlineFields
  <2> QED
    BY <1>1, <1>2, <2>1 DEF Follows, r, d
<1>3. CASE d.kind = "completeness"
  <2>1. r.verdicts = d.verdicts /\ r.template = d.template
    BY <1>1, <1>3 DEF Fields, CompletenessFields
  <2> QED
    BY <1>1, <1>3, <2>1 DEF Follows, r, d
<1> QED
  BY <1>1, <1>2, <1>3 DEF Making

(* What has to be seen to of a step of c that writes no input.               *)
LEMMA MetAside ==
  ASSUME Inv, NEW c \in Session, Aside(c), ses'[c].op \notin Part,
         \A e \in Session :
            ses[e].op \in Part /\ ses'[c].op \in Marks(ses[e].op) \cup {"complete"} => ses'[c].raced
  PROVE  Met'
  BY DEF Inv, Met, Aside, SameSession

LEMMA DraftsAside ==
  ASSUME Inv, NEW c \in Session, Aside(c), UNCHANGED input,
         /\ ses'[c].op \in Making /\ ses'[c].pc \in {"read", "flushed"} /\ ~ses'[c].raced
            => Follows(ses'[c].report)
  PROVE  Drafts'
<1> SUFFICES ASSUME NEW b \in Session, ses'[b].op \in Making, ses'[b].pc \in {"read", "flushed"},
                    ~ses'[b].raced
             PROVE  Follows(ses[b].report)'
  BY DEF Drafts
<1>1. Follows(ses'[b].report)
  BY DEF Inv, Drafts, Aside, SameSession
<1>2. \A r : Follows(r) => Follows(r)'
  BY FollowsKept
<1> QED
  BY <1>1, <1>2

LEMMA StoredKept ==
  ASSUME Inv, UNCHANGED <<input, reports>>
  PROVE  Stored'
  BY FollowsKept DEF Inv, Stored

LEMMA DecidedAside ==
  ASSUME Inv, NEW c \in Session, Aside(c), UNCHANGED <<Static, reports>>,
         ses'[c].pc # "flushed",
         ses'[c].op = "complete" => ses[c].op = "complete" /\ (ses[c].raced => ses'[c].raced)
  PROVE  Decided'
<1>1. ReportsCurrent => ReportsCurrent'
  BY CurrentKept
<1> QED
  BY <1>1 DEF Inv, Decided, Aside, SameSession

(* Every step keeps an operation to its stages.                              *)
LEMMA AllFormedStep == ASSUME Inv, [Next]_vars PROVE AllFormed'
<1>0. ASSUME UNCHANGED vars PROVE AllFormed'
  BY <1>0 DEF vars, AllFormed, Inv, Shape
<1>1. ASSUME NEW c \in Session, Ask(c) PROVE AllFormed'
  BY <1>1, AskFacts
<1>2. ASSUME NEW c \in Session, NEW part \in Part, NEW v, Writes(part, v), Flush(c, part, v)
      PROVE  AllFormed'
  BY <1>2, FlushEffect
<1>3. ASSUME NEW c \in Session, CommitInput(c) PROVE AllFormed'
  BY <1>3, CommitInputEffect
<1>4. ASSUME NEW c \in Session, Abort(c) PROVE AllFormed'
  BY <1>4, IdleFacts DEF Abort
<1>5. ASSUME NEW c \in Session, AskRedline(c) PROVE AllFormed'
  BY <1>5, AskRedlineFacts
<1>6. ASSUME NEW c \in Session, ReadRedline(c) PROVE AllFormed'
  BY <1>6, ReadRedlineFacts
<1>7. ASSUME NEW c \in Session, ReadCompleteness(c) PROVE AllFormed'
  BY <1>7, ReadCompletenessFacts
<1>8. ASSUME NEW c \in Session, FlushReport(c) PROVE AllFormed'
  BY <1>8, FlushReportEffect, ReplacedAside
<1>9. ASSUME NEW c \in Session, CommitReport(c) PROVE AllFormed'
  BY <1>9, IdleFacts DEF CommitReport
<1>10. ASSUME NEW c \in Session, DecideComplete(c) PROVE AllFormed'
  BY <1>10, DecideFacts
<1>11. ASSUME NEW c \in Session, CommitComplete(c) PROVE AllFormed'
  BY <1>11, IdleFacts DEF CommitComplete
<1>12. ASSUME NEW c \in Session, Reopen(c) PROVE AllFormed'
  BY <1>12 DEF Reopen, AllFormed, Inv, Shape
<1>13. ASSUME CatalogueStep PROVE AllFormed'
  BY <1>13, CatalogueEffect
<1>14. ASSUME NEW d \in Doc, NEW category \in Category, Hint(d, category) PROVE AllFormed'
  BY <1>14 DEF Hint, AllFormed, Inv, Shape
<1> QED
  BY <1>0, <1>1, <1>2, <1>3, <1>4, <1>5, <1>6, <1>7, <1>8, <1>9, <1>10, <1>11, <1>12, <1>13,
       <1>14, WriteFlushes
     DEF Next, Step

(* Every step keeps the types.                                               *)
LEMMA DataStep == ASSUME Inv, [Next]_vars PROVE Data'
<1> USE DEF Inv, TypeOK, Data
<1>0. ASSUME UNCHANGED vars PROVE Data'
  BY <1>0 DEF vars, catalogue
<1>1. ASSUME NEW c \in Session, Ask(c) PROVE Data'
  BY <1>1 DEF Ask, catalogue
<1>2. ASSUME NEW c \in Session, NEW part \in Part, NEW v, Writes(part, v), Flush(c, part, v)
      PROVE  Data'
  BY <1>2, FirstAssumption DEF Flush, catalogue
<1>3. ASSUME NEW c \in Session, CommitInput(c) PROVE Data'
  <2>1. /\ ses[c].op \in Part /\ Writes(ses[c].op, ses[c].value[2])
        /\ input' = Applied(ses[c])
        /\ UNCHANGED <<lifecycle, hints, today, ruleStatus, published, templateStatus, changes,
             flushes>>
    BY <1>3 DEF CommitInput, Shape, Formed, catalogue
  <2>2. /\ Applied(ses[c]) \in Input
        /\ \A m, n \in Applied(ses[c]).confirmed : m[1] = n[1] => m = n
    BY <2>1, AppliedTyped
  <2> QED
    BY <2>1, <2>2
<1>4. ASSUME NEW c \in Session, Abort(c) PROVE Data'
  BY <1>4 DEF Abort, catalogue
<1>5. ASSUME NEW c \in Session, AskRedline(c) PROVE Data'
  BY <1>5 DEF AskRedline, Begin, catalogue
<1>6. ASSUME NEW c \in Session, ReadRedline(c) PROVE Data'
  BY <1>6 DEF ReadRedline, catalogue
<1>7. ASSUME NEW c \in Session, ReadCompleteness(c) PROVE Data'
  BY <1>7 DEF ReadCompleteness, Begin, catalogue
<1>8. ASSUME NEW c \in Session, FlushReport(c) PROVE Data'
  BY <1>8, FirstAssumption DEF FlushReport, catalogue
<1>9. ASSUME NEW c \in Session, CommitReport(c) PROVE Data'
  BY <1>9 DEF CommitReport, catalogue
<1>10. ASSUME NEW c \in Session, DecideComplete(c) PROVE Data'
  BY <1>10 DEF DecideComplete, catalogue
<1>11. ASSUME NEW c \in Session, CommitComplete(c) PROVE Data'
  BY <1>11 DEF CommitComplete, catalogue
<1>12. ASSUME NEW c \in Session, Reopen(c) PROVE Data'
  BY <1>12 DEF Reopen, catalogue
<1>13. ASSUME CatalogueStep PROVE Data'
  <2>1. /\ UNCHANGED <<lifecycle, input, hints, flushes>>
        /\ changes' \in 0 .. MaxChanges
    BY <1>13, FirstAssumption DEF CatalogueStep
  <2>2. ASSUME NEW r \in Rule, ApproveRule(r) \/ RetireRule(r) PROVE Data'
    BY <2>1, <2>2 DEF ApproveRule, RetireRule, Status
  <2>3. ASSUME NEW e \in Entry, PublishLpr(e) PROVE Data'
    BY <2>1, <2>3 DEF PublishLpr
  <2>4. ASSUME NEW t \in Template, PublishTemplate(t) \/ RetireTemplate(t) PROVE Data'
    BY <2>1, <2>4 DEF PublishTemplate, RetireTemplate, Status
  <2>5. ASSUME NextDay PROVE Data'
    BY <2>1, <2>5, FirstAssumption DEF NextDay
  <2> QED
    BY <1>13, <2>2, <2>3, <2>4, <2>5 DEF CatalogueStep
<1>14. ASSUME NEW d \in Doc, NEW category \in Category, Hint(d, category) PROVE Data'
  BY <1>14, FirstAssumption DEF Hint, catalogue
<1> HIDE DEF Inv, TypeOK, Data
<1> QED
  BY <1>0, <1>1, <1>2, <1>3, <1>4, <1>5, <1>6, <1>7, <1>8, <1>9, <1>10, <1>11, <1>12, <1>13,
       <1>14, WriteFlushes
     DEF Next, Step

(* Every step keeps the reports and their ids.                               *)
LEMMA RowsStep == ASSUME Inv, [Next]_vars PROVE Rows'
<1> USE DEF Inv, TypeOK, Shape, Rows
<1>0. ASSUME UNCHANGED vars PROVE Rows'
  BY <1>0 DEF vars
<1>1. ASSUME NEW c \in Session, Ask(c) PROVE Rows'
  BY <1>1 DEF Ask
<1>2. ASSUME NEW c \in Session, NEW part \in Part, NEW v, Writes(part, v), Flush(c, part, v)
      PROVE  Rows'
  BY <1>2, FirstAssumption DEF Flush
<1>3. ASSUME NEW c \in Session, CommitInput(c) PROVE Rows'
  <2>1. reports' = Settled(reports, ses[c].marks) /\ flushes' = flushes
    BY <1>3 DEF CommitInput
  <2> DEFINE marked == ses[c].marks
  <2>2. \A r \in reports' : \E q \in reports :
           /\ r = IF q.id \in marked THEN [q EXCEPT !.status = "stale"] ELSE q
           /\ DOMAIN r = DOMAIN q /\ r.kind = q.kind /\ r.id = q.id /\ r.raced = q.raced
           /\ r.status \in {q.status, "stale"}
    BY <2>1, SettledFrom
  <2> HIDE DEF marked
  <2> QED
    BY <2>1, <2>2
<1>4. ASSUME NEW c \in Session, Abort(c) PROVE Rows'
  BY <1>4 DEF Abort
<1>5. ASSUME NEW c \in Session, AskRedline(c) PROVE Rows'
  BY <1>5 DEF AskRedline, Begin
<1>6. ASSUME NEW c \in Session, ReadRedline(c) PROVE Rows'
  BY <1>6 DEF ReadRedline
<1>7. ASSUME NEW c \in Session, ReadCompleteness(c) PROVE Rows'
  BY <1>7 DEF ReadCompleteness, Begin
<1>8. ASSUME NEW c \in Session, FlushReport(c) PROVE Rows'
  BY <1>8, FirstAssumption DEF FlushReport
<1>9. ASSUME NEW c \in Session, CommitReport(c) PROVE Rows'
  <2> DEFINE marked == ses[c].marks
             all == reports \cup {NewReport(c)}
  <2>1. reports' = Settled(all, marked) /\ flushes' = flushes
    BY <1>9, NewReportFields DEF CommitReport
  <2>2. /\ NewReport(c).kind \in Kind /\ NewReport(c).id \in 1 .. flushes
        /\ NewReport(c).status = "current" /\ NewReport(c).raced \in BOOLEAN
        /\ DOMAIN NewReport(c) = Fields(NewReport(c).kind)
        /\ \A q \in reports : q.id # NewReport(c).id
    <3>0. /\ ses[c].op \in Making /\ ses[c].pc = "flushed"
          /\ NewReport(c).kind = ses[c].op /\ DOMAIN NewReport(c) = Fields(ses[c].op)
          /\ NewReport(c).id = ses[c].stamp /\ NewReport(c).raced = ses[c].raced
          /\ NewReport(c).status = "current"
      BY <1>9, NewReportFields
    <3>1. ses[c].stamp \in 1 .. flushes /\ \A q \in reports : q.id # ses[c].stamp
      BY <3>0 DEF Stamps
    <3>2. ses[c].op \in Kind /\ ses[c].raced \in BOOLEAN
      BY <3>0 DEF Formed, Making, Kind
    <3> QED
      BY <3>0, <3>1, <3>2
  <2>3. \A r \in reports' : \E q \in all :
           /\ r = IF q.id \in marked THEN [q EXCEPT !.status = "stale"] ELSE q
           /\ DOMAIN r = DOMAIN q /\ r.kind = q.kind /\ r.id = q.id /\ r.raced = q.raced
           /\ r.status \in {q.status, "stale"}
    <3>1. \A q \in all : DOMAIN q = Fields(q.kind)
      BY <1>9, NewReportFields
    <3> HIDE DEF all, marked
    <3> QED
      BY <2>1, <3>1, SettledFrom
  <2>4. \A q, p \in all : q.id = p.id => q = p
    BY <2>2
  <2>5. \A q \in all : /\ q.kind \in Kind /\ q.id \in 1 .. flushes
                       /\ q.status \in {"current", "stale"}
                       /\ DOMAIN q = Fields(q.kind) /\ q.raced \in BOOLEAN
    BY <2>2
  <2> HIDE DEF marked, all
  <2> QED
    BY <2>1, <2>3, <2>4, <2>5
<1>10. ASSUME NEW c \in Session, DecideComplete(c) PROVE Rows'
  BY <1>10 DEF DecideComplete
<1>11. ASSUME NEW c \in Session, CommitComplete(c) PROVE Rows'
  BY <1>11 DEF CommitComplete
<1>12. ASSUME NEW c \in Session, Reopen(c) PROVE Rows'
  BY <1>12 DEF Reopen
<1>13. ASSUME CatalogueStep PROVE Rows'
  BY <1>13 DEF CatalogueStep
<1>14. ASSUME NEW d \in Doc, NEW category \in Category, Hint(d, category) PROVE Rows'
  BY <1>14 DEF Hint
<1> HIDE DEF Inv, TypeOK, Shape, Rows
<1> QED
  BY <1>0, <1>1, <1>2, <1>3, <1>4, <1>5, <1>6, <1>7, <1>8, <1>9, <1>10, <1>11, <1>12, <1>13,
       <1>14, WriteFlushes
     DEF Next, Step

(* Whoever writes takes the next place.                                      *)
LEMMA StampsStep == ASSUME Inv, [Next]_vars PROVE Stamps'
<1> USE DEF Stamps
<1>0. ASSUME UNCHANGED vars PROVE Stamps'
  BY <1>0, QuietFacts DEF Inv
<1>1. ASSUME NEW c \in Session, Ask(c) PROVE Stamps'
  BY <1>1, PrivateFacts DEF PrivateStep, Inv, SameSession, Aside
<1>2. ASSUME NEW c \in Session, NEW part \in Part, NEW v, Writes(part, v), Flush(c, part, v)
      PROVE  Stamps'
  <2> SUFFICES ASSUME NEW b \in Session, ses'[b].pc = "flushed"
               PROVE  /\ ses'[b].stamp \in 1 .. flushes'
                      /\ \A e \in Session :
                            ses'[e].pc = "flushed" /\ ses'[e].stamp = ses'[b].stamp => e = b
                      /\ \A r \in reports' : ses'[b].op \in Making => r.id # ses'[b].stamp
    BY DEF Stamps
  <2>1. /\ \A e \in Session \ {c} : SameSession(e)
        /\ ses'[c].op \notin Making /\ ses'[c].stamp = flushes + 1
        /\ flushes' = flushes + 1 /\ flushes \in Nat /\ reports' = reports
    BY <1>2, FlushFacts DEF Aside, Part, Making
  <2> QED
    BY <2>1 DEF Inv, Stamps, SameSession
<1>3. ASSUME NEW c \in Session, CommitInput(c) PROVE Stamps'
  <2>1. /\ \A b \in Session \ {c} : SameSession(b)
        /\ ses'[c].pc = "idle" /\ flushes' = flushes
        /\ \A r \in reports' : \E q \in reports : r.id = q.id
    BY <1>3, CommitInputFacts DEF Aside
  <2> QED
    BY <2>1 DEF Inv, Stamps, SameSession
<1>4. ASSUME NEW c \in Session, Abort(c) PROVE Stamps'
  BY <1>4, PrivateFacts DEF PrivateStep, Inv, SameSession, Aside
<1>5. ASSUME NEW c \in Session, AskRedline(c) PROVE Stamps'
  BY <1>5, PrivateFacts DEF PrivateStep, Inv, SameSession, Aside
<1>6. ASSUME NEW c \in Session, ReadRedline(c) PROVE Stamps'
  BY <1>6, PrivateFacts DEF PrivateStep, Inv, SameSession, Aside
<1>7. ASSUME NEW c \in Session, ReadCompleteness(c) PROVE Stamps'
  BY <1>7, PrivateFacts DEF PrivateStep, Inv, SameSession, Aside
<1>8. ASSUME NEW c \in Session, FlushReport(c) PROVE Stamps'
  <2>1. /\ \A e \in Session \ {c} : SameSession(e)
        /\ ses'[c].stamp = flushes + 1
        /\ flushes' = flushes + 1 /\ flushes \in Nat /\ reports' = reports
        /\ \A r \in reports : r.id \in 1 .. flushes
    BY <1>8, FlushReportFacts DEF Aside, Inv, TypeOK
  <2> QED
    BY <2>1 DEF Inv, Stamps, SameSession
<1>9. ASSUME NEW c \in Session, CommitReport(c) PROVE Stamps'
  <2>1. /\ \A b \in Session \ {c} : SameSession(b)
        /\ ses'[c].pc = "idle" /\ flushes' = flushes
        /\ \A r \in reports' : \E q \in reports \cup {NewReport(c)} : r.id = q.id
        /\ NewReport(c).id = ses[c].stamp /\ ses[c].pc = "flushed"
    <3>1. /\ Aside(c) /\ ses'[c].pc = "idle" /\ flushes' = flushes /\ ses[c].pc = "flushed"
          /\ \A r \in reports' : \E q \in reports \cup {NewReport(c)} : r.id = q.id
      BY <1>9, CommitReportFacts
    <3>2. NewReport(c).id = ses[c].stamp
      BY <1>9, NewReportFields
    <3> QED
      BY <3>1, <3>2 DEF Aside
  <2> QED
    BY <2>1 DEF Inv, Stamps, SameSession
<1>10. ASSUME NEW c \in Session, DecideComplete(c) PROVE Stamps'
  BY <1>10, PrivateFacts DEF PrivateStep, Inv, SameSession, Aside
<1>11. ASSUME NEW c \in Session, CommitComplete(c) PROVE Stamps'
  BY <1>11, CompleteFacts DEF Inv, Aside, SameSession
<1>12. ASSUME NEW c \in Session, Reopen(c) PROVE Stamps'
  BY <1>12, QuietFacts DEF Inv
<1>13. ASSUME CatalogueStep PROVE Stamps'
  BY <1>13, CatalogueEffect DEF SameSession, CatalogueStep, Inv
<1>14. ASSUME NEW d \in Doc, NEW category \in Category, Hint(d, category) PROVE Stamps'
  BY <1>14, QuietFacts DEF Inv
<1> HIDE DEF Stamps
<1> QED
  BY <1>0, <1>1, <1>2, <1>3, <1>4, <1>5, <1>6, <1>7, <1>8, <1>9, <1>10, <1>11, <1>12, <1>13,
       <1>14, WriteFlushes
     DEF Next, Step

(* No write overlooks a report that was made without it.                     *)
LEMMA MissedStep == ASSUME Inv, [Next]_vars PROVE Missed'
<1> USE DEF Missed
<1>0. ASSUME UNCHANGED vars PROVE Missed'
  BY <1>0, QuietFacts DEF Inv
<1>1. ASSUME NEW c \in Session, Ask(c) PROVE Missed'
  BY <1>1, PrivateFacts DEF PrivateStep, Inv, SameSession, Aside
<1>2. ASSUME NEW c \in Session, NEW part \in Part, NEW v, Writes(part, v), Flush(c, part, v)
      PROVE  Missed'
  <2>1. /\ \A b \in Session \ {c} : SameSession(b)
        /\ ses'[c].op = part /\ ses'[c].marks = Visible(Marks(part)) /\ reports' = reports
    BY <1>2, FlushFacts DEF Aside
  <2>2. \A r \in reports :
           r.status = "current" /\ r.kind \in Marks(part) => r.id \in Visible(Marks(part))
    BY DEF Visible
  <2> QED
    BY <2>1, <2>2 DEF Inv, Missed, SameSession
<1>3. ASSUME NEW c \in Session, CommitInput(c) PROVE Missed'
  <2>1. /\ \A b \in Session \ {c} : SameSession(b)
        /\ ses'[c].op \notin Part
        /\ \A r \in reports' : r.status = "current" => r \in reports
    BY <1>3, CommitInputFacts DEF Aside, Part, None
  <2> QED
    BY <2>1 DEF Inv, Missed, SameSession
<1>4. ASSUME NEW c \in Session, Abort(c) PROVE Missed'
  BY <1>4, PrivateFacts DEF PrivateStep, Inv, SameSession, Aside
<1>5. ASSUME NEW c \in Session, AskRedline(c) PROVE Missed'
  BY <1>5, PrivateFacts DEF PrivateStep, Inv, SameSession, Aside
<1>6. ASSUME NEW c \in Session, ReadRedline(c) PROVE Missed'
  BY <1>6, PrivateFacts DEF PrivateStep, Inv, SameSession, Aside
<1>7. ASSUME NEW c \in Session, ReadCompleteness(c) PROVE Missed'
  BY <1>7, PrivateFacts DEF PrivateStep, Inv, SameSession, Aside
<1>8. ASSUME NEW c \in Session, FlushReport(c) PROVE Missed'
  <2>1. /\ \A e \in Session \ {c} : SameSession(e)
        /\ ses'[c].op \notin Part /\ reports' = reports
    BY <1>8, FlushReportFacts DEF Aside, Making, Part
  <2> QED
    BY <2>1 DEF Inv, Missed, SameSession
<1>9. ASSUME NEW c \in Session, CommitReport(c) PROVE Missed'
  <2>1. /\ \A b \in Session \ {c} : SameSession(b)
        /\ ses'[c].op \notin Part
        /\ \A r \in reports' : r.status = "current" => r \in reports \cup {NewReport(c)}
        /\ NewReport(c).kind = ses[c].op /\ NewReport(c).raced = ses[c].raced
    BY <1>9, CommitReportFacts, NewReportFields DEF Aside, Part, None
  <2>2. \A b \in Session :
           ses[b].op \in Part /\ NewReport(c).kind \in Marks(ses[b].op) => NewReport(c).raced
    BY <2>1 DEF Inv, Met
  <2> QED
    BY <2>1, <2>2 DEF Inv, Missed, SameSession
<1>10. ASSUME NEW c \in Session, DecideComplete(c) PROVE Missed'
  BY <1>10, PrivateFacts DEF PrivateStep, Inv, SameSession, Aside
<1>11. ASSUME NEW c \in Session, CommitComplete(c) PROVE Missed'
  <2>1. /\ \A b \in Session \ {c} : SameSession(b)
        /\ ses'[c].op \notin Part /\ reports' = reports
    BY <1>11, CompleteFacts DEF Aside, Part, None
  <2> QED
    BY <2>1 DEF Inv, Missed, SameSession
<1>12. ASSUME NEW c \in Session, Reopen(c) PROVE Missed'
  BY <1>12, QuietFacts DEF Inv
<1>13. ASSUME CatalogueStep PROVE Missed'
  BY <1>13, CatalogueEffect DEF SameSession, CatalogueStep, Inv
<1>14. ASSUME NEW d \in Doc, NEW category \in Category, Hint(d, category) PROVE Missed'
  BY <1>14, QuietFacts DEF Inv
<1> HIDE DEF Missed
<1> QED
  BY <1>0, <1>1, <1>2, <1>3, <1>4, <1>5, <1>6, <1>7, <1>8, <1>9, <1>10, <1>11, <1>12, <1>13,
       <1>14, WriteFlushes
     DEF Next, Step

(* Whoever is overtaken by a write is told.                                  *)
LEMMA MetStep == ASSUME Inv, [Next]_vars PROVE Met'
<1>0. ASSUME UNCHANGED vars PROVE Met'
  BY <1>0, QuietFacts DEF Inv, Met
<1>1. ASSUME NEW c \in Session, Ask(c) PROVE Met'
  <2>1. Aside(c) /\ ses'[c].op = "write"
    BY <1>1, AskFacts
  <2>2. \A e \in Session : ses[e].op \in Part => "write" \notin Marks(ses[e].op) \cup
       {"complete"}
    BY MarksAreKinds DEF Making
  <2> QED
    BY <2>1, <2>2, MetAside DEF Part
<1>2. ASSUME NEW c \in Session, NEW part \in Part, NEW v, Writes(part, v), Flush(c, part, v)
      PROVE  Met'
  <2>1. /\ \A b \in Session \ {c} : SameSession(b)
        /\ ses'[c].op = part
        /\ \A b \in Session \ {c} :
              ses[b].op \in Marks(part) \cup {"complete"} => ses'[b].raced
    BY <1>2, FlushFacts DEF Aside
  <2>2. \A q \in Part : part \notin Marks(q) \cup {"complete"}
    BY MarksAreKinds DEF Part, Making
  <2> QED
    BY <2>1, <2>2 DEF Inv, Met, SameSession
<1>3. ASSUME NEW c \in Session, CommitInput(c) PROVE Met'
  <2>1. Aside(c) /\ ses'[c].op = None
    BY <1>3, CommitInputFacts
  <2>2. \A e \in Session : ses[e].op \in Part => None \notin Marks(ses[e].op) \cup {"complete"}
    BY MarksAreKinds DEF Making, None
  <2> QED
    BY <2>1, <2>2, MetAside DEF Part, None
<1>4. ASSUME NEW c \in Session, Abort(c) PROVE Met'
  <2>1. Aside(c) /\ ses'[c].op = None
    BY <1>4, IdleFacts DEF Abort
  <2>2. \A e \in Session : ses[e].op \in Part => None \notin Marks(ses[e].op) \cup {"complete"}
    BY MarksAreKinds DEF Making, None
  <2> QED
    BY <2>1, <2>2, MetAside DEF Part, None
<1>5. ASSUME NEW c \in Session, AskRedline(c) PROVE Met'
  <2>1. Aside(c) /\ ses'[c].op = "redline" /\ ses'[c].raced = (Writers("redline") # {})
    BY <1>5, AskRedlineFacts
  <2>2. \A e \in Session :
           ses[e].op \in Part /\ "redline" \in Marks(ses[e].op) => e \in Writers("redline")
    BY DEF Writers
  <2> QED
    BY <2>1, <2>2, MetAside DEF Part
<1>6. ASSUME NEW c \in Session, ReadRedline(c) PROVE Met'
  <2>1. /\ Aside(c) /\ ses'[c].op = "redline" /\ ses[c].op = "redline"
        /\ ses'[c].raced = ses[c].raced
    BY <1>6, ReadRedlineFacts
  <2> QED
    BY <2>1, MetAside DEF Part, Inv, Met
<1>7. ASSUME NEW c \in Session, ReadCompleteness(c) PROVE Met'
  <2>1. /\ Aside(c) /\ ses'[c].op = "completeness"
        /\ ses'[c].raced = (Writers("completeness") # {})
    BY <1>7, ReadCompletenessFacts
  <2>2. \A e \in Session :
           ses[e].op \in Part /\ "completeness" \in Marks(ses[e].op) => e \in
                Writers("completeness")
    BY DEF Writers
  <2> QED
    BY <2>1, <2>2, MetAside DEF Part
<1>8. ASSUME NEW c \in Session, FlushReport(c) PROVE Met'
  <2>1. /\ Aside(c) /\ ses'[c].op = ses[c].op /\ ses[c].op \in Making
        /\ ses'[c].raced = ses[c].raced
    BY <1>8, FlushReportFacts
  <2> QED
    BY <2>1, MetAside DEF Part, Making, Inv, Met
<1>9. ASSUME NEW c \in Session, CommitReport(c) PROVE Met'
  <2>1. Aside(c) /\ ses'[c].op = None
    BY <1>9, CommitReportFacts
  <2>2. \A e \in Session : ses[e].op \in Part => None \notin Marks(ses[e].op) \cup {"complete"}
    BY MarksAreKinds DEF Making, None
  <2> QED
    BY <2>1, <2>2, MetAside DEF Part, None
<1>10. ASSUME NEW c \in Session, DecideComplete(c) PROVE Met'
  <2>1. /\ Aside(c) /\ ses'[c].op = "complete"
        /\ ses'[c].raced = \E kind \in Kind : Writers(kind) # {}
    BY <1>10, DecideFacts
  <2>2. ASSUME NEW e \in Session, ses[e].op \in Part PROVE \E kind \in Kind : e \in
       Writers(kind)
    BY <2>2, MarksAreKinds DEF Writers
  <2> QED
    BY <2>1, <2>2, MetAside DEF Part
<1>11. ASSUME NEW c \in Session, CommitComplete(c) PROVE Met'
  <2>1. Aside(c) /\ ses'[c].op = None
    BY <1>11, CompleteFacts
  <2>2. \A e \in Session : ses[e].op \in Part => None \notin Marks(ses[e].op) \cup {"complete"}
    BY MarksAreKinds DEF Making, None
  <2> QED
    BY <2>1, <2>2, MetAside DEF Part, None
<1>12. ASSUME NEW c \in Session, Reopen(c) PROVE Met'
  BY <1>12, QuietFacts DEF Inv, Met
<1>13. ASSUME CatalogueStep PROVE Met'
  BY <1>13, CatalogueEffect DEF SameSession, Inv, Met
<1>14. ASSUME NEW d \in Doc, NEW category \in Category, Hint(d, category) PROVE Met'
  BY <1>14, QuietFacts DEF Inv, Met
<1> QED
  BY <1>0, <1>1, <1>2, <1>3, <1>4, <1>5, <1>6, <1>7, <1>8, <1>9, <1>10, <1>11, <1>12, <1>13,
       <1>14, WriteFlushes
     DEF Next, Step

(* What has been read for a report stays true unless its maker is told.      *)
LEMMA DraftsStep == ASSUME Inv, [Next]_vars PROVE Drafts'
<1>0. ASSUME UNCHANGED vars PROVE Drafts'
  BY <1>0, QuietFacts, FollowsKept DEF Inv, Drafts, Static
<1>1. ASSUME NEW c \in Session, Ask(c) PROVE Drafts'
  <2>1. Aside(c) /\ UNCHANGED input /\ ses'[c].op = "write"
    BY <1>1, AskFacts DEF Ask
  <2> QED
    BY <2>1, DraftsAside DEF Making
<1>2. ASSUME NEW c \in Session, NEW part \in Part, NEW v, Writes(part, v), Flush(c, part, v)
      PROVE  Drafts'
  <2>1. Aside(c) /\ UNCHANGED input /\ ses'[c].op = part
    BY <1>2, FlushFacts DEF Static
  <2> QED
    BY <2>1, DraftsAside DEF Making, Part
<1>3. ASSUME NEW c \in Session, CommitInput(c) PROVE Drafts'
  <2>1. Aside(c) /\ ses'[c].op = None /\ ses[c].op \in Part
    BY <1>3, CommitInputFacts
  <2> SUFFICES ASSUME NEW b \in Session, ses'[b].op \in Making,
                      ses'[b].pc \in {"read", "flushed"}, ~ses'[b].raced
               PROVE  Follows(ses[b].report)'
    BY DEF Drafts
  <2>2. /\ ses[b].op \in Making /\ ses[b].pc \in {"read", "flushed"} /\ ~ses[b].raced
        /\ ses'[b].report = ses[b].report
    BY <2>1 DEF Aside, SameSession, Making, None
  <2>3. Follows(ses[b].report) /\ ses[b].report.kind = ses[b].op
    BY <2>2 DEF Inv, Drafts, Shape, Formed
  <2>4. ses[b].op \notin Marks(ses[c].op)
    BY <2>1, <2>2 DEF Inv, Met
  <2>5. \A r : r.kind \in Making /\ r.kind \notin Marks(ses[c].op) /\ Follows(r) => Follows(r)'
    BY <1>3, FollowsUnmarked
  <2> QED
    BY <2>2, <2>3, <2>4, <2>5
<1>4. ASSUME NEW c \in Session, Abort(c) PROVE Drafts'
  <2>1. Aside(c) /\ UNCHANGED input /\ ses'[c].op = None
    BY <1>4, IdleFacts DEF Abort
  <2> QED
    BY <2>1, DraftsAside DEF Making, None
<1>5. ASSUME NEW c \in Session, AskRedline(c) PROVE Drafts'
  <2>1. Aside(c) /\ UNCHANGED input /\ ses'[c].pc = "asked"
    BY <1>5, AskRedlineFacts DEF AskRedline, Begin
  <2> QED
    BY <2>1, DraftsAside
<1>6. ASSUME NEW c \in Session, ReadRedline(c) PROVE Drafts'
  <2>1. Aside(c) /\ UNCHANGED input /\ ses'[c].report = RedlineDraft(c)
    BY <1>6, ReadRedlineFacts DEF ReadRedline
  <2> QED
    BY <2>1, DraftsAside, RedlineDraftFollows
<1>7. ASSUME NEW c \in Session, ReadCompleteness(c) PROVE Drafts'
  <2>1. Aside(c) /\ ses'[c].report = CompletenessDraft
    BY <1>7, ReadCompletenessFacts
  <2>2. UNCHANGED input
    BY <1>7 DEF ReadCompleteness, Begin
  <2> QED
    BY <2>1, <2>2, DraftsAside, CompletenessDraftFollows
<1>8. ASSUME NEW c \in Session, FlushReport(c) PROVE Drafts'
  <2>1. /\ Aside(c) /\ UNCHANGED input /\ ses'[c].report = ses[c].report
        /\ ses[c].op \in Making /\ ses[c].pc = "read" /\ ses'[c].raced = ses[c].raced
    BY <1>8, FlushReportFacts DEF Static
  <2> QED
    BY <2>1, DraftsAside DEF Inv, Drafts
<1>9. ASSUME NEW c \in Session, CommitReport(c) PROVE Drafts'
  <2>1. Aside(c) /\ UNCHANGED input /\ ses'[c].op = None
    BY <1>9, CommitReportFacts DEF Static
  <2> QED
    BY <2>1, DraftsAside DEF Making, None
<1>10. ASSUME NEW c \in Session, DecideComplete(c) PROVE Drafts'
  <2>1. Aside(c) /\ UNCHANGED input /\ ses'[c].op = "complete"
    BY <1>10, DecideFacts DEF DecideComplete
  <2> QED
    BY <2>1, DraftsAside DEF Making
<1>11. ASSUME NEW c \in Session, CommitComplete(c) PROVE Drafts'
  <2>1. Aside(c) /\ UNCHANGED input /\ ses'[c].op = None
    BY <1>11, CompleteFacts DEF Static
  <2> QED
    BY <2>1, DraftsAside DEF Making, None
<1>12. ASSUME NEW c \in Session, Reopen(c) PROVE Drafts'
  BY <1>12, QuietFacts, FollowsKept DEF Inv, Drafts, Static
<1>13. ASSUME CatalogueStep PROVE Drafts'
  <2>1. (\A b \in Session : SameSession(b)) /\ UNCHANGED input
    BY <1>13, CatalogueEffect DEF CatalogueStep
  <2>2. \A r : Follows(r) => Follows(r)'
    BY <2>1, FollowsKept
  <2> QED
    BY <2>1, <2>2 DEF Inv, Drafts, SameSession
<1>14. ASSUME NEW d \in Doc, NEW category \in Category, Hint(d, category) PROVE Drafts'
  BY <1>14, QuietFacts, FollowsKept DEF Inv, Drafts, Static
<1> QED
  BY <1>0, <1>1, <1>2, <1>3, <1>4, <1>5, <1>6, <1>7, <1>8, <1>9, <1>10, <1>11, <1>12, <1>13,
       <1>14, WriteFlushes
     DEF Next, Step

(* What is stored stays true or is marked.                                   *)
LEMMA StoredStep == ASSUME Inv, [Next]_vars PROVE Stored'
<1>0. ASSUME UNCHANGED vars PROVE Stored'
  BY <1>0, QuietFacts, StoredKept DEF Static
<1>1. ASSUME NEW c \in Session, Ask(c) PROVE Stored'
  BY <1>1, PrivateFacts, StoredKept DEF PrivateStep, Static
<1>2. ASSUME NEW c \in Session, NEW part \in Part, NEW v, Writes(part, v), Flush(c, part, v)
      PROVE  Stored'
  BY <1>2, FlushFacts, StoredKept DEF Static
<1>3. ASSUME NEW c \in Session, CommitInput(c) PROVE Stored'
  <2> SUFFICES ASSUME NEW r \in reports', r.status = "current", ~r.raced PROVE Follows(r)'
    BY DEF Stored
  <2>1. r \in reports /\ r.id \notin ses[c].marks /\ ses[c].op \in Part
    BY <1>3, CommitInputFacts
  <2>2. r.kind \notin Marks(ses[c].op) /\ r.kind \in Making
    BY <2>1 DEF Inv, Missed, TypeOK, Kind, Making
  <2>3. Follows(r)
    BY <2>1 DEF Inv, Stored
  <2> QED
    BY <1>3, <2>2, <2>3, FollowsUnmarked
<1>4. ASSUME NEW c \in Session, Abort(c) PROVE Stored'
  BY <1>4, PrivateFacts, StoredKept DEF PrivateStep, Static
<1>5. ASSUME NEW c \in Session, AskRedline(c) PROVE Stored'
  BY <1>5, PrivateFacts, StoredKept DEF PrivateStep, Static
<1>6. ASSUME NEW c \in Session, ReadRedline(c) PROVE Stored'
  BY <1>6, PrivateFacts, StoredKept DEF PrivateStep, Static
<1>7. ASSUME NEW c \in Session, ReadCompleteness(c) PROVE Stored'
  BY <1>7, PrivateFacts, StoredKept DEF PrivateStep, Static
<1>8. ASSUME NEW c \in Session, FlushReport(c) PROVE Stored'
  BY <1>8, FlushReportFacts, StoredKept DEF Static
<1>9. ASSUME NEW c \in Session, CommitReport(c) PROVE Stored'
  <2> SUFFICES ASSUME NEW r \in reports', r.status = "current", ~r.raced PROVE Follows(r)'
    BY DEF Stored
  <2>1. r \in reports \cup {NewReport(c)} /\ UNCHANGED input
    BY <1>9, CommitReportFacts DEF Static
  <2>2. CASE r \in reports
    BY <2>1, <2>2, FollowsKept DEF Inv, Stored
  <2>3. CASE r = NewReport(c)
    <3>1. Follows(ses[c].report)
      BY <1>9, <2>3, NewReportFields DEF Inv, Drafts
    <3>2. Follows(r)
      BY <1>9, <2>3, <3>1, NewReportFollows
    <3> QED
      BY <2>1, <3>2, FollowsKept
  <2> QED
    BY <2>1, <2>2, <2>3
<1>10. ASSUME NEW c \in Session, DecideComplete(c) PROVE Stored'
  BY <1>10, PrivateFacts, StoredKept DEF PrivateStep, Static
<1>11. ASSUME NEW c \in Session, CommitComplete(c) PROVE Stored'
  BY <1>11, CompleteFacts, StoredKept DEF Static
<1>12. ASSUME NEW c \in Session, Reopen(c) PROVE Stored'
  BY <1>12, QuietFacts, StoredKept DEF Static
<1>13. ASSUME CatalogueStep PROVE Stored'
  BY <1>13, StoredKept DEF CatalogueStep
<1>14. ASSUME NEW d \in Doc, NEW category \in Category, Hint(d, category) PROVE Stored'
  BY <1>14, QuietFacts, StoredKept DEF Static
<1> QED
  BY <1>0, <1>1, <1>2, <1>3, <1>4, <1>5, <1>6, <1>7, <1>8, <1>9, <1>10, <1>11, <1>12, <1>13,
       <1>14, WriteFlushes
     DEF Next, Step

(* A completion that is decided keeps its ground or is told.                 *)
LEMMA DecidedStep == ASSUME Inv, [Next]_vars PROVE Decided'
<1>0. ASSUME UNCHANGED vars PROVE Decided'
  BY <1>0, QuietFacts, CurrentKept DEF Inv, Decided
<1>1. ASSUME NEW c \in Session, Ask(c) PROVE Decided'
  <2>1. Aside(c) /\ ses'[c].op = "write" /\ ses'[c].pc # "flushed" /\ UNCHANGED <<Static,
       reports>>
    BY <1>1, AskFacts, PrivateFacts DEF PrivateStep
  <2> QED
    BY <2>1, DecidedAside
<1>2. ASSUME NEW c \in Session, NEW part \in Part, NEW v, Writes(part, v), Flush(c, part, v)
      PROVE  Decided'
  <2>1. /\ \A b \in Session \ {c} : SameSession(b)
        /\ ses'[c].op = part
        /\ \A b \in Session \ {c} : ses[b].op = "complete" => ses'[b].raced
    BY <1>2, FlushFacts DEF Aside
  <2>2. part \notin Making \cup {"complete"}
    BY DEF Part, Making
  <2> QED
    BY <2>1, <2>2 DEF Inv, Decided, SameSession
<1>3. ASSUME NEW c \in Session, CommitInput(c) PROVE Decided'
  <2>1. /\ \A b \in Session \ {c} : SameSession(b)
        /\ ses'[c].op = None /\ ses[c].op \in Part
    BY <1>3, CommitInputFacts DEF Aside
  <2>2. \A b \in Session \ {c} : ses[b].op = "complete" => ses'[b].raced
    BY <2>1 DEF Inv, Met, SameSession
  <2> QED
    BY <2>1, <2>2 DEF Inv, Decided, SameSession, None, Making
<1>4. ASSUME NEW c \in Session, Abort(c) PROVE Decided'
  <2>1. Aside(c) /\ ses'[c].pc # "flushed" /\ UNCHANGED <<Static, reports>>
    BY <1>4, PrivateFacts DEF PrivateStep
  <2>2. ses'[c].op = None
    BY <1>4, IdleFacts DEF Abort
  <2> QED
    BY <2>1, <2>2, DecidedAside DEF None
<1>5. ASSUME NEW c \in Session, AskRedline(c) PROVE Decided'
  <2>1. Aside(c) /\ ses'[c].op = "redline" /\ ses'[c].pc # "flushed" /\ UNCHANGED <<Static,
       reports>>
    BY <1>5, AskRedlineFacts, PrivateFacts DEF PrivateStep
  <2> QED
    BY <2>1, DecidedAside
<1>6. ASSUME NEW c \in Session, ReadRedline(c) PROVE Decided'
  <2>1. Aside(c) /\ ses'[c].op = "redline" /\ ses'[c].pc # "flushed" /\ UNCHANGED <<Static,
       reports>>
    BY <1>6, ReadRedlineFacts, PrivateFacts DEF PrivateStep
  <2> QED
    BY <2>1, DecidedAside
<1>7. ASSUME NEW c \in Session, ReadCompleteness(c) PROVE Decided'
  <2>1. Aside(c) /\ ses'[c].op = "completeness" /\ ses'[c].pc # "flushed" /\ UNCHANGED <<Static,
       reports>>
    BY <1>7, ReadCompletenessFacts, PrivateFacts DEF PrivateStep
  <2> QED
    BY <2>1, DecidedAside
<1>8. ASSUME NEW c \in Session, FlushReport(c) PROVE Decided'
  <2>1. /\ \A b \in Session \ {c} : SameSession(b)
        /\ ses'[c].op = ses[c].op /\ ~Completing
    BY <1>8, FlushReportFacts DEF Aside
  <2> QED
    BY <2>1 DEF Decided, SameSession, Completing
<1>9. ASSUME NEW c \in Session, CommitReport(c) PROVE Decided'
  <2>1. /\ \A b \in Session \ {c} : SameSession(b)
        /\ ses'[c].op = None /\ ses[c].op \in Making /\ ses[c].pc = "flushed"
    BY <1>9, CommitReportFacts DEF Aside
  <2> QED
    BY <2>1 DEF Inv, Decided, SameSession, None
<1>10. ASSUME NEW c \in Session, DecideComplete(c) PROVE Decided'
  <2>1. /\ Aside(c) /\ ses'[c].pc # "flushed" /\ UNCHANGED <<Static, reports>>
    BY <1>10, PrivateFacts DEF PrivateStep
  <2>2. ReportsCurrent'
    BY <1>10, <2>1, CurrentKept DEF DecideComplete
  <2>3. \A b \in Session : ~(ses[b].op \in Making /\ ses[b].pc = "flushed")
    BY <1>10 DEF DecideComplete, Inserting, Inserts
  <2> QED
    BY <2>1, <2>2, <2>3 DEF Decided, Aside, SameSession
<1>11. ASSUME NEW c \in Session, CommitComplete(c) PROVE Decided'
  <2>1. /\ Aside(c) /\ ses'[c].op = None /\ ses'[c].pc = "idle"
        /\ UNCHANGED <<Static, reports>>
    BY <1>11, CompleteFacts
  <2> QED
    BY <2>1, DecidedAside DEF None
<1>12. ASSUME NEW c \in Session, Reopen(c) PROVE Decided'
  BY <1>12, QuietFacts, CurrentKept DEF Inv, Decided
<1>13. ASSUME CatalogueStep PROVE Decided'
  BY <1>13, CatalogueEffect DEF SameSession, Inv, Decided
<1>14. ASSUME NEW d \in Doc, NEW category \in Category, Hint(d, category) PROVE Decided'
  BY <1>14, QuietFacts, CurrentKept DEF Inv, Decided
<1> QED
  BY <1>0, <1>1, <1>2, <1>3, <1>4, <1>5, <1>6, <1>7, <1>8, <1>9, <1>10, <1>11, <1>12, <1>13,
       <1>14, WriteFlushes
     DEF Next, Step

(***************************************************************************)
(* The results.                                                            *)
(***************************************************************************)

LEMMA InitInv == Init => Inv
<1> SUFFICES ASSUME Init PROVE Inv
  OBVIOUS
<1> USE DEF Init
<1>1. Data
  <2>1. input \in Input
    BY FirstAssumption DEF Input
  <2>2. \A m, n \in input.confirmed : m[1] = n[1] => m = n
    OBVIOUS
  <2>3. ruleStatus \in [Rule -> Status] /\ templateStatus \in [Template -> Status]
    BY BookAssumption
  <2>4. lifecycle = "open" /\ hints = {} /\ today = 1 /\ published \subseteq Entry
    BY FirstAssumption
  <2>5. today \in 1 .. LastDay /\ flushes \in 0 .. MaxFlushes /\ changes \in 0 .. MaxChanges
    BY FirstAssumption
  <2> QED
    BY <2>1, <2>2, <2>3, <2>4, <2>5 DEF Data
<1>2. Rows
  BY DEF Rows
<1>3. \A c \in Session : ses[c] = Idle
  OBVIOUS
<1>4. AllFormed
  BY <1>3, IdleIsFormed DEF AllFormed
<1>5. \A c \in Session : ses[c].pc = "idle" /\ ses[c].op = None
  BY <1>3 DEF Idle
<1>6. TypeOK /\ Shape
  BY <1>1, <1>2, <1>4, TypesFromParts
<1>7. Stamps /\ Missed /\ Met /\ Drafts /\ Stored /\ Decided
  BY <1>5 DEF Stamps, Missed, Met, Drafts, Stored, Decided, Part, Making, None
<1> QED
  BY <1>6, <1>7 DEF Inv

LEMMA TypesStep == ASSUME Inv, [Next]_vars PROVE (TypeOK /\ Shape)'
<1>1. (Data /\ Rows /\ AllFormed <=> TypeOK /\ Shape)'
  BY DEF Data, Rows, AllFormed, TypeOK, Shape, Formed
<1> QED
  BY <1>1, AllFormedStep, DataStep, RowsStep

(* The invariant holds in every state.                                       *)
THEOREM ReportsInvariant == Spec => []Inv
<1>1. Init => Inv
  BY InitInv
<1>2. Inv /\ [Next]_vars => Inv'
  <2> SUFFICES ASSUME Inv, [Next]_vars PROVE Inv'
    OBVIOUS
  <2> QED
    BY TypesStep, StampsStep, MissedStep, MetStep, DraftsStep, StoredStep, DecidedStep DEF Inv
<1> QED
  BY <1>1, <1>2, PTL DEF Spec

(* Every variable keeps its type.                                            *)
THEOREM ReportTypes == Spec => []TypeOK
<1>1. Inv => TypeOK
  BY DEF Inv
<1> QED
  BY <1>1, ReportsInvariant, PTL

(* What a report that nobody overtook follows from still holds if it is not  *)
(* stale: its rule is the one in force, and its rate is unless it needs none. *)
LEMMA FollowsHolds ==
  ASSUME NEW r, Follows(r), ~Torn(r), ~Stale(r), r.kind \in Kind
  PROVE  Holds(r)
<1>1. CASE r.kind = "redline"
  <2>1. r.rule = r.selected /\ Selected(input) = r.rule
        /\ (r.usesLpr => EntryFor(r.asOf) = r.entry)
    BY <1>1 DEF Torn, Stale, Overruled
  <2>2. /\ r.state = RedlineState(input, r.selected, r.entry)
        /\ NeedsLpr(r.selected) => r.usesLpr
        /\ r.selected = None \/ r.selected \in Rule
    BY <1>1 DEF Follows
  <2>3. CASE r.usesLpr
    BY <1>1, <2>1, <2>2, <2>3 DEF Holds
  <2>4. CASE ~r.usesLpr
    <3>1. RedlineState(input, r.selected, EntryFor(r.asOf))
            = RedlineState(input, r.selected, r.entry)
      BY <2>2, <2>4, StateWithoutLpr
    <3> QED
      BY <1>1, <2>1, <2>2, <3>1 DEF Holds
  <2> QED
    BY <2>3, <2>4
<1>2. CASE r.kind = "completeness"
  BY <1>2 DEF Follows, Holds
<1> QED
  BY <1>1, <1>2 DEF Kind

(* A report that is shown as current and that no write overtook says what an *)
(* evaluation of the present inputs says (redline_api.py:417,                *)
(* completeness_api.py:231).                                                 *)
THEOREM CurrentReportsSayWhatHolds == Spec => []CurrentReportsHold
<1>1. Inv => CurrentReportsHold
  <2> SUFFICES ASSUME Inv, NEW r \in reports, ~r.raced, ~Torn(r), ~Stale(r) PROVE Holds(r)
    BY DEF CurrentReportsHold
  <2>1. r.status = "current" /\ r.kind \in Kind
    BY DEF Stale, Inv, TypeOK
  <2>2. Follows(r)
    BY <2>1 DEF Inv, Stored
  <2> QED
    BY <2>1, <2>2, FollowsHolds
<1> QED
  BY <1>1, ReportsInvariant, PTL

(* The latest report of a kind is one, and of that kind.                     *)
LEMMA LatestIsThere ==
  ASSUME TypeOK, NEW kind \in Kind, Of(kind) # {}
  PROVE  Latest(kind) \in reports /\ Latest(kind).kind = kind
<1> DEFINE S == {flushes - r.id : r \in Of(kind)}
<1>1. flushes \in Nat /\ \A r \in Of(kind) : r.id \in 1 .. flushes
  BY FirstAssumption DEF TypeOK, Of
<1>2. S \subseteq Nat /\ S # {}
  BY <1>1
<1>3. \E x \in S : \A y \in S : x <= y
  <2> HIDE DEF S
  <2> QED
    BY <1>2, LeastNumber
<1>4. \E r \in Of(kind) : \A q \in Of(kind) : q.id <= r.id
  <2>1. PICK r \in Of(kind) : \A y \in S : flushes - r.id <= y
    BY <1>3
  <2>2. ASSUME NEW q \in Of(kind) PROVE q.id <= r.id
    <3>1. flushes - r.id <= flushes - q.id
      BY <2>1
    <3> QED
      BY <1>1, <3>1
  <2> QED
    BY <2>2
<1> QED
  BY <1>4 DEF Latest, Of

(* A completion that no change overtook rests on reports that hold when it   *)
(* is committed (lifecycle.py:176).                                          *)
THEOREM SignOffsHold == Spec => SignOffHolds
<1>1. Inv /\ [Next]_vars =>
        [\A c \in Session : Completes(c) /\ ~ses[c].raced =>
            \A kind \in Kind :
                LET r == Latest(kind)
                IN  ~Stale(r) /\ (r.raced \/ Torn(r) \/ Holds(r))]_vars
  <2> SUFFICES ASSUME Inv, NEW c \in Session, Completes(c), ~ses[c].raced, NEW kind \in Kind
               PROVE  ~Stale(Latest(kind))
                      /\ (Latest(kind).raced \/ Torn(Latest(kind)) \/ Holds(Latest(kind)))
    OBVIOUS
  <2>1. ReportsCurrent
    BY DEF Completes, Inv, Decided
  <2>2. Of(kind) # {} /\ ~Stale(Latest(kind))
    BY <2>1 DEF ReportsCurrent
  <2> DEFINE r == Latest(kind)
  <2>3. r \in reports /\ r.kind = kind
    BY <2>2, LatestIsThere DEF Inv
  <2> HIDE DEF r
  <2>4. ~Stale(r)
    BY <2>2 DEF r
  <2>5. ASSUME ~r.raced, ~Torn(r) PROVE Holds(r)
    <3>1. r.status = "current"
      BY <2>3, <2>4 DEF Stale, Inv, TypeOK
    <3>2. Follows(r)
      BY <2>3, <2>5, <3>1 DEF Inv, Stored
    <3> QED
      BY <2>3, <2>4, <2>5, <3>2, FollowsHolds
  <2> QED
    BY <2>4, <2>5 DEF r
<1> QED
  BY <1>1, ReportsInvariant, PTL DEF Spec, SignOffHolds
=============================================================================
