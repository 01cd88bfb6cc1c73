---------------------------- MODULE FormalReports ----------------------------
(***************************************************************************)
(* The formal reports of one application: backend/app/redline_api.py,      *)
(* completeness_api.py, candidates.py, and what lifecycle.py asks of them. *)
(*                                                                         *)
(* A handler that writes an input checks the state of the application,     *)
(* then writes its row and marks the reports its session can see as stale, *)
(* then commits.  A handler that makes a report checks and reads, then     *)
(* adds the report and marks the older ones, then commits; a redline       *)
(* report selects its rule in one step and reads the rest in another.      *)
(*                                                                         *)
(* Marks of two sessions do not wait for one another: what PostgreSQL only *)
(* delays may happen at once here.  An insert of a row that refers to the  *)
(* application needs a share of its row, which complete has FOR UPDATE.    *)
(***************************************************************************)
EXTENDS Redline, Completeness, TLC

CONSTANTS
    Session,      \* sessions of the API server
    Doc,          \* documents of the application
    Product,      \* products
    FirstProduct, \* the one of the application at first
    Context,      \* rule contexts
    Category,     \* material categories
    Rate,         \* interest rates that may be resolved
    Code,         \* codes of checklist items
    Signing,      \* signing dates an application may get, or NoDay
    LastDay,      \* bound of the model: days
    RuleBook,     \* [rule -> record], the packages with their first status
    LprBook,      \* [entry -> record], the LPR entries
    FirstEntries, \* those that are published at first
    TemplateBook, \* [template -> record], the templates with their first status
    Lender,       \* settings.lender_qualification
    MaxFlushes,   \* bound of the model: handlers that write
    MaxChanges    \* bound of the model: steps of the others

Rule == DOMAIN RuleBook
Entry == DOMAIN LprBook
Template == DOMAIN TemplateBook
Kind == {"redline", "completeness"}
Status == {"draft", "approved", "retired"}     \* "published" for templates
None == "none"
Absent == 0

ASSUME FirstAssumption ==
    /\ FirstProduct \in Product /\ FirstEntries \subseteq Entry
    /\ LastDay \in Nat \ {0} /\ MaxFlushes \in Nat /\ MaxChanges \in Nat

ASSUME BookAssumption ==
    /\ \A r \in Rule : /\ RuleBook[r].status \in Status
                       /\ RuleBook[r].calc \in {"annual_rate_limit", "lpr_multiple_limit",
                                                "effective_cost_limit"}
    /\ \A t \in Template : TemplateBook[t].status \in Status

\* Entries of one day tie, and which one counts is then up to the database.
ASSUME LprDatesDiffer ==
    \A e, f \in Entry : LprBook[e].effective = LprBook[f].effective => e = f

VARIABLES
    lifecycle,   \* applications.lifecycle_state: "open" or "complete"
    input,       \* what is committed of the inputs, a record
    hints,       \* material_classification_candidates, set of <<document, category>>
    today,       \* the date
    ruleStatus,  \* [Rule -> Status], rule_packages.status
    published,   \* LPR entries of published imports
    templateStatus, \* [Template -> Status], completeness_templates.status
    reports,     \* redline_runs and completeness_runs; older stale ones are left out
    flushes,     \* handlers that have written: the order of created_at
    changes,     \* steps of administrators, the worker and the clock
    ses          \* [Session -> what it does]

catalogue == <<today, ruleStatus, published, templateStatus, changes>>
vars == <<lifecycle, input, hints, catalogue, reports, flushes, ses>>

\* The inputs that officers write.
\* rate, collateral: the latest resolutions.  mapped: set of <<document,
\* template, item code>>.  waived: set of <<template, item code>>.  sealed:
\* documents whose latest review says the seal is present.

Input ==
    [product : Product, signing : Signing \cup {NoDay}, context : Context \cup {NoContext},
     rate : Rate \cup {Absent}, collateral : BOOLEAN,
     mapped : SUBSET (Doc \X Template \X Code), waived : SUBSET (Template \X Code),
     confirmed : SUBSET (Doc \X Category), sealed : SUBSET Doc]

\* Which reports a write of an input marks as stale.
Marks(part) ==
    CASE part \in {"rate", "collateral"} -> Kind
      [] part \in {"context", "application"} -> {"redline"}
      [] part \in {"mapped", "unmapped", "waived", "confirmed", "sealed"} -> {"completeness"}

Part == {"rate", "collateral", "context", "application", "mapped", "unmapped",
         "waived", "confirmed", "sealed"}
Making == {"redline", "completeness"}

Idle == [op |-> None, pc |-> "idle", value |-> <<>>, stamp |-> 0, old |-> FALSE,
         marks |-> {}, raced |-> FALSE, report |-> [kind |-> None]]

Phases == {"idle", "asked", "read", "flushed", "decided"}
Op == Part \cup {"write", "redline", "completeness", "complete", None}

TypeOK ==
    /\ lifecycle \in {"open", "complete"}
    /\ input \in Input
    /\ \A m, n \in input.confirmed : m[1] = n[1] => m = n
    /\ hints \subseteq Doc \X Category
    /\ today \in 1 .. LastDay
    /\ ruleStatus \in [Rule -> Status] /\ published \subseteq Entry
    /\ templateStatus \in [Template -> Status]
    /\ flushes \in 0 .. MaxFlushes /\ changes \in 0 .. MaxChanges
    /\ \A r \in reports :
          r.kind \in Kind /\ r.id \in 1 .. flushes /\ r.status \in {"current", "stale"}
    /\ \A r, q \in reports : r.id = q.id => r = q
    /\ \A c \in Session :
          /\ ses[c].pc \in Phases /\ ses[c].op \in Op
          /\ ses[c].pc = "idle" <=> ses[c] = Idle

-----------------------------------------------------------------------------
(* What the database says. *)

Package(r, status) == [status |-> status[r], id |-> r] @@ RuleBook[r]
Rules(status) == {Package(r, status) : r \in Rule}

Loan(i) == IF i.rate = Absent THEN [f \in {} |-> 0] ELSE [f \in {"interest_rate"} |-> i.rate]

\* The rule that applies today when the rules have these statuses, or None.
SelectedAmong(i, status) ==
    LET matches == PrimaryMatches(Rules(status), Lender, i.context, i.product, today)
    IN  IF SelectionReason(i.context, matches) = "unique"
        THEN CHOOSE r \in Rule : Package(r, status) \in matches ELSE None

Selected(i) == SelectedAmong(i, ruleStatus)

\* current_lpr_entry: the entry for a day, or None.
EntryFor(day) ==
    LET latest == LprCandidates({LprBook[e] @@ [id |-> e] : e \in published}, day)
    IN  IF latest = {} THEN None ELSE (CHOOSE e \in latest : TRUE).id

LprValue(entry) == IF entry = None THEN NoRate ELSE LprBook[entry].value

\* evaluate_redline, its state only.
RedlineState(i, rule, entry) ==
    IF rule = None THEN "indeterminate"
    ELSE EvaluateRule(RuleBook[rule], Loan(i), LprValue(entry)).state

UsesLpr(i, status, rule) ==
    \/ rule # None /\ RuleBook[rule].calc = "lpr_multiple_limit"
    \/ \E r \in ApplicableReferences(Rules(status), i.context, i.product, today) :
          r.calc = "lpr_multiple_limit"

\* published_applicable_template
Applicable(i) ==
    LET here == {t \in Template : /\ templateStatus[t] = "approved"
                                  /\ TemplateBook[t].product = i.product}
    IN  IF here = {} THEN None ELSE CHOOSE t \in here : TRUE

Checked(i) ==
    [waived |-> {w[2] : w \in i.waived},
     context |-> IF i.collateral THEN {"collateral"} ELSE {},
     mapped |-> {<<m[1], m[3]>> : m \in i.mapped},
     confirmed |-> i.confirmed, candidates |-> hints,
     seal |-> i.sealed, signature |-> {}]

Verdicts(t, i) == EvaluateItems(TemplateBook[t].items, Checked(i))

\* build_run_snapshots sorts the mappings and the waivers, which are dictionaries:
\* sorted() raises a TypeError when there are two to compare.
Sortable(i) ==
    /\ Cardinality(Checked(i).mapped) <= 1
    /\ Cardinality(Checked(i).waived) <= 1

Of(kind) == {r \in reports : r.kind = kind}
Latest(kind) == CHOOSE r \in Of(kind) : \A q \in Of(kind) : q.id <= r.id

\* run_staleness of redline_api.py and of completeness_api.py: a rule, a rate or
\* a template has come or gone.
Overruled(r) ==
    \/ Selected(input) # r.rule
    \/ r.usesLpr /\ EntryFor(r.asOf) # r.entry

Outdated(r) == Applicable(input) \notin {None, r.template}

Stale(r) ==
    \/ r.status = "stale"
    \/ r.kind = "redline" /\ Overruled(r)
    \/ r.kind = "completeness" /\ Outdated(r)

-----------------------------------------------------------------------------
(* Sessions. *)

InFlight(c) == ses[c].pc # "idle"

\* Sessions that have written an input of reports of the kind and not committed.
Writers(kind) == {c \in Session : ses[c].op \in Part /\ kind \in Marks(ses[c].op)}

\* An insert of a row with the key of the application, against FOR UPDATE.
Inserts(part) ==
    \/ part \in Making \cup {"rate", "collateral", "mapped", "waived"}
    \/ part = "context" /\ input.context = NoContext
    \/ part = "confirmed" /\ input.confirmed = {}

Completing == \E c \in Session : ses[c].op = "complete"
Inserting == \E c \in Session : ses[c].pc = "flushed" /\ Inserts(ses[c].op)
Updating == \E c \in Session : ses[c].op = "application"

\* Makers of reports of the kinds, and who decides a completion, have met a change.
Meet(sessions, kinds) ==
    [c \in Session |->
        IF sessions[c].op \in kinds \cup {"complete"} THEN [sessions[c] EXCEPT !.raced = TRUE]
        ELSE sessions[c]]

\* What the query of mark_runs_stale returns.
Visible(kinds) == {r.id : r \in {q \in reports : q.kind \in kinds /\ q.status = "current"}}

\* Mutant: a mark leaves the report it marks, and shows it twice.
SettledTwice(all, marked) ==
    all \cup {[r EXCEPT !.status = "stale"] : r \in {q \in all : q.id \in marked}}

\* The reports once the marks are committed.
Settled(all, marked) ==
    LET now == {IF r.id \in marked THEN [r EXCEPT !.status = "stale"] ELSE r : r \in all}
    IN  {r \in now : r.status = "current" \/ \A q \in now : q.kind = r.kind => q.id <= r.id}

\* require_mutable of a handler that will write an input.
Ask(c) ==
    /\ ~InFlight(c) /\ lifecycle = "open"
    /\ ses' = [ses EXCEPT ![c] = [Idle EXCEPT !.op = "write", !.pc = "asked"]]
    /\ UNCHANGED <<lifecycle, input, hints, catalogue, reports, flushes>>

\* Mutant: create_resolution marks the completeness reports only.
MarkedOne(part) ==
    IF part \in {"rate", "collateral"} THEN {"completeness"} ELSE Marks(part)

Marked(part) == Marks(part)

Flush(c, part, value) ==
    /\ ses[c].op = "write" /\ flushes < MaxFlushes
    /\ ~(Completing /\ Inserts(part))
    /\ flushes' = flushes + 1
    /\ ses' = Meet([ses EXCEPT ![c] =
            [Idle EXCEPT !.op = part, !.pc = "flushed", !.value = <<part, value>>,
                         !.stamp = flushes + 1, !.marks = Visible(Marked(part))]], Marks(part))
    /\ UNCHANGED <<lifecycle, input, hints, catalogue, reports>>

\* Nobody else has written that row: its lock or a unique key would keep us waiting.
RowFree(part, row) == \A c \in Session : ses[c].op = part => ses[c].value[2] \notin row

Resolve(c, rate) == Flush(c, "rate", rate)
ResolveCollateral(c) == Flush(c, "collateral", TRUE)
ConfirmRuleContext(c, context) ==
    RowFree("context", Context) /\ Flush(c, "context", context)
ConfirmClassification(c, d, category) ==
    RowFree("confirmed", {d} \X Category) /\ Flush(c, "confirmed", <<d, category>>)
CreateReview(c, d, present) == Flush(c, "sealed", <<d, present>>)
UpdateApplication(c, product, signing) ==
    ~Completing /\ ~Updating /\ Flush(c, "application", <<product, signing>>)

\* Only items of the template in force can be mapped or waived, each once.
InForce(t, code) == t # None /\ code \in {item.code : item \in TemplateBook[t].items}

CreateMapping(c, d, code) ==
    LET m == <<d, Applicable(input), code>>
    IN  /\ InForce(m[2], code)
        /\ m \notin input.mapped /\ RowFree("mapped", {m})
        /\ Flush(c, "mapped", m)

DeleteMapping(c, m) ==
    /\ m \in input.mapped /\ RowFree("unmapped", {m})
    /\ Flush(c, "unmapped", m)

CreateWaiver(c, code) ==
    LET w == <<Applicable(input), code>>
    IN  /\ InForce(w[1], code)
        /\ w \notin input.waived /\ RowFree("waived", {w})
        /\ Flush(c, "waived", w)

\* The inputs with the write of s.  A resolution or review that is older than
\* one already committed is not the latest.
Applied(s) ==
    LET v == s.value[2]
    IN  IF s.old THEN input
        ELSE CASE s.op \in {"rate", "collateral", "context"} -> [input EXCEPT ![s.op] = v]
               [] s.op = "application" -> [input EXCEPT !.product = v[1], !.signing = v[2]]
               [] s.op \in {"mapped", "waived"} -> [input EXCEPT ![s.op] = @ \cup {v}]
               [] s.op = "unmapped" -> [input EXCEPT !.mapped = @ \ {v}]
               [] s.op = "confirmed" ->
                     [input EXCEPT !.confirmed = {m \in @ : m[1] # v[1]} \cup {v}]
               [] s.op = "sealed" ->
                     [input EXCEPT !.sealed = IF v[2] THEN @ \cup {v[1]} ELSE @ \ {v[1]}]

\* s and t add a row to the same history, t first.
Older(t, s) ==
    /\ t.op = s.op /\ s.op \in {"rate", "collateral", "sealed"}
    /\ s.op = "sealed" => s.value[2][1] = t.value[2][1]
    /\ t.stamp < s.stamp

CommitInput(c) ==
    LET s == ses[c]
    IN  /\ s.op \in Part
        /\ input' = Applied(s)
        /\ reports' = Settled(reports, s.marks)
        /\ ses' = [b \in Session |->
               IF b = c THEN Idle
               ELSE IF Older(ses[b], s) THEN [ses[b] EXCEPT !.old = TRUE] ELSE ses[b]]
        /\ UNCHANGED <<lifecycle, hints, catalogue, flushes>>

\* The request fails or its client is gone: the session is rolled back.
Abort(c) ==
    /\ InFlight(c)
    /\ ses' = [ses EXCEPT ![c] = Idle]
    /\ UNCHANGED <<lifecycle, input, hints, catalogue, reports, flushes>>

-----------------------------------------------------------------------------
(* create_redline_run and create_completeness_run. *)

Begin(c, op, pc, report) ==
    /\ ~InFlight(c)
    /\ lifecycle = "open"
    /\ ses' = [ses EXCEPT ![c] = [Idle EXCEPT !.op = op, !.pc = pc, !.report = report,
                                              !.raced = Writers(op) # {}]]
    /\ UNCHANGED <<lifecycle, input, hints, catalogue, reports, flushes>>

\* _live_result, of which the rule is used.  The session keeps the rows it has
\* read and still refers to: the application and the rules.
AskRedline(c) ==
    Begin(c, "redline", "asked",
          [rule |-> Selected(input), status |-> ruleStatus,
           product |-> input.product, signing |-> input.signing])

\* build_run_snapshots, with a selection of its own from what the session kept
\* and what it reads again.
ReadRedline(c) ==
    LET kept == ses[c].report
        rule == SelectedAmong([input EXCEPT !.product = kept.product], kept.status)
        asOf == LprDay(kept.signing, today)
        entry == EntryFor(asOf)
    IN  /\ ses[c].op = "redline" /\ ses[c].pc = "asked"
        /\ ses' = [ses EXCEPT ![c].pc = "read", ![c].report =
               [kind |-> "redline", id |-> 0, status |-> "current", raced |-> FALSE,
                rule |-> kept.rule,
                state |-> RedlineState(input, rule, entry), selected |-> rule,
                usesLpr |-> UsesLpr([input EXCEPT !.product = kept.product], kept.status, rule),
                asOf |-> asOf, entry |-> entry]]
        /\ UNCHANGED <<lifecycle, input, hints, catalogue, reports, flushes>>

\* Without a template, or with what cannot be sorted, there is no report.
ReadCompleteness(c) ==
    LET t == Applicable(input)
    IN  /\ t # None /\ Sortable(input)
        /\ Begin(c, "completeness", "read",
                 [kind |-> "completeness", id |-> 0, status |-> "current", raced |-> FALSE,
                  template |-> t,
                  verdicts |-> Established(Verdicts(t, input))])

FlushReport(c) ==
    /\ ses[c].op \in Making /\ ses[c].pc = "read"
    /\ flushes < MaxFlushes /\ ~Completing
    /\ flushes' = flushes + 1
    /\ ses' = [ses EXCEPT ![c].pc = "flushed", ![c].stamp = flushes + 1,
                          ![c].marks = Visible({ses[c].op})]
    /\ UNCHANGED <<lifecycle, input, hints, catalogue, reports>>

CommitReport(c) ==
    LET s == ses[c]
        report == [s.report EXCEPT !.id = s.stamp, !.raced = s.raced]
    IN  /\ s.op \in Making /\ s.pc = "flushed"
        /\ reports' = Settled(reports \cup {report}, s.marks)
        /\ ses' = [ses EXCEPT ![c] = Idle]
        /\ UNCHANGED <<lifecycle, input, hints, catalogue, flushes>>

-----------------------------------------------------------------------------
(* complete_application and reopen_application, by their reports.            *)

\* Mutant: what run_staleness adds to the stored status is not asked for.
ReportsStored == \A kind \in Kind : Of(kind) # {} /\ Latest(kind).status = "current"

\* completion_blockers, but for running jobs.
ReportsCurrent == \A kind \in Kind : Of(kind) # {} /\ ~Stale(Latest(kind))

DecideComplete(c) ==
    /\ ~InFlight(c)
    /\ ~Completing /\ ~Updating /\ ~Inserting
    /\ lifecycle = "open" /\ ReportsCurrent
    /\ ses' = [ses EXCEPT ![c] = [Idle EXCEPT !.op = "complete", !.pc = "decided",
                !.raced = \E kind \in Kind : Writers(kind) # {}]]
    /\ UNCHANGED <<lifecycle, input, hints, catalogue, reports, flushes>>

CommitComplete(c) ==
    /\ ses[c].op = "complete"
    /\ lifecycle' = "complete"
    /\ ses' = [ses EXCEPT ![c] = Idle]
    /\ UNCHANGED <<input, hints, catalogue, reports, flushes>>

Reopen(c) ==
    /\ ~InFlight(c)
    /\ ~Completing /\ ~Updating /\ ~Inserting
    /\ lifecycle = "complete"
    /\ lifecycle' = "open"
    /\ UNCHANGED <<input, hints, catalogue, reports, flushes, ses>>

-----------------------------------------------------------------------------
(* Administrators, the worker and the clock, each in one step: Catalogue is  *)
(* about what they do to one another.                                        *)

ApproveRule(r) ==
    /\ ruleStatus[r] = "draft"
    /\ \A q \in Rule : ruleStatus[q] = "approved" => ~Ambiguous(RuleBook[q], RuleBook[r])
    /\ ruleStatus' = [ruleStatus EXCEPT ![r] = "approved"]
    /\ UNCHANGED <<today, published, templateStatus>>

RetireRule(r) ==
    /\ ruleStatus[r] = "approved"
    /\ ruleStatus' = [ruleStatus EXCEPT ![r] = "retired"]
    /\ UNCHANGED <<today, published, templateStatus>>

PublishLpr(e) ==
    /\ e \notin published /\ published' = published \cup {e}
    /\ UNCHANGED <<today, ruleStatus, templateStatus>>

PublishTemplate(t) ==
    /\ templateStatus[t] = "draft"
    /\ \A u \in Template : templateStatus[u] = "approved" =>
          TemplateBook[u].product # TemplateBook[t].product
    /\ templateStatus' = [templateStatus EXCEPT ![t] = "approved"]
    /\ UNCHANGED <<today, ruleStatus, published>>

RetireTemplate(t) ==
    /\ templateStatus[t] = "approved"
    /\ templateStatus' = [templateStatus EXCEPT ![t] = "retired"]
    /\ UNCHANGED <<today, ruleStatus, published>>

NextDay ==
    /\ today < LastDay /\ today' = today + 1
    /\ UNCHANGED <<ruleStatus, published, templateStatus>>

CatalogueStep ==
    /\ \/ \E r \in Rule : ApproveRule(r) \/ RetireRule(r)
       \/ \E e \in Entry : PublishLpr(e)
       \/ \E t \in Template : PublishTemplate(t) \/ RetireTemplate(t)
       \/ NextDay
    /\ changes < MaxChanges /\ changes' = changes + 1
    /\ ses' = Meet(ses, {})
    /\ UNCHANGED <<lifecycle, input, hints, reports, flushes>>

\* run_classification of a job: it marks nothing.
Hint(d, category) ==
    /\ lifecycle = "open"
    /\ <<d, category>> \notin hints /\ hints' = hints \cup {<<d, category>>}
    /\ changes < MaxChanges /\ changes' = changes + 1
    /\ UNCHANGED <<lifecycle, input, today, ruleStatus, published, templateStatus>>
    /\ UNCHANGED <<reports, flushes, ses>>

-----------------------------------------------------------------------------

\* A new application whose rule context is confirmed.
Init ==
    /\ lifecycle = "open"
    /\ input \in [product : {FirstProduct}, signing : {NoDay}, context : Context, rate : {Absent},
                  collateral : {FALSE}, mapped : {{}}, waived : {{}}, confirmed : {{}},
                  sealed : {{}}]
    /\ hints = {} /\ today = 1
    /\ ruleStatus = [r \in Rule |-> RuleBook[r].status]
    /\ published = FirstEntries
    /\ templateStatus = [t \in Template |-> TemplateBook[t].status]
    /\ reports = {} /\ flushes = 0 /\ changes = 0
    /\ ses = [c \in Session |-> Idle]

Write(c) ==
    \/ \E rate \in Rate : Resolve(c, rate)
    \/ ResolveCollateral(c)
    \/ \E context \in Context : ConfirmRuleContext(c, context)
    \/ \E product \in Product, signing \in Signing : UpdateApplication(c, product, signing)
    \/ \E d \in Doc, category \in Category : ConfirmClassification(c, d, category)
    \/ \E d \in Doc, present \in BOOLEAN : CreateReview(c, d, present)
    \/ \E d \in Doc, code \in Code : CreateMapping(c, d, code)
    \/ \E m \in input.mapped : DeleteMapping(c, m)
    \/ \E code \in Code : CreateWaiver(c, code)

Step(c) ==
    \/ Ask(c) \/ Write(c) \/ CommitInput(c) \/ Abort(c)
    \/ AskRedline(c) \/ ReadRedline(c) \/ ReadCompleteness(c) \/ FlushReport(c) \/ CommitReport(c)
    \/ DecideComplete(c) \/ CommitComplete(c) \/ Reopen(c)

Next ==
    \/ \E c \in Session : Step(c)
    \/ CatalogueStep
    \/ \E d \in Doc, category \in Category : Hint(d, category)

Spec == Init /\ [][Next]_vars

-----------------------------------------------------------------------------
(* Properties. *)

\* What the report says is what an evaluation would say now.  For a redline
\* report it is the one for the day its rate was selected for.
Holds(r) ==
    IF r.kind = "redline"
    THEN RedlineState(input, Selected(input), EntryFor(r.asOf)) = r.state
    ELSE Established(Verdicts(r.template, input)) = r.verdicts

\* The two selections of create_redline_run differ: rule_id is not the rule of
\* the report.
Torn(r) == r.kind = "redline" /\ r.rule # r.selected

\* A report that is shown as current says what an evaluation of the present
\* inputs says, unless a write of an input was between its marks and its commit
\* while the report was made: nothing but that overlap can make it wrong, not
\* the two selections of create_redline_run, nor a rule, rate or template that
\* comes or goes (redline_api.py:417, completeness_api.py:231).
CurrentReportsHold == \A r \in reports : ~r.raced /\ ~Torn(r) /\ ~Stale(r) => Holds(r)

Completes(c) == ses[c].op = "complete" /\ lifecycle' = "complete"

\* A completion rests on reports that hold when it is committed.  The row lock
\* keeps new resolutions, mappings, waivers and reports out; only what needs no
\* share of the row may change in between (lifecycle.py:176).
SignOffHolds ==
    [][\A c \in Session : Completes(c) /\ ~ses[c].raced =>
          \A kind \in Kind :
              LET r == Latest(kind)
              IN  ~Stale(r) /\ (r.raced \/ Torn(r) \/ Holds(r))]_vars

\* A page that names no obstacle to a completeness report
\* (formal_run_blocked_reason, completeness_api.py:389) is right about it.
UnblockedReportsCanBeMade ==
    lifecycle = "open" /\ Applicable(input) # None => Sortable(input)
=============================================================================
