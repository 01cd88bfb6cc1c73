----------------------------- MODULE Catalogue -----------------------------
(***************************************************************************)
(* What administrators put in force, backend/app/admin_rules.py and        *)
(* admin_templates.py, and what a start of the API server seeds.           *)
(*                                                                         *)
(* No handler locks a row: it reads one, judges what it read, and writes   *)
(* the columns it changed when it commits.  Unique are (code, version) of  *)
(* rule packages and of templates, and (template, code) of items; nothing  *)
(* in the database keeps two published templates or two approved rules     *)
(* apart.  The content hash of a row stands for the content it was         *)
(* computed from.                                                          *)
(***************************************************************************)
EXTENDS EvaluationLaws, FiniteSetsExt

CONSTANTS
    Admin,        \* sessions of administrators
    RuleCode,     \* codes of rule packages
    TemplateCode, \* codes of templates
    RuleInput,    \* contents that requests may ask a rule package to have
    TemplateInput,\* sequences of items that requests may ask a template to have
    CsvRow,       \* rows that an LPR file may have
    DemoRules,    \* [code -> content], DEMO_RULES
    DemoItems,    \* [code -> items], DEMO_ITEMS
    DemoEntries,  \* demo_lpr_entries
    Product,      \* [template code -> product and borrower type]
    Category,     \* material categories
    LastDay,      \* bound of the model: days
    MaxRows,      \* bound of the model: rule packages, and templates
    MaxImports,   \* bound of the model: LPR imports
    MaxWrites     \* bound of the model: commits and starts

Status == {"draft", "approved", "retired"}     \* "published" for templates
RuleOp == {"create rule", "update rule", "approve rule", "copy rule", "retire rule"}
TemplateOp == {"create template", "update template", "publish template",
               "copy template", "retire template"}

VARIABLES
    rules,       \* rule_packages: [<<code, version>> -> row]
    templates,   \* completeness_templates with checklist_items: [<<code, version>> -> row]
    imports,     \* lpr_imports with their lpr_entries, a sequence
    up,          \* the API server has started
    writes,      \* commits and starts so far
    ses          \* [Admin -> what the session has read and will write]

vars == <<rules, templates, imports, up, writes, ses>>
tables == <<rules, templates, imports>>

Idle == [op |-> "none", pc |-> "idle", id |-> <<>>, input |-> <<>>, read |-> <<>>,
         version |-> 0, seen |-> {}, behind |-> {}, raced |-> FALSE]

\* A row is raced once its last write was overtaken by one that it had to see.
RuleRow(code, version, status, content) ==
    [code |-> code, version |-> version, status |-> status, content |-> content,
     hash |-> <<code, version, content>>, raced |-> FALSE]

TemplateRow(code, version, status, name, items) ==
    [code |-> code, version |-> version, status |-> status, name |-> name, items |-> items,
     hash |-> <<code, version, name, items>>, raced |-> FALSE]

\* An LPR import with its entries.
LprBatch(status, entries, demo) == [status |-> status, entries |-> entries, demo |-> demo]

Rows(table) == {table[i] : i \in DOMAIN table}
With(table, row) ==
    [k \in DOMAIN table \cup {<<row.code, row.version>>} |->
        IF k \in DOMAIN table THEN table[k] ELSE row]
ItemSet(items) == {items[i] : i \in DOMAIN items}

ContentField == {"kind", "lender", "context", "product", "calc", "from", "until", "params"}
ItemsDiffer(items) == \A x, y \in items : x.code = y.code => x = y

TypeOK ==
    /\ \A id \in DOMAIN rules :
          /\ id = <<rules[id].code, rules[id].version>>
          /\ rules[id].version \in 1 .. writes /\ rules[id].status \in Status
          /\ ValidCalcParams(rules[id].content.calc, rules[id].content.params)
    /\ \A id \in DOMAIN templates :
          /\ id = <<templates[id].code, templates[id].version>>
          /\ templates[id].version \in 1 .. writes /\ templates[id].status \in Status
          /\ ItemsDiffer(templates[id].items)
    /\ \A b \in Rows(imports) : b.status \in {"draft", "published"} /\ b.entries # {}
    /\ writes \in 0 .. MaxWrites /\ up \in BOOLEAN
    /\ \A a \in Admin : ses[a].pc \in {"idle", "read", "checked"}

-----------------------------------------------------------------------------
(* Sessions.                                                                 *)

Running == up /\ writes < MaxWrites

Begin(a, op, session) ==
    /\ Running /\ ses[a].pc = "idle"
    /\ ses' = [ses EXCEPT ![a] = [session EXCEPT !.op = op, !.pc = "read"]]
    /\ UNCHANGED <<tables, up, writes>>

\* The sessions once a has written, and has overtaken some of the others.
Overtake(a, overtaken) ==
    [b \in Admin |->
        IF b = a THEN Idle
        ELSE [ses[b] EXCEPT !.raced = @ \/ b \in overtaken, !.behind = @ \ {a}]]

Same(s, ops, id) == s.op \in ops /\ s.id = id

Version(table, code) == Max({0} \cup {r.version : r \in {q \in Rows(table) : q.code = code}})

Taken(table, code, version) == <<code, version>> \in DOMAIN table

\* A request that is rejected, or fails at a unique key, leaves no trace.
Fail(a) ==
    /\ ses[a].pc # "idle"
    /\ ses' = [ses EXCEPT ![a] = Idle]
    /\ UNCHANGED <<tables, up, writes>>

-----------------------------------------------------------------------------
(* Rule packages. *)

\* Mutant: only the days are validated.
ValidDays(content) == content.until = NoDay \/ content.from <= content.until

ValidRule(content) ==
    /\ ValidCalcParams(content.calc, content.params)
    /\ content.until = NoDay \/ content.from <= content.until

AskCreateRule(a, code, content) ==
    /\ ValidRule(content) /\ Version(rules, code) = 0
    /\ Begin(a, "create rule", [Idle EXCEPT !.input = <<code, content>>, !.version = 1])

\* Only drafts are edited, and only their days and parameters.
Editable(content) ==
    {c \in RuleInput : \A f \in {"kind", "lender", "context", "product", "calc"} :
        c[f] = content[f]}

\* Mutant: any version can be edited.
MayEditAny(row) == TRUE
MayEdit(row) == row.status = "draft"

AskUpdateRule(a, id, content) ==
    /\ MayEdit(rules[id])
    /\ content \in Editable(rules[id].content) /\ ValidRule(content)
    /\ Begin(a, "update rule", [Idle EXCEPT !.id = id, !.input = content, !.read = rules[id]])

AskApproveRule(a, id) ==
    /\ rules[id].status = "draft"
    /\ Begin(a, "approve rule", [Idle EXCEPT !.id = id, !.read = rules[id]])

\* The query for overlapping packages, against the row that was read.
CheckApproval(a) ==
    /\ ses[a].op = "approve rule" /\ ses[a].pc = "read"
    /\ \A r \in Rows(rules) : r.status = "approved" => ~Ambiguous(r.content, ses[a].read.content)
    /\ ses' = [ses EXCEPT ![a].pc = "checked"]
    /\ UNCHANGED <<tables, up, writes>>

NextVersion(table, row) == Version(table, row.code) + 1

AskCopyRule(a, id) == Begin(a, "copy rule", [Idle EXCEPT !.id = id, !.read = rules[id]])

CountRules(a) ==
    /\ ses[a].op = "copy rule" /\ ses[a].pc = "read"
    /\ ses' = [ses EXCEPT ![a].pc = "checked", ![a].version = NextVersion(rules, ses[a].read)]
    /\ UNCHANGED <<tables, up, writes>>

AskRetireRule(a, id) ==
    /\ rules[id].status = "approved"
    /\ Begin(a, "retire rule", [Idle EXCEPT !.id = id, !.read = rules[id]])

\* Only what differs from the row that was read is written.
Written(new, read, row) ==
    [f \in DOMAIN row |-> IF new[f] # read[f] THEN new[f] ELSE row[f]]

\* Mutant: the hash is computed before the new content is assigned.
EditedEarly(read, content) == [read EXCEPT !.content = content]

Edited(read, content) ==
    [read EXCEPT !.content = content, !.hash = <<read.code, read.version, content>>]

UpdatedRule(row, s) ==
    LET new == Edited(s.read, s.input)
    IN  [row EXCEPT !.content = Written(new.content, s.read.content, row.content),
                    !.hash = IF new.hash # s.read.hash THEN new.hash ELSE row.hash,
                    !.raced = @ \/ s.raced]

\* Those who edit or approve this package, and, if it is in force now, those
\* who approve another one for its scope.
MissedRule(id, row) ==
    {b \in Admin : \/ Same(ses[b], {"update rule", "approve rule"}, id)
                   \/ /\ ses[b].op = "approve rule" /\ row.status = "approved"
                      /\ SameScope(ses[b].read.content, row.content)}

InsertRule(a) ==
    LET s == ses[a]
        row == IF s.op = "create rule" THEN RuleRow(s.input[1], 1, "draft", s.input[2])
               ELSE RuleRow(s.read.code, s.version, "draft", s.read.content)
    IN  /\ s.op = "create rule" \/ (s.op = "copy rule" /\ s.pc = "checked")
        /\ Cardinality(DOMAIN rules) < MaxRows
        /\ ~Taken(rules, row.code, row.version)
        /\ rules' = With(rules, row)
        /\ ses' = [ses EXCEPT ![a] = Idle]

WriteRule(a) ==
    LET s == ses[a]
        row == CASE s.op = "update rule" -> UpdatedRule(rules[s.id], s)
                 [] s.op = "approve rule" ->
                       [rules[s.id] EXCEPT !.status = "approved", !.raced = @ \/ s.raced]
                 [] s.op = "retire rule" -> [rules[s.id] EXCEPT !.status = "retired"]
    IN  /\ s.op \in {"update rule", "retire rule"} \/ (s.op = "approve rule" /\ s.pc = "checked")
        /\ rules' = [rules EXCEPT ![s.id] = row]
        /\ ses' = Overtake(a, IF s.op = "retire rule" THEN {} ELSE MissedRule(s.id, row))

CommitRule(a) ==
    /\ Running /\ writes' = writes + 1
    /\ InsertRule(a) \/ WriteRule(a)
    /\ UNCHANGED <<templates, imports, up>>

-----------------------------------------------------------------------------
(* Templates. *)

ValidTemplate(items) == ValidTemplateItems(items, Category)

AskCreateTemplate(a, code, items) ==
    /\ ValidTemplate(items) /\ Version(templates, code) = 0
    /\ Begin(a, "create template", [Idle EXCEPT !.input = <<code, items>>, !.version = 1])

AskUpdateTemplate(a, id, name, items) ==
    /\ MayEdit(templates[id]) /\ ValidTemplate(items)
    /\ Begin(a, "update template", [Idle EXCEPT !.id = id, !.input = <<name, ItemSet(items)>>,
                                                !.read = templates[id]])

Renames(s) == s.op = "update template" /\ s.input[1] # s.read.name

\* Another edit has written the name, and keeps the row locked.
RowLocked(a, id) ==
    \E b \in Admin \ {a} :
        Same(ses[b], {"update template"}, id) /\ ses[b].pc = "checked" /\ Renames(ses[b])

\* A new name is flushed, then the items are deleted: those committed by now.
\* The statement waits for those who are deleting them already.
DeleteItems(a) ==
    LET s == ses[a]
    IN  /\ s.op = "update template" /\ s.pc = "read"
        /\ Renames(s) => ~RowLocked(a, s.id)
        /\ ses' = [ses EXCEPT ![a].pc = "checked", ![a].seen = templates[s.id].items,
                ![a].behind = {b \in Admin \ {a} : /\ Same(ses[b], {"update template"}, s.id)
                                                   /\ ses[b].pc = "checked"}]
        /\ UNCHANGED <<tables, up, writes>>

\* Items that another edit has added in the meantime stay.
Kept(row, s) == row.items \ s.seen

\* The hash is over the items in the database and the name in the session.
UpdatedTemplate(row, s) ==
    LET items == Kept(row, s) \cup s.input[2]
        hash == <<row.code, row.version, s.input[1], items>>
    IN  [row EXCEPT !.name = IF Renames(s) THEN s.input[1] ELSE @,
                    !.items = items,
                    !.hash = IF hash # s.read.hash THEN hash ELSE @,
                    !.raced = @ \/ s.raced]

AskPublishTemplate(a, id) ==
    /\ templates[id].status = "draft"
    /\ Begin(a, "publish template", [Idle EXCEPT !.id = id, !.read = templates[id]])

PublishedFor(product) ==
    {i \in DOMAIN templates : /\ templates[i].status = "approved"
                              /\ Product[templates[i].code] = product}

\* Mutant: any other version of the code may be published besides.
CheckCode(s) ==
    \A i \in PublishedFor(Product[s.read.code]) : templates[i].code = s.read.code

\* One for each product and borrower type.
CheckOne(s) == PublishedFor(Product[s.read.code]) \subseteq {s.id}

CheckPublish(a) ==
    /\ ses[a].op = "publish template" /\ ses[a].pc = "read"
    /\ CheckOne(ses[a])
    /\ ses' = [ses EXCEPT ![a].pc = "checked"]
    /\ UNCHANGED <<tables, up, writes>>

AskCopyTemplate(a, id) ==
    Begin(a, "copy template", [Idle EXCEPT !.id = id, !.read = templates[id]])

\* The items of the source are read after its row.
CountTemplates(a) ==
    LET s == ses[a]
    IN  /\ s.op = "copy template" /\ s.pc = "read"
        /\ ses' = [ses EXCEPT ![a].pc = "checked", ![a].seen = templates[s.id].items,
                              ![a].version = NextVersion(templates, s.read)]
        /\ UNCHANGED <<tables, up, writes>>

AskRetireTemplate(a, id) ==
    /\ templates[id].status = "approved"
    /\ Begin(a, "retire template", [Idle EXCEPT !.id = id, !.read = templates[id]])

MissedTemplate(id, row) ==
    {b \in Admin : \/ Same(ses[b], {"update template", "publish template"}, id)
                   \/ /\ ses[b].op = "publish template" /\ row.status = "approved"
                      /\ Product[ses[b].read.code] = Product[row.code]}

InsertTemplate(a) ==
    LET s == ses[a]
        row == IF s.op = "create template"
               THEN TemplateRow(s.input[1], 1, "draft", "first", ItemSet(s.input[2]))
               ELSE TemplateRow(s.read.code, s.version, "draft", s.read.name, s.seen)
    IN  /\ s.op = "create template" \/ (s.op = "copy template" /\ s.pc = "checked")
        /\ Cardinality(DOMAIN templates) < MaxRows
        /\ ~Taken(templates, row.code, row.version)
        /\ templates' = With(templates, row)
        /\ ses' = [ses EXCEPT ![a] = Idle]

WriteTemplate(a) ==
    LET s == ses[a]
        old == templates[s.id]
        row == CASE s.op = "update template" -> UpdatedTemplate(old, s)
                 [] s.op = "publish template" ->
                       [old EXCEPT !.status = "approved", !.raced = @ \/ s.raced]
                 [] s.op = "retire template" -> [old EXCEPT !.status = "retired"]
    IN  /\ \/ s.op = "retire template"
           \/ s.op \in {"update template", "publish template"} /\ s.pc = "checked"
        /\ s.behind = {}
        /\ s.op # "update template" \/ Renames(s) \/ row.hash # s.read.hash => ~RowLocked(a, s.id)
        /\ s.op = "update template" =>
              \A x \in Kept(old, s), y \in s.input[2] : x.code # y.code
        /\ templates' = [templates EXCEPT ![s.id] = row]
        /\ ses' = Overtake(a, IF s.op = "retire template" THEN {} ELSE MissedTemplate(s.id, row))

CommitTemplate(a) ==
    /\ Running /\ writes' = writes + 1
    /\ InsertTemplate(a) \/ WriteTemplate(a)
    /\ UNCHANGED <<rules, imports, up>>

-----------------------------------------------------------------------------
(* LPR imports. *)

\* Mutant: rows may be published after their day.
ValidRowLate(row) == row.tenor \in {"1Y", "5Y"} /\ row.value > 0
ValidRow(row) ==
    /\ row.tenor \in {"1Y", "5Y"} /\ row.value > 0
    /\ row.published <= row.effective

\* parse_lpr_csv: a file is taken as a whole or not at all.
ValidFile(file) ==
    /\ file # {} /\ \A row \in file : ValidRow(row)
    /\ \A x, y \in file : x.effective = y.effective /\ x.tenor = y.tenor => x = y

ImportLpr(file) ==
    /\ Running /\ writes' = writes + 1
    /\ Len(imports) < MaxImports /\ ValidFile(file)
    /\ imports' = Append(imports, LprBatch("draft", file, FALSE))
    /\ UNCHANGED <<rules, templates, up, ses>>

AskPublishLpr(a, id) ==
    /\ imports[id].status = "draft"
    /\ Begin(a, "publish lpr", [Idle EXCEPT !.id = id])

CommitLpr(a) ==
    /\ Running /\ writes' = writes + 1
    /\ ses[a].op = "publish lpr"
    /\ imports' = [imports EXCEPT ![ses[a].id].status = "published"]
    /\ ses' = [ses EXCEPT ![a] = Idle]
    /\ UNCHANGED <<rules, templates, up>>

-----------------------------------------------------------------------------
(* The start of a server that is not in production: seed_demo_templates,     *)
(* then seed_demo_data.                                                      *)

SeededTemplates ==
    {code \in DOMAIN DemoItems :
        ~\E t \in Rows(templates) : t.code = code /\ t.status = "approved"}

\* Mutant: only a package in force keeps the demo rules out.
SeededUnlessApproved ==
    IF \E r \in Rows(rules) : r.code \in DOMAIN DemoRules /\ r.status = "approved" THEN {}
    ELSE DOMAIN DemoRules

SeededRules ==
    IF \E r \in Rows(rules) : r.code \in DOMAIN DemoRules THEN {} ELSE DOMAIN DemoRules

\* Version 1 of a code that is there already: the start fails, nothing is seeded.
SeedCollides ==
    \/ \E code \in SeededTemplates : Taken(templates, code, 1)
    \/ \E code \in SeededRules : Taken(rules, code, 1)

\* The table with rows that it had not, all of version 1.
Seeded(table, new) ==
    [k \in DOMAIN table \cup ((DOMAIN new) \X {1}) |->
        IF k \in DOMAIN table THEN table[k] ELSE new[k[1]]]

DemoRule(code) == RuleRow(code, 1, "approved", DemoRules[code])
DemoTemplate(code) == TemplateRow(code, 1, "approved", "first", DemoItems[code])
DemoImport == LprBatch("published", DemoEntries, TRUE)

\* A rule input has its columns; whether they are valid is for the handlers.
Columns(c) ==
    c = [f \in ContentField |-> c[f]] /\ c.from \in Nat /\ c.until \in Nat

ASSUME InputAssumption ==
    /\ \A c \in RuleInput : Columns(c)
    /\ \A row \in CsvRow \cup DemoEntries : row.effective \in Nat /\ row.published \in Nat
    /\ MaxWrites \in Nat /\ LastDay \in Nat

\* The demo data is what administrators could have put in force.
ASSUME DemoAssumption ==
    /\ \A code \in DOMAIN DemoRules :
          /\ Columns(DemoRules[code]) /\ ValidRule(DemoRules[code])
          /\ \A other \in DOMAIN DemoRules \ {code} :
                ~Ambiguous(DemoRules[code], DemoRules[other])
    /\ \A code \in DOMAIN DemoItems :
          /\ ItemsDiffer(DemoItems[code])
          /\ \A other \in DOMAIN DemoItems \ {code} : Product[code] # Product[other]
    /\ DemoEntries # {} /\ \A row \in DemoEntries : ValidRow(row)

KnownItem ==
    UNION ({ItemSet(items) : items \in TemplateInput}
           \cup {DemoItems[code] : code \in DOMAIN DemoItems})

\* The laws cover what may be put in force.
ASSUME LawsCover ==
    /\ \A c \in RuleInput \cup {DemoRules[code] : code \in DOMAIN DemoRules} :
          ValidCalcParams(c.calc, c.params) =>
              [calc |-> c.calc, params |-> c.params] \in Calculation
    /\ \A items \in SUBSET KnownItem : ItemsDiffer(items) => items \in Checklist

Seed ==
    /\ ~SeedCollides
    /\ templates' = Seeded(templates, [code \in SeededTemplates |-> DemoTemplate(code)])
    /\ rules' = Seeded(rules, [code \in SeededRules |-> DemoRule(code)])
    /\ imports' = IF \E b \in Rows(imports) : b.demo /\ b.status = "published" THEN imports
                  ELSE Append(imports, DemoImport)
    /\ up' = TRUE

SeedFails == SeedCollides /\ up' = FALSE /\ UNCHANGED tables

\* Sessions are lost with the server.
Start ==
    /\ writes < MaxWrites /\ writes' = writes + 1
    /\ Seed \/ SeedFails
    /\ ses' = [a \in Admin |-> Idle]

-----------------------------------------------------------------------------

Init ==
    /\ rules = <<>> /\ templates = <<>> /\ imports = <<>>
    /\ up = FALSE /\ writes = 0
    /\ ses = [a \in Admin |-> Idle]

AskRule(a) ==
    \/ \E code \in RuleCode, content \in RuleInput : AskCreateRule(a, code, content)
    \/ \E id \in DOMAIN rules :
          \/ \E content \in RuleInput : AskUpdateRule(a, id, content)
          \/ AskApproveRule(a, id) \/ AskCopyRule(a, id) \/ AskRetireRule(a, id)

AskTemplate(a) ==
    \/ \E code \in TemplateCode, items \in TemplateInput : AskCreateTemplate(a, code, items)
    \/ \E id \in DOMAIN templates :
          \/ \E name \in {"first", "second"}, items \in TemplateInput :
                AskUpdateTemplate(a, id, name, items)
          \/ AskPublishTemplate(a, id) \/ AskCopyTemplate(a, id) \/ AskRetireTemplate(a, id)

Step(a) ==
    \/ AskRule(a) \/ CheckApproval(a) \/ CountRules(a) \/ CommitRule(a)
    \/ AskTemplate(a) \/ DeleteItems(a) \/ CheckPublish(a) \/ CountTemplates(a) \/ CommitTemplate(a)
    \/ \E id \in DOMAIN imports : AskPublishLpr(a, id)
    \/ CommitLpr(a)
    \/ Fail(a)

Next ==
    \/ \E a \in Admin : Step(a)
    \/ \E file \in SUBSET CsvRow : ImportLpr(file)
    \/ Start

Spec == Init /\ [][Next]_vars

-----------------------------------------------------------------------------
(* Properties. *)

InForce(table) == {i \in DOMAIN table : table[i].status = "approved"}

\* rule_content_payload
Payload(id, row) ==
    LET c == row.content
    IN  [id |-> id, status |-> row.status, raced |-> row.raced, kind |-> c.kind,
         lender |-> c.lender, context |-> c.context, product |-> c.product,
         from |-> c.from, until |-> c.until, calc |-> c.calc, params |-> c.params]

RulesNow == {Payload(id, rules[id]) : id \in DOMAIN rules}
Entries == UNION {b.entries : b \in {i \in Rows(imports) : i.status = "published"}}

\* On no day do two hard rules in force contend for a loan, unless one of them
\* was approved or edited while the other was written: what
\* approve_rule_package refuses is what the selection cannot decide
\* (admin_rules.py:303, redline.py:209).
OneRuleADay ==
    \A c \in RuleInput, day \in 1 .. LastDay :
        Cardinality({r \in PrimaryMatches(RulesNow, c.lender, c.context, c.product, day) :
                        ~r.raced}) <= 1

\* A product and borrower type has one template in force, whatever is published,
\* copied, retired or seeded, unless two were published at once
\* (admin_templates.py:223): officers are given the first one found.
OneTemplate ==
    \A code \in TemplateCode :
        Cardinality({i \in PublishedFor(Product[code]) : ~templates[i].raced}) <= 1

\* The content hash is that of the content, unless two edits were made at once
\* (admin_rules.py:297, admin_templates.py:217).
HashedContent ==
    /\ \A r \in Rows(rules) : r.raced \/ r.hash = <<r.code, r.version, r.content>>
    /\ \A t \in Rows(templates) : t.raced \/ t.hash = <<t.code, t.version, t.name, t.items>>

\* What has been put in force never changes nor comes back once it is retired,
\* unless an edit or a second approval was under way when it was
\* (admin_rules.py:282, admin_templates.py:191).
Final(row, next) ==
    row.status # "draft" =>
        next.raced \/ (/\ [next EXCEPT !.status = row.status] = row
                       /\ row.status = "retired" => next.status = "retired")

FinalContent ==
    [][/\ \A i \in DOMAIN rules : Final(rules[i], rules'[i])
       /\ \A i \in DOMAIN templates : Final(templates[i], templates'[i])]_tables

\* The rate that counts on a day had been published by then, whatever has been
\* imported and in whatever order (admin_rules.py:457, redline.py:175).
NoForesight ==
    \A day \in 1 .. LastDay : \A e \in LprCandidates(Entries, day) : e.published <= day

\* A server that does not start has met a demo template of which no version is
\* in force any more; nothing done to rules or rates keeps it from starting
\* (completeness.py:372, redline.py:1141).
StartsUnlessTemplateRetired ==
    ~up /\ writes > 0 =>
        \E t \in Rows(templates) : t.code \in SeededTemplates /\ t.status = "retired"

\* The laws of EvaluationLaws, of the packages and templates in force.
Obey(law) == \A i \in InForce(rules) :
    [calc |-> rules[i].content.calc, params |-> rules[i].content.params] \in law

\* Bisection: the verdict on the cost of a loan is that of its present value at
\* the threshold, to the width of the last interval (redline.py:334).
CostBracketed == Obey(CostBracketing)

\* Without fees the cost is the rate, by either schedule (redline.py:353).
CostIsRate == Obey(RateCost)

\* Neither a higher fee nor a higher rate makes a verdict milder (redline.py:500).
DearerIsNeverMilder == Obey(NeverMilder)

\* An overdue scenario changes a verdict to a warning or not at all (redline.py:600).
OverdueOnlyWarns == Obey(OverdueOnlyWarning)

\* A reference line decides nothing and warns at most (redline.py:724).
ReferencesOnlyWarn == Obey(ReferenceOnlyWarning)

\* The page asks for every field that an evaluation may miss (redline.py:700).
AskedIsEnough == Obey(AskedFields)

\* Classifications neither prove nor waive an item (completeness.py:69).
ClassificationsProveNothing ==
    \A i \in InForce(templates) : templates[i].items \in HintsProveNothing

\* Several documents prove an item if each alone would (completeness.py:85).
EveryDocumentProves ==
    \A i \in InForce(templates) : templates[i].items \in EachDocumentProves
=============================================================================
