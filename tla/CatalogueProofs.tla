-------------------------- MODULE CatalogueProofs --------------------------
(***************************************************************************)
(* Proofs about Catalogue, for any administrators, packages, templates,    *)
(* rates and bounds.                                                       *)
(*                                                                         *)
(* The parts of the invariant are written over the tables as parameters,   *)
(* so that a lemma can speak of a table before and after a step.           *)
(***************************************************************************)
EXTENDS Catalogue, EvaluationProofs, EvaluationLawsProofs

RuleFields == {"code", "version", "status", "content", "hash", "raced"}
TemplateFields == {"code", "version", "status", "name", "items", "hash", "raced"}
SessionFields == {"op", "pc", "id", "input", "read", "version", "seen", "behind", "raced"}

(* What is calculated, and what is asked for, is what the laws are about.    *)
Covered(c) == [calc |-> c.calc, params |-> c.params] \in Calculation

Sound(c) == Columns(c) /\ ValidCalcParams(c.calc, c.params) /\ Covered(c)

Fits(items) == ItemsDiffer(items) /\ items \subseteq KnownItem

(* What no edit changes.                                                     *)
SameIdentity(c, d) ==
    /\ c.kind = d.kind /\ c.lender = d.lender /\ c.context = d.context
    /\ c.product = d.product /\ c.calc = d.calc

RuleRowOK(id, r, w) ==
    /\ DOMAIN r = RuleFields /\ r = [f \in RuleFields |-> r[f]]
    /\ id = <<r.code, r.version>>
    /\ r.version \in 1 .. w /\ r.status \in Status /\ r.raced \in BOOLEAN
    /\ Sound(r.content)
    /\ r.raced \/ r.hash = <<r.code, r.version, r.content>>

(* Rules in force that nobody overtook do not contend.                       *)
Settled(r) == r.status = "approved" /\ ~r.raced

Clear(R) ==
    \A i, j \in DOMAIN R : i # j /\ Settled(R[i]) /\ Settled(R[j]) =>
        ~Ambiguous(R[i].content, R[j].content)

RuleTable(R, w) == (\A id \in DOMAIN R : RuleRowOK(id, R[id], w)) /\ Clear(R)

(* A session that nobody overtook has read the draft that is there.          *)
UnmovedRule(read, r) == r.status = "draft" /\ read.content = r.content /\ read.hash = r.hash

RuleSession(s, R, w) ==
    /\ s.op = "create rule" => Sound(s.input[2])
    /\ s.op \in RuleOp \ {"create rule"} =>
          /\ s.id \in DOMAIN R
          /\ s.read.code = R[s.id].code /\ s.read.version = R[s.id].version
          /\ DOMAIN s.read = RuleFields
          /\ Sound(s.read.content) /\ SameIdentity(s.read.content, R[s.id].content)
    /\ s.op = "update rule" => Sound(s.input) /\ SameIdentity(s.input, s.read.content)
    /\ s.op \in {"update rule", "approve rule"} /\ ~s.raced => UnmovedRule(s.read, R[s.id])
    /\ s.op = "approve rule" /\ s.pc = "checked" /\ ~s.raced =>
          \A k \in DOMAIN R : Settled(R[k]) => ~Ambiguous(R[k].content, s.read.content)
    /\ s.op = "copy rule" /\ s.pc = "checked" => s.version \in 1 .. w + 1
    /\ s.op = "retire rule" => R[s.id].status # "draft"

TemplateRowOK(id, t, w) ==
    /\ DOMAIN t = TemplateFields /\ t = [f \in TemplateFields |-> t[f]]
    /\ id = <<t.code, t.version>>
    /\ t.version \in 1 .. w /\ t.status \in Status /\ t.raced \in BOOLEAN
    /\ Fits(t.items)
    /\ t.raced \/ t.hash = <<t.code, t.version, t.name, t.items>>

Single(T) ==
    \A i, j \in DOMAIN T : i # j /\ Settled(T[i]) /\ Settled(T[j]) =>
        Product[T[i].code] # Product[T[j].code]

TemplateTable(T, w) == (\A id \in DOMAIN T : TemplateRowOK(id, T[id], w)) /\ Single(T)

UnmovedTemplate(read, t) == t.status = "draft" /\ read.name = t.name /\ read.hash = t.hash

TemplateSession(s, T, w) ==
    /\ s.op = "create template" => Fits(ItemSet(s.input[2]))
    /\ s.op \in TemplateOp \ {"create template"} =>
          /\ s.id \in DOMAIN T
          /\ s.read.code = T[s.id].code /\ s.read.version = T[s.id].version
    /\ s.op = "update template" => Fits(s.input[2])
    /\ s.op \in {"update template", "publish template"} /\ ~s.raced =>
          UnmovedTemplate(s.read, T[s.id])
    /\ s.op = "update template" /\ s.pc = "checked" /\ ~s.raced => s.seen = T[s.id].items
    /\ s.op = "publish template" /\ s.pc = "checked" /\ ~s.raced =>
          \A k \in DOMAIN T \ {s.id} :
             Settled(T[k]) => Product[T[k].code] # Product[s.read.code]
    /\ s.op = "copy template" /\ s.pc = "checked" =>
          Fits(s.seen) /\ s.version \in 1 .. w + 1
    /\ s.op = "retire template" => T[s.id].status # "draft"

Batch == [status : {"draft", "published"}, entries : SUBSET (CsvRow \cup DemoEntries),
          demo : BOOLEAN]

ImportTable(I) ==
    /\ I \in Seq(Batch)
    /\ \A i \in DOMAIN I : I[i].entries # {} /\ \A row \in I[i].entries : ValidRow(row)

LprSession(s, I) == s.op = "publish lpr" => s.id \in DOMAIN I

Frame(s) ==
    /\ DOMAIN s = SessionFields
    /\ s.pc \in {"idle", "read", "checked"} /\ s.raced \in BOOLEAN

(* The demo data is there from the first start on.                           *)
Seeds ==
    /\ writes = 0 => ~up /\ DOMAIN rules = {} /\ DOMAIN templates = {}
    /\ writes > 0 =>
          /\ \A code \in DOMAIN DemoRules : <<code, 1>> \in DOMAIN rules
          /\ \A code \in DOMAIN DemoItems :
                /\ <<code, 1>> \in DOMAIN templates
                /\ templates[<<code, 1>>].status # "draft"
    /\ writes > 0 /\ ~up => SeededTemplates # {}

Fine(s, R, T, I, w) ==
    Frame(s) /\ RuleSession(s, R, w) /\ TemplateSession(s, T, w) /\ LprSession(s, I)

Inv ==
    /\ writes \in 0 .. MaxWrites /\ up \in BOOLEAN
    /\ RuleTable(rules, writes) /\ TemplateTable(templates, writes) /\ ImportTable(imports)
    /\ DOMAIN ses = Admin
    /\ \A a \in Admin : Fine(ses[a], rules, templates, imports, writes)
    /\ Seeds

-----------------------------------------------------------------------------
(* Tables.                                                                   *)

LEMMA VersionIsThere ==
  ASSUME NEW table, NEW w \in Nat, NEW code,
         \A id \in DOMAIN table : table[id].version \in 1 .. w
  PROVE  Version(table, code) \in 0 .. w
<1> DEFINE S == {0} \cup {r.version : r \in {q \in Rows(table) : q.code = code}}
<1>1. S \subseteq 0 .. w /\ S # {}
  BY DEF Rows
<1>2. \E x \in S : \A y \in S : x >= y
  <2> HIDE DEF S
  <2> QED
    BY <1>1, LargestNumber
<1>3. Version(table, code) = CHOOSE x \in S : \A y \in S : x >= y
  BY DEF Version, Max
<1> HIDE DEF S
<1> QED
  BY <1>1, <1>2, <1>3

(* A table with new rows: the old ones are unchanged.                        *)
Extends(R, Q) == DOMAIN R \subseteq DOMAIN Q /\ \A k \in DOMAIN R : Q[k] = R[k]

LEMMA WithExtends ==
  ASSUME NEW table, NEW row, <<row.code, row.version>> \notin DOMAIN table
  PROVE  /\ Extends(table, With(table, row))
         /\ DOMAIN With(table, row) = DOMAIN table \cup {<<row.code, row.version>>}
         /\ With(table, row)[<<row.code, row.version>>] = row
  BY DEF With, Extends

(* Drafts that are added contend with nothing.                               *)
LEMMA RuleTableGrows ==
  ASSUME NEW R, NEW w \in Nat, RuleTable(R, w), NEW row,
         RuleRowOK(<<row.code, row.version>>, row, w + 1),
         row.status = "draft", <<row.code, row.version>> \notin DOMAIN R
  PROVE  RuleTable(With(R, row), w + 1)
<1> DEFINE Q == With(R, row)
           key == <<row.code, row.version>>
<1>1. /\ DOMAIN Q = DOMAIN R \cup {key} /\ Q[key] = row /\ \A k \in DOMAIN R : Q[k] = R[k]
  BY WithExtends DEF Extends
<1> HIDE DEF Q
<1>2. ASSUME NEW id \in DOMAIN Q PROVE RuleRowOK(id, Q[id], w + 1)
  <2>1. CASE id = key
    BY <1>1, <2>1
  <2>2. CASE id \in DOMAIN R
    <3>1. RuleRowOK(id, R[id], w)
      BY <2>2 DEF RuleTable
    <3> QED
      <4>1. Q[id] = R[id] /\ (R[id].version \in 1 .. w => R[id].version \in 1 .. w + 1)
        BY <1>1, <2>2
      <4> QED
        BY <3>1, <4>1 DEF RuleRowOK
  <2> QED
    BY <1>1, <2>1, <2>2
<1>3. Clear(Q)
  <2>1. ASSUME NEW i \in DOMAIN Q, Settled(Q[i]) PROVE i \in DOMAIN R /\ Q[i] = R[i]
    BY <1>1, <2>1 DEF Settled
  <2> QED
    BY <2>1 DEF RuleTable, Clear
<1> QED
  BY <1>2, <1>3 DEF RuleTable, Q

LEMMA TemplateTableGrows ==
  ASSUME NEW T, NEW w \in Nat, TemplateTable(T, w), NEW row,
         TemplateRowOK(<<row.code, row.version>>, row, w + 1),
         row.status = "draft", <<row.code, row.version>> \notin DOMAIN T
  PROVE  TemplateTable(With(T, row), w + 1)
<1> DEFINE Q == With(T, row)
           key == <<row.code, row.version>>
<1>1. /\ DOMAIN Q = DOMAIN T \cup {key} /\ Q[key] = row /\ \A k \in DOMAIN T : Q[k] = T[k]
  BY WithExtends DEF Extends
<1> HIDE DEF Q
<1>2. ASSUME NEW id \in DOMAIN Q PROVE TemplateRowOK(id, Q[id], w + 1)
  <2>1. CASE id = key
    BY <1>1, <2>1
  <2>2. CASE id \in DOMAIN T
    <3>1. TemplateRowOK(id, T[id], w)
      BY <2>2 DEF TemplateTable
    <3> QED
      <4>1. Q[id] = T[id] /\ (T[id].version \in 1 .. w => T[id].version \in 1 .. w + 1)
        BY <1>1, <2>2
      <4> QED
        BY <3>1, <4>1 DEF TemplateRowOK
  <2> QED
    BY <1>1, <2>1, <2>2
<1>3. Single(Q)
  <2>1. ASSUME NEW i \in DOMAIN Q, Settled(Q[i]) PROVE i \in DOMAIN T /\ Q[i] = T[i]
    BY <1>1, <2>1 DEF Settled
  <2> QED
    BY <2>1 DEF TemplateTable, Single
<1> QED
  BY <1>2, <1>3 DEF TemplateTable, Q

(* One more commit alters no table.                                          *)
LEMMA TablesAge ==
  ASSUME NEW w \in Nat, NEW R, NEW T
  PROVE  /\ RuleTable(R, w) => RuleTable(R, w + 1)
         /\ TemplateTable(T, w) => TemplateTable(T, w + 1)
  BY DEF RuleTable, TemplateTable, RuleRowOK, TemplateRowOK

-----------------------------------------------------------------------------
(* Sessions.                                                                 *)

(* t is s, except that it may have been overtaken.                           *)
Later(t, s) ==
    /\ t.op = s.op /\ t.pc = s.pc /\ t.id = s.id /\ t.input = s.input /\ t.read = s.read
    /\ t.version = s.version /\ t.seen = s.seen /\ (s.raced => t.raced)

LEMMA RuleSessionLater ==
  ASSUME NEW s, NEW t, Later(t, s), NEW R, NEW w \in Nat, RuleSession(s, R, w)
  PROVE  RuleSession(t, R, w) /\ RuleSession(t, R, w + 1)
<1>1. s.version \in 1 .. w + 1 => s.version \in 1 .. (w + 1) + 1
  OBVIOUS
<1>2. RuleSession(t, R, w)
  BY DEF RuleSession, Later
<1>3. RuleSession(t, R, w + 1)
  BY <1>1, <1>2 DEF RuleSession, Later
<1> QED
  BY <1>2, <1>3

LEMMA TemplateSessionLater ==
  ASSUME NEW s, NEW t, Later(t, s), NEW T, NEW w \in Nat, TemplateSession(s, T, w)
  PROVE  TemplateSession(t, T, w) /\ TemplateSession(t, T, w + 1)
<1>1. s.version \in 1 .. w + 1 => s.version \in 1 .. (w + 1) + 1
  OBVIOUS
<1>2. TemplateSession(t, T, w)
  BY DEF TemplateSession, Later
<1>3. TemplateSession(t, T, w + 1)
  BY <1>1, <1>2 DEF TemplateSession, Later
<1> QED
  BY <1>2, <1>3

LEMMA LprSessionLater ==
  ASSUME NEW s, NEW t, Later(t, s), NEW I, LprSession(s, I)
  PROVE  LprSession(t, I)
  BY DEF LprSession, Later

LEMMA LaterItself == \A s : Later(s, s)
  BY DEF Later

(* Drafts that are added change nothing for a session.                       *)
LEMMA RuleSessionGrows ==
  ASSUME NEW R, NEW row, <<row.code, row.version>> \notin DOMAIN R, row.status = "draft",
         NEW s, NEW w \in Nat, RuleSession(s, R, w)
  PROVE  RuleSession(s, With(R, row), w + 1)
<1> DEFINE Q == With(R, row)
           key == <<row.code, row.version>>
<1>1. /\ DOMAIN Q = DOMAIN R \cup {key} /\ Q[key] = row /\ \A k \in DOMAIN R : Q[k] = R[k]
  BY WithExtends DEF Extends
<1> HIDE DEF Q, key
<1>2. \A k \in DOMAIN Q : Settled(Q[k]) => k \in DOMAIN R /\ Q[k] = R[k]
  BY <1>1 DEF Settled
<1>3. s.op \in RuleOp \ {"create rule"} => s.id \in DOMAIN R /\ Q[s.id] = R[s.id]
  BY <1>1 DEF RuleSession
<1>4. s.version \in 1 .. w + 1 => s.version \in 1 .. (w + 1) + 1
  OBVIOUS
<1>5. \/ s.op \notin RuleOp \ {"create rule"}
      \/ s.op \in RuleOp /\ s.op # "create rule" /\ s.id \in DOMAIN R /\ Q[s.id] = R[s.id]
  BY <1>3
<1>6. s.op = "approve rule" /\ s.pc = "checked" /\ ~s.raced =>
         \A k \in DOMAIN Q : Settled(Q[k]) => ~Ambiguous(Q[k].content, s.read.content)
  BY <1>2 DEF RuleSession
<1>7. s.op = "copy rule" /\ s.pc = "checked" => s.version \in 1 .. (w + 1) + 1
  BY <1>4 DEF RuleSession
<1>8. RuleSession(s, Q, w + 1)
  <2>1. CASE s.op \notin RuleOp \ {"create rule"}
    BY <2>1 DEF RuleSession, RuleOp
  <2>2. CASE s.op \in RuleOp /\ s.op # "create rule" /\ Q[s.id] = R[s.id] /\ s.id \in DOMAIN Q
    BY <1>6, <1>7, <2>2 DEF RuleSession
  <2> QED
    BY <1>1, <1>5, <2>1, <2>2
<1> QED
  BY <1>8 DEF Q

LEMMA TemplateSessionGrows ==
  ASSUME NEW T, NEW row, <<row.code, row.version>> \notin DOMAIN T, row.status = "draft",
         NEW s, NEW w \in Nat, TemplateSession(s, T, w)
  PROVE  TemplateSession(s, With(T, row), w + 1)
<1> DEFINE Q == With(T, row)
           key == <<row.code, row.version>>
<1>1. /\ DOMAIN Q = DOMAIN T \cup {key} /\ Q[key] = row /\ \A k \in DOMAIN T : Q[k] = T[k]
  BY WithExtends DEF Extends
<1> HIDE DEF Q, key
<1>2. \A k \in DOMAIN Q : Settled(Q[k]) => k \in DOMAIN T /\ Q[k] = T[k]
  BY <1>1 DEF Settled
<1>3. s.op \in TemplateOp \ {"create template"} => s.id \in DOMAIN T /\ Q[s.id] = T[s.id]
  BY <1>1 DEF TemplateSession
<1>4. s.version \in 1 .. w + 1 => s.version \in 1 .. (w + 1) + 1
  OBVIOUS
<1>5. \/ s.op \notin TemplateOp \ {"create template"}
      \/ s.op \in TemplateOp /\ s.op # "create template" /\ s.id \in DOMAIN T /\ Q[s.id] = T[s.id]
  BY <1>3
<1>6. s.op = "publish template" /\ s.pc = "checked" /\ ~s.raced =>
         \A k \in DOMAIN Q \ {s.id} :
            Settled(Q[k]) => Product[Q[k].code] # Product[s.read.code]
  BY <1>2 DEF TemplateSession
<1>7. s.op = "copy template" /\ s.pc = "checked" => s.version \in 1 .. (w + 1) + 1
  BY <1>4 DEF TemplateSession
<1>8. TemplateSession(s, Q, w + 1)
  <2>1. CASE s.op \notin TemplateOp \ {"create template"}
    BY <2>1 DEF TemplateSession, TemplateOp
  <2>2. CASE s.op \in TemplateOp /\ s.op # "create template" /\ Q[s.id] = T[s.id]
             /\ s.id \in DOMAIN Q
    BY <1>6, <1>7, <2>2 DEF TemplateSession
  <2> QED
    BY <1>1, <1>5, <2>1, <2>2
<1> QED
  BY <1>8 DEF Q

LEMMA IdleIsFine ==
  ASSUME NEW R, NEW T, NEW I, NEW w
  PROVE  Fine(Idle, R, T, I, w)
  BY DEF Fine, Frame, RuleSession, TemplateSession, LprSession, Idle, SessionFields, RuleOp,
         TemplateOp

LEMMA OvertakeEffect ==
  ASSUME Inv, NEW a \in Admin, NEW overtaken, ses' = Overtake(a, overtaken)
  PROVE  /\ DOMAIN ses' = Admin /\ ses'[a] = Idle
         /\ \A b \in Admin \ {a} : /\ Frame(ses'[b]) /\ Later(ses'[b], ses[b])
                                   /\ b \in overtaken => ses'[b].raced
<1>1. \A b \in Admin : Frame(ses[b])
  BY DEF Inv, Fine
<1>2. DOMAIN ses' = Admin /\ ses'[a] = Idle
  BY DEF Overtake
<1>3. ASSUME NEW b \in Admin \ {a}
      PROVE  /\ Frame(ses'[b]) /\ Later(ses'[b], ses[b])
             /\ b \in overtaken => ses'[b].raced
  <2>1. ses'[b] = [ses[b] EXCEPT !.raced = @ \/ b \in overtaken, !.behind = @ \ {a}]
    BY DEF Overtake
  <2>2. DOMAIN ses[b] = SessionFields /\ ses[b].raced \in BOOLEAN
    BY <1>1 DEF Frame
  <2>3. ses'[b].raced = (ses[b].raced \/ b \in overtaken)
    BY <2>1, <2>2 DEF SessionFields
  <2> QED
    BY <1>1, <2>1, <2>2, <2>3 DEF Frame, Later, SessionFields
<1> QED
  BY <1>2, <1>3

(* A step of one session that leaves the tables alone.                       *)
LEMMA QuietStep ==
  ASSUME Inv, NEW a \in Admin, NEW s, ses' = [ses EXCEPT ![a] = s],
         UNCHANGED <<tables, up, writes>>,
         Fine(s, rules, templates, imports, writes)
  PROVE  Inv'
<1>1. DOMAIN ses' = Admin /\ ses'[a] = s /\ \A b \in Admin \ {a} : ses'[b] = ses[b]
  BY DEF Inv
<1>2. \A b \in Admin : Fine(ses'[b], rules', templates', imports', writes')
  BY <1>1 DEF Inv, tables
<1>3. Seeds'
  BY DEF Inv, Seeds, SeededTemplates, Rows, tables
<1> QED
  BY <1>1, <1>2, <1>3 DEF Inv, tables

-----------------------------------------------------------------------------
(* The steps that leave the tables alone.                                    *)

LEMMA ValidItemsDiffer ==
  ASSUME NEW items \in TemplateInput, ValidTemplateItems(items, Category)
  PROVE  Fits(ItemSet(items))
<1>1. ItemsDiffer(ItemSet(items))
  BY DEF ValidTemplateItems, ItemsDiffer, ItemSet
<1>2. ItemSet(items) \subseteq KnownItem
  BY DEF KnownItem
<1> QED
  BY <1>1, <1>2 DEF Fits

LEMMA InputIsSound == \A c \in RuleInput : ValidRule(c) => Sound(c)
  BY InputAssumption, LawsCover DEF Sound, Covered, ValidRule

LEMMA RuleCopyVersion ==
  ASSUME Inv, NEW r
  PROVE  NextVersion(rules, r) \in 1 .. writes + 1
<1>1. writes \in Nat /\ \A id \in DOMAIN rules : rules[id].version \in 1 .. writes
  BY InputAssumption DEF Inv, RuleTable, RuleRowOK
<1>2. Version(rules, r.code) \in 0 .. writes
  BY <1>1, VersionIsThere
<1> QED
  BY <1>1, <1>2 DEF NextVersion

LEMMA TemplateCopyVersion ==
  ASSUME Inv, NEW r
  PROVE  NextVersion(templates, r) \in 1 .. writes + 1
<1>1. writes \in Nat /\ \A id \in DOMAIN templates : templates[id].version \in 1 .. writes
  BY InputAssumption DEF Inv, TemplateTable, TemplateRowOK
<1>2. Version(templates, r.code) \in 0 .. writes
  BY <1>1, VersionIsThere
<1> QED
  BY <1>1, <1>2 DEF NextVersion

LEMMA TemplateItems == Inv => \A id \in DOMAIN templates : Fits(templates[id].items)
  BY DEF Inv, TemplateTable, TemplateRowOK

LEMMA AskRuleStep == ASSUME Inv, NEW a \in Admin, AskRule(a) PROVE Inv'
<1>0. \A id \in DOMAIN rules : RuleRowOK(id, rules[id], writes)
  BY DEF Inv, RuleTable
<1>1. ASSUME NEW code \in RuleCode, NEW content \in RuleInput, AskCreateRule(a, code, content)
      PROVE  Inv'
  <2> DEFINE s == [[Idle EXCEPT !.input = <<code, content>>, !.version = 1]
                      EXCEPT !.op = "create rule", !.pc = "read"]
  <2>1. /\ s.op = "create rule" /\ s.pc = "read" /\ s.raced = FALSE /\ DOMAIN s = SessionFields
        /\ s.input[2] = content
    BY DEF Idle, SessionFields
  <2>2. ses' = [ses EXCEPT ![a] = s] /\ UNCHANGED <<tables, up, writes>>
    BY <1>1 DEF AskCreateRule, Begin
  <2> HIDE DEF s
  <2>3. Fine(s, rules, templates, imports, writes)
    BY <1>1, <2>1, InputIsSound
       DEF Fine, Frame, RuleSession, TemplateSession, LprSession, RuleOp, TemplateOp,
           AskCreateRule
  <2> QED
    BY <2>2, <2>3, QuietStep
<1>2. ASSUME NEW id \in DOMAIN rules, NEW content \in RuleInput, AskUpdateRule(a, id, content)
      PROVE  Inv'
  <2> DEFINE s == [[Idle EXCEPT !.id = id, !.input = content, !.read = rules[id]]
                      EXCEPT !.op = "update rule", !.pc = "read"]
  <2>1. /\ s.op = "update rule" /\ s.pc = "read" /\ s.raced = FALSE /\ DOMAIN s = SessionFields
        /\ s.id = id /\ s.input = content /\ s.read = rules[id]
    BY DEF Idle, SessionFields
  <2>2. ses' = [ses EXCEPT ![a] = s] /\ UNCHANGED <<tables, up, writes>>
    BY <1>2 DEF AskUpdateRule, Begin
  <2> HIDE DEF s
  <2>3. Fine(s, rules, templates, imports, writes)
    BY <1>2, <2>1, <1>0, InputIsSound
       DEF Fine, Frame, RuleSession, TemplateSession, LprSession, RuleOp, TemplateOp,
           RuleRowOK, SameIdentity, UnmovedRule, AskUpdateRule, Editable, MayEdit
  <2> QED
    BY <2>2, <2>3, QuietStep
<1>3. ASSUME NEW id \in DOMAIN rules, AskApproveRule(a, id)
      PROVE  Inv'
  <2> DEFINE s == [[Idle EXCEPT !.id = id, !.read = rules[id]]
                      EXCEPT !.op = "approve rule", !.pc = "read"]
  <2>1. /\ s.op = "approve rule" /\ s.pc = "read" /\ s.raced = FALSE /\ DOMAIN s = SessionFields
        /\ s.id = id /\ s.read = rules[id]
    BY DEF Idle, SessionFields
  <2>2. ses' = [ses EXCEPT ![a] = s] /\ UNCHANGED <<tables, up, writes>>
    BY <1>3 DEF AskApproveRule, Begin
  <2> HIDE DEF s
  <2>3. Fine(s, rules, templates, imports, writes)
    BY <1>3, <2>1, <1>0
       DEF Fine, Frame, RuleSession, TemplateSession, LprSession, RuleOp, TemplateOp,
           RuleRowOK, SameIdentity, UnmovedRule, AskApproveRule
  <2> QED
    BY <2>2, <2>3, QuietStep
<1>4. ASSUME NEW id \in DOMAIN rules, AskCopyRule(a, id)
      PROVE  Inv'
  <2> DEFINE s == [[Idle EXCEPT !.id = id, !.read = rules[id]]
                      EXCEPT !.op = "copy rule", !.pc = "read"]
  <2>1. /\ s.op = "copy rule" /\ s.pc = "read" /\ s.raced = FALSE /\ DOMAIN s = SessionFields
        /\ s.id = id /\ s.read = rules[id]
    BY DEF Idle, SessionFields
  <2>2. ses' = [ses EXCEPT ![a] = s] /\ UNCHANGED <<tables, up, writes>>
    BY <1>4 DEF AskCopyRule, Begin
  <2> HIDE DEF s
  <2>3. Fine(s, rules, templates, imports, writes)
    BY <1>4, <2>1, <1>0
       DEF Fine, Frame, RuleSession, TemplateSession, LprSession, RuleOp, TemplateOp,
           RuleRowOK, SameIdentity
  <2> QED
    BY <2>2, <2>3, QuietStep
<1>5. ASSUME NEW id \in DOMAIN rules, AskRetireRule(a, id)
      PROVE  Inv'
  <2> DEFINE s == [[Idle EXCEPT !.id = id, !.read = rules[id]]
                      EXCEPT !.op = "retire rule", !.pc = "read"]
  <2>1. /\ s.op = "retire rule" /\ s.pc = "read" /\ s.raced = FALSE /\ DOMAIN s = SessionFields
        /\ s.id = id /\ s.read = rules[id]
    BY DEF Idle, SessionFields
  <2>2. ses' = [ses EXCEPT ![a] = s] /\ UNCHANGED <<tables, up, writes>>
    BY <1>5 DEF AskRetireRule, Begin
  <2> HIDE DEF s
  <2>3. Fine(s, rules, templates, imports, writes)
    BY <1>5, <2>1, <1>0
       DEF Fine, Frame, RuleSession, TemplateSession, LprSession, RuleOp, TemplateOp,
           RuleRowOK, SameIdentity, AskRetireRule
  <2> QED
    BY <2>2, <2>3, QuietStep
<1> QED
  BY <1>1, <1>2, <1>3, <1>4, <1>5 DEF AskRule

LEMMA AskTemplateStep == ASSUME Inv, NEW a \in Admin, AskTemplate(a) PROVE Inv'
<1>0. \A id \in DOMAIN templates : TemplateRowOK(id, templates[id], writes)
  BY DEF Inv, TemplateTable
<1>1. ASSUME NEW code \in TemplateCode, NEW items \in TemplateInput,
            AskCreateTemplate(a, code, items)
      PROVE  Inv'
  <2> DEFINE s == [[Idle EXCEPT !.input = <<code, items>>, !.version = 1]
                      EXCEPT !.op = "create template", !.pc = "read"]
  <2>1. /\ s.op = "create template" /\ s.pc = "read" /\ s.raced = FALSE /\ DOMAIN s = SessionFields
        /\ s.input[2] = items
    BY DEF Idle, SessionFields
  <2>0. Fits(ItemSet(items))
    BY <1>1, ValidItemsDiffer DEF AskCreateTemplate, ValidTemplate
  <2>2. ses' = [ses EXCEPT ![a] = s] /\ UNCHANGED <<tables, up, writes>>
    BY <1>1 DEF AskCreateTemplate, Begin
  <2> HIDE DEF s
  <2>3. Fine(s, rules, templates, imports, writes)
    BY <1>1, <2>1, <2>0
       DEF Fine, Frame, RuleSession, TemplateSession, LprSession, RuleOp, TemplateOp
  <2> QED
    BY <2>2, <2>3, QuietStep
<1>2. ASSUME NEW id \in DOMAIN templates, NEW name, NEW items \in TemplateInput,
            AskUpdateTemplate(a, id, name, items)
      PROVE  Inv'
  <2> DEFINE s == [[Idle EXCEPT !.id = id, !.input = <<name, ItemSet(items)>>, !.read = templates[id]]
                      EXCEPT !.op = "update template", !.pc = "read"]
  <2>1. /\ s.op = "update template" /\ s.pc = "read" /\ s.raced = FALSE /\ DOMAIN s = SessionFields
        /\ s.id = id /\ s.input[2] = ItemSet(items) /\ s.read = templates[id]
    BY DEF Idle, SessionFields
  <2>0. Fits(ItemSet(items))
    BY <1>2, ValidItemsDiffer DEF AskUpdateTemplate, ValidTemplate
  <2>2. ses' = [ses EXCEPT ![a] = s] /\ UNCHANGED <<tables, up, writes>>
    BY <1>2 DEF AskUpdateTemplate, Begin
  <2> HIDE DEF s
  <2>3. Fine(s, rules, templates, imports, writes)
    BY <1>2, <2>1, <1>0, <2>0
       DEF Fine, Frame, RuleSession, TemplateSession, LprSession, RuleOp, TemplateOp,
           TemplateRowOK, UnmovedTemplate, AskUpdateTemplate, MayEdit
  <2> QED
    BY <2>2, <2>3, QuietStep
<1>3. ASSUME NEW id \in DOMAIN templates, AskPublishTemplate(a, id)
      PROVE  Inv'
  <2> DEFINE s == [[Idle EXCEPT !.id = id, !.read = templates[id]]
                      EXCEPT !.op = "publish template", !.pc = "read"]
  <2>1. /\ s.op = "publish template" /\ s.pc = "read" /\ s.raced = FALSE /\ DOMAIN s = SessionFields
        /\ s.id = id /\ s.read = templates[id]
    BY DEF Idle, SessionFields
  <2>2. ses' = [ses EXCEPT ![a] = s] /\ UNCHANGED <<tables, up, writes>>
    BY <1>3 DEF AskPublishTemplate, Begin
  <2> HIDE DEF s
  <2>3. Fine(s, rules, templates, imports, writes)
    BY <1>3, <2>1, <1>0
       DEF Fine, Frame, RuleSession, TemplateSession, LprSession, RuleOp, TemplateOp,
           TemplateRowOK, UnmovedTemplate, AskPublishTemplate
  <2> QED
    BY <2>2, <2>3, QuietStep
<1>4. ASSUME NEW id \in DOMAIN templates, AskCopyTemplate(a, id)
      PROVE  Inv'
  <2> DEFINE s == [[Idle EXCEPT !.id = id, !.read = templates[id]]
                      EXCEPT !.op = "copy template", !.pc = "read"]
  <2>1. /\ s.op = "copy template" /\ s.pc = "read" /\ s.raced = FALSE /\ DOMAIN s = SessionFields
        /\ s.id = id /\ s.read = templates[id]
    BY DEF Idle, SessionFields
  <2>2. ses' = [ses EXCEPT ![a] = s] /\ UNCHANGED <<tables, up, writes>>
    BY <1>4 DEF AskCopyTemplate, Begin
  <2> HIDE DEF s
  <2>3. Fine(s, rules, templates, imports, writes)
    BY <1>4, <2>1, <1>0
       DEF Fine, Frame, RuleSession, TemplateSession, LprSession, RuleOp, TemplateOp,
           TemplateRowOK
  <2> QED
    BY <2>2, <2>3, QuietStep
<1>5. ASSUME NEW id \in DOMAIN templates, AskRetireTemplate(a, id)
      PROVE  Inv'
  <2> DEFINE s == [[Idle EXCEPT !.id = id, !.read = templates[id]]
                      EXCEPT !.op = "retire template", !.pc = "read"]
  <2>1. /\ s.op = "retire template" /\ s.pc = "read" /\ s.raced = FALSE /\ DOMAIN s = SessionFields
        /\ s.id = id /\ s.read = templates[id]
    BY DEF Idle, SessionFields
  <2>2. ses' = [ses EXCEPT ![a] = s] /\ UNCHANGED <<tables, up, writes>>
    BY <1>5 DEF AskRetireTemplate, Begin
  <2> HIDE DEF s
  <2>3. Fine(s, rules, templates, imports, writes)
    BY <1>5, <2>1, <1>0
       DEF Fine, Frame, RuleSession, TemplateSession, LprSession, RuleOp, TemplateOp,
           TemplateRowOK, AskRetireTemplate
  <2> QED
    BY <2>2, <2>3, QuietStep
<1> QED
  BY <1>1, <1>2, <1>3, <1>4, <1>5 DEF AskTemplate

LEMMA AskLprStep ==
  ASSUME Inv, NEW a \in Admin, NEW id \in DOMAIN imports, AskPublishLpr(a, id) PROVE Inv'
<1> DEFINE s == [[Idle EXCEPT !.id = id] EXCEPT !.op = "publish lpr", !.pc = "read"]
<1>1. /\ s.op = "publish lpr" /\ s.pc = "read" /\ s.raced = FALSE /\ DOMAIN s = SessionFields
      /\ s.id = id
  BY DEF Idle, SessionFields
<1>2. ses' = [ses EXCEPT ![a] = s] /\ UNCHANGED <<tables, up, writes>>
  BY DEF AskPublishLpr, Begin
<1> HIDE DEF s
<1>3. Fine(s, rules, templates, imports, writes)
  BY <1>1 DEF Fine, Frame, RuleSession, TemplateSession, LprSession, RuleOp, TemplateOp
<1> QED
  BY <1>2, <1>3, QuietStep

LEMMA CheckApprovalStep == ASSUME Inv, NEW a \in Admin, CheckApproval(a) PROVE Inv'
<1> DEFINE s == [ses[a] EXCEPT !.pc = "checked"]
<1>1. Fine(ses[a], rules, templates, imports, writes)
  BY DEF Inv
<1>2. /\ s.op = ses[a].op /\ s.pc = "checked" /\ s.raced = ses[a].raced
      /\ DOMAIN s = SessionFields /\ s.id = ses[a].id /\ s.input = ses[a].input
      /\ s.read = ses[a].read
  BY <1>1 DEF Fine, Frame, SessionFields
<1>3. ses' = [ses EXCEPT ![a] = s] /\ UNCHANGED <<tables, up, writes>>
  BY DEF CheckApproval
<1> HIDE DEF s
<1>4. Fine(s, rules, templates, imports, writes)
  BY <1>1, <1>2
     DEF CheckApproval, Fine, Frame, RuleSession, TemplateSession, LprSession, RuleOp,
         TemplateOp, Settled, Rows
<1> QED
  BY <1>3, <1>4, QuietStep

LEMMA CountRulesStep == ASSUME Inv, NEW a \in Admin, CountRules(a) PROVE Inv'
<1> DEFINE s == [ses[a] EXCEPT !.pc = "checked", !.version = NextVersion(rules, ses[a].read)]
<1>1. Fine(ses[a], rules, templates, imports, writes)
  BY DEF Inv
<1>2. /\ s.op = ses[a].op /\ s.pc = "checked" /\ s.raced = ses[a].raced
      /\ DOMAIN s = SessionFields /\ s.id = ses[a].id /\ s.input = ses[a].input
      /\ s.read = ses[a].read /\ s.version = NextVersion(rules, ses[a].read)
  BY <1>1 DEF Fine, Frame, SessionFields
<1>3. ses' = [ses EXCEPT ![a] = s] /\ UNCHANGED <<tables, up, writes>>
  BY DEF CountRules
<1> HIDE DEF s
<1>4. Fine(s, rules, templates, imports, writes)
  BY <1>1, <1>2, RuleCopyVersion
     DEF CountRules, Fine, Frame, RuleSession, TemplateSession, LprSession, RuleOp,
         TemplateOp
<1> QED
  BY <1>3, <1>4, QuietStep

LEMMA DeleteItemsStep == ASSUME Inv, NEW a \in Admin, DeleteItems(a) PROVE Inv'
<1> DEFINE s == [ses[a] EXCEPT !.pc = "checked", !.seen = templates[ses[a].id].items,
                         !.behind = {b \in Admin \ {a} :
                                        /\ Same(ses[b], {"update template"}, ses[a].id)
                                        /\ ses[b].pc = "checked"}]
<1>1. Fine(ses[a], rules, templates, imports, writes)
  BY DEF Inv
<1>2. /\ s.op = ses[a].op /\ s.pc = "checked" /\ s.raced = ses[a].raced
      /\ DOMAIN s = SessionFields /\ s.id = ses[a].id /\ s.input = ses[a].input
      /\ s.read = ses[a].read /\ s.seen = templates[ses[a].id].items
  BY <1>1 DEF Fine, Frame, SessionFields
<1>3. ses' = [ses EXCEPT ![a] = s] /\ UNCHANGED <<tables, up, writes>>
  BY DEF DeleteItems
<1> HIDE DEF s
<1>4. Fine(s, rules, templates, imports, writes)
  BY <1>1, <1>2
     DEF DeleteItems, Fine, Frame, RuleSession, TemplateSession, LprSession, RuleOp,
         TemplateOp
<1> QED
  BY <1>3, <1>4, QuietStep

LEMMA CheckPublishStep == ASSUME Inv, NEW a \in Admin, CheckPublish(a) PROVE Inv'
<1> DEFINE s == [ses[a] EXCEPT !.pc = "checked"]
<1>1. Fine(ses[a], rules, templates, imports, writes)
  BY DEF Inv
<1>2. /\ s.op = ses[a].op /\ s.pc = "checked" /\ s.raced = ses[a].raced
      /\ DOMAIN s = SessionFields /\ s.id = ses[a].id /\ s.input = ses[a].input
      /\ s.read = ses[a].read
  BY <1>1 DEF Fine, Frame, SessionFields
<1>3. ses' = [ses EXCEPT ![a] = s] /\ UNCHANGED <<tables, up, writes>>
  BY DEF CheckPublish
<1> HIDE DEF s
<1>4. Fine(s, rules, templates, imports, writes)
  BY <1>1, <1>2
     DEF CheckPublish, Fine, Frame, RuleSession, TemplateSession, LprSession, RuleOp,
         TemplateOp, Settled, CheckOne, PublishedFor
<1> QED
  BY <1>3, <1>4, QuietStep

LEMMA CountTemplatesStep == ASSUME Inv, NEW a \in Admin, CountTemplates(a) PROVE Inv'
<1> DEFINE s == [ses[a] EXCEPT !.pc = "checked", !.seen = templates[ses[a].id].items,
                         !.version = NextVersion(templates, ses[a].read)]
<1>1. Fine(ses[a], rules, templates, imports, writes)
  BY DEF Inv
<1>2. /\ s.op = ses[a].op /\ s.pc = "checked" /\ s.raced = ses[a].raced
      /\ DOMAIN s = SessionFields /\ s.id = ses[a].id /\ s.input = ses[a].input
      /\ s.read = ses[a].read
      /\ s.seen = templates[ses[a].id].items /\ s.version = NextVersion(templates, ses[a].read)
  BY <1>1 DEF Fine, Frame, SessionFields
<1>3. ses' = [ses EXCEPT ![a] = s] /\ UNCHANGED <<tables, up, writes>>
  BY DEF CountTemplates
<1> HIDE DEF s
<1>4. Fine(s, rules, templates, imports, writes)
  BY <1>1, <1>2, TemplateCopyVersion, TemplateItems
     DEF CountTemplates, Fine, Frame, RuleSession, TemplateSession, LprSession, RuleOp,
         TemplateOp
<1> QED
  BY <1>3, <1>4, QuietStep

LEMMA FailStep == ASSUME Inv, NEW a \in Admin, Fail(a) PROVE Inv'
<1>1. ses' = [ses EXCEPT ![a] = Idle] /\ UNCHANGED <<tables, up, writes>>
  BY DEF Fail
<1>2. Fine(Idle, rules, templates, imports, writes)
  BY IdleIsFine
<1> QED
  BY <1>1, <1>2, QuietStep

-----------------------------------------------------------------------------
(* Commits.                                                                  *)

(* A commit keeps the invariant if the tables it leaves are sound, every     *)
(* session fits them, and nothing that was there is gone or a draft again.   *)
LEMMA CommitStep ==
  ASSUME Inv, Running, writes' = writes + 1, up' = up,
         RuleTable(rules', writes + 1), TemplateTable(templates', writes + 1),
         ImportTable(imports'),
         DOMAIN ses' = Admin,
         \A a \in Admin : Fine(ses'[a], rules', templates', imports', writes + 1),
         DOMAIN rules \subseteq DOMAIN rules', DOMAIN templates \subseteq DOMAIN templates',
         \A id \in DOMAIN templates :
            templates[id].status # "draft" => templates'[id].status # "draft"
  PROVE  Inv'
<1>1. up /\ writes \in 0 .. MaxWrites - 1 /\ MaxWrites \in Nat /\ writes > 0
  BY InputAssumption DEF Running, Inv, Seeds
<1>2. Seeds'
  BY <1>1 DEF Inv, Seeds
<1>3. writes' \in 0 .. MaxWrites
  BY <1>1
<1> QED
  BY <1>1, <1>2, <1>3 DEF Inv

LEMMA InvTables ==
  Inv => /\ writes \in Nat /\ RuleTable(rules, writes)
         /\ TemplateTable(templates, writes) /\ ImportTable(imports)
  BY InputAssumption DEF Inv

LEMMA InsertRuleStep ==
  ASSUME Inv, NEW a \in Admin, CommitRule(a), InsertRule(a)
  PROVE  Inv'
<1> DEFINE s == ses[a]
           row == IF s.op = "create rule" THEN RuleRow(s.input[1], 1, "draft", s.input[2])
                  ELSE RuleRow(s.read.code, s.version, "draft", s.read.content)
<1>1. /\ Running /\ writes' = writes + 1 /\ UNCHANGED <<templates, imports, up>>
      /\ s.op = "create rule" \/ (s.op = "copy rule" /\ s.pc = "checked")
      /\ <<row.code, row.version>> \notin DOMAIN rules
      /\ rules' = With(rules, row)
      /\ ses' = [ses EXCEPT ![a] = Idle]
  BY DEF CommitRule, InsertRule, Taken
<1>2. RuleSession(s, rules, writes) /\ writes \in Nat /\ RuleTable(rules, writes)
  BY InputAssumption DEF Inv, Fine
<1>3. \A code, v, content : v \in 1 .. writes + 1 /\ Sound(content) =>
         LET r == RuleRow(code, v, "draft", content)
         IN  RuleRowOK(<<r.code, r.version>>, r, writes + 1) /\ r.status = "draft"
  BY DEF RuleRowOK, RuleRow, RuleFields, Status
<1>4. RuleRowOK(<<row.code, row.version>>, row, writes + 1) /\ row.status = "draft"
  <2>1. CASE s.op = "create rule"
    <3>1. Sound(s.input[2])
      BY <1>2, <2>1 DEF RuleSession
    <3>2. 1 \in 1 .. writes + 1
      BY <1>2
    <3>3. LET r == RuleRow(s.input[1], 1, "draft", s.input[2])
          IN  RuleRowOK(<<r.code, r.version>>, r, writes + 1) /\ r.status = "draft"
      <4> HIDE DEF s, row
      <4> QED
        BY <1>3, <3>1, <3>2
    <3>4. row = RuleRow(s.input[1], 1, "draft", s.input[2])
      BY <2>1
    <3> QED
      BY <3>3, <3>4
  <2>2. CASE s.op = "copy rule" /\ s.pc = "checked"
    <3>1. Sound(s.read.content) /\ s.version \in 1 .. writes + 1
      BY <1>2, <2>2 DEF RuleSession, RuleOp
    <3>2. LET r == RuleRow(s.read.code, s.version, "draft", s.read.content)
          IN  RuleRowOK(<<r.code, r.version>>, r, writes + 1) /\ r.status = "draft"
      <4> HIDE DEF s, row
      <4> QED
        BY <1>3, <3>1
    <3>3. row = RuleRow(s.read.code, s.version, "draft", s.read.content)
      BY <2>2
    <3> QED
      BY <3>2, <3>3
  <2> QED
    BY <1>1, <2>1, <2>2
<1> HIDE DEF row
<1>5. RuleTable(rules', writes + 1) /\ DOMAIN rules \subseteq DOMAIN rules'
  BY <1>1, <1>2, <1>4, RuleTableGrows, WithExtends DEF Extends
<1>6. TemplateTable(templates', writes + 1) /\ ImportTable(imports')
  BY <1>1, <1>2, TablesAge DEF Inv
<1>7. ASSUME NEW b \in Admin
      PROVE  Fine(ses'[b], rules', templates', imports', writes + 1)
  <2>1. CASE b = a
    BY <1>1, <2>1, IdleIsFine DEF Inv
  <2>2. CASE b # a
    <3>1. Fine(ses[b], rules, templates, imports, writes) /\ ses'[b] = ses[b]
      BY <1>1, <2>2 DEF Inv
    <3>2. RuleSession(ses[b], rules', writes + 1)
      BY <1>1, <1>2, <1>4, <3>1, RuleSessionGrows DEF Fine
    <3>3. TemplateSession(ses[b], templates, writes + 1)
      BY <1>2, <3>1, LaterItself, TemplateSessionLater DEF Fine
    <3> QED
      BY <1>1, <3>1, <3>2, <3>3 DEF Fine
  <2> QED
    BY <2>1, <2>2
<1>8. DOMAIN ses' = Admin
  BY <1>1 DEF Inv
<1> QED
  BY <1>1, <1>5, <1>6, <1>7, <1>8, CommitStep

(* A commit that rewrites one row of the rules, or of the templates.         *)
RuleRewritten(a, id, row, overtaken) ==
    /\ Running /\ writes' = writes + 1 /\ UNCHANGED <<templates, imports, up>>
    /\ rules' = [rules EXCEPT ![id] = row] /\ ses' = Overtake(a, overtaken)

TemplateRewritten(a, id, row, overtaken) ==
    /\ Running /\ writes' = writes + 1 /\ UNCHANGED <<rules, imports, up>>
    /\ templates' = [templates EXCEPT ![id] = row] /\ ses' = Overtake(a, overtaken)

(* What the new row must be for the table to stay sound.                     *)
RuleFitsIn(id, row) ==
    /\ RuleRowOK(id, row, writes + 1) /\ SameIdentity(row.content, rules[id].content)
    /\ rules[id].status # "draft" => row.status # "draft"
    /\ Settled(row) => \A k \in DOMAIN rules :
                          Settled(rules[k]) => ~Ambiguous(rules[k].content, row.content)

TemplateFitsIn(id, row) ==
    /\ TemplateRowOK(id, row, writes + 1)
    /\ templates[id].status # "draft" => row.status # "draft"
    /\ Settled(row) => \A k \in DOMAIN templates \ {id} :
                          Settled(templates[k]) => Product[templates[k].code] # Product[row.code]

(* What a session t that does not notice the new row may know of it.         *)
RuleUnnoticed(t, id, row) ==
    /\ t.op \in {"update rule", "approve rule"} /\ t.id = id => UnmovedRule(t.read, row)
    /\ t.op = "approve rule" /\ Settled(row) => ~Ambiguous(row.content, t.read.content)

TemplateUnnoticed(t, id, row) ==
    /\ ~(t.op \in {"update template", "publish template"} /\ t.id = id)
    /\ t.op = "publish template" /\ Settled(row) => Product[row.code] # Product[t.read.code]

(* Every session that does notice it is overtaken.                           *)
RuleNoticed(a, id, row, overtaken) ==
    \A b \in Admin \ {a} :
       b \notin overtaken /\ ~ses[b].raced => RuleUnnoticed(ses[b], id, row)

TemplateNoticed(a, id, row, overtaken) ==
    \A b \in Admin \ {a} :
       b \notin overtaken /\ ~ses[b].raced => TemplateUnnoticed(ses[b], id, row)

(* A row that is rewritten, and the sessions that this overtakes.            *)
LEMMA RewriteRule ==
  ASSUME Inv, NEW a \in Admin, NEW id \in DOMAIN rules, NEW row, NEW overtaken,
         RuleRewritten(a, id, row, overtaken), RuleFitsIn(id, row),
         RuleNoticed(a, id, row, overtaken)
  PROVE  Inv'
<1>0. /\ writes \in Nat /\ RuleTable(rules, writes)
      /\ DOMAIN rules' = DOMAIN rules /\ rules'[id] = row
      /\ \A k \in DOMAIN rules : k # id => rules'[k] = rules[k]
  <2>1. writes \in Nat /\ RuleTable(rules, writes)
    BY InvTables
  <2>2. /\ DOMAIN rules' = DOMAIN rules /\ rules'[id] = row
        /\ \A k \in DOMAIN rules : k # id => rules'[k] = rules[k]
    BY DEF RuleRewritten
  <2> QED
    BY <2>1, <2>2
<1>5. /\ RuleRowOK(id, row, writes + 1) /\ SameIdentity(row.content, rules[id].content)
      /\ rules[id].status # "draft" => row.status # "draft"
      /\ Settled(row) => \A k \in DOMAIN rules :
                            Settled(rules[k]) => ~Ambiguous(rules[k].content, row.content)
  BY DEF RuleFitsIn
<1>6. /\ Running /\ writes' = writes + 1
      /\ templates' = templates /\ imports' = imports /\ up' = up
      /\ ses' = Overtake(a, overtaken)
  BY DEF RuleRewritten
<1>1. RuleTable(rules', writes + 1)
  <2>1. ASSUME NEW k \in DOMAIN rules' PROVE RuleRowOK(k, rules'[k], writes + 1)
    <3>1. RuleTable(rules, writes + 1)
      BY <1>0, TablesAge
    <3>2. CASE k = id
      BY <1>0, <1>5, <3>2
    <3>3. CASE k # id
      BY <1>0, <3>1, <3>3 DEF RuleTable
    <3> QED
      BY <3>2, <3>3
  <2>2. \A x, y : Ambiguous(x, y) => Ambiguous(y, x)
    BY DEF Ambiguous, SameScope, IntervalsOverlap
  <2>3. ASSUME NEW i \in DOMAIN rules, NEW j \in DOMAIN rules, i # j,
               Settled(rules'[i]), Settled(rules'[j])
        PROVE  ~Ambiguous(rules'[i].content, rules'[j].content)
    <3>1. CASE i # id /\ j # id
      <4>1. Clear(rules) /\ rules'[i] = rules[i] /\ rules'[j] = rules[j]
        BY <1>0, <2>3, <3>1 DEF RuleTable
      <4> QED
        BY <2>3, <4>1 DEF Clear
    <3>2. CASE i = id
      <4>1. rules'[i] = row /\ rules'[j] = rules[j]
        BY <1>0, <2>3, <3>2
      <4>2. Settled(row) /\ Settled(rules[j])
        BY <2>3, <4>1
      <4>3. ~Ambiguous(rules[j].content, row.content)
        BY <1>5, <4>2
      <4> QED
        BY <2>2, <4>1, <4>3
    <3>3. CASE j = id
      <4>1. rules'[j] = row /\ rules'[i] = rules[i]
        BY <1>0, <2>3, <3>3
      <4>2. Settled(row) /\ Settled(rules[i])
        BY <2>3, <4>1
      <4> QED
        BY <1>5, <4>1, <4>2
    <3> QED
      BY <3>1, <3>2, <3>3
  <2>4. \A i, j \in DOMAIN rules :
           i # j /\ Settled(rules'[i]) /\ Settled(rules'[j]) =>
              ~Ambiguous(rules'[i].content, rules'[j].content)
    BY <2>3
  <2>5. Clear(rules')
    BY <1>0, <2>4 DEF Clear
  <2> QED
    BY <2>1, <2>5 DEF RuleTable
<1>2. TemplateTable(templates', writes + 1) /\ ImportTable(imports')
  BY <1>0, <1>6, InvTables, TablesAge
<1>3. ASSUME NEW b \in Admin
      PROVE  Fine(ses'[b], rules', templates', imports', writes + 1)
  <2>1. CASE b = a
    BY <1>6, <2>1, OvertakeEffect, IdleIsFine
  <2>2. CASE b # a
    <3>1. /\ Frame(ses'[b]) /\ Later(ses'[b], ses[b])
          /\ b \in overtaken => ses'[b].raced
      BY <1>6, <2>2, OvertakeEffect
    <3>2. Fine(ses[b], rules, templates, imports, writes)
      BY DEF Inv
    <3>3. /\ RuleSession(ses'[b], rules, writes + 1)
          /\ TemplateSession(ses'[b], templates', writes + 1)
          /\ LprSession(ses'[b], imports')
      <4>1. /\ RuleSession(ses[b], rules, writes) /\ TemplateSession(ses[b], templates, writes)
            /\ LprSession(ses[b], imports)
        BY <3>2 DEF Fine
      <4>2. RuleSession(ses'[b], rules, writes + 1)
        BY <1>0, <3>1, <4>1, RuleSessionLater
      <4>3. TemplateSession(ses'[b], templates, writes + 1)
        BY <1>0, <3>1, <4>1, TemplateSessionLater
      <4>4. LprSession(ses'[b], imports)
        BY <3>1, <4>1, LprSessionLater
      <4> QED
        BY <1>6, <4>2, <4>3, <4>4
    <3>4. RuleSession(ses'[b], rules', writes + 1)
      <4> DEFINE t == ses'[b]
      <4>1. t.op \in RuleOp \ {"create rule"} =>
               /\ t.id \in DOMAIN rules'
               /\ t.read.code = rules'[t.id].code /\ t.read.version = rules'[t.id].version
               /\ DOMAIN t.read = RuleFields
               /\ Sound(t.read.content) /\ SameIdentity(t.read.content, rules'[t.id].content)
        <5>1. row.code = rules[id].code /\ row.version = rules[id].version
          BY <1>0, <1>5 DEF RuleTable, RuleRowOK
        <5>2. SUFFICES ASSUME t.op \in RuleOp \ {"create rule"}
                       PROVE  /\ t.id \in DOMAIN rules'
                              /\ t.read.code = rules'[t.id].code
                              /\ t.read.version = rules'[t.id].version
                              /\ DOMAIN t.read = RuleFields
                              /\ Sound(t.read.content)
                              /\ SameIdentity(t.read.content, rules'[t.id].content)
          OBVIOUS
        <5>3. /\ t.id \in DOMAIN rules
              /\ t.read.code = rules[t.id].code /\ t.read.version = rules[t.id].version
              /\ DOMAIN t.read = RuleFields
              /\ Sound(t.read.content) /\ SameIdentity(t.read.content, rules[t.id].content)
          BY <3>3, <5>2 DEF RuleSession
        <5>4. CASE t.id = id
          BY <1>0, <1>5, <5>1, <5>3, <5>4 DEF SameIdentity
        <5>5. CASE t.id # id
          BY <1>0, <5>3, <5>5
        <5> QED
          BY <5>4, <5>5
      <4>2. /\ b \notin overtaken \/ t.raced
            /\ t.raced \/ ~ses[b].raced
            /\ t.op = ses[b].op /\ t.id = ses[b].id /\ t.read = ses[b].read
        BY <3>1, <3>2 DEF Later
      <4>6. ~t.raced => RuleUnnoticed(ses[b], id, row)
        BY <2>2, <4>2 DEF RuleNoticed
      <4>7. ~t.raced => RuleUnnoticed(t, id, row)
        BY <4>2, <4>6 DEF RuleUnnoticed
      <4>3. t.op \in {"update rule", "approve rule"} /\ ~t.raced =>
               UnmovedRule(t.read, rules'[t.id])
        <5>1. t.op \in RuleOp => t.op = "create rule" \/ t.id \in DOMAIN rules
          BY <1>0, <4>1
        <5>2. t.op \in {"update rule", "approve rule"} => t.op \in RuleOp \ {"create rule"}
          BY DEF RuleOp
        <5>3. ASSUME t.op \in {"update rule", "approve rule"}, ~t.raced
              PROVE  UnmovedRule(t.read, rules'[t.id])
          <6>1. t.id \in DOMAIN rules /\ UnmovedRule(t.read, rules[t.id])
            BY <3>3, <5>1, <5>2, <5>3 DEF RuleSession
          <6>2. CASE t.id = id
            BY <1>0, <4>7, <5>3, <6>2 DEF RuleUnnoticed
          <6>3. CASE t.id # id
            BY <1>0, <6>1, <6>3
          <6> QED
            BY <6>2, <6>3
        <5> QED
          BY <5>3
      <4>4. t.op = "approve rule" /\ t.pc = "checked" /\ ~t.raced =>
               \A k \in DOMAIN rules' :
                  Settled(rules'[k]) => ~Ambiguous(rules'[k].content, t.read.content)
        <5>1. ASSUME t.op = "approve rule", t.pc = "checked", ~t.raced,
                     NEW k \in DOMAIN rules, Settled(rules'[k])
              PROVE  ~Ambiguous(rules'[k].content, t.read.content)
          <6>1. CASE k = id
            BY <1>0, <4>7, <5>1, <6>1 DEF RuleUnnoticed
          <6>2. CASE k # id
            <7>1. rules'[k] = rules[k] /\ Settled(rules[k])
              BY <1>0, <5>1, <6>2
            <7>2. ~Ambiguous(rules[k].content, t.read.content)
              BY <3>3, <5>1, <7>1 DEF RuleSession
            <7> QED
              BY <7>1, <7>2
          <6> QED
            BY <6>1, <6>2
        <5> QED
          BY <1>0, <5>1
      <4>5. t.op = "retire rule" => rules'[t.id].status # "draft"
        <5>1. t.op = "retire rule" => t.id \in DOMAIN rules /\ rules[t.id].status # "draft"
          BY <3>3 DEF RuleSession, RuleOp
        <5> QED
          BY <1>0, <1>5, <5>1
      <4> QED
        BY <3>3, <4>1, <4>3, <4>4, <4>5 DEF RuleSession
    <3> QED
      BY <3>1, <3>3, <3>4 DEF Fine
  <2> QED
    BY <2>1, <2>2
<1>4. DOMAIN ses' = Admin
  BY <1>6, OvertakeEffect
<1>7. /\ DOMAIN rules \subseteq DOMAIN rules' /\ DOMAIN templates \subseteq DOMAIN templates'
      /\ \A k \in DOMAIN templates :
            templates[k].status # "draft" => templates'[k].status # "draft"
  BY <1>0, <1>6
<1> QED
  BY <1>1, <1>2, <1>3, <1>4, <1>6, <1>7, CommitStep

LEMMA WriteRuleStep ==
  ASSUME Inv, NEW a \in Admin, CommitRule(a), WriteRule(a)
  PROVE  Inv'
<1> DEFINE s == ses[a]
           id == s.id
           old == rules[id]
<1>1. /\ Running /\ writes' = writes + 1 /\ UNCHANGED <<templates, imports, up>>
      /\ s.op \in {"update rule", "retire rule"} \/ (s.op = "approve rule" /\ s.pc = "checked")
  BY DEF CommitRule, WriteRule
<1>2. /\ RuleSession(s, rules, writes) /\ Frame(s)
      /\ \A b \in Admin : RuleSession(ses[b], rules, writes) /\ Frame(ses[b])
  BY DEF Inv, Fine
<1>3. /\ id \in DOMAIN rules
      /\ s.read.code = old.code /\ s.read.version = old.version /\ DOMAIN s.read = RuleFields
      /\ Sound(s.read.content) /\ SameIdentity(s.read.content, old.content)
  BY <1>1, <1>2 DEF RuleSession, RuleOp
<1>4. writes \in Nat /\ RuleRowOK(id, old, writes) /\ RuleRowOK(id, old, writes + 1)
  <2>1. writes \in Nat /\ RuleTable(rules, writes) /\ RuleTable(rules, writes + 1)
    BY InvTables, TablesAge
  <2> QED
    BY <1>3, <2>1 DEF RuleTable
<1>5. CASE s.op = "update rule"
  <2> DEFINE row == UpdatedRule(old, s)
             content == Written(s.input, s.read.content, old.content)
  <2>1. rules' = [rules EXCEPT ![id] = row] /\ ses' = Overtake(a, MissedRule(id, row))
    BY <1>5 DEF WriteRule
  <2>2. /\ Edited(s.read, s.input).content = s.input
        /\ Edited(s.read, s.input).hash = <<old.code, old.version, s.input>>
    BY <1>3 DEF Edited, RuleFields
  <2>3. /\ DOMAIN row = RuleFields /\ row = [f \in RuleFields |-> row[f]]
        /\ row.code = old.code /\ row.version = old.version /\ row.status = old.status
        /\ row.content = content
        /\ row.hash = IF <<old.code, old.version, s.input>> # s.read.hash
                      THEN <<old.code, old.version, s.input>> ELSE old.hash
        /\ row.raced = (old.raced \/ s.raced)
    <3>1. DOMAIN old = RuleFields /\ old.raced \in BOOLEAN /\ s.raced \in BOOLEAN
      BY <1>2, <1>4 DEF RuleRowOK, Frame
    <3> QED
      BY <2>2, <3>1 DEF UpdatedRule, RuleFields
  <2> HIDE DEF row
  <2>4. Sound(s.input) /\ SameIdentity(s.input, s.read.content)
    BY <1>2, <1>5 DEF RuleSession
  <2>5. Sound(content) /\ SameIdentity(content, old.content)
    <3>1. Sound(old.content)
      BY <1>4 DEF RuleRowOK
    <3>2. DOMAIN old.content = ContentField
      BY <3>1 DEF Sound, Columns
    <3>3. \A f \in ContentField :
             content[f] = IF s.input[f] # s.read.content[f] THEN s.input[f] ELSE old.content[f]
      BY <3>2 DEF Written
    <3>4. content = [f \in ContentField |-> content[f]]
      BY <3>2 DEF Written
    <3>5. \A f \in ContentField : content[f] \in {s.input[f], old.content[f]}
      BY <3>3
    <3>6. /\ content.kind = old.content.kind /\ content.lender = old.content.lender
          /\ content.context = old.content.context /\ content.product = old.content.product
          /\ content.calc = old.content.calc /\ s.input.calc = old.content.calc
      BY <1>3, <2>4, <3>3 DEF SameIdentity, ContentField
    <3>7. /\ content.from \in {s.input.from, old.content.from}
          /\ content.until \in {s.input.until, old.content.until}
          /\ content.params \in {s.input.params, old.content.params}
      BY <3>5 DEF ContentField
    <3> HIDE DEF content
    <3>8. content.from \in Nat /\ content.until \in Nat
      BY <2>4, <3>1, <3>7 DEF Sound, Columns
    <3>9. ValidCalcParams(content.calc, content.params)
      BY <2>4, <3>1, <3>6, <3>7 DEF Sound
    <3>10. Covered(content)
      BY <2>4, <3>1, <3>6, <3>7 DEF Sound, Covered
    <3> QED
      BY <3>4, <3>6, <3>8, <3>9, <3>10 DEF Sound, Columns, SameIdentity
  <2>6. ASSUME ~s.raced
        PROVE  old.status = "draft" /\ content = s.input /\ s.read.hash = old.hash
    <3>1. UnmovedRule(s.read, old)
      BY <1>2, <1>5, <2>6 DEF RuleSession
    <3>2. DOMAIN old.content = ContentField /\ s.input = [f \in ContentField |-> s.input[f]]
      BY <1>4, <2>4 DEF RuleRowOK, Sound, Columns
    <3>3. content = [f \in ContentField |-> s.input[f]]
      BY <3>1, <3>2 DEF Written, UnmovedRule
    <3> QED
      BY <3>1, <3>2, <3>3 DEF UnmovedRule
  <2> HIDE DEF content
  <2>7. RuleRowOK(id, row, writes + 1)
    <3>1. ~row.raced => row.hash = <<row.code, row.version, row.content>>
      BY <2>3, <2>6
    <3>2. row.raced \in BOOLEAN
      BY <2>3
    <3>3. id = <<row.code, row.version>> /\ row.version \in 1 .. writes + 1 /\ row.status \in Status
      BY <1>4, <2>3 DEF RuleRowOK
    <3> QED
      BY <2>3, <2>5, <3>1, <3>2, <3>3 DEF RuleRowOK
  <2>8. ~Settled(row)
    BY <2>3, <2>6 DEF Settled
  <2>9. \A b \in Admin \ {a} :
           b \notin MissedRule(id, row) =>
              ~(ses[b].op \in {"update rule", "approve rule"} /\ ses[b].id = id)
    BY DEF MissedRule, Same
  <2>10. SameIdentity(row.content, old.content) /\ (old.status # "draft" => row.status # "draft")
    BY <2>3, <2>5
  <2> QED
    <3>1. RuleRewritten(a, id, row, MissedRule(id, row))
      BY <1>1, <2>1 DEF RuleRewritten
    <3>2. RuleFitsIn(id, row)
      BY <2>7, <2>8, <2>10 DEF RuleFitsIn
    <3>3. RuleNoticed(a, id, row, MissedRule(id, row))
      BY <2>8, <2>9 DEF RuleNoticed, RuleUnnoticed
    <3> QED
      BY <1>3, <3>1, <3>2, <3>3, RewriteRule, Zenon
<1>6. CASE s.op = "approve rule" /\ s.pc = "checked"
  <2> DEFINE row == [old EXCEPT !.status = "approved", !.raced = @ \/ s.raced]
  <2>1. rules' = [rules EXCEPT ![id] = row] /\ ses' = Overtake(a, MissedRule(id, row))
    BY <1>6 DEF WriteRule
  <2>2. /\ DOMAIN row = RuleFields /\ row = [f \in RuleFields |-> row[f]]
        /\ row.code = old.code /\ row.version = old.version /\ row.status = "approved"
        /\ row.content = old.content /\ row.hash = old.hash
        /\ row.raced = (old.raced \/ s.raced)
    <3>1. DOMAIN old = RuleFields /\ old.raced \in BOOLEAN /\ s.raced \in BOOLEAN
      BY <1>2, <1>4 DEF RuleRowOK, Frame
    <3> QED
      BY <3>1 DEF RuleFields
  <2> HIDE DEF row
  <2>3. RuleRowOK(id, row, writes + 1)
    BY <1>4, <2>2 DEF RuleRowOK, Status
  <2>4. ~s.raced => /\ s.read.content = old.content
                    /\ \A k \in DOMAIN rules :
                          Settled(rules[k]) => ~Ambiguous(rules[k].content, s.read.content)
    BY <1>2, <1>6 DEF RuleSession, UnmovedRule
  <2>5. Settled(row) => \A k \in DOMAIN rules :
                           Settled(rules[k]) => ~Ambiguous(rules[k].content, row.content)
    BY <2>2, <2>4 DEF Settled
  <2>6. \A b \in Admin \ {a} :
           b \notin MissedRule(id, row) =>
              /\ ~(ses[b].op \in {"update rule", "approve rule"} /\ ses[b].id = id)
              /\ ses[b].op = "approve rule" => ~Ambiguous(row.content, ses[b].read.content)
    BY <2>2 DEF MissedRule, Same, Ambiguous, SameScope
  <2>7. SameIdentity(row.content, old.content) /\ row.status # "draft"
    BY <2>2 DEF SameIdentity
  <2> QED
    <3>1. RuleRewritten(a, id, row, MissedRule(id, row))
      BY <1>1, <2>1 DEF RuleRewritten
    <3>2. RuleFitsIn(id, row)
      BY <2>3, <2>5, <2>7 DEF RuleFitsIn
    <3>3. RuleNoticed(a, id, row, MissedRule(id, row))
      BY <2>6 DEF RuleNoticed, RuleUnnoticed
    <3> QED
      BY <1>3, <3>1, <3>2, <3>3, RewriteRule, Zenon
<1>7. CASE s.op = "retire rule"
  <2> DEFINE row == [old EXCEPT !.status = "retired"]
  <2>1. rules' = [rules EXCEPT ![id] = row] /\ ses' = Overtake(a, {})
    BY <1>7 DEF WriteRule
  <2>2. /\ DOMAIN row = RuleFields /\ row = [f \in RuleFields |-> row[f]]
        /\ row.code = old.code /\ row.version = old.version /\ row.status = "retired"
        /\ row.content = old.content /\ row.hash = old.hash /\ row.raced = old.raced
    BY <1>4 DEF RuleRowOK, RuleFields
  <2> HIDE DEF row
  <2>3. RuleRowOK(id, row, writes + 1)
    BY <1>4, <2>2 DEF RuleRowOK, Status
  <2>4. ~Settled(row) /\ row.status # "draft" /\ SameIdentity(row.content, old.content)
    BY <2>2 DEF Settled, SameIdentity
  <2>5. old.status # "draft"
    BY <1>2, <1>7 DEF RuleSession
  <2>6. \A b \in Admin \ {a} :
           ~ses[b].raced => ~(ses[b].op \in {"update rule", "approve rule"} /\ ses[b].id = id)
    BY <1>2, <2>5 DEF RuleSession, UnmovedRule
  <2> QED
    <3>1. RuleRewritten(a, id, row, {})
      BY <1>1, <2>1 DEF RuleRewritten
    <3>2. RuleFitsIn(id, row)
      BY <2>3, <2>4 DEF RuleFitsIn
    <3>3. RuleNoticed(a, id, row, {})
      BY <2>4, <2>6 DEF RuleNoticed, RuleUnnoticed
    <3> QED
      BY <1>3, <3>1, <3>2, <3>3, RewriteRule, Zenon
<1> QED
  BY <1>1, <1>5, <1>6, <1>7

LEMMA InsertTemplateStep ==
  ASSUME Inv, NEW a \in Admin, CommitTemplate(a), InsertTemplate(a)
  PROVE  Inv'
<1> DEFINE s == ses[a]
           row == IF s.op = "create template"
                  THEN TemplateRow(s.input[1], 1, "draft", "first", ItemSet(s.input[2]))
                  ELSE TemplateRow(s.read.code, s.version, "draft", s.read.name, s.seen)
<1>1. /\ Running /\ writes' = writes + 1 /\ UNCHANGED <<rules, imports, up>>
      /\ s.op = "create template" \/ (s.op = "copy template" /\ s.pc = "checked")
      /\ <<row.code, row.version>> \notin DOMAIN templates
      /\ templates' = With(templates, row)
      /\ ses' = [ses EXCEPT ![a] = Idle]
  BY DEF CommitTemplate, InsertTemplate, Taken
<1>2. TemplateSession(s, templates, writes) /\ writes \in Nat /\ TemplateTable(templates, writes)
  BY InvTables DEF Inv, Fine
<1>3. \A code, v, name, items : v \in 1 .. writes + 1 /\ Fits(items) =>
         LET t == TemplateRow(code, v, "draft", name, items)
         IN  TemplateRowOK(<<t.code, t.version>>, t, writes + 1) /\ t.status = "draft"
  BY DEF TemplateRowOK, TemplateRow, TemplateFields, Status
<1>4. TemplateRowOK(<<row.code, row.version>>, row, writes + 1) /\ row.status = "draft"
  <2>1. CASE s.op = "create template"
    <3>1. Fits(ItemSet(s.input[2]))
      BY <1>2, <2>1 DEF TemplateSession
    <3>2. 1 \in 1 .. writes + 1
      BY <1>2
    <3>3. LET t == TemplateRow(s.input[1], 1, "draft", "first", ItemSet(s.input[2]))
          IN  TemplateRowOK(<<t.code, t.version>>, t, writes + 1) /\ t.status = "draft"
      <4> HIDE DEF s, row
      <4> QED
        BY <1>3, <3>1, <3>2
    <3>4. row = TemplateRow(s.input[1], 1, "draft", "first", ItemSet(s.input[2]))
      BY <2>1
    <3> QED
      BY <3>3, <3>4
  <2>2. CASE s.op = "copy template" /\ s.pc = "checked"
    <3>1. Fits(s.seen)
      BY <1>2, <2>2 DEF TemplateSession, TemplateOp
    <3>2. s.version \in 1 .. writes + 1
      BY <1>2, <2>2 DEF TemplateSession, TemplateOp
    <3>3. LET t == TemplateRow(s.read.code, s.version, "draft", s.read.name, s.seen)
          IN  TemplateRowOK(<<t.code, t.version>>, t, writes + 1) /\ t.status = "draft"
      <4> HIDE DEF s, row
      <4> QED
        BY <1>3, <3>1, <3>2
    <3>4. row = TemplateRow(s.read.code, s.version, "draft", s.read.name, s.seen)
      BY <2>2
    <3> QED
      BY <3>3, <3>4
  <2> QED
    BY <1>1, <2>1, <2>2
<1> HIDE DEF row
<1>5. /\ TemplateTable(templates', writes + 1) /\ DOMAIN templates \subseteq DOMAIN templates'
      /\ \A id \in DOMAIN templates : templates'[id] = templates[id]
  <2>1. TemplateTable(templates', writes + 1)
    BY <1>1, <1>2, <1>4, TemplateTableGrows
  <2>2. Extends(templates, templates')
    BY <1>1, WithExtends
  <2> QED
    BY <2>1, <2>2 DEF Extends
<1>6. RuleTable(rules', writes + 1) /\ ImportTable(imports')
  BY <1>1, <1>2, InvTables, TablesAge
<1>7. ASSUME NEW b \in Admin
      PROVE  Fine(ses'[b], rules', templates', imports', writes + 1)
  <2>1. CASE b = a
    BY <1>1, <2>1, IdleIsFine DEF Inv
  <2>2. CASE b # a
    <3>1. Fine(ses[b], rules, templates, imports, writes) /\ ses'[b] = ses[b]
      BY <1>1, <2>2 DEF Inv
    <3>2. TemplateSession(ses[b], templates', writes + 1)
      BY <1>1, <1>2, <1>4, <3>1, TemplateSessionGrows DEF Fine
    <3>3. RuleSession(ses[b], rules, writes + 1)
      BY <1>2, <3>1, LaterItself, RuleSessionLater DEF Fine
    <3> QED
      BY <1>1, <3>1, <3>2, <3>3 DEF Fine
  <2> QED
    BY <2>1, <2>2
<1>8. DOMAIN ses' = Admin
  BY <1>1 DEF Inv
<1> QED
  BY <1>1, <1>5, <1>6, <1>7, <1>8, CommitStep

LEMMA RewriteTemplate ==
  ASSUME Inv, NEW a \in Admin, NEW id \in DOMAIN templates, NEW row, NEW overtaken,
         TemplateRewritten(a, id, row, overtaken), TemplateFitsIn(id, row),
         TemplateNoticed(a, id, row, overtaken)
  PROVE  Inv'
<1>0. /\ writes \in Nat /\ TemplateTable(templates, writes)
      /\ DOMAIN templates' = DOMAIN templates /\ templates'[id] = row
      /\ \A k \in DOMAIN templates : k # id => templates'[k] = templates[k]
  <2>1. writes \in Nat /\ TemplateTable(templates, writes)
    BY InvTables
  <2>2. /\ DOMAIN templates' = DOMAIN templates /\ templates'[id] = row
        /\ \A k \in DOMAIN templates : k # id => templates'[k] = templates[k]
    BY DEF TemplateRewritten
  <2> QED
    BY <2>1, <2>2
<1>6. /\ TemplateRowOK(id, row, writes + 1)
      /\ templates[id].status # "draft" => row.status # "draft"
      /\ Settled(row) => \A k \in DOMAIN templates \ {id} :
                            Settled(templates[k]) => Product[templates[k].code] # Product[row.code]
  BY DEF TemplateFitsIn
<1>7. /\ Running /\ writes' = writes + 1
      /\ rules' = rules /\ imports' = imports /\ up' = up
      /\ ses' = Overtake(a, overtaken)
  BY DEF TemplateRewritten
<1>1. TemplateTable(templates', writes + 1)
  <2>1. ASSUME NEW k \in DOMAIN templates' PROVE TemplateRowOK(k, templates'[k], writes + 1)
    <3>1. TemplateTable(templates, writes + 1)
      BY <1>0, TablesAge
    <3>2. CASE k = id
      BY <1>0, <1>6, <3>2
    <3>3. CASE k # id
      BY <1>0, <3>1, <3>3 DEF TemplateTable
    <3> QED
      BY <3>2, <3>3
  <2>2. ASSUME NEW i \in DOMAIN templates, NEW j \in DOMAIN templates, i # j,
               Settled(templates'[i]), Settled(templates'[j])
        PROVE  Product[templates'[i].code] # Product[templates'[j].code]
    <3>1. CASE i # id /\ j # id
      <4>1. Single(templates) /\ templates'[i] = templates[i] /\ templates'[j] = templates[j]
        BY <1>0, <2>2, <3>1 DEF TemplateTable
      <4> QED
        BY <2>2, <4>1 DEF Single
    <3>2. CASE i = id
      <4>1. templates'[i] = row /\ templates'[j] = templates[j] /\ j # id
        BY <1>0, <2>2, <3>2
      <4>2. Settled(row) /\ Settled(templates[j])
        BY <2>2, <4>1
      <4>3. Product[templates[j].code] # Product[row.code]
        BY <1>6, <4>1, <4>2
      <4> QED
        BY <4>1, <4>3
    <3>3. CASE j = id
      <4>1. templates'[j] = row /\ templates'[i] = templates[i] /\ i # id
        BY <1>0, <2>2, <3>3
      <4>2. Settled(row) /\ Settled(templates[i])
        BY <2>2, <4>1
      <4>3. Product[templates[i].code] # Product[row.code]
        BY <1>6, <4>1, <4>2
      <4> QED
        BY <4>1, <4>3
    <3> QED
      BY <3>1, <3>2, <3>3
  <2>3. \A i, j \in DOMAIN templates :
           i # j /\ Settled(templates'[i]) /\ Settled(templates'[j]) =>
              Product[templates'[i].code] # Product[templates'[j].code]
    BY <2>2
  <2>4. Single(templates')
    BY <1>0, <2>3 DEF Single
  <2> QED
    BY <2>1, <2>4 DEF TemplateTable
<1>2. RuleTable(rules', writes + 1) /\ ImportTable(imports')
  BY <1>0, <1>7, InvTables, TablesAge
<1>3. ASSUME NEW b \in Admin
      PROVE  Fine(ses'[b], rules', templates', imports', writes + 1)
  <2>1. CASE b = a
    BY <1>7, <2>1, OvertakeEffect, IdleIsFine
  <2>2. CASE b # a
    <3>1. /\ Frame(ses'[b]) /\ Later(ses'[b], ses[b])
          /\ b \in overtaken => ses'[b].raced
      BY <1>7, <2>2, OvertakeEffect
    <3>2. Fine(ses[b], rules, templates, imports, writes)
      BY DEF Inv
    <3>3. /\ TemplateSession(ses'[b], templates, writes + 1)
          /\ RuleSession(ses'[b], rules', writes + 1)
          /\ LprSession(ses'[b], imports')
      <4>1. /\ RuleSession(ses[b], rules, writes) /\ TemplateSession(ses[b], templates, writes)
            /\ LprSession(ses[b], imports)
        BY <3>2 DEF Fine
      <4>2. RuleSession(ses'[b], rules, writes + 1)
        BY <1>0, <3>1, <4>1, RuleSessionLater
      <4>3. TemplateSession(ses'[b], templates, writes + 1)
        BY <1>0, <3>1, <4>1, TemplateSessionLater
      <4>4. LprSession(ses'[b], imports)
        BY <3>1, <4>1, LprSessionLater
      <4> QED
        BY <1>7, <4>2, <4>3, <4>4
    <3>4. TemplateSession(ses'[b], templates', writes + 1)
      <4> DEFINE t == ses'[b]
      <4>1. t.op \in TemplateOp \ {"create template"} =>
               /\ t.id \in DOMAIN templates'
               /\ t.read.code = templates'[t.id].code /\ t.read.version = templates'[t.id].version
        <5>1. row.code = templates[id].code /\ row.version = templates[id].version
          BY <1>0, <1>6 DEF TemplateTable, TemplateRowOK
        <5>2. t.op \in TemplateOp \ {"create template"} =>
                 /\ t.id \in DOMAIN templates
                 /\ t.read.code = templates[t.id].code
                 /\ t.read.version = templates[t.id].version
          BY <3>3 DEF TemplateSession
        <5> QED
          BY <1>0, <5>1, <5>2
      <4>2. /\ b \notin overtaken \/ t.raced
            /\ t.raced \/ ~ses[b].raced
            /\ t.op = ses[b].op /\ t.id = ses[b].id /\ t.read = ses[b].read
        BY <3>1, <3>2 DEF Later
      <4>6. ~t.raced => TemplateUnnoticed(ses[b], id, row)
        BY <2>2, <4>2 DEF TemplateNoticed
      <4>7. ~t.raced => TemplateUnnoticed(t, id, row)
        BY <4>2, <4>6 DEF TemplateUnnoticed
      <4>3. t.op \in {"update template", "publish template"} /\ ~t.raced =>
               t.id \in DOMAIN templates /\ templates'[t.id] = templates[t.id]
        <5>1. t.op \in {"update template", "publish template"} => t.id \in DOMAIN templates
          BY <3>3 DEF TemplateSession, TemplateOp
        <5> QED
          BY <1>0, <4>7, <5>1 DEF TemplateUnnoticed
      <4>4. t.op = "publish template" /\ t.pc = "checked" /\ ~t.raced =>
               \A k \in DOMAIN templates' \ {t.id} :
                  Settled(templates'[k]) => Product[templates'[k].code] # Product[t.read.code]
        <5>1. ASSUME t.op = "publish template", t.pc = "checked", ~t.raced,
                     NEW k \in DOMAIN templates \ {t.id}, Settled(templates'[k])
              PROVE  Product[templates'[k].code] # Product[t.read.code]
          <6>1. CASE k = id
            <7>1. templates'[k] = row /\ Settled(row)
              BY <1>0, <5>1, <6>1
            <7>2. Product[row.code] # Product[t.read.code]
              BY <4>7, <5>1, <7>1 DEF TemplateUnnoticed
            <7> QED
              BY <7>1, <7>2
          <6>2. CASE k # id
            <7>1. templates'[k] = templates[k] /\ Settled(templates[k])
              BY <1>0, <5>1, <6>2
            <7>2. Product[templates[k].code] # Product[t.read.code]
              BY <3>3, <5>1, <7>1 DEF TemplateSession
            <7> QED
              BY <7>1, <7>2
          <6> QED
            BY <6>1, <6>2
        <5> QED
          BY <1>0, <5>1
      <4>5. t.op = "retire template" => templates'[t.id].status # "draft"
        <5>1. t.op = "retire template" =>
                 t.id \in DOMAIN templates /\ templates[t.id].status # "draft"
          BY <3>3 DEF TemplateSession, TemplateOp
        <5> QED
          BY <1>0, <1>6, <5>1
      <4> QED
        BY <3>3, <4>1, <4>3, <4>4, <4>5 DEF TemplateSession
    <3> QED
      BY <3>1, <3>3, <3>4 DEF Fine
  <2> QED
    BY <2>1, <2>2
<1>4. DOMAIN ses' = Admin
  BY <1>7, OvertakeEffect
<1>5. /\ DOMAIN rules \subseteq DOMAIN rules' /\ DOMAIN templates \subseteq DOMAIN templates'
      /\ \A k \in DOMAIN templates :
            templates[k].status # "draft" => templates'[k].status # "draft"
  BY <1>0, <1>6, <1>7
<1> QED
  BY <1>1, <1>2, <1>3, <1>4, <1>5, <1>7, CommitStep

LEMMA WriteTemplateStep ==
  ASSUME Inv, NEW a \in Admin, CommitTemplate(a), WriteTemplate(a)
  PROVE  Inv'
<1> DEFINE s == ses[a]
           id == s.id
           old == templates[id]
<1>1. /\ Running /\ writes' = writes + 1 /\ UNCHANGED <<rules, imports, up>>
      /\ \/ s.op = "retire template"
         \/ s.op \in {"update template", "publish template"} /\ s.pc = "checked"
  BY DEF CommitTemplate, WriteTemplate
<1>2. /\ TemplateSession(s, templates, writes) /\ Frame(s)
      /\ \A b \in Admin : TemplateSession(ses[b], templates, writes) /\ Frame(ses[b])
  BY DEF Inv, Fine
<1>3. /\ id \in DOMAIN templates
      /\ s.read.code = old.code /\ s.read.version = old.version
  BY <1>1, <1>2 DEF TemplateSession, TemplateOp
<1>4. writes \in Nat /\ TemplateRowOK(id, old, writes) /\ TemplateRowOK(id, old, writes + 1)
  <2>1. writes \in Nat /\ TemplateTable(templates, writes) /\ TemplateTable(templates, writes + 1)
    BY InvTables, TablesAge
  <2> QED
    BY <1>3, <2>1 DEF TemplateTable
<1>5. DOMAIN old = TemplateFields /\ old.raced \in BOOLEAN /\ s.raced \in BOOLEAN
  BY <1>2, <1>4 DEF TemplateRowOK, Frame
<1>6. CASE s.op = "update template" /\ s.pc = "checked"
  <2> DEFINE row == UpdatedTemplate(old, s)
             items == Kept(old, s) \cup s.input[2]
             hash == <<old.code, old.version, s.input[1], items>>
  <2>1. /\ templates' = [templates EXCEPT ![id] = row]
        /\ ses' = Overtake(a, MissedTemplate(id, row))
        /\ \A x \in Kept(old, s), y \in s.input[2] : x.code # y.code
    BY <1>6 DEF WriteTemplate
  <2>2. /\ DOMAIN row = TemplateFields /\ row = [f \in TemplateFields |-> row[f]]
        /\ row.code = old.code /\ row.version = old.version /\ row.status = old.status
        /\ row.name = IF Renames(s) THEN s.input[1] ELSE old.name
        /\ row.items = items
        /\ row.hash = IF hash # s.read.hash THEN hash ELSE old.hash
        /\ row.raced = (old.raced \/ s.raced)
    BY <1>5 DEF UpdatedTemplate, TemplateFields
  <2> HIDE DEF row
  <2>3. Fits(items)
    <3>1. Fits(old.items)
      BY <1>4 DEF TemplateRowOK
    <3>2. Fits(s.input[2])
      BY <1>2, <1>6 DEF TemplateSession
    <3>3. Kept(old, s) \subseteq old.items
      BY DEF Kept
    <3> QED
      BY <2>1, <3>1, <3>2, <3>3 DEF Fits, ItemsDiffer
  <2>4. ASSUME ~s.raced
        PROVE  /\ old.status = "draft" /\ row.name = s.input[1] /\ row.hash = hash
    <3>1. UnmovedTemplate(s.read, old)
      BY <1>2, <1>6, <2>4 DEF TemplateSession
    <3>2. row.name = s.input[1]
      BY <1>6, <2>2, <3>1 DEF UnmovedTemplate, Renames
    <3> QED
      BY <2>2, <3>1, <3>2 DEF UnmovedTemplate
  <2> HIDE DEF items
  <2>5. TemplateRowOK(id, row, writes + 1)
    <3>1. ~row.raced => row.hash = <<row.code, row.version, row.name, row.items>>
      BY <2>2, <2>4
    <3>2. row.raced \in BOOLEAN
      BY <2>2
    <3>3. id = <<row.code, row.version>> /\ row.version \in 1 .. writes + 1 /\ row.status \in Status
      BY <1>4, <2>2 DEF TemplateRowOK
    <3> QED
      BY <2>2, <2>3, <3>1, <3>2, <3>3 DEF TemplateRowOK
  <2>6. ~Settled(row)
    BY <2>2, <2>4 DEF Settled
  <2>7. \A b \in Admin \ {a} :
           b \notin MissedTemplate(id, row) =>
              ~(ses[b].op \in {"update template", "publish template"} /\ ses[b].id = id)
    BY DEF MissedTemplate, Same
  <2>8. old.status # "draft" => row.status # "draft"
    BY <2>2
  <2> QED
    <3>1. TemplateRewritten(a, id, row, MissedTemplate(id, row))
      BY <1>1, <2>1 DEF TemplateRewritten
    <3>2. TemplateFitsIn(id, row)
      BY <2>5, <2>6, <2>8 DEF TemplateFitsIn
    <3>3. TemplateNoticed(a, id, row, MissedTemplate(id, row))
      BY <2>6, <2>7 DEF TemplateNoticed, TemplateUnnoticed
    <3> QED
      BY <1>3, <3>1, <3>2, <3>3, RewriteTemplate, Zenon
<1>7. CASE s.op = "publish template" /\ s.pc = "checked"
  <2> DEFINE row == [old EXCEPT !.status = "approved", !.raced = @ \/ s.raced]
  <2>1. templates' = [templates EXCEPT ![id] = row] /\ ses' = Overtake(a, MissedTemplate(id, row))
    BY <1>7 DEF WriteTemplate
  <2>2. /\ DOMAIN row = TemplateFields /\ row = [f \in TemplateFields |-> row[f]]
        /\ row.code = old.code /\ row.version = old.version /\ row.status = "approved"
        /\ row.name = old.name /\ row.items = old.items /\ row.hash = old.hash
        /\ row.raced = (old.raced \/ s.raced)
    BY <1>5 DEF TemplateFields
  <2> HIDE DEF row
  <2>3. TemplateRowOK(id, row, writes + 1)
    BY <1>4, <2>2 DEF TemplateRowOK, Status
  <2>4. Settled(row) => \A k \in DOMAIN templates \ {id} :
                           Settled(templates[k]) => Product[templates[k].code] # Product[row.code]
    BY <1>2, <1>3, <1>7, <2>2 DEF TemplateSession, Settled
  <2>5. \A b \in Admin \ {a} :
           b \notin MissedTemplate(id, row) =>
              /\ ~(ses[b].op \in {"update template", "publish template"} /\ ses[b].id = id)
              /\ ses[b].op = "publish template" => Product[row.code] # Product[ses[b].read.code]
    BY <2>2 DEF MissedTemplate, Same
  <2> QED
    <3>1. TemplateRewritten(a, id, row, MissedTemplate(id, row))
      BY <1>1, <2>1 DEF TemplateRewritten
    <3>2. TemplateFitsIn(id, row)
      BY <2>2, <2>3, <2>4 DEF TemplateFitsIn
    <3>3. TemplateNoticed(a, id, row, MissedTemplate(id, row))
      BY <2>5 DEF TemplateNoticed, TemplateUnnoticed
    <3> QED
      BY <1>3, <3>1, <3>2, <3>3, RewriteTemplate, Zenon
<1>8. CASE s.op = "retire template"
  <2> DEFINE row == [old EXCEPT !.status = "retired"]
  <2>1. templates' = [templates EXCEPT ![id] = row] /\ ses' = Overtake(a, {})
    BY <1>8 DEF WriteTemplate
  <2>2. /\ DOMAIN row = TemplateFields /\ row = [f \in TemplateFields |-> row[f]]
        /\ row.code = old.code /\ row.version = old.version /\ row.status = "retired"
        /\ row.name = old.name /\ row.items = old.items /\ row.hash = old.hash
        /\ row.raced = old.raced
    BY <1>5 DEF TemplateFields
  <2> HIDE DEF row
  <2>3. TemplateRowOK(id, row, writes + 1)
    BY <1>4, <2>2 DEF TemplateRowOK, Status
  <2>4. ~Settled(row) /\ row.status # "draft"
    BY <2>2 DEF Settled
  <2>5. old.status # "draft"
    BY <1>2, <1>8 DEF TemplateSession
  <2>6. \A b \in Admin \ {a} :
           ~ses[b].raced =>
              ~(ses[b].op \in {"update template", "publish template"} /\ ses[b].id = id)
    BY <1>2, <2>5 DEF TemplateSession, UnmovedTemplate
  <2> QED
    <3>1. TemplateRewritten(a, id, row, {})
      BY <1>1, <2>1 DEF TemplateRewritten
    <3>2. TemplateFitsIn(id, row)
      BY <2>3, <2>4 DEF TemplateFitsIn
    <3>3. TemplateNoticed(a, id, row, {})
      BY <2>4, <2>6 DEF TemplateNoticed, TemplateUnnoticed
    <3> QED
      BY <1>3, <3>1, <3>2, <3>3, RewriteTemplate, Zenon
<1> QED
  BY <1>1, <1>6, <1>7, <1>8

-----------------------------------------------------------------------------
(* LPR imports.                                                              *)

(* A commit that changes imports only.                                       *)
LEMMA ImportStep ==
  ASSUME Inv, Running, writes' = writes + 1, UNCHANGED <<rules, templates, up>>,
         ImportTable(imports'), DOMAIN imports \subseteq DOMAIN imports',
         DOMAIN ses' = Admin, \A a \in Admin : ses'[a] \in {ses[a], Idle}
  PROVE  Inv'
<1>1. /\ writes \in Nat
      /\ RuleTable(rules, writes + 1) /\ TemplateTable(templates, writes + 1)
  BY InvTables, TablesAge
<1>2. ASSUME NEW a \in Admin
      PROVE  Fine(ses'[a], rules, templates, imports', writes + 1)
  <2>1. CASE ses'[a] = Idle
    BY <2>1, IdleIsFine
  <2>2. CASE ses'[a] = ses[a]
    <3>1. Fine(ses[a], rules, templates, imports, writes)
      BY DEF Inv
    <3>2. RuleSession(ses[a], rules, writes + 1) /\ TemplateSession(ses[a], templates, writes + 1)
      BY <1>1, <3>1, LaterItself, RuleSessionLater, TemplateSessionLater DEF Fine
    <3>3. LprSession(ses[a], imports')
      BY <3>1 DEF Fine, LprSession
    <3> QED
      BY <2>2, <3>1, <3>2, <3>3 DEF Fine
  <2> QED
    BY <2>1, <2>2
<1> QED
  BY <1>1, <1>2, CommitStep

LEMMA ImportGrows ==
  ASSUME ImportTable(imports), NEW b \in Batch, b.entries # {},
         \A row \in b.entries : ValidRow(row)
  PROVE  /\ ImportTable(Append(imports, b))
         /\ DOMAIN imports \subseteq DOMAIN Append(imports, b)
<1>1. Append(imports, b) \in Seq(Batch)
  BY DEF ImportTable
<1>2. /\ DOMAIN Append(imports, b) = 1 .. Len(imports) + 1 /\ DOMAIN imports = 1 .. Len(imports)
      /\ Append(imports, b)[Len(imports) + 1] = b
      /\ \A i \in DOMAIN imports : Append(imports, b)[i] = imports[i]
      /\ Len(imports) \in Nat
  BY DEF ImportTable
<1>3. \A i \in 1 .. Len(imports) + 1 : i = Len(imports) + 1 \/ i \in 1 .. Len(imports)
  BY <1>2
<1> QED
  BY <1>1, <1>2, <1>3 DEF ImportTable

LEMMA ImportLprStep ==
  ASSUME Inv, NEW file \in SUBSET CsvRow, ImportLpr(file)
  PROVE  Inv'
<1> DEFINE b == LprBatch("draft", file, FALSE)
<1>1. b \in Batch /\ b.entries # {} /\ \A row \in b.entries : ValidRow(row)
  BY DEF ImportLpr, ValidFile, LprBatch, Batch
<1>2. imports' = Append(imports, b)
  BY DEF ImportLpr
<1> HIDE DEF b
<1>3. ImportTable(imports') /\ DOMAIN imports \subseteq DOMAIN imports'
  BY <1>1, <1>2, InvTables, ImportGrows
<1>4. DOMAIN ses' = Admin /\ \A a \in Admin : ses'[a] \in {ses[a], Idle}
  BY DEF Inv, ImportLpr
<1> QED
  BY <1>3, <1>4, ImportStep DEF ImportLpr

LEMMA CommitLprStep ==
  ASSUME Inv, NEW a \in Admin, CommitLpr(a)
  PROVE  Inv'
<1> DEFINE id == ses[a].id
<1>1. id \in DOMAIN imports /\ ImportTable(imports)
  BY InvTables DEF Inv, Fine, LprSession, CommitLpr
<1>2. /\ DOMAIN imports' = DOMAIN imports
      /\ imports' = [imports EXCEPT ![id] = [imports[id] EXCEPT !.status = "published"]]
  BY DEF CommitLpr
<1>3. [imports[id] EXCEPT !.status = "published"] \in Batch
  <2>1. imports[id] \in Batch
    BY <1>1 DEF ImportTable
  <2> QED
    BY <2>1 DEF Batch
<1>4. imports' \in Seq(Batch)
  BY <1>1, <1>2, <1>3 DEF ImportTable
<1>5. \A i \in DOMAIN imports : imports'[i].entries = imports[i].entries
  <2>1. \A i \in DOMAIN imports : imports[i] \in Batch
    BY <1>1 DEF ImportTable
  <2> QED
    BY <1>1, <1>2, <2>1 DEF Batch
<1>6. ImportTable(imports')
  BY <1>1, <1>2, <1>4, <1>5 DEF ImportTable
<1>7. DOMAIN ses' = Admin /\ \A b \in Admin : ses'[b] \in {ses[b], Idle}
  BY DEF Inv, CommitLpr
<1> QED
  BY <1>2, <1>6, <1>7, ImportStep DEF CommitLpr

-----------------------------------------------------------------------------
(* Starts of the server.                                                     *)

LEMMA InitInv == Init => Inv
<1> SUFFICES ASSUME Init PROVE Inv
  OBVIOUS
<1>1. /\ DOMAIN rules = {} /\ DOMAIN templates = {} /\ imports = <<>>
      /\ up = FALSE /\ writes = 0 /\ DOMAIN ses = Admin /\ \A a \in Admin : ses[a] = Idle
  BY DEF Init
<1>2. writes \in 0 .. MaxWrites
  BY <1>1, InputAssumption
<1>3. RuleTable(rules, writes) /\ TemplateTable(templates, writes)
  BY <1>1 DEF RuleTable, Clear, TemplateTable, Single
<1>4. ImportTable(imports)
  <2>1. imports \in Seq(Batch) /\ DOMAIN imports = {}
    BY <1>1
  <2> QED
    BY <2>1 DEF ImportTable
<1>5. \A a \in Admin : Fine(ses[a], rules, templates, imports, writes)
  BY <1>1, IdleIsFine
<1>6. Seeds
  BY <1>1 DEF Seeds
<1> QED
  BY <1>1, <1>2, <1>3, <1>4, <1>5, <1>6 DEF Inv

LEMMA SeededExtends == \A table, new : Extends(table, Seeded(table, new))
  BY DEF Extends, Seeded

(* T holds the first versions of the rows of new, and nothing else.          *)
FirstVersions(T, new) ==
    /\ DOMAIN T = (DOMAIN new) \X {1}
    /\ \A code \in DOMAIN new : T[<<code, 1>>] = new[code]

(* What is seeded besides nothing, and what is not seeded at all.            *)
LEMMA SeededAlone ==
  ASSUME NEW table, NEW new, DOMAIN table = {}
  PROVE  FirstVersions(Seeded(table, new), new)
  BY DEF FirstVersions, Seeded

LEMMA NothingSeeded ==
  ASSUME NEW table, NEW new, DOMAIN new = {}
  PROVE  /\ DOMAIN Seeded(table, new) = DOMAIN table
         /\ \A k \in DOMAIN table : Seeded(table, new)[k] = table[k]
  BY DEF Seeded

LEMMA DemoRuleTable ==
  ASSUME NEW R, NEW w \in Nat, w > 0, DOMAIN R = (DOMAIN DemoRules) \X {1},
         \A code \in DOMAIN DemoRules : R[<<code, 1>>] = DemoRule(code)
  PROVE  RuleTable(R, w)
<1>1. ASSUME NEW code \in DOMAIN DemoRules
      PROVE  RuleRowOK(<<code, 1>>, DemoRule(code), w) /\ DemoRule(code).content = DemoRules[code]
  <2>1. Sound(DemoRules[code])
    BY DemoAssumption, LawsCover DEF Sound, Covered, ValidRule
  <2> QED
    BY <2>1 DEF RuleRowOK, DemoRule, RuleRow, RuleFields, Status
<1>2. ASSUME NEW i \in DOMAIN R, NEW j \in DOMAIN R, i # j
      PROVE  ~Ambiguous(R[i].content, R[j].content)
  <2>1. PICK c \in DOMAIN DemoRules, d \in DOMAIN DemoRules : i = <<c, 1>> /\ j = <<d, 1>>
    OBVIOUS
  <2>2. c # d
    BY <1>2, <2>1
  <2>3. R[i].content = DemoRules[c] /\ R[j].content = DemoRules[d]
    BY <1>1, <2>1
  <2> QED
    BY <2>2, <2>3, DemoAssumption
<1>3. \A i \in DOMAIN R : RuleRowOK(i, R[i], w)
  BY <1>1
<1> QED
  BY <1>2, <1>3 DEF RuleTable, Clear

LEMMA DemoTemplateTable ==
  ASSUME NEW T, NEW w \in Nat, w > 0, DOMAIN T = (DOMAIN DemoItems) \X {1},
         \A code \in DOMAIN DemoItems : T[<<code, 1>>] = DemoTemplate(code)
  PROVE  TemplateTable(T, w) /\ \A k \in DOMAIN T : T[k].status = "approved"
<1>1. ASSUME NEW code \in DOMAIN DemoItems
      PROVE  /\ TemplateRowOK(<<code, 1>>, DemoTemplate(code), w)
             /\ DemoTemplate(code).code = code /\ DemoTemplate(code).status = "approved"
  <2>1. Fits(DemoItems[code])
    <3>1. DemoItems[code] \subseteq KnownItem
      BY DEF KnownItem
    <3>2. ItemsDiffer(DemoItems[code])
      BY DemoAssumption
    <3> QED
      BY <3>1, <3>2 DEF Fits
  <2> QED
    BY <2>1 DEF TemplateRowOK, DemoTemplate, TemplateRow, TemplateFields, Status
<1>2. ASSUME NEW i \in DOMAIN T, NEW j \in DOMAIN T, i # j
      PROVE  Product[T[i].code] # Product[T[j].code]
  <2>1. PICK c \in DOMAIN DemoItems, d \in DOMAIN DemoItems : i = <<c, 1>> /\ j = <<d, 1>>
    OBVIOUS
  <2>2. c # d
    BY <1>2, <2>1
  <2>3. T[i].code = c /\ T[j].code = d
    BY <1>1, <2>1
  <2> QED
    BY <2>2, <2>3, DemoAssumption
<1>3. \A i \in DOMAIN T : TemplateRowOK(i, T[i], w) /\ T[i].status = "approved"
  BY <1>1
<1> QED
  BY <1>2, <1>3 DEF TemplateTable, Single

(* The first start seeds everything.                                         *)
LEMMA FirstStart ==
  ASSUME Inv, Start, writes = 0
  PROVE  /\ up' = TRUE
         /\ DOMAIN rules' = (DOMAIN DemoRules) \X {1}
         /\ \A code \in DOMAIN DemoRules : rules'[<<code, 1>>] = DemoRule(code)
         /\ DOMAIN templates' = (DOMAIN DemoItems) \X {1}
         /\ \A code \in DOMAIN DemoItems : templates'[<<code, 1>>] = DemoTemplate(code)
<1> DEFINE demoRules == [code \in DOMAIN DemoRules |-> DemoRule(code)]
           demoTemplates == [code \in DOMAIN DemoItems |-> DemoTemplate(code)]
<1>1. DOMAIN rules = {} /\ DOMAIN templates = {}
  BY DEF Inv, Seeds
<1>2. SeededTemplates = DOMAIN DemoItems /\ SeededRules = DOMAIN DemoRules
  BY <1>1 DEF SeededTemplates, SeededRules, Rows
<1>3. ~SeedCollides
  BY <1>1 DEF SeedCollides, Taken
<1>4. /\ templates' = Seeded(templates, demoTemplates)
      /\ rules' = Seeded(rules, demoRules)
      /\ up' = TRUE
  BY <1>2, <1>3 DEF Start, Seed, SeedFails
<1>5. /\ DOMAIN demoRules = DOMAIN DemoRules /\ DOMAIN demoTemplates = DOMAIN DemoItems
      /\ \A code \in DOMAIN DemoRules : demoRules[code] = DemoRule(code)
      /\ \A code \in DOMAIN DemoItems : demoTemplates[code] = DemoTemplate(code)
  OBVIOUS
<1> HIDE DEF demoRules, demoTemplates
<1>6. /\ DOMAIN rules' = (DOMAIN DemoRules) \X {1}
      /\ \A code \in DOMAIN DemoRules : rules'[<<code, 1>>] = DemoRule(code)
  <2>1. FirstVersions(Seeded(rules, demoRules), demoRules)
    BY <1>1, SeededAlone, Zenon
  <2> QED
    BY <1>4, <1>5, <2>1 DEF FirstVersions
<1>7. /\ DOMAIN templates' = (DOMAIN DemoItems) \X {1}
      /\ \A code \in DOMAIN DemoItems : templates'[<<code, 1>>] = DemoTemplate(code)
  <2>1. FirstVersions(Seeded(templates, demoTemplates), demoTemplates)
    BY <1>1, SeededAlone, Zenon
  <2> QED
    BY <1>4, <1>5, <2>1 DEF FirstVersions
<1> QED
  BY <1>4, <1>6, <1>7

(* A later one seeds nothing, and fails at a template of which no version is *)
(* in force.                                                                 *)
LEMMA LaterStart ==
  ASSUME Inv, Start, writes > 0
  PROVE  /\ DOMAIN rules' = DOMAIN rules /\ \A k \in DOMAIN rules : rules'[k] = rules[k]
         /\ DOMAIN templates' = DOMAIN templates
         /\ \A k \in DOMAIN templates : templates'[k] = templates[k]
         /\ up' = TRUE \/ (up' = FALSE /\ SeededTemplates' # {})
<1>1. /\ \A code \in DOMAIN DemoRules : <<code, 1>> \in DOMAIN rules
      /\ \A code \in DOMAIN DemoItems : <<code, 1>> \in DOMAIN templates
      /\ \A k \in DOMAIN rules : k = <<rules[k].code, rules[k].version>>
  BY DEF Inv, Seeds, RuleTable, RuleRowOK
<1>2. SeededRules = {}
  <2>1. ASSUME NEW code \in DOMAIN DemoRules PROVE SeededRules = {}
    <3>1. <<code, 1>> \in DOMAIN rules /\ rules[<<code, 1>>].code = code
      BY <1>1
    <3> QED
      BY <3>1 DEF SeededRules, Rows
  <2> QED
    BY <2>1 DEF SeededRules
<1>3. SeedCollides <=> SeededTemplates # {}
  BY <1>1, <1>2 DEF SeedCollides, Taken, SeededTemplates
<1>4. CASE Seed
  <2>1. /\ templates' = Seeded(templates, [code \in {} |-> DemoTemplate(code)])
        /\ rules' = Seeded(rules, [code \in {} |-> DemoRule(code)])
        /\ up' = TRUE
    BY <1>2, <1>3, <1>4 DEF Seed
  <2> QED
    BY <2>1, NothingSeeded
<1>5. CASE SeedFails
  BY <1>3, <1>5 DEF SeedFails, SeededTemplates, tables
<1> QED
  BY <1>4, <1>5 DEF Start

LEMMA StartStep == ASSUME Inv, Start PROVE Inv'
<1>1. /\ writes' = writes + 1 /\ writes \in Nat /\ writes' \in 0 .. MaxWrites
      /\ ses' = [a \in Admin |-> Idle]
  <2>1. writes \in 0 .. MaxWrites /\ MaxWrites \in Nat
    BY InputAssumption DEF Inv
  <2> QED
    BY <2>1 DEF Start
<1>2. \A a \in Admin : Fine(ses'[a], rules', templates', imports', writes')
  BY <1>1, IdleIsFine
<1>3. ImportTable(imports')
  <2>1. DemoImport \in Batch /\ DemoImport.entries # {}
        /\ \A row \in DemoImport.entries : ValidRow(row)
    BY DemoAssumption DEF DemoImport, LprBatch, Batch
  <2>2. imports' \in {imports, Append(imports, DemoImport)}
    BY DEF Start, Seed, SeedFails, tables
  <2> QED
    BY <2>1, <2>2, InvTables, ImportGrows
<1>4. RuleTable(rules', writes') /\ TemplateTable(templates', writes') /\ Seeds' /\ up' \in BOOLEAN
  <2>1. CASE writes = 0
    <3>1. RuleTable(rules', writes') /\ TemplateTable(templates', writes')
          /\ \A k \in DOMAIN templates' : templates'[k].status = "approved"
      BY <1>1, <2>1, FirstStart, DemoRuleTable, DemoTemplateTable
    <3>2. up' = TRUE /\ DOMAIN rules' = (DOMAIN DemoRules) \X {1}
          /\ DOMAIN templates' = (DOMAIN DemoItems) \X {1}
      BY <2>1, FirstStart
    <3> QED
      BY <1>1, <3>1, <3>2 DEF Seeds
  <2>2. CASE writes > 0
    <3>1. RuleTable(rules, writes') /\ TemplateTable(templates, writes')
      BY <1>1, InvTables, TablesAge
    <3>2. /\ DOMAIN rules' = DOMAIN rules /\ \A k \in DOMAIN rules : rules'[k] = rules[k]
          /\ DOMAIN templates' = DOMAIN templates
          /\ \A k \in DOMAIN templates : templates'[k] = templates[k]
          /\ up' = TRUE \/ (up' = FALSE /\ SeededTemplates' # {})
      BY <2>2, LaterStart
    <3>3. RuleTable(rules', writes') /\ TemplateTable(templates', writes')
      BY <3>1, <3>2 DEF RuleTable, TemplateTable, Clear, Single
    <3>4. Seeds'
      BY <1>1, <2>2, <3>2 DEF Inv, Seeds
    <3> QED
      BY <3>2, <3>3, <3>4
  <2> QED
    BY <1>1, <2>1, <2>2
<1> QED
  BY <1>1, <1>2, <1>3, <1>4 DEF Inv

-----------------------------------------------------------------------------
(* What follows.                                                             *)

(* The invariant holds throughout: every row is what its session read and    *)
(* asked for, whatever the others did in between (admin_rules.py:282,        *)
(* admin_templates.py:191).                                                  *)
THEOREM CatalogueInvariant == Spec => []Inv
<1>1. Inv /\ [Next]_vars => Inv'
  <2> SUFFICES ASSUME Inv, [Next]_vars PROVE Inv'
    OBVIOUS
  <2>1. ASSUME NEW a \in Admin, Step(a) PROVE Inv'
    <3>1. CASE AskRule(a)
      BY <3>1, AskRuleStep
    <3>2. CASE CheckApproval(a)
      BY <3>2, CheckApprovalStep
    <3>3. CASE CountRules(a)
      BY <3>3, CountRulesStep
    <3>4. CASE CommitRule(a)
      BY <3>4, InsertRuleStep, WriteRuleStep DEF CommitRule
    <3>5. CASE AskTemplate(a)
      BY <3>5, AskTemplateStep
    <3>6. CASE DeleteItems(a)
      BY <3>6, DeleteItemsStep
    <3>7. CASE CheckPublish(a)
      BY <3>7, CheckPublishStep
    <3>8. CASE CountTemplates(a)
      BY <3>8, CountTemplatesStep
    <3>9. CASE CommitTemplate(a)
      BY <3>9, InsertTemplateStep, WriteTemplateStep DEF CommitTemplate
    <3>10. CASE \E id \in DOMAIN imports : AskPublishLpr(a, id)
      BY <3>10, AskLprStep
    <3>11. CASE CommitLpr(a)
      BY <3>11, CommitLprStep
    <3>12. CASE Fail(a)
      BY <3>12, FailStep
    <3> QED
      BY <2>1, <3>1, <3>2, <3>3, <3>4, <3>5, <3>6, <3>7, <3>8, <3>9, <3>10, <3>11, <3>12
         DEF Step
  <2>2. CASE \E file \in SUBSET CsvRow : ImportLpr(file)
    BY <2>2, ImportLprStep
  <2>3. CASE Start
    BY <2>3, StartStep
  <2>4. CASE UNCHANGED vars
    BY <2>4 DEF Inv, Seeds, SeededTemplates, Rows, vars
  <2> QED
    BY <2>1, <2>2, <2>3, <2>4 DEF Next
<1> QED
  BY <1>1, InitInv, PTL DEF Spec

(* Rows stand under their codes and versions, and have valid parameters and  *)
(* no item twice.                                                            *)
THEOREM CatalogueTypes == Spec => []TypeOK
<1>1. Inv => TypeOK
  <2> SUFFICES ASSUME Inv PROVE TypeOK
    OBVIOUS
  <2>1. \A id \in DOMAIN rules :
           /\ id = <<rules[id].code, rules[id].version>>
           /\ rules[id].version \in 1 .. writes /\ rules[id].status \in Status
           /\ ValidCalcParams(rules[id].content.calc, rules[id].content.params)
    BY InvTables DEF RuleTable, RuleRowOK, Sound
  <2>2. \A id \in DOMAIN templates :
           /\ id = <<templates[id].code, templates[id].version>>
           /\ templates[id].version \in 1 .. writes /\ templates[id].status \in Status
           /\ ItemsDiffer(templates[id].items)
    BY InvTables DEF TemplateTable, TemplateRowOK, Fits
  <2>3. \A b \in Rows(imports) : b.status \in {"draft", "published"} /\ b.entries # {}
    <3>1. ASSUME NEW i \in DOMAIN imports
          PROVE  imports[i].status \in {"draft", "published"} /\ imports[i].entries # {}
      <4>1. imports[i] \in Batch /\ imports[i].entries # {}
        BY InvTables DEF ImportTable
      <4> QED
        BY <4>1 DEF Batch
    <3> QED
      BY <3>1 DEF Rows
  <2>4. /\ writes \in 0 .. MaxWrites /\ up \in BOOLEAN
        /\ \A a \in Admin : ses[a].pc \in {"idle", "read", "checked"}
    BY DEF Inv, Fine, Frame
  <2> QED
    BY <2>1, <2>2, <2>3, <2>4 DEF TypeOK
<1> QED
  BY <1>1, CatalogueInvariant, PTL

(* No day has two hard rules for one loan, unless two administrators were at *)
(* work on them at once (admin_rules.py:303).                                *)
THEOREM RulesDoNotContend == Spec => []OneRuleADay
<1>1. Inv => OneRuleADay
  <2> SUFFICES ASSUME Inv, NEW c \in RuleInput, NEW day \in 1 .. LastDay
               PROVE  Cardinality({r \in PrimaryMatches(RulesNow, c.lender, c.context,
                                                        c.product, day) : ~r.raced}) <= 1
    BY DEF OneRuleADay
  <2> DEFINE M == {r \in PrimaryMatches(RulesNow, c.lender, c.context, c.product, day) :
                      ~r.raced}
  <2>1. day \in Int
    BY InputAssumption
  <2>2. ASSUME NEW x \in M
        PROVE  \E i \in DOMAIN rules :
                  LET d == rules[i].content
                  IN  /\ x = Payload(i, rules[i]) /\ Settled(rules[i])
                      /\ d.kind = "hard" /\ d.lender = c.lender /\ d.context = c.context
                      /\ d.product = c.product
                      /\ d.from <= day /\ (d.until = NoDay \/ d.until >= day)
                      /\ d.from \in Nat /\ d.until \in Nat
    <3>1. PICK i \in DOMAIN rules : x = Payload(i, rules[i])
      BY DEF PrimaryMatches, RulesNow
    <3>2. RuleRowOK(i, rules[i], writes)
      BY InvTables DEF RuleTable
    <3>3. rules[i].content.from \in Nat /\ rules[i].content.until \in Nat
      BY <3>2 DEF RuleRowOK, Sound, Columns
    <3>4. /\ x.status = rules[i].status /\ x.raced = rules[i].raced
          /\ x.kind = rules[i].content.kind /\ x.lender = rules[i].content.lender
          /\ x.context = rules[i].content.context /\ x.product = rules[i].content.product
          /\ x.from = rules[i].content.from /\ x.until = rules[i].content.until
      BY <3>1 DEF Payload
    <3> QED
      BY <3>1, <3>3, <3>4 DEF PrimaryMatches, RuleInEffect, Settled
  <2>3. ASSUME NEW x \in M, NEW y \in M PROVE x = y
    <3> DEFINE fits(i) ==
                 LET d == rules[i].content
                 IN  /\ Settled(rules[i])
                     /\ d.kind = "hard" /\ d.lender = c.lender /\ d.context = c.context
                     /\ d.product = c.product
                     /\ d.from <= day /\ (d.until = NoDay \/ d.until >= day)
                     /\ d.from \in Nat /\ d.until \in Nat
    <3>1. PICK i \in DOMAIN rules : x = Payload(i, rules[i]) /\ fits(i)
      BY <2>2
    <3>2. PICK j \in DOMAIN rules : y = Payload(j, rules[j]) /\ fits(j)
      BY <2>2
    <3>3. Ambiguous(rules[i].content, rules[j].content)
      BY <2>1, <3>1, <3>2 DEF Ambiguous, SameScope, IntervalsOverlap
    <3>4. i = j
      BY <3>1, <3>2, <3>3, InvTables DEF RuleTable, Clear
    <3> QED
      BY <3>1, <3>2, <3>4
  <2> HIDE DEF M
  <2>4. Cardinality(M) <= 1
    BY <2>3, AtMostOne
  <2> QED
    BY <2>4 DEF M
<1> QED
  BY <1>1, CatalogueInvariant, PTL

(* A product and borrower type has one template in force, unless two were    *)
(* published at once (admin_templates.py:223).                               *)
THEOREM OneTemplateInForce == Spec => []OneTemplate
<1>1. Inv => OneTemplate
  <2> SUFFICES ASSUME Inv, NEW code \in TemplateCode
               PROVE  Cardinality({i \in PublishedFor(Product[code]) : ~templates[i].raced}) <= 1
    BY DEF OneTemplate
  <2> DEFINE S == {i \in PublishedFor(Product[code]) : ~templates[i].raced}
  <2>1. ASSUME NEW i \in S, NEW j \in S PROVE i = j
    <3>1. /\ i \in DOMAIN templates /\ Settled(templates[i])
          /\ j \in DOMAIN templates /\ Settled(templates[j])
          /\ Product[templates[i].code] = Product[templates[j].code]
      BY DEF PublishedFor, Settled
    <3> QED
      BY <3>1, InvTables DEF TemplateTable, Single
  <2> HIDE DEF S
  <2>2. Cardinality(S) <= 1
    BY <2>1, AtMostOne
  <2> QED
    BY <2>2 DEF S
<1> QED
  BY <1>1, CatalogueInvariant, PTL

(* The hash of a row is that of its content, unless two edits were made at   *)
(* once (admin_rules.py:297, admin_templates.py:217).                        *)
THEOREM HashesHold == Spec => []HashedContent
<1>1. Inv => HashedContent
  BY InvTables DEF HashedContent, Rows, RuleTable, RuleRowOK, TemplateTable, TemplateRowOK
<1> QED
  BY <1>1, CatalogueInvariant, PTL

(* A rate that is selected had been published by the day (redline.py:175).   *)
THEOREM RatesAreKnown == Spec => []NoForesight
<1>1. Inv => NoForesight
  <2> SUFFICES ASSUME Inv, NEW day \in 1 .. LastDay
               PROVE  \A e \in LprCandidates(Entries, day) : e.published <= day
    BY DEF NoForesight
  <2>1. day \in Int
    BY InputAssumption
  <2>2. ASSUME NEW e \in Entries
        PROVE  e.effective \in Int /\ e.published \in Int /\ e.published <= e.effective
    <3>1. PICK i \in DOMAIN imports : e \in imports[i].entries
      BY DEF Entries, Rows
    <3>2. ValidRow(e) /\ e \in CsvRow \cup DemoEntries
      <4>1. imports[i] \in Batch /\ \A row \in imports[i].entries : ValidRow(row)
        BY <3>1, InvTables DEF ImportTable
      <4> QED
        BY <3>1, <4>1 DEF Batch
    <3> QED
      BY <3>2, InputAssumption DEF ValidRow
  <2> QED
    BY <2>1, <2>2, SelectedRatesWerePublished
<1> QED
  BY <1>1, CatalogueInvariant, PTL

(* Only a demo template of which no version is in force any more keeps the   *)
(* server from starting (completeness.py:372).                               *)
THEOREM StartsOtherwise == Spec => []StartsUnlessTemplateRetired
<1>1. Inv => StartsUnlessTemplateRetired
  <2> SUFFICES ASSUME Inv, ~up, writes > 0
               PROVE  \E t \in Rows(templates) :
                         t.code \in SeededTemplates /\ t.status = "retired"
    BY DEF StartsUnlessTemplateRetired
  <2>1. PICK code \in SeededTemplates : TRUE
    BY DEF Inv, Seeds
  <2>2. /\ code \in DOMAIN DemoItems
        /\ ~\E t \in Rows(templates) : t.code = code /\ t.status = "approved"
    BY DEF SeededTemplates
  <2> DEFINE t == templates[<<code, 1>>]
  <2>3. t \in Rows(templates) /\ t.status # "draft" /\ <<code, 1>> \in DOMAIN templates
    BY <2>2 DEF Inv, Seeds, Rows
  <2>4. t.code = code /\ t.status \in Status
    BY <2>3, InvTables DEF TemplateTable, TemplateRowOK
  <2> QED
    BY <2>1, <2>2, <2>3, <2>4 DEF Status
<1> QED
  BY <1>1, CatalogueInvariant, PTL

-----------------------------------------------------------------------------
(* What is in force is final.                                                *)

LEMMA FinalSame ==
  ASSUME NEW F, NEW r, r = [f \in F |-> r[f]]
  PROVE  Final(r, r)
  BY DEF Final

LEMMA StatusBack ==
  ASSUME NEW F, NEW r, r = [f \in F |-> r[f]], NEW status
  PROVE  [[r EXCEPT !.status = status] EXCEPT !.status = r.status] = r
  OBVIOUS

(* A step rewrites one row, or adds some at most.                            *)
LEMMA RewritesOneRow ==
  ASSUME Inv, Next
  PROVE  /\ Extends(rules, rules') \/ \E a \in Admin : CommitRule(a) /\ WriteRule(a)
         /\ \/ Extends(templates, templates')
            \/ \E a \in Admin : CommitTemplate(a) /\ WriteTemplate(a)
<1>1. /\ rules' = rules => Extends(rules, rules')
      /\ templates' = templates => Extends(templates, templates')
  BY DEF Extends
<1>2. ASSUME NEW a \in Admin, CommitRule(a), InsertRule(a)
      PROVE  Extends(rules, rules')
  BY <1>2, WithExtends DEF InsertRule, Taken
<1>3. ASSUME NEW a \in Admin, CommitTemplate(a), InsertTemplate(a)
      PROVE  Extends(templates, templates')
  BY <1>3, WithExtends DEF InsertTemplate, Taken
<1>4. ASSUME Start PROVE Extends(rules, rules') /\ Extends(templates, templates')
  <2>1. CASE Seed
    BY <2>1, SeededExtends DEF Seed
  <2>2. CASE SeedFails
    BY <2>2, <1>1 DEF SeedFails, tables
  <2> QED
    BY <1>4, <2>1, <2>2 DEF Start
<1>5. ASSUME NEW a \in Admin, Step(a)
      PROVE  /\ rules' = rules \/ CommitRule(a)
             /\ templates' = templates \/ CommitTemplate(a)
  BY <1>5
     DEF Step, AskRule, AskCreateRule, AskUpdateRule, AskApproveRule, AskCopyRule,
         AskRetireRule, CheckApproval, CountRules, CommitRule, AskTemplate, AskCreateTemplate,
         AskUpdateTemplate, AskPublishTemplate, AskCopyTemplate, AskRetireTemplate, DeleteItems,
         CheckPublish, CountTemplates, CommitTemplate, AskPublishLpr, CommitLpr, Fail, Begin,
         tables
<1>6. ASSUME NEW file, ImportLpr(file) PROVE rules' = rules /\ templates' = templates
  BY <1>6 DEF ImportLpr
<1>7. ASSUME NEW a \in Admin, Step(a)
      PROVE  /\ Extends(rules, rules') \/ (CommitRule(a) /\ WriteRule(a))
             /\ \/ Extends(templates, templates')
                \/ CommitTemplate(a) /\ WriteTemplate(a)
  <2>1. CommitRule(a) => InsertRule(a) \/ WriteRule(a)
    BY DEF CommitRule
  <2>2. CommitTemplate(a) => InsertTemplate(a) \/ WriteTemplate(a)
    BY DEF CommitTemplate
  <2> QED
    BY <1>1, <1>2, <1>3, <1>5, <1>7, <2>1, <2>2
<1> QED
  BY <1>1, <1>4, <1>6, <1>7 DEF Next

LEMMA WrittenRuleIsFinal ==
  ASSUME Inv, NEW a \in Admin, WriteRule(a), NEW k \in DOMAIN rules
  PROVE  Final(rules[k], rules'[k])
<1> DEFINE s == ses[a]
           old == rules[s.id]
<1>1. /\ s.op \in {"update rule", "approve rule", "retire rule"}
      /\ RuleSession(s, rules, writes) /\ Frame(s)
  BY DEF WriteRule, Inv, Fine
<1>2. /\ \A i \in DOMAIN rules : RuleRowOK(i, rules[i], writes)
      /\ s.id \in DOMAIN rules
  BY <1>1, InvTables DEF RuleTable, RuleSession, RuleOp
<1>3. CASE k # s.id
  <2>1. rules'[k] = rules[k]
    BY <1>2, <1>3 DEF WriteRule
  <2> QED
    BY <1>2, <2>1, FinalSame DEF RuleRowOK
<1>4. CASE k = s.id
  <2>1. /\ DOMAIN old = RuleFields /\ old = [f \in RuleFields |-> old[f]]
        /\ old.raced \in BOOLEAN /\ s.raced \in BOOLEAN
    BY <1>1, <1>2 DEF RuleRowOK, Frame
  <2>2. CASE s.op \in {"update rule", "approve rule"}
    <3>1. rules'[k].raced = (old.raced \/ s.raced)
      <4>1. CASE s.op = "update rule"
        <5>1. rules'[k] = UpdatedRule(old, s)
          BY <1>2, <1>4, <4>1 DEF WriteRule
        <5> QED
          BY <2>1, <5>1 DEF UpdatedRule, RuleFields
      <4>2. CASE s.op = "approve rule"
        <5>1. rules'[k] = [old EXCEPT !.status = "approved", !.raced = @ \/ s.raced]
          BY <1>2, <1>4, <4>2 DEF WriteRule
        <5> QED
          BY <2>1, <5>1 DEF RuleFields
      <4> QED
        BY <2>2, <4>1, <4>2
    <3>2. ~s.raced => old.status = "draft"
      BY <1>1, <2>2 DEF RuleSession, UnmovedRule
    <3> QED
      BY <1>4, <3>1, <3>2 DEF Final
  <2>3. CASE s.op = "retire rule"
    <3>1. rules'[k] = [old EXCEPT !.status = "retired"]
      BY <1>2, <1>4, <2>3 DEF WriteRule
    <3>2. rules'[k].status = "retired" /\ [rules'[k] EXCEPT !.status = old.status] = old
      BY <2>1, <3>1, StatusBack DEF RuleFields
    <3> QED
      BY <1>4, <3>2 DEF Final
  <2> QED
    BY <1>1, <2>2, <2>3
<1> QED
  BY <1>3, <1>4

LEMMA WrittenTemplateIsFinal ==
  ASSUME Inv, NEW a \in Admin, WriteTemplate(a), NEW k \in DOMAIN templates
  PROVE  Final(templates[k], templates'[k])
<1> DEFINE s == ses[a]
           old == templates[s.id]
<1>1. /\ s.op \in {"update template", "publish template", "retire template"}
      /\ TemplateSession(s, templates, writes) /\ Frame(s)
  BY DEF WriteTemplate, Inv, Fine
<1>2. /\ \A i \in DOMAIN templates : TemplateRowOK(i, templates[i], writes)
      /\ s.id \in DOMAIN templates
  BY <1>1, InvTables DEF TemplateTable, TemplateSession, TemplateOp
<1>3. CASE k # s.id
  <2>1. templates'[k] = templates[k]
    BY <1>2, <1>3 DEF WriteTemplate
  <2> QED
    BY <1>2, <2>1, FinalSame DEF TemplateRowOK
<1>4. CASE k = s.id
  <2>1. /\ DOMAIN old = TemplateFields /\ old = [f \in TemplateFields |-> old[f]]
        /\ old.raced \in BOOLEAN /\ s.raced \in BOOLEAN
    BY <1>1, <1>2 DEF TemplateRowOK, Frame
  <2>2. CASE s.op \in {"update template", "publish template"}
    <3>1. templates'[k].raced = (old.raced \/ s.raced)
      <4>1. CASE s.op = "update template"
        <5>1. templates'[k] = UpdatedTemplate(old, s)
          BY <1>2, <1>4, <4>1 DEF WriteTemplate
        <5> QED
          BY <2>1, <5>1 DEF UpdatedTemplate, TemplateFields
      <4>2. CASE s.op = "publish template"
        <5>1. templates'[k] = [old EXCEPT !.status = "approved", !.raced = @ \/ s.raced]
          BY <1>2, <1>4, <4>2 DEF WriteTemplate
        <5> QED
          BY <2>1, <5>1 DEF TemplateFields
      <4> QED
        BY <2>2, <4>1, <4>2
    <3>2. ~s.raced => old.status = "draft"
      BY <1>1, <2>2 DEF TemplateSession, UnmovedTemplate
    <3> QED
      BY <1>4, <3>1, <3>2 DEF Final
  <2>3. CASE s.op = "retire template"
    <3>1. templates'[k] = [old EXCEPT !.status = "retired"]
      BY <1>2, <1>4, <2>3 DEF WriteTemplate
    <3>2. templates'[k].status = "retired" /\ [templates'[k] EXCEPT !.status = old.status] = old
      BY <2>1, <3>1, StatusBack DEF TemplateFields
    <3> QED
      BY <1>4, <3>2 DEF Final
  <2> QED
    BY <1>1, <2>2, <2>3
<1> QED
  BY <1>3, <1>4

(* What has been put in force never changes nor comes back, unless an edit   *)
(* or a second approval was under way when it was (admin_rules.py:282,       *)
(* admin_templates.py:191).                                                  *)
THEOREM InForceIsFinal == Spec => FinalContent
<1> DEFINE FinalStep == /\ \A i \in DOMAIN rules : Final(rules[i], rules'[i])
                    /\ \A i \in DOMAIN templates : Final(templates[i], templates'[i])
<1>1. ASSUME Inv, Next PROVE FinalStep
  <2>1. ASSUME NEW k \in DOMAIN rules PROVE Final(rules[k], rules'[k])
    <3>1. CASE Extends(rules, rules')
      <4>1. rules'[k] = rules[k] /\ RuleRowOK(k, rules[k], writes)
        BY <1>1, <3>1, InvTables DEF Extends, RuleTable
      <4> QED
        BY <4>1, FinalSame DEF RuleRowOK
    <3>2. CASE \E a \in Admin : CommitRule(a) /\ WriteRule(a)
      BY <1>1, <3>2, WrittenRuleIsFinal
    <3> QED
      BY <1>1, <3>1, <3>2, RewritesOneRow
  <2>2. ASSUME NEW k \in DOMAIN templates PROVE Final(templates[k], templates'[k])
    <3>1. CASE Extends(templates, templates')
      <4>1. templates'[k] = templates[k] /\ TemplateRowOK(k, templates[k], writes)
        BY <1>1, <3>1, InvTables DEF Extends, TemplateTable
      <4> QED
        BY <4>1, FinalSame DEF TemplateRowOK
    <3>2. CASE \E a \in Admin : CommitTemplate(a) /\ WriteTemplate(a)
      BY <1>1, <3>2, WrittenTemplateIsFinal
    <3> QED
      BY <1>1, <3>1, <3>2, RewritesOneRow
  <2> QED
    BY <2>1, <2>2
<1>2. Inv /\ [Next]_vars => [FinalStep]_tables
  <2>1. UNCHANGED vars => UNCHANGED tables
    BY DEF vars, tables
  <2> HIDE DEF FinalStep
  <2> QED
    BY <1>1, <2>1
<1> QED
  BY <1>2, CatalogueInvariant, PTL DEF Spec, FinalContent

-----------------------------------------------------------------------------
(* What is in force obeys the laws.                                          *)

LEMMA InForceIsCovered ==
  ASSUME Inv
  PROVE  /\ \A i \in InForce(rules) : Covered(rules[i].content)
         /\ \A i \in InForce(templates) : templates[i].items \in Checklist
<1>1. ASSUME NEW i \in InForce(rules) PROVE Covered(rules[i].content)
  BY InvTables DEF InForce, RuleTable, RuleRowOK, Sound
<1>2. ASSUME NEW i \in InForce(templates) PROVE templates[i].items \in Checklist
  <2>1. Fits(templates[i].items)
    BY InvTables DEF InForce, TemplateTable, TemplateRowOK
  <2> QED
    BY <2>1, LawsCover DEF Fits
<1> QED
  BY <1>1, <1>2

LEMMA Obedience ==
  ASSUME Inv, NEW law, Calculation \subseteq law
  PROVE  Obey(law)
  BY InForceIsCovered DEF Obey, Covered

(* The verdict of a rule in force on the cost of a loan is that of the       *)
(* present value at the threshold, to the width of the last interval of the  *)
(* bisection (redline.py:334).                                               *)
THEOREM CostsAreBracketed == Spec => []CostBracketed
<1>1. Inv => CostBracketed
  BY Obedience, CostIsAlwaysBracketed DEF CostBracketed
<1> QED
  BY <1>1, CatalogueInvariant, PTL

(* Without fees the cost that a rule in force judges is the rate of the      *)
(* loan, by either schedule (redline.py:353).                                *)
THEOREM CostsAreRates == Spec => []CostIsRate
<1>1. Inv => CostIsRate
  BY Obedience, CostIsAlwaysTheRate DEF CostIsRate
<1> QED
  BY <1>1, CatalogueInvariant, PTL

(* No rule in force is milder to a loan with a higher fee or a higher rate   *)
(* (redline.py:500).                                                         *)
THEOREM DearerStaysDearer == Spec => []DearerIsNeverMilder
<1>1. Inv => DearerIsNeverMilder
  BY Obedience, DearerIsNeverJudgedMilder DEF DearerIsNeverMilder
<1> QED
  BY <1>1, CatalogueInvariant, PTL

(* The overdue scenario of a rule in force warns at most (redline.py:600).   *)
THEOREM OverdueStaysAWarning == Spec => []OverdueOnlyWarns
<1>1. Inv => OverdueOnlyWarns
  BY Obedience, OverdueOnlyEverWarns DEF OverdueOnlyWarns
<1> QED
  BY <1>1, CatalogueInvariant, PTL

(* A rule in force that is a reference decides nothing and warns at most     *)
(* (redline.py:724).                                                         *)
THEOREM ReferencesStayWarnings == Spec => []ReferencesOnlyWarn
<1>1. Inv => ReferencesOnlyWarn
  BY Obedience, ReferencesOnlyEverWarn DEF ReferencesOnlyWarn
<1> QED
  BY <1>1, CatalogueInvariant, PTL

(* The page asks for every field that a rule in force may miss               *)
(* (redline.py:700).                                                         *)
THEOREM AskedStaysEnough == Spec => []AskedIsEnough
<1>1. Inv => AskedIsEnough
  BY Obedience, AskedIsAlwaysEnough DEF AskedIsEnough
<1> QED
  BY <1>1, CatalogueInvariant, PTL

(* Classifications prove and waive no item of a template in force            *)
(* (completeness.py:69).                                                     *)
THEOREM ClassificationsStayHints == Spec => []ClassificationsProveNothing
<1>1. Inv => ClassificationsProveNothing
  BY InForceIsCovered, ClassificationsNeverProve DEF ClassificationsProveNothing
<1> QED
  BY <1>1, CatalogueInvariant, PTL

(* Several documents prove an item of a template in force if each of them    *)
(* would do alone (completeness.py:85).                                      *)
THEOREM DocumentsProveTogether == Spec => []EveryDocumentProves
<1>1. Inv => EveryDocumentProves
  BY InForceIsCovered, EveryDocumentAlwaysProves DEF EveryDocumentProves
<1> QED
  BY <1>1, CatalogueInvariant, PTL
=============================================================================
