-------------------------- MODULE EvaluationProofs --------------------------
(***************************************************************************)
(* Proofs about the operators of Redline and Completeness: what selecting  *)
(* a rule, judging a loan and judging an item guarantee for every loan,    *)
(* every checklist and every set of packages.                              *)
(***************************************************************************)
EXTENDS Redline, Completeness, FiniteSetTheorems, WellFoundedInduction, TLAPS

(* Inputs of a completeness run that differ in classifications at most.      *)
SameButHints(i, j) ==
    /\ i.waived = j.waived /\ i.context = j.context /\ i.mapped = j.mapped
    /\ i.seal = j.seal /\ i.signature = j.signature

-----------------------------------------------------------------------------
(* Extreme numbers.                                                          *)

LEMMA LessIsWellFounded == IsWellFoundedOn({p \in Nat \X Nat : p[1] < p[2]}, Nat)
<1>1. OpToRel(<, Nat) = {p \in Nat \X Nat : p[1] < p[2]}
  BY DEF OpToRel
<1> QED
  BY <1>1, NatLessThanWellFounded

LEMMA LeastNumber ==
  ASSUME NEW S, S \subseteq Nat, S # {}
  PROVE  \E x \in S : \A y \in S : x <= y
<1> DEFINE less == {p \in Nat \X Nat : p[1] < p[2]}
<1>1. PICK x \in S : \A y \in S : ~(<<y, x>> \in less)
  BY LessIsWellFounded, WFMin
<1>2. ASSUME NEW y \in S PROVE x <= y
  <2>1. x \in Nat /\ y \in Nat
    OBVIOUS
  <2>2. ~(y < x)
    BY <1>1, <2>1
  <2> QED
    BY <2>1, <2>2
<1> QED
  BY <1>2

LEMMA LargestNumber ==
  ASSUME NEW n \in Nat, NEW S, S \subseteq 0 .. n, S # {}
  PROVE  \E x \in S : \A y \in S : x >= y
<1> DEFINE T == {n - x : x \in S}
<1>1. T \subseteq Nat /\ T # {}
  <2>1. \A x \in S : n - x \in Nat
    <3>1. ASSUME NEW x \in S PROVE n - x \in Nat
      <4>1. x \in 0 .. n
        OBVIOUS
      <4> QED
        BY <4>1
    <3> QED
      BY <3>1
  <2> QED
    BY <2>1
<1>2. PICK x \in S : \A t \in T : n - x <= t
  <2>1. \E t \in T : \A u \in T : t <= u
    <3> HIDE DEF T
    <3> QED
      BY <1>1, LeastNumber
  <2> QED
    BY <2>1
<1>3. ASSUME NEW y \in S PROVE x >= y
  <2>1. n - x <= n - y
    BY <1>2
  <2>2. x \in Int /\ y \in Int
    OBVIOUS
  <2> QED
    BY <2>1, <2>2
<1> QED
  BY <1>3

-----------------------------------------------------------------------------
(* Checklists.                                                               *)

LEMMA VerdictIsOneOf ==
  ASSUME NEW item, NEW i
  PROVE  EvaluateItem(item, i) \in {"manually_waived", "not_applicable", "satisfied",
                                    "pending_confirmation", "missing"}
  BY DEF EvaluateItem

LEMMA ItemVerdictsAgree ==
  ASSUME NEW item, NEW i, NEW j, SameButHints(i, j)
  PROVE  \/ EvaluateItem(item, i) = EvaluateItem(item, j)
         \/ /\ EvaluateItem(item, i) \in {"missing", "pending_confirmation"}
            /\ EvaluateItem(item, j) \in {"missing", "pending_confirmation"}
  BY DEF EvaluateItem, SameButHints, Evidence, Proven

(* Classifications, candidate or confirmed, change no verdict but between    *)
(* missing and pending_confirmation (completeness.py:69).                    *)
THEOREM HintsProveNothingEver ==
  ASSUME NEW items, NEW i, NEW j, SameButHints(i, j)
  PROVE  Established(EvaluateItems(items, i)) = Established(EvaluateItems(items, j))
<1> DEFINE codes == {item.code : item \in items}
           of(code) == CHOOSE item \in items : item.code = code
           open(v) == IF v \in {"missing", "pending_confirmation"} THEN "open" ELSE v
           verdict(code, k) == EvaluateItem(of(code), k)
<1>1. ASSUME NEW k
      PROVE  Established(EvaluateItems(items, k)) = [code \in codes |-> open(verdict(code, k))]
  BY DEF Established, EvaluateItems
<1>2. ASSUME NEW code PROVE open(verdict(code, i)) = open(verdict(code, j))
  BY ItemVerdictsAgree
<1> HIDE DEF verdict, open, codes
<1>3. [code \in codes |-> open(verdict(code, i))] = [code \in codes |-> open(verdict(code, j))]
  BY <1>2
<1> QED
  BY <1>1, <1>3

(* An item with several documents is satisfied if and only if it would be    *)
(* with each of them alone (completeness.py:85).                             *)
THEOREM EachDocumentMustProve ==
  ASSUME NEW item, NEW i, i = [f \in DOMAIN i |-> i[f]],
         "mapped" \in DOMAIN i, Evidence(item, i) # {}
  PROVE  EvaluateItem(item, i) = "satisfied" <=>
         \A d \in Evidence(item, i) :
            EvaluateItem(item, [i EXCEPT !.mapped = {<<d, item.code>>}]) = "satisfied"
<1> DEFINE alone(d) == [i EXCEPT !.mapped = {<<d, item.code>>}]
<1>1. ASSUME NEW d
      PROVE  /\ alone(d).waived = i.waived /\ alone(d).context = i.context
             /\ alone(d).seal = i.seal /\ alone(d).signature = i.signature
             /\ alone(d).mapped = {<<d, item.code>>}
  OBVIOUS
<1> HIDE DEF alone
<1>2. ASSUME NEW d PROVE Evidence(item, alone(d)) = {d}
  <2>1. {n \in alone(d).mapped : n[2] = item.code} = {<<d, item.code>>}
    BY <1>1
  <2>2. Evidence(item, alone(d)) = {m[1] : m \in {<<d, item.code>>}}
    BY <2>1 DEF Evidence
  <2> QED
    BY <2>2
<1>3. ASSUME NEW d
      PROVE  Proven(item, alone(d)) <=> (item.seal => d \in i.seal) /\ (item.signature => d \in i.signature)
  BY <1>1, <1>2 DEF Proven
<1>4. ASSUME NEW d
      PROVE  EvaluateItem(item, alone(d)) = "satisfied" <=>
             /\ item.code \notin i.waived /\ ItemConditionMet(item, i.context)
             /\ (item.seal => d \in i.seal) /\ (item.signature => d \in i.signature)
  BY <1>1, <1>2, <1>3 DEF EvaluateItem
<1>5. EvaluateItem(item, i) = "satisfied" <=>
      /\ item.code \notin i.waived /\ ItemConditionMet(item, i.context)
      /\ Proven(item, i)
  BY DEF EvaluateItem
<1> QED
  BY <1>4, <1>5 DEF Proven, alone

-----------------------------------------------------------------------------
(* Selection.                                                                *)

(* The days of a rule: from its first to its last, if it has one.            *)
Covers(rule, day) == rule.from <= day /\ (rule.until = NoDay \/ day <= rule.until)

Dated(rule) ==
    rule.from \in Nat \ {0} /\ rule.until \in Nat
    /\ (rule.until = NoDay \/ rule.from <= rule.until)

(* Two packages overlap exactly if they share a day (admin_rules.py:255).    *)
THEOREM OverlapIsACommonDay ==
  ASSUME NEW a, NEW b, Dated(a), Dated(b)
  PROVE  IntervalsOverlap(a, b) <=> \E day \in Nat \ {0} : Covers(a, day) /\ Covers(b, day)
<1>1. ASSUME IntervalsOverlap(a, b), a.from <= b.from
      PROVE  Covers(a, b.from) /\ Covers(b, b.from)
  BY <1>1 DEF IntervalsOverlap, Covers, Dated, NoDay
<1>2. ASSUME IntervalsOverlap(a, b), b.from <= a.from
      PROVE  Covers(a, a.from) /\ Covers(b, a.from)
  BY <1>2 DEF IntervalsOverlap, Covers, Dated, NoDay
<1>3. a.from <= b.from \/ b.from <= a.from
  BY DEF Dated
<1>4. ASSUME NEW day \in Nat \ {0}, Covers(a, day), Covers(b, day)
      PROVE  IntervalsOverlap(a, b)
  BY <1>4 DEF IntervalsOverlap, Covers, Dated, NoDay
<1> QED
  BY <1>1, <1>2, <1>3, <1>4 DEF Dated

LEMMA AtMostOne ==
  ASSUME NEW S, \A x, y \in S : x = y
  PROVE  IsFiniteSet(S) /\ Cardinality(S) <= 1
<1>1. CASE S = {}
  BY <1>1, FS_EmptySet
<1>2. CASE S # {}
  <2>1. PICK x \in S : TRUE
    BY <1>2
  <2>2. S = {x}
    BY <2>1
  <2>3. IsFiniteSet(S) /\ Cardinality(S) = 1
    BY <2>2, FS_Singleton, Zenon
  <2> QED
    BY <2>3
<1> QED
  BY <1>1, <1>2

(* If no two packages in force are what approve_rule_package calls           *)
(* ambiguous, no day, lender, context and product finds two of them          *)
(* (redline.py:209).                                                         *)
THEOREM UnambiguousSelection ==
  ASSUME NEW packages, NEW lender, NEW context, NEW product, NEW day \in Nat \ {0},
         \A r \in packages : r.status = "approved" => Dated(r),
         \A r, q \in packages :
            r # q /\ r.status = "approved" /\ q.status = "approved" => ~Ambiguous(r, q)
  PROVE  Cardinality(PrimaryMatches(packages, lender, context, product, day)) <= 1
<1> DEFINE matches == PrimaryMatches(packages, lender, context, product, day)
<1>1. ASSUME NEW r \in matches, NEW q \in matches PROVE r = q
  <2>1. /\ r \in packages /\ q \in packages
        /\ r.status = "approved" /\ q.status = "approved"
        /\ r.kind = "hard" /\ q.kind = "hard" /\ SameScope(r, q)
        /\ RuleInEffect(r, day) /\ RuleInEffect(q, day)
    BY <1>1 DEF PrimaryMatches, RuleInEffect, SameScope
  <2>2. Dated(r) /\ Dated(q)
    BY <2>1
  <2>3. Covers(r, day) /\ Covers(q, day)
    BY <2>1, <2>2 DEF RuleInEffect, Covers, Dated, NoDay
  <2>4. IntervalsOverlap(r, q)
    BY <2>2, <2>3, OverlapIsACommonDay
  <2> QED
    BY <2>1, <2>4 DEF Ambiguous
<1> HIDE DEF matches
<1>2. Cardinality(matches) <= 1
  BY <1>1, AtMostOne
<1> QED
  BY <1>2 DEF matches

(* Then a reason for the absence of a rule is never that there are several.  *)
THEOREM SelectionDecides ==
  ASSUME NEW packages, NEW lender, NEW context, NEW product, NEW day,
         LET matches == PrimaryMatches(packages, lender, context, product, day)
         IN  IsFiniteSet(matches) /\ Cardinality(matches) <= 1
  PROVE  SelectionReason(context, PrimaryMatches(packages, lender, context, product, day))
            # "multiple_match"
<1> DEFINE matches == PrimaryMatches(packages, lender, context, product, day)
<1>1. context = NoContext => matches = {}
  BY DEF PrimaryMatches
<1> HIDE DEF matches
<1>2. IsFiniteSet(matches) /\ Cardinality(matches) <= 1
  BY DEF matches
<1>3. matches = {} \/ Cardinality(matches) = 1
  BY <1>2, FS_EmptySet, FS_CardinalityType
<1>4. SelectionReason(context, matches) # "multiple_match"
  BY <1>1, <1>3 DEF SelectionReason
<1> QED
  BY <1>4 DEF matches

(* A rate that counts had been published, if every row was published by the  *)
(* day it takes effect (redline.py:175).                                     *)
THEOREM SelectedRatesWerePublished ==
  ASSUME NEW entries, NEW day \in Int,
         \A e \in entries : e.effective \in Int /\ e.published \in Int /\ e.published <= e.effective
  PROVE  \A e \in LprCandidates(entries, day) : e.published <= day
  BY DEF LprCandidates

-----------------------------------------------------------------------------
(* Verdicts on loans.                                                        *)


Configured(k) ==
    /\ k.calc \in CalcType
    /\ k.calc = "effective_cost_limit" => k.params.threshold \in Nat /\ k.params.overdue \in Nat

LEMMA UnusableIsAsked ==
  ASSUME NEW loan
  PROVE  Unusable(loan) \subseteq {"loan_term", "loan_amount", "loan_fees", "repayment_method"}
  BY DEF Unusable

LEMMA JudgedMissesNothing == \A exceeds : Judged(exceeds).missing = {}
  BY DEF Judged, Verdict

(* What an evaluation misses, the page has asked for; and once all of that   *)
(* is confirmed, only an LPR rate or a usable value can be missing           *)
(* (redline.py:700).                                                         *)
THEOREM AskedFieldsSuffice ==
  ASSUME NEW k, Configured(k), NEW loan, NEW lpr
  PROVE  LET missing == EvaluateRule(k, loan, lpr).missing \ {"lpr"}
             critical == CriticalFields(k.calc, k.params)
         IN  /\ missing \subseteq critical
             /\ critical \subseteq DOMAIN loan =>
                   missing = {} \/ (k.calc = "effective_cost_limit" /\ missing = Unusable(loan))
<1> DEFINE missing == EvaluateRule(k, loan, lpr).missing \ {"lpr"}
           critical == CriticalFields(k.calc, k.params)
           Asked == /\ missing \subseteq critical
                    /\ critical \subseteq DOMAIN loan =>
                          missing = {} \/ (k.calc = "effective_cost_limit" /\ missing = Unusable(loan))
<1>1. ASSUME k.calc = "annual_rate_limit" PROVE Asked
  <2>1. EvaluateRule(k, loan, lpr) = AnnualRateLimit(loan, k.params)
    BY <1>1 DEF EvaluateRule
  <2>2. critical = {"interest_rate"}
    BY <1>1 DEF CriticalFields
  <2>3. AnnualRateLimit(loan, k.params).missing = {"interest_rate"} \ DOMAIN loan
    BY JudgedMissesNothing DEF AnnualRateLimit, Insufficient
  <2> QED
    BY <2>1, <2>2, <2>3
<1>2. ASSUME k.calc = "lpr_multiple_limit" PROVE Asked
  <2>1. EvaluateRule(k, loan, lpr) = LprMultipleLimit(loan, lpr, k.params)
    BY <1>2 DEF EvaluateRule
  <2>2. critical = {"interest_rate"}
    BY <1>2 DEF CriticalFields
  <2>3. LprMultipleLimit(loan, lpr, k.params).missing \ {"lpr"} = {"interest_rate"} \ DOMAIN loan
    BY JudgedMissesNothing DEF LprMultipleLimit, Insufficient
  <2> QED
    BY <2>1, <2>2, <2>3
<1>3. ASSUME k.calc = "effective_cost_limit" PROVE Asked
  <2>1. EvaluateRule(k, loan, lpr) = EffectiveCostLimit(loan, k.params)
    BY <1>3 DEF EvaluateRule
  <2>2. critical = RequiredFields(k.params)
    BY <1>3 DEF CriticalFields, RequiredFields, Configured
  <2>3. Unusable(loan) \subseteq critical /\ "lpr" \notin critical
    BY <2>2, UnusableIsAsked DEF RequiredFields, Field
  <2>4. \/ EffectiveCostLimit(loan, k.params).missing = critical \ DOMAIN loan
        \/ /\ critical \subseteq DOMAIN loan
           /\ EffectiveCostLimit(loan, k.params).missing = Unusable(loan)
    BY <2>2 DEF EffectiveCostLimit, Insufficient, Verdict
  <2> HIDE DEF critical
  <2> QED
    BY <1>3, <2>1, <2>3, <2>4
<1> QED
  BY <1>1, <1>2, <1>3 DEF Configured, CalcType

(* With the value of every field confirmed, and usable, the cost of a loan   *)
(* is judged, and an overdue scenario changes a verdict only from            *)
(* not_triggered to risk_warning (redline.py:600).                           *)
THEOREM OverdueChangesOnlyToWarning ==
  ASSUME NEW loan, Field \subseteq DOMAIN loan, Unusable(loan) = {},
         NEW threshold \in Nat, NEW months \in Nat
  PROVE  LET params(n) == [threshold |-> threshold, overdue |-> n]
             kept == EffectiveCostLimit(loan, params(0)).state
             late == EffectiveCostLimit(loan, params(months)).state
         IN  late = kept \/ (kept = "not_triggered" /\ late = "risk_warning")
<1> DEFINE params(n) == [threshold |-> threshold, overdue |-> n]
           flows == CashFlows(loan, Schedule(loan.repayment_method, loan.loan_amount,
                                             loan.interest_rate, loan.loan_term))
           twice == TwiceIrr(flows)
           state(n) == StateOf(TwiceCosts(loan, params(n)), threshold)
<1>1. ASSUME NEW n \in Nat PROVE EffectiveCostLimit(loan, params(n)).state = state(n)
  <2>1. RequiredFields(params(n)) \ DOMAIN loan = {}
    BY DEF RequiredFields
  <2> QED
    BY <2>1 DEF EffectiveCostLimit, Verdict
<1>2. ASSUME NEW n PROVE TwiceCosts(loan, params(n))[1] = twice
  BY DEF TwiceCosts
<1>3. TwiceCosts(loan, params(0))[2] = 0
  BY DEF TwiceCosts
<1> HIDE DEF twice
<1>4. state(0) = IF twice > 2 * threshold THEN "triggered" ELSE "not_triggered"
  BY <1>2, <1>3 DEF StateOf
<1>5. IF twice > 2 * threshold THEN state(months) = "triggered"
      ELSE state(months) \in {"risk_warning", "not_triggered"}
  <2> DEFINE costs == TwiceCosts(loan, params(months))
  <2>1. costs[1] = twice
    BY <1>2
  <2> HIDE DEF costs
  <2>2. IF twice > 2 * threshold THEN StateOf(costs, threshold) = "triggered"
        ELSE StateOf(costs, threshold) \in {"risk_warning", "not_triggered"}
    BY <2>1 DEF StateOf
  <2> QED
    BY <2>2 DEF costs
<1> HIDE DEF state
<1>6. state(months) = state(0) \/ (state(0) = "not_triggered" /\ state(months) = "risk_warning")
  BY <1>4, <1>5
<1> QED
  BY <1>1, <1>6

(* What evaluate_redline may come to.                                        *)
Judgements(packages, entries, lender, context, product, day, signing, loan) ==
    {<<o.reason, o.state>> :
        o \in EvaluateRedline(packages, entries, lender, context, product, day, signing, loan)}

(* Reference lines decide nothing: whatever is added to the packages, the    *)
(* reason and the states that evaluate_redline may come to stay the same     *)
(* (redline.py:724).                                                         *)
THEOREM ReferencesDecideNothing ==
  ASSUME NEW packages, NEW lines, \A r \in lines : r.kind = "reference",
         NEW entries, NEW lender, NEW context, NEW product, NEW day, NEW signing, NEW loan
  PROVE  Judgements(packages \cup lines, entries, lender, context, product, day, signing, loan)
            = Judgements(packages, entries, lender, context, product, day, signing, loan)
<1> DEFINE matches(ps) == PrimaryMatches(ps, lender, context, product, day)
           rates == LprRates(entries, LprDay(signing, day))
           judge(ps) == {<<o.reason, o.state>> :
                   o \in EvaluateRedline(ps, entries, lender, context, product, day, signing, loan)}
<1>1. matches(packages \cup lines) = matches(packages)
  BY DEF PrimaryMatches
<1> DEFINE found == matches(packages)
           why == SelectionReason(context, found)
           verdict(lpr) == IF why = "unique"
                           THEN EvaluateRule(CHOOSE r \in found : TRUE, loan, lpr).state
                           ELSE "indeterminate"
<1>2. ASSUME NEW ps, matches(ps) = found
      PROVE  judge(ps) = {<<why, verdict(lpr)>> : lpr \in rates}
  <2> DEFINE outcome(lpr) ==
               [reason |-> why, matches |-> found, state |-> verdict(lpr),
                references |-> {<<r, Soften(EvaluateRule(r, loan, lpr))>> :
                                  r \in ApplicableReferences(ps, context, product, day)},
                lpr |-> lpr]
  <2>1. EvaluateRedline(ps, entries, lender, context, product, day, signing, loan)
          = {outcome(lpr) : lpr \in rates}
    BY <1>2 DEF EvaluateRedline
  <2>2. \A lpr : outcome(lpr).reason = why /\ outcome(lpr).state = verdict(lpr)
    OBVIOUS
  <2> HIDE DEF outcome, why, verdict, rates
  <2>3. {<<o.reason, o.state>> : o \in {outcome(lpr) : lpr \in rates}}
          = {<<why, verdict(lpr)>> : lpr \in rates}
    BY <2>2
  <2> QED
    BY <2>1, <2>3
<1>3. judge(packages \cup lines) = judge(packages)
  BY <1>1, <1>2
<1> QED
  BY <1>3 DEF Judgements

(* A reference that would be triggered is a warning (redline.py:724).        *)
THEOREM ReferencesWarnAtMost ==
  ASSUME NEW packages, NEW entries, NEW lender, NEW context, NEW product, NEW day, NEW signing,
         NEW loan, NEW o \in EvaluateRedline(packages, entries, lender, context, product, day,
                                             signing, loan),
         NEW line \in o.references
  PROVE  line[2].state # "triggered"
<1>1. ASSUME NEW outcome PROVE Soften(outcome).state # "triggered"
  BY DEF Soften
<1>2. \E r, outcome : line = <<r, Soften(outcome)>>
  BY DEF EvaluateRedline
<1> QED
  BY <1>1, <1>2
=============================================================================
