------------------------ MODULE EvaluationLawsProofs ------------------------
(***************************************************************************)
(* Every calculation and every checklist obeys the laws of EvaluationLaws, *)
(* whatever their bounds: each law is the whole set that it is a part of.  *)
(***************************************************************************)
EXTENDS EvaluationLaws, EvaluationProofs, CostProofs

(* A loan within the bounds that the evaluators accept.                      *)
LEMMA UsableLoan ==
  ASSUME NEW loan \in UsableLoans
  PROVE  Priced(loan) /\ Field \subseteq DOMAIN loan /\ Unusable(loan) = {}
<1>1. loan \in Loans /\ Unusable(loan) = {}
  BY DEF UsableLoans
<1>2. /\ loan.loan_amount \in Nat /\ loan.loan_term \in Nat /\ loan.loan_fees \in Nat
      /\ loan.interest_rate \in Nat /\ loan.overdue_interest_rate \in Nat
  BY <1>1, LawAssumption DEF Loans
<1>3. Field \subseteq DOMAIN loan
  BY <1>1 DEF Loans, Field
<1>4. loan.loan_term > 0
  BY <1>1, <1>2 DEF Unusable
<1>5. loan.loan_amount > 0
  BY <1>1, <1>2, <1>4 DEF Unusable
<1>6. loan.loan_fees < loan.loan_amount
  BY <1>1, <1>2, <1>4, <1>5 DEF Unusable
<1>7. loan.loan_fees \in 0 .. loan.loan_amount - 1
  BY <1>2, <1>6
<1>8. loan.repayment_method \in Supported
  BY <1>1, <1>2, <1>4, <1>5, <1>7 DEF Unusable
<1> QED
  BY <1>1, <1>2, <1>3, <1>4, <1>5, <1>7, <1>8 DEF Priced

(* A rule on the cost of a loan that may be in force.                        *)
LEMMA CostRule ==
  ASSUME NEW k \in CostCalculation
  PROVE  /\ k = [calc |-> "effective_cost_limit", params |-> k.params]
         /\ DOMAIN k.params = {"threshold", "overdue"}
         /\ k.params.threshold \in Nat \ {0} /\ k.params.overdue \in Nat
<1>1. k \in Calculation /\ k.calc = "effective_cost_limit"
  BY DEF CostCalculation
<1>2. ValidCalcParams(k.calc, k.params) /\ \A key \in DOMAIN k.params : k.params[key] \in Nat
  BY <1>1, LawAssumption
<1>3. k = [calc |-> "effective_cost_limit", params |-> k.params]
  BY <1>1, LawAssumption
<1>4. DOMAIN k.params = {"threshold", "overdue"}
  BY <1>1, <1>2 DEF ValidCalcParams, ParamNames
<1>5. k.params["threshold"] \in Nat /\ k.params["overdue"] \in Nat /\ k.params["threshold"] > 0
  BY <1>2, <1>4 DEF ValidCalcParams
<1> QED
  BY <1>3, <1>4, <1>5

(* What such a rule says of a usable loan.                                   *)
LEMMA CostState ==
  ASSUME NEW loan \in UsableLoans, NEW k, k.calc = "effective_cost_limit",
         k.params.overdue \in Nat, NEW lpr
  PROVE  StateFor(k, loan, lpr) = StateOf(TwiceCosts(loan, k.params), k.params.threshold)
<1>1. RequiredFields(k.params) \ DOMAIN loan = {}
  BY UsableLoan DEF RequiredFields
<1>2. EffectiveCostLimit(loan, k.params).state
        = StateOf(TwiceCosts(loan, k.params), k.params.threshold)
  BY <1>1, UsableLoan DEF EffectiveCostLimit, Verdict
<1> QED
  BY <1>2 DEF StateFor, EvaluateRule

LEMMA CostOfUsable ==
  ASSUME NEW loan \in UsableLoans, NEW params, params.overdue \in Nat
  PROVE  /\ TwiceCosts(loan, params)[1] = TwiceIrr(FlowsOf(loan))
         /\ TwiceCosts(loan, params) \in Nat \X Nat
<1>1. Dearer(loan, loan)
  BY UsableLoan DEF Dearer, Priced
<1>2. TwiceCosts(loan, params) \in Nat \X Nat
  BY <1>1, UsableLoan, DearerCostsMore
<1>3. TwiceCosts(loan, params)[1] = TwiceIrr(FlowsOf(loan))
  BY DEF TwiceCosts, FlowsOf
<1> QED
  BY <1>2, <1>3

(* The verdict on the cost of a loan is that of the present value at the     *)
(* threshold (redline.py:334).                                               *)
THEOREM CostIsAlwaysBracketed == Calculation \subseteq CostBracketing
<1>1. ASSUME NEW k \in CostCalculation, NEW loan \in UsableLoans
      PROVE  IF StateFor(k, loan, NoRate) = "triggered"
             THEN \/ k.params.threshold <= Width
                  \/ Npv(FlowsOf(loan), k.params.threshold - Width) > 0
             ELSE \/ k.params.threshold + Width > Grid \div 2
                  \/ Npv(FlowsOf(loan), k.params.threshold + Width) <= 0
  <2> DEFINE t == k.params.threshold  f == FlowsOf(loan)
             costs == TwiceCosts(loan, k.params)
  <2>1. k.calc = "effective_cost_limit" /\ t \in Nat /\ k.params.overdue \in Nat
    BY CostRule DEF CostCalculation
  <2>2. costs[1] = TwiceIrr(f)
    BY <2>1, CostOfUsable
  <2>3. StateFor(k, loan, NoRate) = "triggered" <=> TwiceIrr(f) > 2 * t
    <3>1. StateFor(k, loan, NoRate) = StateOf(costs, t)
      BY <2>1, CostState
    <3> HIDE DEF t, f, costs
    <3> QED
      BY <2>2, <3>1 DEF StateOf
  <2>4. PaidBack(f)
    BY UsableLoan, FlowsPaidBack
  <2> HIDE DEF t, f
  <2>5. IF TwiceIrr(f) > 2 * t
        THEN t <= Width \/ Npv(f, t - Width) > 0
        ELSE t + Width > Grid \div 2 \/ Npv(f, t + Width) <= 0
    BY <2>1, <2>4, CostAroundThreshold
  <2>6. IF StateFor(k, loan, NoRate) = "triggered"
        THEN t <= Width \/ Npv(f, t - Width) > 0
        ELSE t + Width > Grid \div 2 \/ Npv(f, t + Width) <= 0
    BY <2>3, <2>5
  <2> QED
    BY <2>6 DEF t, f
<1>2. CostCalculation \subseteq CostBracketing
  BY <1>1 DEF CostBracketing
<1> QED
  BY <1>2 DEF CostBracketing, Others

(* Without fees the cost of a loan is its rate (redline.py:353).             *)
THEOREM CostIsAlwaysTheRate == Calculation \subseteq RateCost
<1>1. ASSUME NEW k \in CostCalculation, NEW loan \in UsableLoans,
             loan.loan_fees = 0, loan.interest_rate <= Grid \div 2
      PROVE  TwiceCosts(loan, k.params)[1] - 2 * loan.interest_rate \in -Width .. Width
  <2>1. TwiceCosts(loan, k.params)[1] = TwiceIrr(FlowsOf(loan))
    BY CostRule, CostOfUsable
  <2>2. TwiceIrr(FlowsOf(loan)) - 2 * loan.interest_rate \in -Width .. Width
    BY <1>1, UsableLoan, CostOfLoanIsItsRate
  <2> QED
    BY <2>1, <2>2
<1>2. CostCalculation \subseteq RateCost
  BY <1>1 DEF RateCost
<1> QED
  BY <1>2 DEF RateCost, Others

(* Higher costs, or a higher rate, are never judged milder.                  *)
LEMMA StateOfRises ==
  ASSUME NEW c, NEW d, NEW t \in Nat, c \in Nat \X Nat, d \in Nat \X Nat,
         c[1] <= d[1], c[2] <= d[2]
  PROVE  Severity[StateOf(c, t)] <= Severity[StateOf(d, t)]
  BY DEF StateOf, Severity

LEMMA JudgedRises ==
  ASSUME NEW p, NEW q, p \in BOOLEAN, q \in BOOLEAN, p => q
  PROVE  Severity[Judged(p).state] <= Severity[Judged(q).state]
<1>1. Judged(p).state = (IF p THEN "triggered" ELSE "not_triggered")
  BY DEF Judged, Verdict
<1>2. Judged(q).state = (IF q THEN "triggered" ELSE "not_triggered")
  BY DEF Judged, Verdict
<1>3. CASE p /\ q
  BY <1>1, <1>2, <1>3 DEF Severity
<1>4. CASE ~p
  BY <1>1, <1>2, <1>4 DEF Severity
<1> QED
  BY <1>3, <1>4

LEMMA DearerRises ==
  ASSUME NEW k \in Calculation, NEW lpr \in LprValue, NEW a \in UsableLoans, NEW b \in UsableLoans,
         Dearer(a, b), StateFor(k, a, lpr) # "insufficient_data"
  PROVE  Severity[StateFor(k, a, lpr)] <= Severity[StateFor(k, b, lpr)]
<1>1. /\ "interest_rate" \in DOMAIN a /\ "interest_rate" \in DOMAIN b
      /\ a.interest_rate \in Nat /\ b.interest_rate \in Nat
      /\ a.interest_rate <= b.interest_rate
  BY UsableLoan DEF Field, Priced, Dearer
<1>2. /\ k.calc \in CalcType /\ DOMAIN k.params = ParamNames(k.calc)
      /\ \A key \in DOMAIN k.params : k.params[key] \in Nat
  BY LawAssumption DEF ValidCalcParams
<1>3. CASE k.calc = "annual_rate_limit"
  <2> DEFINE p == a.interest_rate > k.params.threshold
             q == b.interest_rate > k.params.threshold
  <2>1. k.params["threshold"] \in Nat
    BY <1>2, <1>3 DEF ParamNames
  <2>2. p \in BOOLEAN /\ q \in BOOLEAN /\ (p => q)
    BY <1>1, <2>1
  <2>3. StateFor(k, a, lpr) = Judged(p).state /\ StateFor(k, b, lpr) = Judged(q).state
    BY <1>1, <1>3 DEF StateFor, EvaluateRule, AnnualRateLimit
  <2> HIDE DEF p, q
  <2> QED
    BY <2>2, <2>3, JudgedRises
<1>4. CASE k.calc = "lpr_multiple_limit"
  <2> DEFINE p == a.interest_rate > lpr * k.params.multiplier
             q == b.interest_rate > lpr * k.params.multiplier
  <2>1. k.params["multiplier"] \in Nat /\ lpr \in Nat
    BY <1>2, <1>4, LawAssumption DEF ParamNames
  <2>2. lpr * k.params.multiplier \in Nat
    BY <2>1
  <2>3. p \in BOOLEAN /\ q \in BOOLEAN /\ (p => q)
    BY <1>1, <2>2
  <2>4. lpr # NoRate
    <3>1. ASSUME lpr = NoRate PROVE StateFor(k, a, lpr) = "insufficient_data"
      BY <1>4, <3>1 DEF StateFor, EvaluateRule, LprMultipleLimit, Insufficient
    <3> QED
      BY <3>1
  <2>5. StateFor(k, a, lpr) = Judged(p).state /\ StateFor(k, b, lpr) = Judged(q).state
    <3>1. /\ ({"interest_rate"} \ DOMAIN a) \cup (IF lpr = NoRate THEN {"lpr"} ELSE {}) = {}
          /\ ({"interest_rate"} \ DOMAIN b) \cup (IF lpr = NoRate THEN {"lpr"} ELSE {}) = {}
      BY <1>1, <2>4
    <3> QED
      BY <1>4, <3>1 DEF StateFor, EvaluateRule, LprMultipleLimit
  <2> HIDE DEF p, q
  <2> QED
    BY <2>3, <2>5, JudgedRises
<1>5. CASE k.calc = "effective_cost_limit"
  <2> DEFINE c == TwiceCosts(a, k.params)  d == TwiceCosts(b, k.params)
             t == k.params.threshold
  <2>1. t \in Nat /\ k.params.overdue \in Nat
    BY <1>5, CostRule DEF CostCalculation
  <2>2. c \in Nat \X Nat /\ d \in Nat \X Nat /\ c[1] <= d[1] /\ c[2] <= d[2]
    BY <2>1, UsableLoan, DearerCostsMore
  <2>3. StateFor(k, a, lpr) = StateOf(c, t) /\ StateFor(k, b, lpr) = StateOf(d, t)
    BY <1>5, <2>1, CostState
  <2> HIDE DEF c, d, t
  <2> QED
    BY <2>1, <2>2, <2>3, StateOfRises
<1> QED
  BY <1>2, <1>3, <1>4, <1>5 DEF CalcType

(* Neither a higher fee nor a higher rate makes a verdict milder             *)
(* (redline.py:500).                                                         *)
THEOREM DearerIsNeverJudgedMilder == Calculation \subseteq NeverMilder
<1>1. ASSUME NEW k \in Calculation, NEW lpr \in LprValue, NEW a \in UsableLoans,
             NEW b \in UsableLoans
      PROVE  LET severity == [loan \in UsableLoans |-> StateFor(k, loan, lpr)]
             IN  Dearer(a, b) /\ severity[a] # "insufficient_data" =>
                    Severity[severity[a]] <= Severity[severity[b]]
  BY DearerRises
<1> QED
  BY <1>1 DEF NeverMilder

(* An overdue scenario changes a verdict to a warning or not at all          *)
(* (redline.py:600).                                                         *)
THEOREM OverdueOnlyEverWarns == Calculation \subseteq OverdueOnlyWarning
<1>1. ASSUME NEW k \in CostCalculation, NEW loan \in UsableLoans
      PROVE  LET kept == StateFor([k EXCEPT !.params.overdue = 0], loan, NoRate)
                 late == StateFor(k, loan, NoRate)
             IN  late = kept \/ (kept = "not_triggered" /\ late = "risk_warning")
  <2> DEFINE q == [k EXCEPT !.params.overdue = 0]
             threshold == k.params.threshold
             c == TwiceCosts(loan, k.params)  d == TwiceCosts(loan, q.params)
  <2>1. /\ threshold \in Nat /\ k.params.overdue \in Nat
        /\ k.calc = "effective_cost_limit" /\ k = [calc |-> k.calc, params |-> k.params]
        /\ DOMAIN k.params = {"threshold", "overdue"}
    BY CostRule DEF CostCalculation
  <2>2. q.calc = k.calc /\ q.params = [k.params EXCEPT !.overdue = 0]
    BY <2>1
  <2>3. q.params.threshold = threshold /\ q.params.overdue = 0
    BY <2>1, <2>2
  <2> HIDE DEF q
  <2>4. c[1] = d[1] /\ c \in Nat \X Nat /\ d \in Nat \X Nat
    BY <2>1, <2>3, CostOfUsable
  <2>5. d[2] = 0
    BY <2>3 DEF TwiceCosts
  <2>6. /\ StateFor(k, loan, NoRate) = StateOf(c, threshold)
        /\ StateFor(q, loan, NoRate) = StateOf(d, threshold)
    BY <2>1, <2>2, <2>3, CostState
  <2> HIDE DEF c, d, threshold
  <2>7. \/ StateOf(c, threshold) = StateOf(d, threshold)
        \/ /\ StateOf(d, threshold) = "not_triggered"
           /\ StateOf(c, threshold) = "risk_warning"
    BY <2>1, <2>4, <2>5 DEF StateOf
  <2> QED
    BY <2>6, <2>7 DEF q
<1> QED
  BY <1>1 DEF OverdueOnlyWarning, Others

LEMMA OneReference ==
  ASSUME NEW hard, NEW line, line.kind = "reference", NEW rates, NEW loan, NEW lender,
         NEW context, NEW product, NEW day, NEW signing
  PROVE  Judgements({hard, line}, rates, lender, context, product, day, signing, loan)
            = Judgements({hard}, rates, lender, context, product, day, signing, loan)
<1> DEFINE lines == {line}  alone == {hard}
<1>1. {hard, line} = alone \cup lines /\ \A r \in lines : r.kind = "reference"
  OBVIOUS
<1> HIDE DEF lines, alone
<1>2. Judgements(alone \cup lines, rates, lender, context, product, day, signing, loan)
         = Judgements(alone, rates, lender, context, product, day, signing, loan)
  BY <1>1, ReferencesDecideNothing
<1> QED
  BY <1>1, <1>2 DEF alone

(* A reference line decides nothing and warns at most (redline.py:724).      *)
THEOREM ReferencesOnlyEverWarn == Calculation \subseteq ReferenceOnlyWarning
<1>1. ASSUME NEW k, NEW hard, NEW lpr, NEW loan PROVE OnlyWarns(k, hard, lpr, loan)
  <2> DEFINE line == Package(k, "reference", "bank")
             rates == {[effective |-> 1, published |-> 1, tenor |-> "1Y", value |-> lpr]}
             both == {hard, line}  alone == {hard}
             lender == "bank"  context == "x"  product == "p"  day == 1  signing == NoDay
             judge(packages) ==
                EvaluateRedline(packages, rates, lender, context, product, day, signing, loan)
  <2>1. line.kind = "reference"
    BY DEF Package
  <2> HIDE DEF line, rates, lender, context, product, day, signing
  <2>2. Judgements(both, rates, lender, context, product, day, signing, loan)
          = Judgements(alone, rates, lender, context, product, day, signing, loan)
    BY <2>1, OneReference
  <2>3. {<<o.reason, o.state>> : o \in judge(both)} = {<<o.reason, o.state>> : o \in judge(alone)}
    BY <2>2 DEF Judgements
  <2> HIDE DEF both, alone
  <2>4. ASSUME NEW o \in judge(both), NEW r \in o.references PROVE r[2].state # "triggered"
    BY <2>4, ReferencesWarnAtMost
  <2> HIDE DEF judge
  <2>5. ASSUME NEW o \in judge(both)
        PROVE  \E p \in judge(alone) : o.state = p.state /\ o.reason = p.reason
    <3>1. <<o.reason, o.state>> \in {<<p.reason, p.state>> : p \in judge(alone)}
      BY <2>3
    <3> QED
      BY <3>1
  <2>6. \A o \in judge(both) :
           /\ \E p \in judge(alone) : o.state = p.state /\ o.reason = p.reason
           /\ \A r \in o.references : r[2].state # "triggered"
    BY <2>4, <2>5
  <2> QED
    BY <2>6 DEF OnlyWarns, line, rates, judge, both, alone, lender, context, product, day, signing
<1> QED
  BY <1>1 DEF ReferenceOnlyWarning

(* The page asks for every field that an evaluation may miss                 *)
(* (redline.py:700).                                                         *)
THEOREM AskedIsAlwaysEnough == Calculation \subseteq AskedFields
<1>1. ASSUME NEW k \in Calculation, NEW loan, NEW lpr PROVE OnlyAskedMissing(k, loan, lpr)
  <2>1. k.calc \in CalcType
    BY LawAssumption
  <2>2. k.calc = "effective_cost_limit" =>
           k.params.threshold \in Nat /\ k.params.overdue \in Nat
    BY CostRule DEF CostCalculation
  <2>3. Configured(k)
    BY <2>1, <2>2 DEF Configured
  <2> QED
    BY <2>3, AskedFieldsSuffice DEF OnlyAskedMissing
<1> QED
  BY <1>1 DEF AskedFields

-----------------------------------------------------------------------------
(* Checklists.                                                               *)

(* Classifications neither prove nor waive an item (completeness.py:69).     *)
THEOREM ClassificationsNeverProve == Checklist \subseteq HintsProveNothing
<1>1. ASSUME NEW items, NEW inputs \in InputsFor(items)
      PROVE  Established(EvaluateItems(items, inputs)) =
             Established(EvaluateItems(items,
                            [inputs EXCEPT !.candidates = {}, !.confirmed = {}]))
  <2>1. SameButHints(inputs, [inputs EXCEPT !.candidates = {}, !.confirmed = {}])
    BY DEF SameButHints, InputsFor
  <2> QED
    BY <2>1, HintsProveNothingEver
<1> QED
  BY <1>1 DEF HintsProveNothing

(* Several documents prove an item if each alone would (completeness.py:85). *)
THEOREM EveryDocumentAlwaysProves == Checklist \subseteq EachDocumentProves
<1>1. ASSUME NEW items, NEW inputs \in InputsFor(items), NEW item \in items,
             Evidence(item, inputs) # {}
      PROVE  EvaluateItem(item, inputs) = "satisfied" <=>
                \A d \in Evidence(item, inputs) :
                    EvaluateItem(item, [inputs EXCEPT !.mapped = {<<d, item.code>>}])
                        = "satisfied"
  <2>1. inputs = [f \in DOMAIN inputs |-> inputs[f]] /\ "mapped" \in DOMAIN inputs
    BY DEF InputsFor
  <2> QED
    BY <1>1, <2>1, EachDocumentMustProve
<1> QED
  BY <1>1 DEF EachDocumentProves
=============================================================================
