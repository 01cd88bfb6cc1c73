------------------------------ MODULE Redline ------------------------------
(***************************************************************************)
(* The pure part of backend/app/redline.py: which LPR rate and which rule  *)
(* packages apply on a day, and what a rule says of a loan.                *)
(*                                                                         *)
(* Days are positive integers and NoDay stands for an absent date.  A rate *)
(* is an integer, in units of 1/Grid per month: thresholds and LPR values  *)
(* are annual in the code, twelve times as much on both sides of every     *)
(* comparison.  Amounts are integers.  What is confirmed of a loan is a    *)
(* function on the fields that have a value the code can parse, since it   *)
(* treats a value it cannot parse as a missing one.                        *)
(***************************************************************************)
EXTENDS Integers, Sequences, FiniteSets

CONSTANTS
    Grid,        \* rates are in units of 1/Grid per month
    Halvings     \* steps of the bisection (until the width is below 1e-12 in the code)

Power(base, n) ==
    LET power[k \in 0 .. n] == IF k = 0 THEN 1 ELSE base * power[k - 1]
    IN  power[n]

\* The midpoints of the bisection of [0, 1/2] are integers.
ASSUME GridAssumption ==
    Grid \in Nat \ {0} /\ Halvings \in Nat /\ Grid % Power(2, Halvings + 1) = 0

NoDay == 0
NoRate == 0

Field == {"loan_amount", "loan_term", "interest_rate", "repayment_method",
          "loan_fees", "overdue_interest_rate"}

-----------------------------------------------------------------------------
(* Selection by date. *)

\* An LPR entry is [effective, published, tenor, value].  Entries of one day
\* tie: the code takes the first in the order of the query, any of them.
LprCandidates(entries, day) ==
    LET eligible == {e \in entries : e.tenor = "1Y" /\ e.effective <= day}
    IN  {e \in eligible : \A f \in eligible : f.effective <= e.effective}

LprRates(entries, day) ==
    LET latest == LprCandidates(entries, day)
    IN  IF latest = {} THEN {NoRate} ELSE {e.value : e \in latest}

RuleInEffect(rule, day) ==
    /\ rule.status = "approved"
    /\ rule.from <= day
    /\ rule.until = NoDay \/ rule.until >= day

NoContext == "none"

PrimaryMatches(packages, lender, context, product, day) ==
    {r \in packages : /\ context # NoContext
                   /\ r.kind = "hard"
                   /\ r.lender = lender /\ r.context = context /\ r.product = product
                   /\ RuleInEffect(r, day)}

\* select_primary_rule: the reason; the package is the match if it is unique.
SelectionReason(context, matches) ==
    CASE context = NoContext -> "no_rule_context"
      [] context # NoContext /\ matches = {} -> "no_match"
      [] Cardinality(matches) = 1 -> "unique"
      [] OTHER -> "multiple_match"

ApplicableReferences(packages, context, product, day) ==
    {r \in packages : /\ context # NoContext
                   /\ r.kind = "reference"
                   /\ r.context = context /\ r.product = product
                   /\ RuleInEffect(r, day)}

-----------------------------------------------------------------------------
(* Repayment and its internal rate.  A schedule is [scale, payments], each   *)
(* payment multiplied by scale so that it is an integer.                     *)

\* The present value at rate r, times (Grid + r)^(Len(flows) - 1) > 0.
Npv(flows, r) ==
    LET total[i \in 0 .. Len(flows)] ==
            IF i = 0 THEN 0 ELSE total[i - 1] * (Grid + r) + flows[i] * Power(Grid, i - 1)
    IN  total[Len(flows)]

\* Mutant: the interval keeps the wrong half.
HalveWrong(flows, between) ==
    LET mid == (between[1] + between[2]) \div 2
    IN  IF Npv(flows, mid) > 0 THEN <<between[1], mid>> ELSE <<mid, between[2]>>

Halve(flows, between) ==
    LET mid == (between[1] + between[2]) \div 2
    IN  IF Npv(flows, mid) > 0 THEN <<mid, between[2]>> ELSE <<between[1], mid>>

\* Twice the monthly rate: the sum of the bounds of the last interval.
TwiceIrr(flows) ==
    LET between[k \in 0 .. Halvings] ==
            IF k = 0 THEN <<0, Grid \div 2>> ELSE Halve(flows, between[k - 1])
        last == between[Halvings]
    IN  IF Npv(flows, 0) <= 0 THEN 0 ELSE last[1] + last[2]

\* principal rate (1 + rate)^n / ((1 + rate)^n - 1), and principal / n without
\* interest: the principal over the present value of one a period.
EqualInstallment(principal, rate, n) ==
    [scale |-> Grid * Npv([k \in 1 .. n |-> 1], rate),
     payments |-> [k \in 1 .. n |-> principal * Power(Grid + rate, n)]]

\* Mutant: interest on the whole principal to the end.
FlatInterest(principal, rate, n) ==
    [scale |-> n * Grid,
     payments |-> [k \in 1 .. n |-> principal * Grid + n * principal * rate]]

EqualPrincipal(principal, rate, n) ==
    [scale |-> n * Grid,
     payments |-> [k \in 1 .. n |-> principal * Grid + (n - k + 1) * principal * rate]]

Supported == {"equal_installment", "equal_principal"}

Schedule(method, principal, rate, n) ==
    IF method = "equal_installment" THEN EqualInstallment(principal, rate, n)
    ELSE EqualPrincipal(principal, rate, n)

\* Mutant: fees are taken for money paid out.
FeesPaidOut(loan, schedule) ==
    <<-(loan.loan_amount + loan.loan_fees) * schedule.scale>> \o schedule.payments

\* The loan as its borrower sees it: what is paid out, then the payments.
CashFlows(loan, schedule) ==
    <<-(loan.loan_amount - loan.loan_fees) * schedule.scale>> \o schedule.payments

\* One more period with the interest on the principal for so many months.
OverdueFlow(loan, schedule, months) ==
    loan.loan_amount * loan.overdue_interest_rate * months * (schedule.scale \div Grid)

-----------------------------------------------------------------------------
(* The three calculation types.  An outcome is [state, missing].             *)

Insufficient(fields) == [state |-> "insufficient_data", missing |-> fields]
Verdict(state) == [state |-> state, missing |-> {}]
Judged(exceeds) == Verdict(IF exceeds THEN "triggered" ELSE "not_triggered")

AnnualRateLimit(loan, params) ==
    IF "interest_rate" \notin DOMAIN loan THEN Insufficient({"interest_rate"})
    ELSE Judged(loan.interest_rate > params.threshold)

LprMultipleLimit(loan, lpr, params) ==
    LET missing == ({"interest_rate"} \ DOMAIN loan) \cup (IF lpr = NoRate THEN {"lpr"} ELSE {})
    IN  IF missing # {} THEN Insufficient(missing)
        ELSE Judged(loan.interest_rate > lpr * params.multiplier)

RequiredFields(params) ==
    IF params.overdue > 0 THEN Field ELSE Field \ {"overdue_interest_rate"}

\* The first value that is no loan's, in the order the code looks at them.
Unusable(loan) ==
    CASE loan.loan_term <= 0 -> {"loan_term"}
      [] loan.loan_term > 0 /\ loan.loan_amount <= 0 -> {"loan_amount"}
      [] loan.loan_term > 0 /\ loan.loan_amount > 0
         /\ (loan.loan_fees < 0 \/ loan.loan_fees >= loan.loan_amount) -> {"loan_fees"}
      [] loan.loan_term > 0 /\ loan.loan_amount > 0
         /\ loan.loan_fees \in 0 .. loan.loan_amount - 1
         /\ loan.repayment_method \notin Supported -> {"repayment_method"}
      [] OTHER -> {}

\* <<twice the cost of the loan kept to, twice its cost if overdue>>
TwiceCosts(loan, params) ==
    LET schedule == Schedule(loan.repayment_method, loan.loan_amount,
                             loan.interest_rate, loan.loan_term)
        flows == CashFlows(loan, schedule)
    IN  <<TwiceIrr(flows),
          IF params.overdue = 0 THEN 0
          ELSE TwiceIrr(flows \o <<OverdueFlow(loan, schedule, params.overdue)>>)>>

\* Mutant: an overdue scenario above the threshold triggers the rule.
StateOfHarsh(costs, threshold) ==
    IF costs[1] > 2 * threshold \/ costs[2] > 2 * threshold THEN "triggered"
    ELSE "not_triggered"

StateOf(costs, threshold) ==
    IF costs[1] > 2 * threshold THEN "triggered"
    ELSE IF costs[2] > 2 * threshold THEN "risk_warning" ELSE "not_triggered"

EffectiveCostLimit(loan, params) ==
    LET missing == RequiredFields(params) \ DOMAIN loan
    IN  IF missing # {} THEN Insufficient(missing)
        ELSE IF Unusable(loan) # {} THEN Insufficient(Unusable(loan))
        ELSE Verdict(StateOf(TwiceCosts(loan, params), params.threshold))

EvaluateRule(rule, loan, lpr) ==
    CASE rule.calc = "annual_rate_limit" -> AnnualRateLimit(loan, rule.params)
      [] rule.calc = "lpr_multiple_limit" -> LprMultipleLimit(loan, lpr, rule.params)
      [] rule.calc = "effective_cost_limit" -> EffectiveCostLimit(loan, rule.params)

\* Mutant: the overdue rate is never critical.
CriticalFieldsButOverdue(calc, params) ==
    IF calc = "effective_cost_limit" THEN Field \ {"overdue_interest_rate"}
    ELSE {"interest_rate"}

\* What the page asks to be confirmed for a rule.
CriticalFields(calc, params) ==
    IF calc # "effective_cost_limit" THEN {"interest_rate"}
    ELSE IF params.overdue = 0 THEN Field \ {"overdue_interest_rate"}
    ELSE Field

-----------------------------------------------------------------------------
(* evaluate_redline: the primary rule decides, references only warn.         *)

\* Mutant: a reference is taken for what it says.
SoftenNot(outcome) == outcome

Soften(outcome) ==
    IF outcome.state = "triggered" THEN [outcome EXCEPT !.state = "risk_warning"] ELSE outcome

LprDay(signing, day) == IF signing = NoDay THEN day ELSE signing

\* The outcomes the code may come to, one for each LPR entry of the last day.
EvaluateRedline(packages, entries, lender, context, product, day, signing, loan) ==
    LET matches == PrimaryMatches(packages, lender, context, product, day)
        reason == SelectionReason(context, matches)
        references == ApplicableReferences(packages, context, product, day)
        Outcome(lpr) ==
            [reason |-> reason,
             matches |-> matches,
             state |-> IF reason = "unique"
                       THEN EvaluateRule(CHOOSE r \in matches : TRUE, loan, lpr).state
                       ELSE "indeterminate",
             references |-> {<<r, Soften(EvaluateRule(r, loan, lpr))>> : r \in references},
             lpr |-> lpr]
    IN  {Outcome(lpr) : lpr \in LprRates(entries, LprDay(signing, day))}

-----------------------------------------------------------------------------
(* What administrators may configure. *)

\* Mutant: intervals that share only one day do not overlap.
IntervalsCross(a, b) ==
    /\ b.until = NoDay \/ a.from < b.until
    /\ a.until = NoDay \/ b.from < a.until

IntervalsOverlap(a, b) ==
    /\ b.until = NoDay \/ a.from <= b.until
    /\ a.until = NoDay \/ b.from <= a.until

SameScope(a, b) == a.lender = b.lender /\ a.context = b.context /\ a.product = b.product

\* What approve_rule_package refuses to have approved side by side.
Ambiguous(a, b) ==
    a.kind = "hard" /\ b.kind = "hard" /\ SameScope(a, b) /\ IntervalsOverlap(a, b)

CalcType == {"annual_rate_limit", "lpr_multiple_limit", "effective_cost_limit"}

ParamNames(calc) ==
    CASE calc = "annual_rate_limit" -> {"threshold"}
      [] calc = "lpr_multiple_limit" -> {"multiplier"}
      [] calc = "effective_cost_limit" -> {"threshold", "overdue"}

ValidCalcParams(calc, params) ==
    /\ DOMAIN params = ParamNames(calc)
    /\ \A key \in DOMAIN params :
          IF key = "overdue" THEN params[key] >= 0 ELSE params[key] > 0
=============================================================================
