--------------------------- MODULE EvaluationLaws ---------------------------
(***************************************************************************)
(* What the evaluators of backend/app/redline.py and completeness.py       *)
(* promise of every loan and every checklist.  Each law is the set of the  *)
(* calculations, or of the checklists, that obey it on the bounded inputs; *)
(* Catalogue asks that what administrators put in force is in it.          *)
(***************************************************************************)
EXTENDS Redline, Completeness

CONSTANTS
    Calculation,  \* [calc, params] that rule packages may have
    Checklist,    \* sets of items that templates may have
    Amount, Term, LoanRate, Fee, OverdueRate,   \* bounds of the laws: loans
    LprValue,     \* bound of the laws: LPR rates, NoRate among them
    Material      \* bound of the laws: documents

\* Parameters are valid, and all quantities are in the model's units.
ASSUME LawAssumption ==
    /\ UNION {Amount, Term, LoanRate, Fee, OverdueRate, LprValue} \subseteq Nat
    /\ \A k \in Calculation :
          /\ k = [calc |-> k.calc, params |-> k.params]
          /\ k.calc \in CalcType /\ ValidCalcParams(k.calc, k.params)
          /\ \A key \in DOMAIN k.params : k.params[key] \in Nat

Loans == [loan_amount : Amount, loan_term : Term, interest_rate : LoanRate,
          repayment_method : Supported \cup {"other"}, loan_fees : Fee,
          overdue_interest_rate : OverdueRate]

UsableLoans == {loan \in Loans : Unusable(loan) = {}}

\* The rate of the bisection is off by less than this.
Width == Grid \div Power(2, Halvings + 1)

Severity == [not_triggered |-> 0, risk_warning |-> 1, triggered |-> 2]

StateFor(k, loan, lpr) == EvaluateRule(k, loan, lpr).state

FlowsOf(loan) ==
    CashFlows(loan, Schedule(loan.repayment_method, loan.loan_amount,
                             loan.interest_rate, loan.loan_term))

CostCalculation == {k \in Calculation : k.calc = "effective_cost_limit"}
Others == Calculation \ CostCalculation

\* A rule on the cost of a loan triggers only if the present value of what the
\* borrower pays is still positive at the threshold, and does not trigger only
\* if it no longer is, within the width of the bisection.
CostBracketing == Others \cup
    {k \in CostCalculation : \A loan \in UsableLoans :
        LET worth(rate) == Npv(FlowsOf(loan), rate)
        IN  IF StateFor(k, loan, NoRate) = "triggered"
            THEN k.params.threshold <= Width \/ worth(k.params.threshold - Width) > 0
            ELSE k.params.threshold + Width > Grid \div 2 \/ worth(k.params.threshold + Width) <= 0}

\* Without fees the cost of a loan is its rate, whatever the repayment method,
\* as far as the bisection goes.
RateCost == Others \cup
    {k \in CostCalculation : \A loan \in UsableLoans :
        loan.loan_fees = 0 /\ loan.interest_rate <= Grid \div 2 =>
            TwiceCosts(loan, k.params)[1] - 2 * loan.interest_rate \in -Width .. Width}

\* A dearer loan is never judged milder.
Dearer(a, b) ==
    /\ \A f \in {"loan_fees", "interest_rate", "overdue_interest_rate"} : a[f] <= b[f]
    /\ \A f \in {"loan_amount", "loan_term", "repayment_method"} : a[f] = b[f]

NeverMilder ==
    {k \in Calculation : \A lpr \in LprValue :
        LET severity == [loan \in UsableLoans |-> StateFor(k, loan, lpr)]
        IN  \A a, b \in UsableLoans :
                Dearer(a, b) /\ severity[a] # "insufficient_data" =>
                    Severity[severity[a]] <= Severity[severity[b]]}

\* An overdue scenario makes a verdict a warning at most.
OverdueOnlyWarning == Others \cup
    {k \in CostCalculation : \A loan \in UsableLoans :
        LET kept == StateFor([k EXCEPT !.params.overdue = 0], loan, NoRate)
            late == StateFor(k, loan, NoRate)
        IN  late = kept \/ (kept = "not_triggered" /\ late = "risk_warning")}

\* A calculation that is only a reference leaves the verdict to the hard rule,
\* and warns at most, whichever rate is the latest.
Package(k, kind, lender) ==
    [status |-> "approved", kind |-> kind, lender |-> lender, context |-> "x", product |-> "p",
     from |-> 1, until |-> NoDay, calc |-> k.calc, params |-> k.params]

OnlyWarns(k, hard, lpr, loan) ==
    LET rates == {[effective |-> 1, published |-> 1, tenor |-> "1Y", value |-> lpr]}
        judge(packages) == EvaluateRedline(packages, rates, "bank", "x", "p", 1, NoDay, loan)
    IN  \A o \in judge({hard, Package(k, "reference", "bank")}) :
            /\ \E alone \in judge({hard}) : o.state = alone.state /\ o.reason = alone.reason
            /\ \A r \in o.references : r[2].state # "triggered"

ReferenceOnlyWarning ==
    {k \in Calculation : \A h \in Calculation, lender \in {"bank", "other"},
                           lpr \in LprValue \ {NoRate},
                           loan \in {l \in UsableLoans : l.loan_fees = 0} :
        OnlyWarns(k, Package(h, "hard", lender), lpr, loan)}

\* What an evaluation misses is what the page has asked for, and once that is
\* confirmed nothing is missing but an LPR rate or a usable value.
OnlyAskedMissing(k, loan, lpr) ==
    LET missing == EvaluateRule(k, loan, lpr).missing \ {"lpr"}
        critical == CriticalFields(k.calc, k.params)
    IN  /\ missing \subseteq critical
        /\ critical \subseteq DOMAIN loan =>
              missing = {} \/ (k.calc = "effective_cost_limit" /\ missing = Unusable(loan))

AskedFields ==
    {k \in Calculation : \A known \in SUBSET Field, full \in Loans, lpr \in LprValue :
        OnlyAskedMissing(k, [f \in known |-> full[f]], lpr)}

-----------------------------------------------------------------------------
(* Checklists. *)

InputsFor(items) ==
    LET codes == {item.code : item \in items}
        categories == {item.category : item \in items}
    IN  [waived : SUBSET codes, context : SUBSET Condition, mapped : SUBSET (Material \X codes),
         confirmed : {{}} \cup {{<<d, c>>} : d \in Material, c \in categories},
         candidates : {{}} \cup {{<<d, c>>} : d \in Material, c \in categories},
         seal : SUBSET Material, signature : {{}, Material}]

\* Classifications, confirmed or not, never prove an item nor waive it.
HintsProveNothing ==
    {items \in Checklist : \A inputs \in InputsFor(items) :
        Established(EvaluateItems(items, inputs)) =
        Established(EvaluateItems(items, [inputs EXCEPT !.candidates = {}, !.confirmed = {}]))}

\* An item is satisfied by several documents if each of them would do alone.
EachDocumentProves ==
    {items \in Checklist : \A inputs \in InputsFor(items) : \A item \in items :
        Evidence(item, inputs) # {} =>
            (EvaluateItem(item, inputs) = "satisfied" <=>
                \A d \in Evidence(item, inputs) :
                    EvaluateItem(item, [inputs EXCEPT !.mapped = {<<d, item.code>>}])
                        = "satisfied")}
=============================================================================
