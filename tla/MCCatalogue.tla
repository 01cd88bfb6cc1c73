----------------------------- MODULE MCCatalogue -----------------------------
(* Catalogue for TLC: one scope, a demo rule and a demo template, two admins. *)
EXTENDS Catalogue, TLC

CONSTANTS a1, a2

TwoAdmins == {a1, a2}
Admins == Permutations(TwoAdmins)

Content(kind, calc, from, until, params) ==
    [kind |-> kind, lender |-> "bank", context |-> "x", product |-> "p",
     calc |-> calc, from |-> from, until |-> until, params |-> params]

Cost(threshold, overdue) == [threshold |-> threshold, overdue |-> overdue]

\* The packages that administrators ask for; the last two are no valid ones.
Inputs ==
    {Content("hard", "effective_cost_limit", 1, 2, Cost(6, 0)),
     Content("hard", "effective_cost_limit", 2, NoDay, Cost(6, 2)),
     Content("reference", "lpr_multiple_limit", 1, NoDay, [multiplier |-> 4]),
     Content("hard", "effective_cost_limit", 2, 1, Cost(6, 2)),
     Content("hard", "effective_cost_limit", 1, 2, Cost(0, 0))}

Demo == [d |-> Content("hard", "annual_rate_limit", 1, 1, [threshold |-> 8])]

Calculations ==
    {[calc |-> c.calc, params |-> c.params] :
        c \in {x \in Inputs \cup {Demo.d} : ValidCalcParams(x.calc, x.params)}}

Item(code, category, seal, requires) ==
    [code |-> code, category |-> category, seal |-> seal, signature |-> FALSE,
     requires |-> requires]

License == Item("license", "corp", TRUE, "always")
Deed == Item("deed", "deed", FALSE, "collateral")

Items == {<<License>>, <<Deed>>, <<License, License>>}
DemoChecklist == [t |-> {License, Deed}]
Checklists == {{}, {License}, {Deed}, {License, Deed}}
Products == [t |-> "p", u |-> "p"]

Row(effective, published, value) ==
    [effective |-> effective, published |-> published, tenor |-> "1Y", value |-> value]

Csv == {Row(2, 1, 2), Row(2, 3, 3)}
DemoRates == {Row(1, 1, 1)}
=============================================================================
