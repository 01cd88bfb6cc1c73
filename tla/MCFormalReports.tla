--------------------------- MODULE MCFormalReports ---------------------------
(* FormalReports for TLC: one document, two products, two days.              *)
EXTENDS FormalReports

CONSTANTS s1, s2, d1, p1, p2, x1, x2, bank

TwoSessions == {s1, s2}
Sessions == Permutations(TwoSessions)

\* For p1, on day 1 four times the LPR and from day 2 a plain limit; for p2 a draft.
HardRule(status, product, from, until, calc, params) ==
    [status |-> status, kind |-> "hard", lender |-> bank, context |-> x1, product |-> product,
     from |-> from, until |-> until, calc |-> calc, params |-> params]

Rules1 ==
    [lpr4 |-> HardRule("approved", p1, 1, 1, "lpr_multiple_limit", [multiplier |-> 4]),
     cap |-> HardRule("approved", p1, 2, NoDay, "annual_rate_limit", [threshold |-> 5]),
     low |-> HardRule("draft", p2, 1, NoDay, "annual_rate_limit", [threshold |-> 7])]

Rates == [early |-> [effective |-> 1, published |-> 1, tenor |-> "1Y", value |-> 1],
          late |-> [effective |-> 2, published |-> 1, tenor |-> "1Y", value |-> 2]]

Item(code, category, seal, requires) ==
    [code |-> code, category |-> category, seal |-> seal, signature |-> FALSE,
     requires |-> requires]

Templates ==
    [old |-> [status |-> "approved", product |-> p1,
              items |-> {Item("license", "corp", TRUE, "always"),
                         Item("deed", "deed", FALSE, "collateral")}],
     new |-> [status |-> "draft", product |-> p2,
              items |-> {Item("license", "corp", FALSE, "always")}]]
=============================================================================
