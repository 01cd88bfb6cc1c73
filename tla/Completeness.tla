---------------------------- MODULE Completeness ----------------------------
(***************************************************************************)
(* The pure part of backend/app/completeness.py: the state of each item of *)
(* a checklist template, given what officers have confirmed.               *)
(*                                                                         *)
(* An item is [code, category, seal, signature, requires], the last one    *)
(* "always" for an item without a condition.  What is confirmed is         *)
(*   waived      set of item codes                                         *)
(*   context     set of the conditions that hold                           *)
(*   mapped      set of <<document, item code>>                            *)
(*   confirmed   set of <<document, category>>, one for a document at most *)
(*   candidates  set of <<document, category>>, from the worker            *)
(*   seal, signature   documents whose last review says present            *)
(***************************************************************************)
EXTENDS Integers, Sequences, FiniteSets

Condition == {"collateral", "guarantor"}
CollateralFields == {"collateral_type", "collateral_certificate", "collateral_value"}
GuarantorFields == {"guarantor", "guarantee_method"}

ConditionContext(resolved) ==
    (IF resolved \cap CollateralFields # {} THEN {"collateral"} ELSE {})
    \cup (IF resolved \cap GuarantorFields # {} THEN {"guarantor"} ELSE {})

ItemConditionMet(item, context) ==
    item.requires = "always" \/ item.requires \in Condition \cap context

\* The documents of the last review of each that says present.  Reviews are
\* [document, kind, status], in the order they were made.
LatestPresence(reviews, kind) ==
    LET Of(d) == {i \in DOMAIN reviews : reviews[i].document = d /\ reviews[i].kind = kind}
    IN  {d \in {reviews[i].document : i \in DOMAIN reviews} :
            \E i \in Of(d) : /\ \A j \in Of(d) : j <= i
                             /\ reviews[i].status = "present"}

\* Mutant: a confirmed category is as good as a mapping.
MappedOrConfirmed(item, inputs) ==
    {m[1] : m \in {n \in inputs.mapped : n[2] = item.code}}
    \cup {m[1] : m \in {n \in inputs.confirmed : n[2] = item.category}}

Evidence(item, inputs) == {m[1] : m \in {n \in inputs.mapped : n[2] = item.code}}

\* Mutant: one mapped document with its seal and signature is enough.
SomeProven(item, inputs) ==
    \E d \in Evidence(item, inputs) :
        /\ item.seal => d \in inputs.seal
        /\ item.signature => d \in inputs.signature

Proven(item, inputs) ==
    \A d \in Evidence(item, inputs) :
        /\ item.seal => d \in inputs.seal
        /\ item.signature => d \in inputs.signature

Hinted(item, inputs) ==
    \E m \in inputs.candidates \cup inputs.confirmed : m[2] = item.category

\* evaluate_item: a waiver first, then the condition, then the evidence.
EvaluateItem(item, inputs) ==
    IF item.code \in inputs.waived THEN "manually_waived"
    ELSE IF ~ItemConditionMet(item, inputs.context) THEN "not_applicable"
    ELSE IF Evidence(item, inputs) # {}
         THEN IF Proven(item, inputs) THEN "satisfied" ELSE "pending_confirmation"
    ELSE IF Hinted(item, inputs) THEN "pending_confirmation"
    ELSE "missing"

EvaluateItems(items, inputs) ==
    [code \in {item.code : item \in items} |->
        EvaluateItem(CHOOSE item \in items : item.code = code, inputs)]

\* What does not follow from unconfirmed hints: missing and pending are one.
Established(verdicts) ==
    [code \in DOMAIN verdicts |->
        IF verdicts[code] \in {"missing", "pending_confirmation"} THEN "open" ELSE verdicts[code]]

\* What administrators may configure: items is a sequence.
ValidTemplateItems(items, categories) ==
    /\ \A i, j \in DOMAIN items : items[i].code = items[j].code => i = j
    /\ \A i \in DOMAIN items :
          /\ items[i].category \in categories
          /\ items[i].requires \in Condition \cup {"always"}
=============================================================================
