--------------------------- MODULE MCDocumentJobs ---------------------------
(* DocumentJobs for TLC: what the two pages of the frontend ask for when     *)
(* they retry, two requests at a time, and the workers that survive.         *)
EXTENDS DocumentJobs, TLC

CONSTANTS r1, r2, w1, w2

TwoRequests == {r1, r2}
TwoWorkers == {w1, w2}

QueuedOrNot == {"page", "manual"}
ParsedKinds == {"page", "structured"}
StructuredOnly == {"structured"}

Sessions == Permutations(TwoRequests) \cup Permutations(TwoWorkers)

\* ApplicationDetailView asks for validation, DocumentEvidenceView for the
\* parse steps that apply; the API also takes a text step alone.
FrontendSelections ==
    {{"validation"}, {"parsing_ocr", "seal_detection"}, {"parsing_ocr"}}
PageSelections == {{"validation"}, {"parsing_ocr", "seal_detection"}}

Survivors == {w1}
=============================================================================
