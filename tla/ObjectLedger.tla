---------------------------- MODULE ObjectLedger ----------------------------
(***************************************************************************)
(* What backend/app/documents.py and lifecycle.py promise about the        *)
(* objects of one application, with no sessions or locks: who has an       *)
(* object, from the upload that draws its key to the end, and which        *)
(* objects the bucket has.  An object is put once, by the upload that has  *)
(* its key; only that upload, or a delete that has put it on the           *)
(* tombstone, removes it; what nobody has any more never comes back; and   *)
(* an application that is deleted gets no more documents.                  *)
(* MaterialCustody implements this specification.                          *)
(***************************************************************************)

CONSTANT Object   \* the object keys that may ever be drawn

VARIABLES
    open,       \* the application is there
    drawn,      \* the keys drawn so far
    held,       \* those of an upload under way
    rows,       \* those that a document has
    condemned,  \* those on the tombstone
    kept        \* the objects in the bucket

vars == <<open, drawn, held, rows, condemned, kept>>

Init ==
    /\ open = TRUE
    /\ drawn = {} /\ held = {} /\ rows = {} /\ condemned = {} /\ kept = {}

\* An upload draws a key and puts its object, unless that is too big.
Take(o) ==
    /\ o \notin drawn
    /\ drawn' = drawn \cup {o} /\ held' = held \cup {o}
    /\ kept' \in {kept, kept \cup {o}}
    /\ UNCHANGED <<open, rows, condemned>>

\* The row is there; who has not been told of it removes the object.
Record(o) ==
    /\ open /\ o \in held
    /\ held' = held \ {o} /\ rows' = rows \cup {o}
    /\ kept' \in {kept, kept \ {o}}
    /\ UNCHANGED <<open, drawn, condemned>>

\* There will be no row, and the object is removed or not.
GiveUp(o) ==
    /\ o \in held
    /\ held' = held \ {o}
    /\ kept' \in {kept, kept \ {o}}
    /\ UNCHANGED <<open, drawn, rows, condemned>>

\* All uploads end at once.
Fail == held' = {} /\ UNCHANGED <<open, drawn, rows, condemned, kept>>

\* The application is deleted: what has been listed goes to the tombstone.
Close ==
    /\ open /\ open' = FALSE
    /\ rows' = {} /\ condemned' \subseteq rows
    /\ UNCHANGED <<drawn, held, kept>>

Remove(o) ==
    /\ o \in condemned
    /\ kept' = kept \ {o}
    /\ UNCHANGED <<open, drawn, held, rows, condemned>>

\* The tombstone forgets objects that are no longer there.
Forget ==
    /\ condemned' \subseteq condemned
    /\ condemned \cap kept \subseteq condemned'
    /\ UNCHANGED <<open, drawn, held, rows, kept>>

Next ==
    \/ \E o \in Object : Take(o) \/ Record(o) \/ GiveUp(o) \/ Remove(o)
    \/ Fail \/ Close \/ Forget

Spec == Init /\ [][Next]_vars
=============================================================================
