----------------------- MODULE MaterialCustodyProofs -----------------------
(***************************************************************************)
(* Proofs about MaterialCustody, for any number of sessions, users, files, *)
(* keys and objects, any capacity and any bounds.                          *)
(***************************************************************************)
EXTENDS MaterialCustody, FiniteSetTheorems, TLAPS

Storing == {"stored", "locked", "checked"}

(* Which stages an operation has, and what a session carries in them.        *)
Shape ==
    \A c \in Session :
        /\ op[c] = "none" <=> pc[c] = "idle"
        /\ pc[c] \in Storing => op[c] = "upload"
        /\ pc[c] \in {"listed", "purging"} => op[c] = "delete"
        /\ op[c] = "upload" => user[c] \in Officer /\ file[c] \in File /\ key[c] \in RequestKey
        /\ op[c] = "reassign" => base[c] \in 1 .. MaxVersion
        /\ object[c] # 0 <=> pc[c] \in Storing
        /\ raced[c] => op[c] = "reassign"

(* The application is live, or else there is a tombstone and no row; who has *)
(* its row locked is its owner; one session at most purges.                  *)
Life ==
    /\ tomb <=> ~live
    /\ live => remaining = {}
    /\ ~live => docs = {}
    /\ \A c \in Session : pc[c] \in HasRow => live /\ owner = user[c]
    /\ \A c \in Session : pc[c] = "purging" => ~live
    /\ \A b, c \in Session : pc[b] = "purging" /\ pc[c] = "purging" => b = c

(* Every key is one that has been drawn.                                     *)
Known ==
    /\ store \subseteq 1 .. made /\ remaining \subseteq 1 .. made
    /\ \A d \in docs : d.object <= made
    /\ \A c \in Session :
          object[c] <= made /\ todo[c] \subseteq 1 .. made /\ failed[c] \subseteq 1 .. made

(* What a delete has listed, and what was added since, are the documents;    *)
(* what a purge has neither tried nor failed to remove is gone.              *)
Custody ==
    /\ ObjectsNamed
    /\ \A c \in Session : pc[c] = "listed" => Rowed \subseteq todo[c] \cup fresh[c]
    /\ \A c \in Session : pc[c] = "purging" =>
          remaining \cap store \subseteq todo[c] \cup failed[c]

(* A session that stores an object has it to itself until its row comes; a   *)
(* delete has only listed objects that had one.                              *)
Originals ==
    /\ DocumentsHaveOriginals
    /\ \A c \in Session : pc[c] \in Storing =>
          /\ file[c] \in Big \/ object[c] \in store
          /\ \A d \in docs : d.object # object[c]
          /\ \A b \in Session : object[b] = object[c] => b = c
          /\ \A b \in Session : object[c] \notin todo[b]

(* Who has found room keeps it.                                              *)
Full ==
    /\ IsFiniteSet(docs)
    /\ WithinCapacity
    /\ \A c \in Session : pc[c] = "checked" => Cardinality(docs) < Capacity

(* An answer is on record, a record is of a document, and a key has one.     *)
Agree ==
    /\ answers \subseteq keys
    /\ \A r, s \in keys : r.by = s.by /\ r.key = s.key => r = s
    /\ live => \A r \in keys : [object |-> r.object, file |-> r.file] \in docs

(* Until a reassignment that was overtaken commits, every change accepted    *)
(* was for an earlier version, and every other reassignment is for this one. *)
Versions ==
    /\ IsFiniteSet(accepted)
    /\ (\A a \in accepted : ~a.raced) =>
          /\ \A a \in accepted : a.version < version
          /\ \A a, b \in accepted : a.version = b.version => a = b
          /\ \A c \in Session : op[c] = "reassign" => raced[c] \/ base[c] = version

Inv ==
    /\ TypeOK /\ Shape /\ Life /\ Known /\ Custody /\ Originals /\ Full /\ Agree /\ Versions

-----------------------------------------------------------------------------

(* The initial states.                                                       *)
LEMMA InitInv == Init => Inv
<1> SUFFICES ASSUME Init PROVE Inv
  OBVIOUS
<1> USE CustodyAssumption
<1> USE DEF Init
<1>1. IsFiniteSet({}) /\ Cardinality({}) = 0
  BY FS_EmptySet
<1>2. TypeOK
  <2>1. base \in [Session -> Nat] /\ raced \in [Session -> BOOLEAN]
    OBVIOUS
  <2>2. fresh \in [Session -> SUBSET Object]
    OBVIOUS
  <2>3. todo \in [Session -> SUBSET Object] /\ failed \in [Session -> SUBSET Object]
    OBVIOUS
  <2>4. 1 \in 1 .. MaxVersion + 1 /\ 0 \in 0 .. MaxUploads /\ 0 \in 0 .. MaxRequests
    OBVIOUS
  <2> QED
    BY <2>1, <2>2, <2>3, <2>4 DEF TypeOK, HasRow, Op, PC
<1>3. Shape /\ Life /\ Known
  BY DEF Shape, Storing, Life, Known, HasRow
<1>4. Custody /\ Originals
  BY DEF Custody, ObjectsNamed, Originals, Storing, DocumentsHaveOriginals
<1>5. Full /\ Agree /\ Versions
  BY <1>1 DEF Full, WithinCapacity, Agree, Versions
<1> QED
  BY <1>2, <1>3, <1>4, <1>5 DEF Inv

(* What is held without c, once its object is put down.                      *)
LEMMA Released ==
  ASSUME TypeOK, NEW c \in Session, object' = [object EXCEPT ![c] = 0]
  PROVE  Held \subseteq Held' \cup Stored(c)
  BY DEF TypeOK, Held, Stored, Object

(* A new document adds its object to those that have a row.                  *)
LEMMA RowAdded ==
  ASSUME NEW o, NEW f, docs' = docs \cup {[object |-> o, file |-> f]}
  PROVE  Rowed' = Rowed \cup {o}
<1> DEFINE new == [object |-> o, file |-> f]
<1>1. new.object = o
  OBVIOUS
<1>2. docs' = docs \cup {new}
  OBVIOUS
<1> HIDE DEF new
<1> QED
  BY <1>1, <1>2 DEF Rowed

(* Custody is kept by a step that only takes or keeps an object in hand and  *)
(* moves no delete.                                                          *)
LEMMA CustodyAside ==
  ASSUME Custody, UNCHANGED <<store, docs, remaining, adrift, late, fresh>>, Held \subseteq Held',
         \A b \in Session : pc'[b] \in {"listed", "purging"} =>
            pc'[b] = pc[b] /\ todo'[b] = todo[b] /\ failed'[b] = failed[b]
  PROVE  Custody'
<1>1. Rowed' = Rowed
  BY DEF Rowed
<1>2. ObjectsNamed'
  BY <1>1 DEF Custody, ObjectsNamed
<1>3. \A c \in Session : pc'[c] = "listed" => Rowed' \subseteq todo'[c] \cup fresh'[c]
  BY <1>1 DEF Custody
<1>4. \A c \in Session : pc'[c] = "purging" =>
         remaining' \cap store' \subseteq todo'[c] \cup failed'[c]
  BY DEF Custody
<1> QED
  BY <1>2, <1>3, <1>4 DEF Custody

(* A session that ends leaves its variables well typed and the row unlocked.  *)
EndedTypes ==
    /\ op' \in [Session -> Op] /\ pc' \in [Session -> PC]
    /\ user' \in [Session -> User \cup {None}]
    /\ file' \in [Session -> File \cup {None}] /\ key' \in [Session -> RequestKey \cup {None}]
    /\ object' \in [Session -> Object \cup {0}]
    /\ todo' \in [Session -> SUBSET Object] /\ failed' \in [Session -> SUBSET Object]
    /\ base' \in [Session -> Nat]

LEMMA EndKeepsTypes ==
  ASSUME TypeOK, NEW c \in Session, End(c)
  PROVE  EndedTypes
<1>1. op' \in [Session -> Op] /\ pc' \in [Session -> PC]
  BY DEF TypeOK, End, Op, PC
<1>2. /\ user' \in [Session -> User \cup {None}]
      /\ file' \in [Session -> File \cup {None}] /\ key' \in [Session -> RequestKey \cup {None}]
  BY DEF TypeOK, End
<1>3. /\ object' \in [Session -> Object \cup {0}]
      /\ todo' \in [Session -> SUBSET Object] /\ failed' \in [Session -> SUBSET Object]
      /\ base' \in [Session -> Nat]
  BY DEF TypeOK, End
<1> QED
  BY <1>1, <1>2, <1>3 DEF EndedTypes

LEMMA EndUnlocks ==
  ASSUME TypeOK, NEW c \in Session, End(c), lock' = Unlocked(c)
  PROVE  /\ lock' \in Session \cup {None}
         /\ \A b \in Session : pc'[b] \in HasRow <=> lock' = b
<1>1. lock' \in Session \cup {None} /\ lock' # c
  BY CustodyAssumption DEF TypeOK, Unlocked
<1>2. pc'[c] \notin HasRow
  BY DEF TypeOK, End, HasRow
<1>3. ASSUME NEW b \in Session \ {c} PROVE pc'[b] = pc[b] /\ (lock' = b <=> lock = b)
  BY CustodyAssumption DEF TypeOK, End, Unlocked
<1> QED
  BY <1>1, <1>2, <1>3 DEF TypeOK

(* Every step keeps the types, and the lock with its stages.                 *)
LEMMA TypeStep == ASSUME Inv, [Next]_vars PROVE TypeOK'
<1> USE CustodyAssumption
<1> USE DEF Inv, TypeOK, HasRow, Storing, Op, PC, User, Object, Shape, Versions, Document,
           Answer, Stored, ToAnswer, app, rows, deletion, session, history
<1>0. CASE UNCHANGED vars
  BY <1>0 DEF vars
<1>1. ASSUME NEW c \in Session, NEW u \in Officer, NEW f \in File,
             NEW k \in RequestKey, AskUpload(c, u, f, k)
      PROVE  TypeOK'
  BY <1>1 DEF AskUpload, Begin
<1>2. ASSUME NEW c \in Session, Put(c) PROVE TypeOK'
  BY <1>2 DEF Put, Goto
<1>3. ASSUME NEW c \in Session, PutTooBig(c) PROVE TypeOK'
  BY <1>3 DEF PutTooBig, Goto
<1>4. ASSUME NEW c \in Session, Lock(c) PROVE TypeOK'
  BY <1>4 DEF Lock, LockRow, Goto
<1>5. ASSUME NEW c \in Session, AnswerExisting(c) PROVE TypeOK'
  <2>1. PICK o \in Existing(c) :
               /\ keys' = keys \cup (IF Mine(c) = {} THEN {ToAnswer(c, o)} ELSE {})
               /\ answers' = answers \cup {ToAnswer(c, o)}
    BY <1>5 DEF AnswerExisting
  <2>2. o \in Object
    BY <2>1 DEF Existing, Replayed, Mine
  <2>3. ToAnswer(c, o) \in Answer
    BY <1>5, <2>2 DEF AnswerExisting
  <2>4. keys' \subseteq Answer /\ answers' \subseteq Answer
    <3> HIDE DEF ToAnswer, Answer
    <3> QED
      BY <2>1, <2>3
  <2>5. store' \subseteq Object /\ lock' = Unlocked(c) /\ End(c) /\ UNCHANGED raced
    BY <1>5 DEF AnswerExisting
  <2>6. UNCHANGED <<live, owner, version, docs, made, deletion, adrift, fresh, late, unsure,
     accepted>>
    BY <1>5 DEF AnswerExisting
  <2>7. EndedTypes
    BY <2>5, EndKeepsTypes
  <2>8. lock' \in Session \cup {None} /\ \A b \in Session : pc'[b] \in HasRow <=> lock' = b
    BY <2>5, EndUnlocks
  <2> HIDE DEF Answer, Stored, HasRow, Op, PC, Object
  <2> QED
    BY <2>4, <2>5, <2>6, <2>7, <2>8 DEF EndedTypes
<1>6. ASSUME NEW c \in Session, Check(c) PROVE TypeOK'
  BY <1>6 DEF Check, Goto
<1>7. ASSUME NEW c \in Session, CommitUpload(c) PROVE TypeOK'
  <2>1. ToAnswer(c, object[c]) \in Answer /\ Stored(c) \subseteq Object
    BY <1>7 DEF CommitUpload, Accepts
  <2>2. docs' \subseteq Document
    BY <1>7 DEF CommitUpload, Accepts, Insert
  <2>3. /\ keys' = keys \cup {ToAnswer(c, object[c])} /\ lock' = Unlocked(c)
        /\ fresh' = [b \in Session |->
              IF pc[b] = "listed" THEN fresh[b] \cup Stored(c) ELSE fresh[b]]
        /\ End(c) /\ UNCHANGED <<raced, live, owner, version, made, deletion, adrift, late, accepted>>
    BY <1>7 DEF CommitUpload, Insert
  <2>4. answers' = answers \cup {ToAnswer(c, object[c])} /\ UNCHANGED <<store, unsure>>
    BY <1>7 DEF CommitUpload
  <2>5. EndedTypes
    BY <2>3, EndKeepsTypes
  <2>6. lock' \in Session \cup {None} /\ \A b \in Session : pc'[b] \in HasRow <=> lock' = b
    BY <2>3, EndUnlocks
  <2> HIDE DEF ToAnswer, Answer, Stored, Document, Object
  <2>7. fresh' \in [Session -> SUBSET Object]
    BY <2>1, <2>3
  <2> HIDE DEF HasRow, Op, PC
  <2> QED
    BY <2>1, <2>2, <2>3, <2>4, <2>5, <2>6, <2>7 DEF EndedTypes
<1>8. ASSUME NEW c \in Session, CommitUnacknowledged(c) PROVE TypeOK'
  <2>1. ToAnswer(c, object[c]) \in Answer /\ Stored(c) \subseteq Object
    BY <1>8 DEF CommitUnacknowledged, Accepts
  <2>2. docs' \subseteq Document
    BY <1>8 DEF CommitUnacknowledged, Accepts, Insert
  <2>3. /\ keys' = keys \cup {ToAnswer(c, object[c])} /\ lock' = Unlocked(c)
        /\ fresh' = [b \in Session |->
              IF pc[b] = "listed" THEN fresh[b] \cup Stored(c) ELSE fresh[b]]
        /\ End(c) /\ UNCHANGED <<raced, live, owner, version, made, deletion, adrift, late, accepted>>
    BY <1>8 DEF CommitUnacknowledged, Insert
  <2>4. /\ store' = store \ Stored(c) /\ unsure' = unsure \cup Stored(c)
        /\ UNCHANGED answers
    BY <1>8 DEF CommitUnacknowledged
  <2>5. EndedTypes
    BY <2>3, EndKeepsTypes
  <2>6. lock' \in Session \cup {None} /\ \A b \in Session : pc'[b] \in HasRow <=> lock' = b
    BY <2>3, EndUnlocks
  <2> HIDE DEF ToAnswer, Answer, Stored, Document, Object
  <2>7. fresh' \in [Session -> SUBSET Object]
    BY <2>1, <2>3
  <2> HIDE DEF HasRow, Op, PC
  <2> QED
    BY <2>1, <2>2, <2>3, <2>4, <2>5, <2>6, <2>7 DEF EndedTypes
<1>9. ASSUME NEW c \in Session, Reject(c) PROVE TypeOK'
  <2>1. /\ End(c) /\ lock' = Unlocked(c) /\ Stored(c) \subseteq Object
        /\ UNCHANGED <<raced, live, owner, version, rows, made, deletion>>
        /\ UNCHANGED <<fresh, late, unsure, answers, accepted>>
    BY <1>9 DEF Reject
  <2>2. store' \subseteq store /\ adrift' \subseteq adrift \cup Stored(c)
    BY <1>9 DEF Reject
  <2>3. EndedTypes
    BY <2>1, EndKeepsTypes
  <2>4. lock' \in Session \cup {None} /\ \A b \in Session : pc'[b] \in HasRow <=> lock' = b
    BY <2>1, EndUnlocks
  <2> HIDE DEF Answer, Stored, Document, HasRow, Op, PC, Object
  <2> QED
    BY <2>1, <2>2, <2>3, <2>4 DEF EndedTypes
<1>10. ASSUME NEW c \in Session, NEW u \in Officer, NEW v \in 1 .. MaxVersion, Change(c, u, v)
      PROVE  TypeOK'
  <2>1. Cardinality(accepted) \in Nat
    BY FS_CardinalityType
  <2>2. v \in Nat /\ FALSE \in BOOLEAN /\ version' \in 1 .. MaxVersion + 1
    BY <1>10 DEF Change
  <2>3. [version |-> v, raced |-> FALSE, n |-> Cardinality(accepted)]
           \in [version : Nat, raced : BOOLEAN, n : Nat]
    BY <2>1, <2>2, Zenon
  <2>4. accepted' \subseteq [version : Nat, raced : BOOLEAN, n : Nat]
    BY <1>10, <2>3, Zenon DEF Change, Accept
  <2>5. raced' \in [Session -> BOOLEAN]
    BY <1>10, ZenonT(30) DEF Change, Overtake
  <2> QED
    BY <1>10, <2>2, <2>4, <2>5 DEF Change, End
<1>11. ASSUME NEW c \in Session, NEW u \in Admin, NEW v \in 1 .. MaxVersion, AskReassign(c, u,
     v)
      PROVE  TypeOK'
  BY <1>11 DEF AskReassign, SameVersion, Begin
<1>12. ASSUME NEW c \in Session, NEW u \in Officer, CommitReassign(c, u)
      PROVE  TypeOK'
  <2>1. Cardinality(accepted) \in Nat
    BY FS_CardinalityType
  <2>2. base[c] \in Nat /\ raced[c] \in BOOLEAN /\ version' \in 1 .. MaxVersion + 1
    BY <1>12 DEF CommitReassign
  <2>3. [version |-> base[c], raced |-> raced[c], n |-> Cardinality(accepted)]
           \in [version : Nat, raced : BOOLEAN, n : Nat]
    BY <2>1, <2>2, Zenon
  <2>4. accepted' \subseteq [version : Nat, raced : BOOLEAN, n : Nat]
    BY <1>12, <2>3, Zenon DEF CommitReassign, Accept
  <2>5. raced' \in [Session -> BOOLEAN]
    BY <1>12, ZenonT(30) DEF CommitReassign, Overtake
  <2> QED
    <3>1. End(c) /\ UNCHANGED lock /\ pc[c] \notin HasRow
      BY <1>12 DEF CommitReassign
    <3>2. EndedTypes
      BY <3>1, EndKeepsTypes
    <3>3. \A b \in Session : pc'[b] \in HasRow <=> lock' = b
      BY <3>1 DEF End
    <3> HIDE DEF HasRow, Op, PC, Object
    <3> QED
      BY <1>12, <2>2, <2>4, <2>5, <3>1, <3>2, <3>3 DEF CommitReassign, EndedTypes
<1>13. ASSUME NEW c \in Session, NEW u \in Admin, AskDelete(c, u)
      PROVE  TypeOK'
  BY <1>13 DEF AskDelete, Begin
<1>14. ASSUME NEW c \in Session, ListKeys(c) PROVE TypeOK'
  BY <1>14 DEF ListKeys, Rowed
<1>15. ASSUME NEW c \in Session, CommitDelete(c) PROVE TypeOK'
  BY <1>15 DEF CommitDelete, Goto
<1>16. ASSUME NEW c \in Session, NEW o \in Object, Purge(c, o)
      PROVE  TypeOK'
  <2>1. CASE store' = store \ {o} /\ UNCHANGED failed
    BY <1>16, <2>1 DEF Purge
  <2>2. CASE store' \in {store, store \ {o}} /\ failed' = [failed EXCEPT ![c] = @ \cup {o}]
    BY <1>16, <2>2 DEF Purge
  <2> QED
    BY <1>16, <2>1, <2>2 DEF Purge
<1>17. ASSUME NEW c \in Session, RecordPurge(c) PROVE TypeOK'
  BY <1>17 DEF RecordPurge, Failures, End
<1>18. ASSUME NEW c \in Session, Abort(c) PROVE TypeOK'
  BY <1>18 DEF Abort, End
<1>19. ASSUME NEW u \in Admin, RequestDelete(u) PROVE TypeOK'
  BY <1>19 DEF RequestDelete
<1>20. ASSUME Expire PROVE TypeOK'
  BY <1>20 DEF Expire
<1>21. ASSUME Crash PROVE TypeOK'
  BY <1>21 DEF Crash
<1> HIDE DEF Inv, TypeOK, HasRow, Storing, Op, PC, User, Object, Shape, Versions, Document,
           Answer, Stored, ToAnswer, app, rows, deletion, session, history
<1> QED
  BY <1>0, <1>1, <1>2, <1>3, <1>4, <1>5, <1>6, <1>7, <1>8, <1>9, <1>10, <1>11, <1>12, <1>13,
       <1>14, <1>15, <1>16, <1>17, <1>18, <1>19, <1>20, <1>21
     DEF Next, Upload, ChangeApplication, Delete

(* Every step keeps an operation to its stages.                              *)
LEMMA ShapeStep == ASSUME Inv, [Next]_vars PROVE Shape'
<1> USE CustodyAssumption
<1> USE DEF Inv, TypeOK, HasRow, Storing, Op, PC, User, Object, Shape, app, rows, deletion,
           session, history
<1>0. CASE UNCHANGED vars
  BY <1>0 DEF vars
<1>1. ASSUME NEW c \in Session, NEW u \in Officer, NEW f \in File,
             NEW k \in RequestKey, AskUpload(c, u, f, k)
      PROVE  Shape'
  BY <1>1 DEF AskUpload, Begin
<1>2. ASSUME NEW c \in Session, Put(c) PROVE Shape'
  BY <1>2 DEF Put, Goto
<1>3. ASSUME NEW c \in Session, PutTooBig(c) PROVE Shape'
  BY <1>3 DEF PutTooBig, Goto
<1>4. ASSUME NEW c \in Session, Lock(c) PROVE Shape'
  BY <1>4 DEF Lock, LockRow, Goto
<1>5. ASSUME NEW c \in Session, AnswerExisting(c) PROVE Shape'
  BY <1>5 DEF AnswerExisting, End, Unlocked
<1>6. ASSUME NEW c \in Session, Check(c) PROVE Shape'
  BY <1>6 DEF Check, Goto
<1>7. ASSUME NEW c \in Session, CommitUpload(c) PROVE Shape'
  BY <1>7 DEF CommitUpload, Accepts, Insert, End, Unlocked
<1>8. ASSUME NEW c \in Session, CommitUnacknowledged(c) PROVE Shape'
  BY <1>8 DEF CommitUnacknowledged, Accepts, Insert, End, Unlocked
<1>9. ASSUME NEW c \in Session, Reject(c) PROVE Shape'
  BY <1>9 DEF Reject, End, Unlocked
<1>10. ASSUME NEW c \in Session, NEW u \in Officer, NEW v \in 1 .. MaxVersion, Change(c, u, v)
      PROVE  Shape'
  BY <1>10 DEF Change, Overtake, Accept
<1>11. ASSUME NEW c \in Session, NEW u \in Admin, NEW v \in 1 .. MaxVersion, AskReassign(c, u,
     v)
      PROVE  Shape'
  BY <1>11 DEF AskReassign, SameVersion, Begin
<1>12. ASSUME NEW c \in Session, NEW u \in Officer, CommitReassign(c, u)
      PROVE  Shape'
  <2>1. /\ op[c] = "reassign" /\ op' = [op EXCEPT ![c] = "none"] /\ pc' = [pc EXCEPT ![c] = "idle"]
        /\ user' = [user EXCEPT ![c] = None] /\ file' = [file EXCEPT ![c] = None]
        /\ key' = [key EXCEPT ![c] = None] /\ object' = [object EXCEPT ![c] = 0]
        /\ base' = [base EXCEPT ![c] = 0]
        /\ raced' = [b \in Session |-> b # c /\ (raced[b] \/ op[b] = "reassign")]
    BY <1>12 DEF CommitReassign, Overtake, End
  <2>2. op'[c] = "none" /\ pc'[c] = "idle" /\ object'[c] = 0 /\ ~raced'[c]
    BY <2>1
  <2>3. ASSUME NEW b \in Session \ {c}
        PROVE  /\ op'[b] = op[b] /\ pc'[b] = pc[b] /\ user'[b] = user[b] /\ file'[b] = file[b]
               /\ key'[b] = key[b] /\ object'[b] = object[b] /\ base'[b] = base[b]
               /\ raced'[b] => op[b] = "reassign"
    BY <2>1
  <2> QED
    BY <2>2, <2>3
<1>13. ASSUME NEW c \in Session, NEW u \in Admin, AskDelete(c, u)
      PROVE  Shape'
  BY <1>13 DEF AskDelete, Begin
<1>14. ASSUME NEW c \in Session, ListKeys(c) PROVE Shape'
  BY <1>14 DEF ListKeys
<1>15. ASSUME NEW c \in Session, CommitDelete(c) PROVE Shape'
  BY <1>15 DEF CommitDelete, Goto
<1>16. ASSUME NEW c \in Session, NEW o \in Object, Purge(c, o)
      PROVE  Shape'
  BY <1>16 DEF Purge
<1>17. ASSUME NEW c \in Session, RecordPurge(c) PROVE Shape'
  BY <1>17 DEF RecordPurge, Failures, End
<1>18. ASSUME NEW c \in Session, Abort(c) PROVE Shape'
  BY <1>18 DEF Abort, End
<1>19. ASSUME NEW u \in Admin, RequestDelete(u) PROVE Shape'
  BY <1>19 DEF RequestDelete
<1>20. ASSUME Expire PROVE Shape'
  BY <1>20 DEF Expire
<1>21. ASSUME Crash PROVE Shape'
  BY <1>21 DEF Crash
<1> HIDE DEF Inv, TypeOK, HasRow, Storing, Op, PC, User, Object, Shape, app, rows, deletion,
           session, history
<1> QED
  BY <1>0, <1>1, <1>2, <1>3, <1>4, <1>5, <1>6, <1>7, <1>8, <1>9, <1>10, <1>11, <1>12, <1>13,
       <1>14, <1>15, <1>16, <1>17, <1>18, <1>19, <1>20, <1>21
     DEF Next, Upload, ChangeApplication, Delete

(* Every step keeps the row, the tombstone and the lock consistent.          *)
LEMMA LifeStep == ASSUME Inv, [Next]_vars PROVE Life'
<1> USE CustodyAssumption
<1> USE DEF Inv, TypeOK, HasRow, Storing, Op, PC, User, Object, Shape, Life, app, rows,
           deletion, session, history
<1>0. CASE UNCHANGED vars
  BY <1>0 DEF vars
<1>1. ASSUME NEW c \in Session, NEW u \in Officer, NEW f \in File,
             NEW k \in RequestKey, AskUpload(c, u, f, k)
      PROVE  Life'
  BY <1>1 DEF AskUpload, Begin
<1>2. ASSUME NEW c \in Session, Put(c) PROVE Life'
  BY <1>2 DEF Put, Goto
<1>3. ASSUME NEW c \in Session, PutTooBig(c) PROVE Life'
  BY <1>3 DEF PutTooBig, Goto
<1>4. ASSUME NEW c \in Session, Lock(c) PROVE Life'
  BY <1>4 DEF Lock, LockRow, Goto
<1>5. ASSUME NEW c \in Session, AnswerExisting(c) PROVE Life'
  BY <1>5 DEF AnswerExisting, End, Unlocked
<1>6. ASSUME NEW c \in Session, Check(c) PROVE Life'
  BY <1>6 DEF Check, Goto
<1>7. ASSUME NEW c \in Session, CommitUpload(c) PROVE Life'
  BY <1>7 DEF CommitUpload, Accepts, Insert, End, Unlocked
<1>8. ASSUME NEW c \in Session, CommitUnacknowledged(c) PROVE Life'
  BY <1>8 DEF CommitUnacknowledged, Accepts, Insert, End, Unlocked
<1>9. ASSUME NEW c \in Session, Reject(c) PROVE Life'
  BY <1>9 DEF Reject, End, Unlocked
<1>10. ASSUME NEW c \in Session, NEW u \in Officer, NEW v \in 1 .. MaxVersion, Change(c, u, v)
      PROVE  Life'
  BY <1>10 DEF Change, Overtake, Accept
<1>11. ASSUME NEW c \in Session, NEW u \in Admin, NEW v \in 1 .. MaxVersion, AskReassign(c, u,
     v)
      PROVE  Life'
  BY <1>11 DEF AskReassign, SameVersion, Begin
<1>12. ASSUME NEW c \in Session, NEW u \in Officer, CommitReassign(c, u)
      PROVE  Life'
  BY <1>12 DEF CommitReassign, Overtake, Accept, End
<1>13. ASSUME NEW c \in Session, NEW u \in Admin, AskDelete(c, u)
      PROVE  Life'
  BY <1>13 DEF AskDelete, Begin
<1>14. ASSUME NEW c \in Session, ListKeys(c) PROVE Life'
  BY <1>14 DEF ListKeys
<1>15. ASSUME NEW c \in Session, CommitDelete(c) PROVE Life'
  BY <1>15 DEF CommitDelete, Goto
<1>16. ASSUME NEW c \in Session, NEW o \in Object, Purge(c, o)
      PROVE  Life'
  BY <1>16 DEF Purge
<1>17. ASSUME NEW c \in Session, RecordPurge(c) PROVE Life'
  BY <1>17 DEF RecordPurge, Failures, End
<1>18. ASSUME NEW c \in Session, Abort(c) PROVE Life'
  BY <1>18 DEF Abort, End
<1>19. ASSUME NEW u \in Admin, RequestDelete(u) PROVE Life'
  BY <1>19 DEF RequestDelete
<1>20. ASSUME Expire PROVE Life'
  BY <1>20 DEF Expire
<1>21. ASSUME Crash PROVE Life'
  BY <1>21 DEF Crash
<1> HIDE DEF Inv, TypeOK, HasRow, Storing, Op, PC, User, Object, Shape, Life, app, rows,
           deletion, session, history
<1> QED
  BY <1>0, <1>1, <1>2, <1>3, <1>4, <1>5, <1>6, <1>7, <1>8, <1>9, <1>10, <1>11, <1>12, <1>13,
       <1>14, <1>15, <1>16, <1>17, <1>18, <1>19, <1>20, <1>21
     DEF Next, Upload, ChangeApplication, Delete

(* No step names an object that was never stored.                            *)
LEMMA KnownStep == ASSUME Inv, [Next]_vars PROVE Known'
<1> USE CustodyAssumption
<1> USE DEF Inv, TypeOK, HasRow, Storing, Op, PC, User, Object, Shape, Known, Document,
           Rowed, ToAnswer, app, rows, deletion, session, history
<1>0. CASE UNCHANGED vars
  BY <1>0 DEF vars
<1>1. ASSUME NEW c \in Session, NEW u \in Officer, NEW f \in File,
             NEW k \in RequestKey, AskUpload(c, u, f, k)
      PROVE  Known'
  BY <1>1 DEF AskUpload, Begin
<1>2. ASSUME NEW c \in Session, Put(c) PROVE Known'
  BY <1>2 DEF Put, Goto, Stored
<1>3. ASSUME NEW c \in Session, PutTooBig(c) PROVE Known'
  BY <1>3 DEF PutTooBig, Goto
<1>4. ASSUME NEW c \in Session, Lock(c) PROVE Known'
  BY <1>4 DEF Lock, LockRow, Goto
<1>5. ASSUME NEW c \in Session, AnswerExisting(c) PROVE Known'
  <2>1. store' \subseteq store /\ UNCHANGED <<made, remaining>>
    BY <1>5 DEF AnswerExisting, End
  <2>2. \A e \in docs' : e.object <= made
    BY <1>5 DEF AnswerExisting, End
  <2>3. \A b \in Session : /\ object'[b] \in {0, object[b]}
                           /\ todo'[b] \in {{}, todo[b]} /\ failed'[b] \in {{}, failed[b]}
    BY <1>5 DEF AnswerExisting, End
  <2> QED
    BY <2>1, <2>2, <2>3
<1>6. ASSUME NEW c \in Session, Check(c) PROVE Known'
  BY <1>6 DEF Check, Goto
<1>7. ASSUME NEW c \in Session, CommitUpload(c) PROVE Known'
  BY <1>7 DEF CommitUpload, Accepts, Insert, End, Unlocked, Stored
<1>8. ASSUME NEW c \in Session, CommitUnacknowledged(c) PROVE Known'
  <2>1. store' \subseteq store /\ UNCHANGED <<made, remaining>>
    BY <1>8 DEF CommitUnacknowledged, Accepts, Insert, End
  <2>2. \A e \in docs' : e.object <= made
    BY <1>8 DEF CommitUnacknowledged, Accepts, Insert, End
  <2>3. \A b \in Session : /\ object'[b] \in {0, object[b]}
                           /\ todo'[b] \in {{}, todo[b]} /\ failed'[b] \in {{}, failed[b]}
    BY <1>8 DEF CommitUnacknowledged, Accepts, Insert, End
  <2> QED
    BY <2>1, <2>2, <2>3
<1>9. ASSUME NEW c \in Session, Reject(c) PROVE Known'
  <2>1. store' \subseteq store /\ UNCHANGED <<made, remaining>>
    BY <1>9 DEF Reject, End
  <2>2. \A e \in docs' : e.object <= made
    BY <1>9 DEF Reject, End
  <2>3. \A b \in Session : /\ object'[b] \in {0, object[b]}
                           /\ todo'[b] \in {{}, todo[b]} /\ failed'[b] \in {{}, failed[b]}
    BY <1>9 DEF Reject, End
  <2> QED
    BY <2>1, <2>2, <2>3
<1>10. ASSUME NEW c \in Session, NEW u \in Officer, NEW v \in 1 .. MaxVersion, Change(c, u, v)
      PROVE  Known'
  BY <1>10 DEF Change, Overtake, Accept
<1>11. ASSUME NEW c \in Session, NEW u \in Admin, NEW v \in 1 .. MaxVersion, AskReassign(c, u,
     v)
      PROVE  Known'
  BY <1>11 DEF AskReassign, SameVersion, Begin
<1>12. ASSUME NEW c \in Session, NEW u \in Officer, CommitReassign(c, u)
      PROVE  Known'
  BY <1>12 DEF CommitReassign, Overtake, Accept, End
<1>13. ASSUME NEW c \in Session, NEW u \in Admin, AskDelete(c, u)
      PROVE  Known'
  BY <1>13 DEF AskDelete, Begin
<1>14. ASSUME NEW c \in Session, ListKeys(c) PROVE Known'
  BY <1>14 DEF ListKeys
<1>15. ASSUME NEW c \in Session, CommitDelete(c) PROVE Known'
  BY <1>15 DEF CommitDelete, Goto
<1>16. ASSUME NEW c \in Session, NEW o \in Object, Purge(c, o)
      PROVE  Known'
  <2>1. CASE store' = store \ {o} /\ UNCHANGED failed
    BY <1>16, <2>1 DEF Purge
  <2>2. CASE store' \in {store, store \ {o}} /\ failed' = [failed EXCEPT ![c] = @ \cup {o}]
    BY <1>16, <2>2 DEF Purge
  <2> QED
    BY <1>16, <2>1, <2>2 DEF Purge
<1>17. ASSUME NEW c \in Session, RecordPurge(c) PROVE Known'
  BY <1>17 DEF RecordPurge, Failures, End
<1>18. ASSUME NEW c \in Session, Abort(c) PROVE Known'
  BY <1>18 DEF Abort, End
<1>19. ASSUME NEW u \in Admin, RequestDelete(u) PROVE Known'
  BY <1>19 DEF RequestDelete
<1>20. ASSUME Expire PROVE Known'
  BY <1>20 DEF Expire
<1>21. ASSUME Crash PROVE Known'
  BY <1>21 DEF Crash
<1> HIDE DEF Inv, TypeOK, HasRow, Storing, Op, PC, User, Object, Shape, Known, Document,
           Rowed, ToAnswer, app, rows, deletion, session, history
<1> QED
  BY <1>0, <1>1, <1>2, <1>3, <1>4, <1>5, <1>6, <1>7, <1>8, <1>9, <1>10, <1>11, <1>12, <1>13,
       <1>14, <1>15, <1>16, <1>17, <1>18, <1>19, <1>20, <1>21
     DEF Next, Upload, ChangeApplication, Delete

(* No step leaves an object to nobody, but those set adrift or late.         *)
LEMMA CustodyStep == ASSUME Inv, [Next]_vars PROVE Custody'
<1> USE CustodyAssumption
<1> USE DEF Inv, TypeOK, HasRow, Storing, Op, PC, User, Object, Shape, Life, Known, Custody,
           Document, ObjectsNamed, Held, Stored, Rowed, app, rows, deletion, session,
           history
<1>0. CASE UNCHANGED vars
  BY <1>0 DEF vars
<1>1. ASSUME NEW c \in Session, NEW u \in Officer, NEW f \in File,
             NEW k \in RequestKey, AskUpload(c, u, f, k)
      PROVE  Custody'
  <2>1. /\ UNCHANGED <<store, docs, remaining, adrift, late, fresh, todo, failed>>
        /\ \E place \in PC \ {"listed", "purging"} : pc' = [pc EXCEPT ![c] = place]
    BY <1>1 DEF AskUpload, Begin
  <2>2. Held \subseteq Held'
    BY <1>1 DEF AskUpload, Begin
  <2>3. ASSUME NEW b \in Session, pc'[b] \in {"listed", "purging"} PROVE pc'[b] = pc[b]
    BY <2>1, <2>3
  <2> HIDE DEF Custody, Held
  <2> QED
    BY <2>1, <2>2, <2>3, CustodyAside
<1>2. ASSUME NEW c \in Session, Put(c) PROVE Custody'
  <2>1. /\ made' = made + 1 /\ store' = store \cup {made'} /\ object' = [object EXCEPT ![c] = made']
        /\ pc' = [pc EXCEPT ![c] = "stored"]
        /\ UNCHANGED <<docs, remaining, adrift, late, fresh, todo, failed>>
    BY <1>2 DEF Put, Goto
  <2>2. object[c] = 0 /\ made' \in Object /\ made' \notin remaining
    BY <1>2, <2>1 DEF Put
  <2>3. Held \cup {made'} \subseteq Held' /\ Rowed' = Rowed
    BY <2>1, <2>2
  <2>4. ObjectsNamed'
    <3> HIDE DEF Held, Rowed
    <3> QED
      BY <2>1, <2>3
  <2>5. ASSUME NEW b \in Session, pc'[b] \in {"listed", "purging"} PROVE pc'[b] = pc[b]
    BY <2>1, <2>5
  <2> HIDE DEF Held, Rowed, ObjectsNamed
  <2> QED
    BY <2>1, <2>2, <2>3, <2>4, <2>5
<1>3. ASSUME NEW c \in Session, PutTooBig(c) PROVE Custody'
  <2>1. /\ UNCHANGED <<store, docs, remaining, adrift, late, fresh, todo, failed>>
        /\ \E place \in PC \ {"listed", "purging"} : pc' = [pc EXCEPT ![c] = place]
    BY <1>3 DEF PutTooBig, Goto
  <2>2. Held \subseteq Held'
    BY <1>3 DEF PutTooBig
  <2>3. ASSUME NEW b \in Session, pc'[b] \in {"listed", "purging"} PROVE pc'[b] = pc[b]
    BY <2>1, <2>3
  <2> HIDE DEF Custody, Held
  <2> QED
    BY <2>1, <2>2, <2>3, CustodyAside
<1>4. ASSUME NEW c \in Session, Lock(c) PROVE Custody'
  <2>1. /\ UNCHANGED <<store, docs, remaining, adrift, late, fresh, todo, failed>>
        /\ \E place \in PC \ {"listed", "purging"} : pc' = [pc EXCEPT ![c] = place]
    BY <1>4 DEF Lock, LockRow, Goto
  <2>2. Held \subseteq Held'
    BY <1>4 DEF Lock, LockRow
  <2>3. ASSUME NEW b \in Session, pc'[b] \in {"listed", "purging"} PROVE pc'[b] = pc[b]
    BY <2>1, <2>3
  <2> HIDE DEF Custody, Held
  <2> QED
    BY <2>1, <2>2, <2>3, CustodyAside
<1>5. ASSUME NEW c \in Session, AnswerExisting(c) PROVE Custody'
  <2>1. object[c] \in Object \cup {0} /\ object' = [object EXCEPT ![c] = 0]
    BY <1>5 DEF AnswerExisting, End
  <2>2. Held \subseteq Held' \cup Stored(c)
    BY <2>1, Released
  <2>3. remaining' = remaining /\ late' = late /\ adrift \subseteq adrift'
    BY <1>5 DEF AnswerExisting
  <2>4. Rowed' = Rowed /\ store' \subseteq store /\ store' \cap Stored(c) \subseteq adrift'
    BY <1>5 DEF AnswerExisting, Rowed
  <2>5. ObjectsNamed'
    BY <2>2, <2>3, <2>4 DEF ObjectsNamed
  <2>6. ASSUME NEW b \in Session, pc'[b] \in {"listed", "purging"}
        PROVE  /\ pc'[b] = pc[b] /\ todo'[b] = todo[b] /\ failed'[b] = failed[b]
               /\ pc[b] = "listed" => fresh'[b] = fresh[b]
    BY <1>5, <2>6 DEF AnswerExisting, End
  <2> HIDE DEF Rowed, Held, Stored, ObjectsNamed
  <2> QED
    BY <2>3, <2>4, <2>5, <2>6
<1>6. ASSUME NEW c \in Session, Check(c) PROVE Custody'
  <2>1. /\ UNCHANGED <<store, docs, remaining, adrift, late, fresh, todo, failed>>
        /\ \E place \in PC \ {"listed", "purging"} : pc' = [pc EXCEPT ![c] = place]
    BY <1>6 DEF Check, Goto
  <2>2. Held \subseteq Held'
    BY <1>6 DEF Check
  <2>3. ASSUME NEW b \in Session, pc'[b] \in {"listed", "purging"} PROVE pc'[b] = pc[b]
    BY <2>1, <2>3
  <2> HIDE DEF Custody, Held
  <2> QED
    BY <2>1, <2>2, <2>3, CustodyAside
<1>7. ASSUME NEW c \in Session, CommitUpload(c) PROVE Custody'
  <2>1. object[c] \in Object \cup {0} /\ object' = [object EXCEPT ![c] = 0]
    BY <1>7 DEF CommitUpload, Accepts, Insert, End
  <2>2. Held \subseteq Held' \cup Stored(c)
    BY <2>1, Released
  <2>3. remaining' = remaining /\ late' = late /\ adrift \subseteq adrift'
    BY <1>7 DEF CommitUpload, Accepts, Insert
  <2>4. Rowed' = Rowed \cup Stored(c) /\ store' \subseteq store
    <3>1. Stored(c) = {object[c]}
      BY <1>7 DEF CommitUpload, Accepts, Insert, Stored
    <3>2. docs' = docs \cup {[object |-> object[c], file |-> file[c]]} /\ store' \subseteq store
      BY <1>7 DEF CommitUpload, Accepts, Insert
    <3> QED
      BY <3>1, <3>2, RowAdded
  <2>5. ObjectsNamed'
    BY <2>2, <2>3, <2>4 DEF ObjectsNamed
  <2>6. ASSUME NEW b \in Session, pc'[b] \in {"listed", "purging"}
        PROVE  /\ pc'[b] = pc[b] /\ todo'[b] = todo[b] /\ failed'[b] = failed[b]
               /\ pc[b] = "listed" => fresh'[b] = fresh[b] \cup Stored(c)
    BY <1>7, <2>6 DEF CommitUpload, Accepts, Insert, End
  <2> HIDE DEF Rowed, Held, Stored, ObjectsNamed
  <2> QED
    BY <2>3, <2>4, <2>5, <2>6
<1>8. ASSUME NEW c \in Session, CommitUnacknowledged(c) PROVE Custody'
  <2>1. object[c] \in Object \cup {0} /\ object' = [object EXCEPT ![c] = 0]
    BY <1>8 DEF CommitUnacknowledged, Accepts, Insert, End
  <2>2. Held \subseteq Held' \cup Stored(c)
    BY <2>1, Released
  <2>3. remaining' = remaining /\ late' = late /\ adrift \subseteq adrift'
    BY <1>8 DEF CommitUnacknowledged, Accepts, Insert
  <2>4. Rowed' = Rowed \cup Stored(c) /\ store' \subseteq store
    <3>1. Stored(c) = {object[c]}
      BY <1>8 DEF CommitUnacknowledged, Accepts, Insert, Stored
    <3>2. docs' = docs \cup {[object |-> object[c], file |-> file[c]]} /\ store' \subseteq store
      BY <1>8 DEF CommitUnacknowledged, Accepts, Insert
    <3> QED
      BY <3>1, <3>2, RowAdded
  <2>5. ObjectsNamed'
    BY <2>2, <2>3, <2>4 DEF ObjectsNamed
  <2>6. ASSUME NEW b \in Session, pc'[b] \in {"listed", "purging"}
        PROVE  /\ pc'[b] = pc[b] /\ todo'[b] = todo[b] /\ failed'[b] = failed[b]
               /\ pc[b] = "listed" => fresh'[b] = fresh[b] \cup Stored(c)
    BY <1>8, <2>6 DEF CommitUnacknowledged, Accepts, Insert, End
  <2> HIDE DEF Rowed, Held, Stored, ObjectsNamed
  <2> QED
    BY <2>3, <2>4, <2>5, <2>6
<1>9. ASSUME NEW c \in Session, Reject(c) PROVE Custody'
  <2>1. object[c] \in Object \cup {0} /\ object' = [object EXCEPT ![c] = 0]
    BY <1>9 DEF Reject, End
  <2>2. Held \subseteq Held' \cup Stored(c)
    BY <2>1, Released
  <2>3. remaining' = remaining /\ late' = late /\ adrift \subseteq adrift'
    BY <1>9 DEF Reject
  <2>4. Rowed' = Rowed /\ store' \subseteq store /\ store' \cap Stored(c) \subseteq adrift'
    BY <1>9 DEF Reject, Rowed
  <2>5. ObjectsNamed'
    BY <2>2, <2>3, <2>4 DEF ObjectsNamed
  <2>6. ASSUME NEW b \in Session, pc'[b] \in {"listed", "purging"}
        PROVE  /\ pc'[b] = pc[b] /\ todo'[b] = todo[b] /\ failed'[b] = failed[b]
               /\ pc[b] = "listed" => fresh'[b] = fresh[b]
    BY <1>9, <2>6 DEF Reject, End
  <2> HIDE DEF Rowed, Held, Stored, ObjectsNamed
  <2> QED
    BY <2>3, <2>4, <2>5, <2>6
<1>10. ASSUME NEW c \in Session, NEW u \in Officer, NEW v \in 1 .. MaxVersion, Change(c, u, v)
      PROVE  Custody'
  BY <1>10 DEF Change, Overtake, Accept
<1>11. ASSUME NEW c \in Session, NEW u \in Admin, NEW v \in 1 .. MaxVersion, AskReassign(c, u,
     v)
      PROVE  Custody'
  <2>1. /\ UNCHANGED <<store, docs, remaining, adrift, late, fresh, todo, failed>>
        /\ \E place \in PC \ {"listed", "purging"} : pc' = [pc EXCEPT ![c] = place]
    BY <1>11 DEF AskReassign, SameVersion, Begin
  <2>2. Held \subseteq Held'
    BY <1>11 DEF AskReassign, SameVersion, Begin
  <2>3. ASSUME NEW b \in Session, pc'[b] \in {"listed", "purging"} PROVE pc'[b] = pc[b]
    BY <2>1, <2>3
  <2> HIDE DEF Custody, Held
  <2> QED
    BY <2>1, <2>2, <2>3, CustodyAside
<1>12. ASSUME NEW c \in Session, NEW u \in Officer, CommitReassign(c, u)
      PROVE  Custody'
  <2>1. object[c] = 0
    BY <1>12 DEF CommitReassign
  <2>2. /\ object' = [object EXCEPT ![c] = 0] /\ pc' = [pc EXCEPT ![c] = "idle"]
        /\ todo' = [todo EXCEPT ![c] = {}] /\ failed' = [failed EXCEPT ![c] = {}]
        /\ UNCHANGED <<store, docs, remaining, adrift, late, fresh>>
    BY <1>12 DEF CommitReassign, End
  <2>3. object' = object
    BY <2>1, <2>2
  <2>4. Held' = Held
    BY <2>3
  <2>5. ASSUME NEW b \in Session, pc'[b] \in {"listed", "purging"}
        PROVE  pc'[b] = pc[b] /\ todo'[b] = todo[b] /\ failed'[b] = failed[b]
    BY <2>2, <2>5
  <2> HIDE DEF Custody, Held
  <2> QED
    BY <2>2, <2>4, <2>5, CustodyAside
<1>13. ASSUME NEW c \in Session, NEW u \in Admin, AskDelete(c, u)
      PROVE  Custody'
  <2>1. /\ UNCHANGED <<store, docs, remaining, adrift, late, fresh, todo, failed>>
        /\ \E place \in PC \ {"listed", "purging"} : pc' = [pc EXCEPT ![c] = place]
    BY <1>13 DEF AskDelete, Begin
  <2>2. Held \subseteq Held'
    BY <1>13 DEF AskDelete, Begin
  <2>3. ASSUME NEW b \in Session, pc'[b] \in {"listed", "purging"} PROVE pc'[b] = pc[b]
    BY <2>1, <2>3
  <2> HIDE DEF Custody, Held
  <2> QED
    BY <2>1, <2>2, <2>3, CustodyAside
<1>14. ASSUME NEW c \in Session, ListKeys(c) PROVE Custody'
  BY <1>14 DEF ListKeys
<1>15. ASSUME NEW c \in Session, CommitDelete(c) PROVE Custody'
  BY <1>15 DEF CommitDelete, Goto
<1>16. ASSUME NEW c \in Session, NEW o \in Object, Purge(c, o)
      PROVE  Custody'
  <2>1. /\ pc[c] = "purging" /\ pc' = pc /\ todo' = [todo EXCEPT ![c] = @ \ {o}]
        /\ UNCHANGED <<docs, object, remaining, adrift, late, fresh>>
    BY <1>16 DEF Purge
  <2>2. \/ store' = store \ {o} /\ failed' = failed
        \/ store' \subseteq store /\ failed' = [failed EXCEPT ![c] = @ \cup {o}]
    BY <1>16 DEF Purge
  <2>3. Rowed' = Rowed /\ Held' = Held /\ store' \subseteq store
    BY <2>1, <2>2
  <2>4. ObjectsNamed'
    BY <2>1, <2>3
  <2>5. ASSUME NEW b \in Session, pc'[b] = "listed" PROVE todo'[b] = todo[b] /\ pc[b] = "listed"
    BY <2>1, <2>5
  <2>6. ASSUME NEW b \in Session, pc'[b] = "purging"
        PROVE  remaining' \cap store' \subseteq todo'[b] \cup failed'[b]
    <3>1. pc[b] = "purging" /\ remaining \cap store \subseteq todo[b] \cup failed[b]
      BY <2>1, <2>6
    <3>2. b = c
      BY <2>1, <3>1
    <3>3. todo'[c] = todo[c] \ {o}
      BY <2>1
    <3>4. (o \notin store' /\ failed'[c] = failed[c]) \/ failed'[c] = failed[c] \cup {o}
      BY <2>2
    <3> QED
      BY <2>1, <2>3, <3>1, <3>2, <3>3, <3>4
  <2> HIDE DEF Rowed, ObjectsNamed
  <2> QED
    BY <2>1, <2>3, <2>4, <2>5, <2>6
<1>17. ASSUME NEW c \in Session, RecordPurge(c) PROVE Custody'
  BY <1>17 DEF RecordPurge, Failures, End
<1>18. ASSUME NEW c \in Session, Abort(c) PROVE Custody'
  BY <1>18 DEF Abort, End
<1>19. ASSUME NEW u \in Admin, RequestDelete(u) PROVE Custody'
  BY <1>19 DEF RequestDelete
<1>20. ASSUME Expire PROVE Custody'
  BY <1>20 DEF Expire
<1>21. ASSUME Crash PROVE Custody'
  BY <1>21 DEF Crash
<1> HIDE DEF Inv, TypeOK, HasRow, Storing, Op, PC, User, Object, Shape, Life, Known, Custody,
           Document, ObjectsNamed, Held, Stored, Rowed, app, rows, deletion, session,
           history
<1> QED
  BY <1>0, <1>1, <1>2, <1>3, <1>4, <1>5, <1>6, <1>7, <1>8, <1>9, <1>10, <1>11, <1>12, <1>13,
       <1>14, <1>15, <1>16, <1>17, <1>18, <1>19, <1>20, <1>21
     DEF Next, Upload, ChangeApplication, Delete

(* No step removes the original of a document, but those of unsure commits.  *)
LEMMA OriginalsStep == ASSUME Inv, [Next]_vars PROVE Originals'
<1> USE CustodyAssumption
<1> USE DEF Inv, TypeOK, HasRow, Storing, Op, PC, User, Object, Shape, Life, Known,
           Originals, Document, DocumentsHaveOriginals, Stored, Rowed, app, rows, deletion,
           session, history
<1>0. CASE UNCHANGED vars
  BY <1>0 DEF vars
<1>1. ASSUME NEW c \in Session, NEW u \in Officer, NEW f \in File,
             NEW k \in RequestKey, AskUpload(c, u, f, k)
      PROVE  Originals'
  BY <1>1 DEF AskUpload, Begin
<1>2. ASSUME NEW c \in Session, Put(c) PROVE Originals'
  BY <1>2 DEF Put, Goto
<1>3. ASSUME NEW c \in Session, PutTooBig(c) PROVE Originals'
  BY <1>3 DEF PutTooBig, Goto
<1>4. ASSUME NEW c \in Session, Lock(c) PROVE Originals'
  BY <1>4 DEF Lock, LockRow, Goto
<1>5. ASSUME NEW c \in Session, AnswerExisting(c) PROVE Originals'
  BY <1>5 DEF AnswerExisting, End, Unlocked
<1>6. ASSUME NEW c \in Session, Check(c) PROVE Originals'
  BY <1>6 DEF Check, Goto
<1>7. ASSUME NEW c \in Session, CommitUpload(c) PROVE Originals'
  BY <1>7 DEF CommitUpload, Accepts, Insert, End, Unlocked
<1>8. ASSUME NEW c \in Session, CommitUnacknowledged(c) PROVE Originals'
  BY <1>8 DEF CommitUnacknowledged, Accepts, Insert, End, Unlocked
<1>9. ASSUME NEW c \in Session, Reject(c) PROVE Originals'
  BY <1>9 DEF Reject, End, Unlocked
<1>10. ASSUME NEW c \in Session, NEW u \in Officer, NEW v \in 1 .. MaxVersion, Change(c, u, v)
      PROVE  Originals'
  BY <1>10 DEF Change, Overtake, Accept
<1>11. ASSUME NEW c \in Session, NEW u \in Admin, NEW v \in 1 .. MaxVersion, AskReassign(c, u,
     v)
      PROVE  Originals'
  BY <1>11 DEF AskReassign, SameVersion, Begin
<1>12. ASSUME NEW c \in Session, NEW u \in Officer, CommitReassign(c, u)
      PROVE  Originals'
  BY <1>12 DEF CommitReassign, Overtake, Accept, End
<1>13. ASSUME NEW c \in Session, NEW u \in Admin, AskDelete(c, u)
      PROVE  Originals'
  BY <1>13 DEF AskDelete, Begin
<1>14. ASSUME NEW c \in Session, ListKeys(c) PROVE Originals'
  BY <1>14 DEF ListKeys
<1>15. ASSUME NEW c \in Session, CommitDelete(c) PROVE Originals'
  BY <1>15 DEF CommitDelete, Goto
<1>16. ASSUME NEW c \in Session, NEW o \in Object, Purge(c, o)
      PROVE  Originals'
  <2>1. CASE store' = store \ {o} /\ UNCHANGED failed
    BY <1>16, <2>1 DEF Purge
  <2>2. CASE store' \in {store, store \ {o}} /\ failed' = [failed EXCEPT ![c] = @ \cup {o}]
    BY <1>16, <2>2 DEF Purge
  <2> QED
    BY <1>16, <2>1, <2>2 DEF Purge
<1>17. ASSUME NEW c \in Session, RecordPurge(c) PROVE Originals'
  BY <1>17 DEF RecordPurge, Failures, End
<1>18. ASSUME NEW c \in Session, Abort(c) PROVE Originals'
  BY <1>18 DEF Abort, End
<1>19. ASSUME NEW u \in Admin, RequestDelete(u) PROVE Originals'
  BY <1>19 DEF RequestDelete
<1>20. ASSUME Expire PROVE Originals'
  BY <1>20 DEF Expire
<1>21. ASSUME Crash PROVE Originals'
  BY <1>21 DEF Crash
<1> HIDE DEF Inv, TypeOK, HasRow, Storing, Op, PC, User, Object, Shape, Life, Known,
           Originals, Document, DocumentsHaveOriginals, Stored, Rowed, app, rows, deletion,
           session, history
<1> QED
  BY <1>0, <1>1, <1>2, <1>3, <1>4, <1>5, <1>6, <1>7, <1>8, <1>9, <1>10, <1>11, <1>12, <1>13,
       <1>14, <1>15, <1>16, <1>17, <1>18, <1>19, <1>20, <1>21
     DEF Next, Upload, ChangeApplication, Delete

(* The lock keeps the room that a check has found.                           *)
LEMMA FullStep == ASSUME Inv, [Next]_vars PROVE Full'
<1> USE CustodyAssumption
<1> USE DEF Inv, TypeOK, HasRow, Storing, Op, PC, User, Object, Shape, Life, Full, Document,
           WithinCapacity, app, rows, deletion, session, history
<1>0. CASE UNCHANGED vars
  BY <1>0 DEF vars
<1>1. ASSUME NEW c \in Session, NEW u \in Officer, NEW f \in File,
             NEW k \in RequestKey, AskUpload(c, u, f, k)
      PROVE  Full'
  BY <1>1 DEF AskUpload, Begin
<1>2. ASSUME NEW c \in Session, Put(c) PROVE Full'
  BY <1>2 DEF Put, Goto
<1>3. ASSUME NEW c \in Session, PutTooBig(c) PROVE Full'
  BY <1>3 DEF PutTooBig, Goto
<1>4. ASSUME NEW c \in Session, Lock(c) PROVE Full'
  BY <1>4 DEF Lock, LockRow, Goto
<1>5. ASSUME NEW c \in Session, AnswerExisting(c) PROVE Full'
  BY <1>5 DEF AnswerExisting, End, Unlocked
<1>6. ASSUME NEW c \in Session, Check(c) PROVE Full'
  BY <1>6 DEF Check, Goto
<1>7. ASSUME NEW c \in Session, CommitUpload(c) PROVE Full'
  <2>1. PICK d : docs' = docs \cup {d}
    BY <1>7 DEF CommitUpload, Accepts, Insert
  <2>2. IsFiniteSet(docs') /\ Cardinality(docs') <= Cardinality(docs) + 1
    <3>1. IsFiniteSet(docs) /\ Cardinality(docs) \in Nat
      BY FS_CardinalityType
    <3>2. /\ IsFiniteSet(docs \cup {d})
          /\ Cardinality(docs \cup {d}) =
                IF d \in docs THEN Cardinality(docs) ELSE Cardinality(docs) + 1
      BY <3>1, FS_AddElement, Zenon
    <3> QED
      BY <2>1, <3>1, <3>2
  <2>3. Cardinality(docs) < Capacity /\ Cardinality(docs) \in Nat
    BY <1>7, FS_CardinalityType DEF CommitUpload, Accepts, Insert
  <2>4. \A b \in Session : pc'[b] # "checked"
    BY <1>7 DEF CommitUpload, Accepts, Insert, End
  <2>5. Cardinality(docs') \in Nat
    BY <2>2, FS_CardinalityType
  <2> QED
    BY <2>2, <2>3, <2>4, <2>5
<1>8. ASSUME NEW c \in Session, CommitUnacknowledged(c) PROVE Full'
  <2>1. PICK d : docs' = docs \cup {d}
    BY <1>8 DEF CommitUnacknowledged, Accepts, Insert
  <2>2. IsFiniteSet(docs') /\ Cardinality(docs') <= Cardinality(docs) + 1
    <3>1. IsFiniteSet(docs) /\ Cardinality(docs) \in Nat
      BY FS_CardinalityType
    <3>2. /\ IsFiniteSet(docs \cup {d})
          /\ Cardinality(docs \cup {d}) =
                IF d \in docs THEN Cardinality(docs) ELSE Cardinality(docs) + 1
      BY <3>1, FS_AddElement, Zenon
    <3> QED
      BY <2>1, <3>1, <3>2
  <2>3. Cardinality(docs) < Capacity /\ Cardinality(docs) \in Nat
    BY <1>8, FS_CardinalityType DEF CommitUnacknowledged, Accepts, Insert
  <2>4. \A b \in Session : pc'[b] # "checked"
    BY <1>8 DEF CommitUnacknowledged, Accepts, Insert, End
  <2>5. Cardinality(docs') \in Nat
    BY <2>2, FS_CardinalityType
  <2> QED
    BY <2>2, <2>3, <2>4, <2>5
<1>9. ASSUME NEW c \in Session, Reject(c) PROVE Full'
  BY <1>9 DEF Reject, End, Unlocked
<1>10. ASSUME NEW c \in Session, NEW u \in Officer, NEW v \in 1 .. MaxVersion, Change(c, u, v)
      PROVE  Full'
  BY <1>10 DEF Change, Overtake, Accept
<1>11. ASSUME NEW c \in Session, NEW u \in Admin, NEW v \in 1 .. MaxVersion, AskReassign(c, u,
     v)
      PROVE  Full'
  BY <1>11 DEF AskReassign, SameVersion, Begin
<1>12. ASSUME NEW c \in Session, NEW u \in Officer, CommitReassign(c, u)
      PROVE  Full'
  BY <1>12 DEF CommitReassign, Overtake, Accept, End
<1>13. ASSUME NEW c \in Session, NEW u \in Admin, AskDelete(c, u)
      PROVE  Full'
  BY <1>13 DEF AskDelete, Begin
<1>14. ASSUME NEW c \in Session, ListKeys(c) PROVE Full'
  BY <1>14 DEF ListKeys
<1>15. ASSUME NEW c \in Session, CommitDelete(c) PROVE Full'
  <2>1. docs' = {} /\ \A b \in Session : pc'[b] # "checked"
    BY <1>15 DEF CommitDelete, Goto
  <2> QED
    BY <2>1, FS_EmptySet
<1>16. ASSUME NEW c \in Session, NEW o \in Object, Purge(c, o)
      PROVE  Full'
  BY <1>16 DEF Purge
<1>17. ASSUME NEW c \in Session, RecordPurge(c) PROVE Full'
  BY <1>17 DEF RecordPurge, Failures, End
<1>18. ASSUME NEW c \in Session, Abort(c) PROVE Full'
  BY <1>18 DEF Abort, End
<1>19. ASSUME NEW u \in Admin, RequestDelete(u) PROVE Full'
  BY <1>19 DEF RequestDelete
<1>20. ASSUME Expire PROVE Full'
  BY <1>20 DEF Expire
<1>21. ASSUME Crash PROVE Full'
  BY <1>21 DEF Crash
<1> HIDE DEF Inv, TypeOK, HasRow, Storing, Op, PC, User, Object, Shape, Life, Full, Document,
           WithinCapacity, app, rows, deletion, session, history
<1> QED
  BY <1>0, <1>1, <1>2, <1>3, <1>4, <1>5, <1>6, <1>7, <1>8, <1>9, <1>10, <1>11, <1>12, <1>13,
       <1>14, <1>15, <1>16, <1>17, <1>18, <1>19, <1>20, <1>21
     DEF Next, Upload, ChangeApplication, Delete

(* Whoever answers records it, and a record keeps its document.              *)
LEMMA AgreeStep == ASSUME Inv, [Next]_vars PROVE Agree'
<1> USE CustodyAssumption
<1> USE DEF Inv, TypeOK, HasRow, Storing, Op, PC, User, Object, Shape, Life, Agree, Document,
           Answer, ToAnswer, app, rows, deletion, session, history
<1>0. CASE UNCHANGED vars
  BY <1>0 DEF vars
<1>1. ASSUME NEW c \in Session, NEW u \in Officer, NEW f \in File,
             NEW k \in RequestKey, AskUpload(c, u, f, k)
      PROVE  Agree'
  BY <1>1 DEF AskUpload, Begin
<1>2. ASSUME NEW c \in Session, Put(c) PROVE Agree'
  BY <1>2 DEF Put, Goto
<1>3. ASSUME NEW c \in Session, PutTooBig(c) PROVE Agree'
  BY <1>3 DEF PutTooBig, Goto
<1>4. ASSUME NEW c \in Session, Lock(c) PROVE Agree'
  BY <1>4 DEF Lock, LockRow, Goto
<1>5. ASSUME NEW c \in Session, AnswerExisting(c) PROVE Agree'
  BY <1>5 DEF AnswerExisting, End, Unlocked, Existing, Replayed, Mine, Mismatch
<1>6. ASSUME NEW c \in Session, Check(c) PROVE Agree'
  BY <1>6 DEF Check, Goto
<1>7. ASSUME NEW c \in Session, CommitUpload(c) PROVE Agree'
  BY <1>7 DEF CommitUpload, Accepts, Insert, End, Unlocked, Mine
<1>8. ASSUME NEW c \in Session, CommitUnacknowledged(c) PROVE Agree'
  BY <1>8 DEF CommitUnacknowledged, Accepts, Insert, End, Unlocked, Mine
<1>9. ASSUME NEW c \in Session, Reject(c) PROVE Agree'
  BY <1>9 DEF Reject, End, Unlocked
<1>10. ASSUME NEW c \in Session, NEW u \in Officer, NEW v \in 1 .. MaxVersion, Change(c, u, v)
      PROVE  Agree'
  BY <1>10 DEF Change, Overtake, Accept
<1>11. ASSUME NEW c \in Session, NEW u \in Admin, NEW v \in 1 .. MaxVersion, AskReassign(c, u,
     v)
      PROVE  Agree'
  BY <1>11 DEF AskReassign, SameVersion, Begin
<1>12. ASSUME NEW c \in Session, NEW u \in Officer, CommitReassign(c, u)
      PROVE  Agree'
  BY <1>12 DEF CommitReassign, Overtake, Accept, End
<1>13. ASSUME NEW c \in Session, NEW u \in Admin, AskDelete(c, u)
      PROVE  Agree'
  BY <1>13 DEF AskDelete, Begin
<1>14. ASSUME NEW c \in Session, ListKeys(c) PROVE Agree'
  BY <1>14 DEF ListKeys
<1>15. ASSUME NEW c \in Session, CommitDelete(c) PROVE Agree'
  BY <1>15 DEF CommitDelete, Goto
<1>16. ASSUME NEW c \in Session, NEW o \in Object, Purge(c, o)
      PROVE  Agree'
  BY <1>16 DEF Purge
<1>17. ASSUME NEW c \in Session, RecordPurge(c) PROVE Agree'
  BY <1>17 DEF RecordPurge, Failures, End
<1>18. ASSUME NEW c \in Session, Abort(c) PROVE Agree'
  BY <1>18 DEF Abort, End
<1>19. ASSUME NEW u \in Admin, RequestDelete(u) PROVE Agree'
  BY <1>19 DEF RequestDelete
<1>20. ASSUME Expire PROVE Agree'
  BY <1>20 DEF Expire
<1>21. ASSUME Crash PROVE Agree'
  BY <1>21 DEF Crash
<1> HIDE DEF Inv, TypeOK, HasRow, Storing, Op, PC, User, Object, Shape, Life, Agree, Document,
           Answer, ToAnswer, app, rows, deletion, session, history
<1> QED
  BY <1>0, <1>1, <1>2, <1>3, <1>4, <1>5, <1>6, <1>7, <1>8, <1>9, <1>10, <1>11, <1>12, <1>13,
       <1>14, <1>15, <1>16, <1>17, <1>18, <1>19, <1>20, <1>21
     DEF Next, Upload, ChangeApplication, Delete

(* An accepted change is for the present version, unless it was overtaken.   *)
LEMMA VersionsStep == ASSUME Inv, [Next]_vars PROVE Versions'
<1> USE CustodyAssumption
<1> USE DEF Inv, TypeOK, HasRow, Storing, Op, PC, User, Object, Shape, Versions, app, rows,
           deletion, session, history
<1>0. CASE UNCHANGED vars
  BY <1>0 DEF vars
<1>1. ASSUME NEW c \in Session, NEW u \in Officer, NEW f \in File,
             NEW k \in RequestKey, AskUpload(c, u, f, k)
      PROVE  Versions'
  BY <1>1 DEF AskUpload, Begin
<1>2. ASSUME NEW c \in Session, Put(c) PROVE Versions'
  BY <1>2 DEF Put, Goto
<1>3. ASSUME NEW c \in Session, PutTooBig(c) PROVE Versions'
  BY <1>3 DEF PutTooBig, Goto
<1>4. ASSUME NEW c \in Session, Lock(c) PROVE Versions'
  BY <1>4 DEF Lock, LockRow, Goto
<1>5. ASSUME NEW c \in Session, AnswerExisting(c) PROVE Versions'
  BY <1>5 DEF AnswerExisting, End, Unlocked
<1>6. ASSUME NEW c \in Session, Check(c) PROVE Versions'
  BY <1>6 DEF Check, Goto
<1>7. ASSUME NEW c \in Session, CommitUpload(c) PROVE Versions'
  BY <1>7 DEF CommitUpload, Accepts, Insert, End, Unlocked
<1>8. ASSUME NEW c \in Session, CommitUnacknowledged(c) PROVE Versions'
  BY <1>8 DEF CommitUnacknowledged, Accepts, Insert, End, Unlocked
<1>9. ASSUME NEW c \in Session, Reject(c) PROVE Versions'
  BY <1>9 DEF Reject, End, Unlocked
<1>10. ASSUME NEW c \in Session, NEW u \in Officer, NEW v \in 1 .. MaxVersion, Change(c, u, v)
      PROVE  Versions'
  <2>1. PICK n : accepted' = accepted \cup {n} /\ n.version = v /\ n.raced = FALSE
    <3> DEFINE new == [version |-> v, raced |-> FALSE, n |-> Cardinality(accepted)]
    <3>1. new.version = v /\ new.raced = FALSE
      BY Zenon
    <3>2. accepted' = accepted \cup {new}
      BY <1>10, Zenon DEF Change, Accept
    <3> HIDE DEF new
    <3> QED
      BY <3>1, <3>2, Zenon
  <2>2. IsFiniteSet(accepted')
    BY <2>1, FS_AddElement
  <2>3. ASSUME \A a \in accepted' : ~a.raced
        PROVE  /\ \A a \in accepted' : a.version < version'
               /\ \A a, b \in accepted' : a.version = b.version => a = b
               /\ \A b \in Session : op'[b] = "reassign" => raced'[b] \/ base'[b] = version'
    <3>1. \A a \in accepted : ~a.raced
      BY <2>1, <2>3
    <3>2. v = version /\ version \in Int /\ version' = version + 1
      <4>1. ~FALSE
        BY <2>1, <2>3, Zenon
      <4> QED
        BY <1>10, <3>1, <4>1 DEF Change
    <3>3. \A a \in accepted : a.version \in Int /\ a.version < version
      BY <3>1
    <3>4. \A b \in Session : op'[b] = "reassign" => raced'[b]
      BY <1>10 DEF Change, Overtake, End
    <3> QED
      <4>1. \A a \in accepted' : a.version < version'
        BY <2>1, <3>2, <3>3
      <4>2. \A a, b \in accepted' : a.version = b.version => a = b
        BY <2>1, <3>1, <3>2, <3>3
      <4> QED
        BY <3>4, <4>1, <4>2
  <2> QED
    BY <2>2, <2>3
<1>11. ASSUME NEW c \in Session, NEW u \in Admin, NEW v \in 1 .. MaxVersion, AskReassign(c, u,
     v)
      PROVE  Versions'
  BY <1>11 DEF AskReassign, SameVersion, Begin
<1>12. ASSUME NEW c \in Session, NEW u \in Officer, CommitReassign(c, u)
      PROVE  Versions'
  <2>1. PICK n : accepted' = accepted \cup {n} /\ n.version = base[c] /\ n.raced = raced[c]
    <3> DEFINE new == [version |-> base[c], raced |-> raced[c], n |-> Cardinality(accepted)]
    <3>1. new.version = base[c] /\ new.raced = raced[c]
      BY Zenon
    <3>2. accepted' = accepted \cup {new}
      BY <1>12, Zenon DEF CommitReassign, Accept
    <3> HIDE DEF new
    <3> QED
      BY <3>1, <3>2, Zenon
  <2>2. IsFiniteSet(accepted')
    BY <2>1, FS_AddElement
  <2>3. ASSUME \A a \in accepted' : ~a.raced
        PROVE  /\ \A a \in accepted' : a.version < version'
               /\ \A a, b \in accepted' : a.version = b.version => a = b
               /\ \A b \in Session : op'[b] = "reassign" => raced'[b] \/ base'[b] = version'
    <3>1. \A a \in accepted : ~a.raced
      BY <2>1, <2>3
    <3>2. base[c] = version /\ version \in Int /\ version' = version + 1
      <4>1. ~raced[c]
        BY <2>1, <2>3, Zenon
      <4> QED
        BY <1>12, <3>1, <4>1 DEF CommitReassign
    <3>3. \A a \in accepted : a.version \in Int /\ a.version < version
      BY <3>1
    <3>4. \A b \in Session : op'[b] = "reassign" => raced'[b]
      BY <1>12 DEF CommitReassign, Overtake, End
    <3> QED
      <4>1. \A a \in accepted' : a.version < version'
        BY <2>1, <3>2, <3>3
      <4>2. \A a, b \in accepted' : a.version = b.version => a = b
        BY <2>1, <3>1, <3>2, <3>3
      <4> QED
        BY <3>4, <4>1, <4>2
  <2> QED
    BY <2>2, <2>3
<1>13. ASSUME NEW c \in Session, NEW u \in Admin, AskDelete(c, u)
      PROVE  Versions'
  BY <1>13 DEF AskDelete, Begin
<1>14. ASSUME NEW c \in Session, ListKeys(c) PROVE Versions'
  BY <1>14 DEF ListKeys
<1>15. ASSUME NEW c \in Session, CommitDelete(c) PROVE Versions'
  BY <1>15 DEF CommitDelete, Goto
<1>16. ASSUME NEW c \in Session, NEW o \in Object, Purge(c, o)
      PROVE  Versions'
  BY <1>16 DEF Purge
<1>17. ASSUME NEW c \in Session, RecordPurge(c) PROVE Versions'
  BY <1>17 DEF RecordPurge, Failures, End
<1>18. ASSUME NEW c \in Session, Abort(c) PROVE Versions'
  BY <1>18 DEF Abort, End
<1>19. ASSUME NEW u \in Admin, RequestDelete(u) PROVE Versions'
  BY <1>19 DEF RequestDelete
<1>20. ASSUME Expire PROVE Versions'
  BY <1>20 DEF Expire
<1>21. ASSUME Crash PROVE Versions'
  BY <1>21 DEF Crash
<1> HIDE DEF Inv, TypeOK, HasRow, Storing, Op, PC, User, Object, Shape, Versions, app, rows,
           deletion, session, history
<1> QED
  BY <1>0, <1>1, <1>2, <1>3, <1>4, <1>5, <1>6, <1>7, <1>8, <1>9, <1>10, <1>11, <1>12, <1>13,
       <1>14, <1>15, <1>16, <1>17, <1>18, <1>19, <1>20, <1>21
     DEF Next, Upload, ChangeApplication, Delete

(* The inductive invariant holds in every reachable state.                   *)
THEOREM Invariance == Spec => []Inv
<1>1. Inv /\ [Next]_vars => Inv'
  BY TypeStep, ShapeStep, LifeStep, KnownStep, CustodyStep, OriginalsStep, FullStep, AgreeStep,
     VersionsStep DEF Inv
<1> QED
  BY InitInv, <1>1, PTL DEF Spec

(* Every variable keeps its type, and who is between LockRow and its end     *)
(* has the row of the application locked (documents.py:326-335).             *)
THEOREM TypeCorrect == Spec => []TypeOK
  BY Invariance, PTL DEF Inv

(* Every object is some document's, some upload's, on the tombstone, or one  *)
(* of the two kinds that are known to be lost.                               *)
THEOREM Named == Spec => []ObjectsNamed
  BY Invariance, PTL DEF Inv, Custody

(* A document has its original while the application is there.               *)
THEOREM HaveOriginals == Spec => []DocumentsHaveOriginals
  BY Invariance, PTL DEF Inv, Originals

(* The limit on documents holds for every number of concurrent uploads.      *)
THEOREM Capacious == Spec => []WithinCapacity
  BY Invariance, PTL DEF Inv, Full

(* What a key has been answered with is what it is answered with again, and  *)
(* is a document of the file that was sent.                                  *)
THEOREM Agreement == Spec => []AnswersAgree
<1>1. Inv => AnswersAgree
  <2> SUFFICES ASSUME Inv, NEW a \in answers
               PROVE  /\ live => [object |-> a.object, file |-> a.file] \in docs
                      /\ \A b \in answers : a.by = b.by /\ a.key = b.key => a = b
    BY DEF AnswersAgree
  <2>1. a \in keys /\ \A b \in answers : b \in keys
    BY DEF Inv, Agree
  <2> QED
    BY <2>1 DEF Inv, Agree
<1> QED
  BY Invariance, <1>1, PTL

(* Versions serialise, but for a reassignment that was overtaken.            *)
THEOREM Serialised == Spec => []VersionsSerialise
  BY Invariance, PTL DEF Inv, Versions, VersionsSerialise

(* Only the present owner of a live application adds a document to it.       *)
THEOREM OwnersOnly == Spec => OwnersUpload
<1> DEFINE Owned(c) ==
             op[c] = "upload" /\ docs' # docs /\ op'[c] = "none" => owner = user[c] /\ live
<1>1. ASSUME Inv, [Next]_vars PROVE \A c \in Session : Owned(c)
  <2> SUFFICES ASSUME NEW b \in Session, op[b] = "upload", docs' # docs, op'[b] = "none"
               PROVE  owner = user[b] /\ live
    OBVIOUS
  <2> USE DEF Inv, TypeOK, HasRow, Life, app, rows, deletion, session, history
  <2>0. \A c \in Session : pc[c] = "checked" => owner = user[c] /\ live
    BY <1>1
  <2>1. ASSUME NEW c \in Session, CommitUpload(c) \/ CommitUnacknowledged(c)
        PROVE  owner = user[b] /\ live
    <3>1. Accepts(c) /\ Insert(c)
      BY <2>1 DEF CommitUpload, CommitUnacknowledged
    <3>2. c = b
      BY <3>1 DEF Accepts, Insert, End
    <3>3. pc[b] = "checked"
      BY <3>1, <3>2 DEF Accepts
    <3> QED
      BY <2>0, <3>3
  <2>2. ASSUME NEW c \in Session, CommitDelete(c) PROVE FALSE
    BY <2>2 DEF CommitDelete, Goto
  <2>3. ASSUME NEW c \in Session, Upload(c), ~(CommitUpload(c) \/ CommitUnacknowledged(c))
        PROVE  docs' = docs
    BY <2>3 DEF Upload, AskUpload, Begin, Put, PutTooBig, Lock, AnswerExisting, Check, Reject
  <2>4. ASSUME NEW c \in Session, ChangeApplication(c) PROVE docs' = docs
    BY <2>4 DEF ChangeApplication, Change, AskReassign, Begin, CommitReassign
  <2>5. ASSUME NEW c \in Session, Delete(c), ~CommitDelete(c) PROVE docs' = docs
    BY <2>5 DEF Delete, AskDelete, Begin, ListKeys, Purge, RecordPurge
  <2>6. ASSUME NEW c \in Session, Abort(c) PROVE docs' = docs
    BY <2>6 DEF Abort
  <2>7. ASSUME NEW u \in Admin, RequestDelete(u) PROVE docs' = docs
    BY <2>7 DEF RequestDelete
  <2>8. Expire \/ Crash => docs' = docs
    BY DEF Expire, Crash
  <2>9. UNCHANGED vars => docs' = docs
    BY DEF vars
  <2> HIDE DEF Inv, TypeOK, Life
  <2> QED
    BY <1>1, <2>1, <2>2, <2>3, <2>4, <2>5, <2>6, <2>7, <2>8, <2>9 DEF Next
<1>2. (\A c \in Session : Owned(c)) =>
      [\A c \in Session : op[c] = "upload" /\ docs' # docs /\ op'[c] = "none" =>
          owner = user[c] /\ live]_vars
  OBVIOUS
<1> QED
  BY Invariance, <1>1, <1>2, PTL DEF Spec, OwnersUpload

-----------------------------------------------------------------------------
(* MaterialCustody implements ObjectLedger. *)

(* What a delete has listed are documents, what it purges is on the          *)
(* tombstone, and nothing on it is in the hands of an upload.                *)
Condemned ==
    /\ \A c \in Session : pc[c] = "listed" /\ live => todo[c] \subseteq Rowed
    /\ \A c \in Session : pc[c] = "purging" => todo[c] \cup failed[c] \subseteq remaining
    /\ \A c \in Session : pc[c] # "purging" => failed[c] = {}
    /\ \A c \in Session : pc[c] \in Storing => object[c] \notin remaining

(* Only c moves, it neither lists nor purges, and the tombstone stays.       *)
Aside(c) ==
    /\ \A b \in Session \ {c} :
          pc'[b] = pc[b] /\ todo'[b] = todo[b] /\ failed'[b] = failed[b] /\ object'[b] = object[b]
    /\ pc'[c] \notin {"listed", "purging"} /\ failed'[c] = {}
    /\ Rowed \subseteq Rowed' /\ remaining' = remaining /\ live' = live

LEMMA CondemnedAside ==
  ASSUME Condemned, NEW c \in Session, Aside(c),
         pc'[c] \in Storing => object'[c] \notin remaining
  PROVE  Condemned'
<1>1. \A b \in Session : pc'[b] \in {"listed", "purging"} => b # c
  BY DEF Aside
<1>2. \A b \in Session : pc'[b] = "listed" /\ live' => todo'[b] \subseteq Rowed'
  BY <1>1 DEF Condemned, Aside
<1>3. \A b \in Session : pc'[b] = "purging" => todo'[b] \cup failed'[b] \subseteq remaining'
  BY <1>1 DEF Condemned, Aside
<1>4. \A b \in Session : pc'[b] # "purging" => failed'[b] = {}
  BY DEF Condemned, Aside
<1>5. \A b \in Session : pc'[b] \in Storing => object'[b] \notin remaining'
  BY DEF Condemned, Aside
<1> QED
  BY <1>2, <1>3, <1>4, <1>5 DEF Condemned

(* The sessions that begin, go on and end.                                   *)
LEMMA BeginAside ==
  ASSUME TypeOK, Condemned, NEW c \in Session, NEW o, NEW u, NEW f, NEW k, NEW v,
         Begin(c, o, u, f, k, v)
  PROVE  Aside(c) /\ pc'[c] \notin Storing
  BY DEF TypeOK, Condemned, Begin, Aside, Storing, Rowed, app, rows, deletion

LEMMA GotoAside ==
  ASSUME TypeOK, Condemned, NEW c \in Session, NEW place \in Storing, Goto(c, place),
         pc[c] # "purging", UNCHANGED <<live, docs, remaining>>,
         \A b \in Session \ {c} : object'[b] = object[b]
  PROVE  Aside(c)
<1>1. Rowed' = Rowed
  BY DEF Rowed
<1> QED
  BY <1>1 DEF TypeOK, Condemned, Goto, Aside, Storing

LEMMA EndAside ==
  ASSUME TypeOK, NEW c \in Session, End(c), Rowed \subseteq Rowed', UNCHANGED <<live, remaining>>
  PROVE  Aside(c) /\ pc'[c] \notin Storing
  BY DEF TypeOK, End, Aside, Storing

LEMMA CondemnedStep == ASSUME Inv, Condemned, [Next]_vars PROVE Condemned'
<1>0. ASSUME UNCHANGED <<live, docs, remaining, pc, object, todo, failed>> PROVE Condemned'
  BY <1>0 DEF Condemned, Rowed
<1>1. ASSUME NEW c \in Session, NEW o, NEW u, NEW f, NEW k, NEW v, Begin(c, o, u, f, k, v)
      PROVE  Condemned'
  BY <1>1, BeginAside, CondemnedAside DEF Inv
<1>2. ASSUME NEW c \in Session, Put(c) \/ PutTooBig(c) PROVE Condemned'
  <2>1. /\ Goto(c, "stored") /\ pc[c] = "asked" /\ made' = made + 1
        /\ object' = [object EXCEPT ![c] = made'] /\ UNCHANGED <<live, docs, remaining>>
    BY <1>2 DEF Put, PutTooBig, app, rows, deletion
  <2>2. Aside(c)
    BY <2>1, GotoAside DEF Inv, TypeOK, Storing
  <2>3. object'[c] = made + 1 /\ made + 1 \notin remaining
    BY <2>1 DEF Inv, TypeOK, Known
  <2> QED
    BY <2>2, <2>3, CondemnedAside
<1>3. ASSUME NEW c \in Session, Lock(c) \/ Check(c) PROVE Condemned'
  <2>1. /\ pc[c] \in {"stored", "locked"} /\ UNCHANGED <<live, docs, remaining, object>>
        /\ \E place \in {"locked", "checked"} : Goto(c, place)
    BY <1>3 DEF Lock, LockRow, Check, app, rows, deletion
  <2>2. Aside(c)
    BY <2>1, GotoAside DEF Inv, Storing
  <2>3. object'[c] \notin remaining
    BY <2>1 DEF Condemned, Storing
  <2> QED
    BY <2>2, <2>3, CondemnedAside
<1>4. ASSUME NEW c \in Session, End(c), Rowed \subseteq Rowed', UNCHANGED <<live, remaining>>
      PROVE  Condemned'
  BY <1>4, EndAside, CondemnedAside DEF Inv
<1>5. ASSUME NEW c \in Session,
             AnswerExisting(c) \/ Reject(c) \/ Abort(c) \/ \E u \in Officer : CommitReassign(c, u)
      PROVE  Condemned'
  <2>1. End(c) /\ UNCHANGED <<docs, live, remaining>>
    BY <1>5 DEF AnswerExisting, Reject, Abort, CommitReassign, app, rows, deletion
  <2> QED
    BY <1>4, <2>1 DEF Rowed
<1>6. ASSUME NEW c \in Session, CommitUpload(c) \/ CommitUnacknowledged(c) PROVE Condemned'
  <2>1. End(c) /\ docs \subseteq docs' /\ UNCHANGED <<live, remaining>>
    BY <1>6 DEF CommitUpload, CommitUnacknowledged, Insert, deletion
  <2>2. Rowed \subseteq Rowed'
    BY <2>1 DEF Rowed
  <2> QED
    BY <1>4, <2>1, <2>2
<1>7. ASSUME NEW c \in Session, ListKeys(c) PROVE Condemned'
  <2>1. /\ pc[c] = "asked" /\ pc' = [pc EXCEPT ![c] = "listed"]
        /\ todo' = [todo EXCEPT ![c] = Rowed]
        /\ UNCHANGED <<live, docs, remaining, object, failed>>
    BY <1>7 DEF ListKeys, app, rows, deletion
  <2> QED
    BY <2>1 DEF Inv, TypeOK, Condemned, Rowed, Storing
<1>8. ASSUME NEW c \in Session, CommitDelete(c) PROVE Condemned'
  <2>1. /\ pc[c] = "listed" /\ pc' = [pc EXCEPT ![c] = "purging"] /\ live /\ ~live'
        /\ remaining' = todo[c] /\ UNCHANGED <<todo, failed, object>>
    BY <1>8 DEF CommitDelete, Goto
  <2>2. \A b \in Session : pc[b] # "purging"
    BY <2>1 DEF Inv, Life
  <2>3. failed[c] = {}
    BY <2>2 DEF Condemned
  <2>4. \A b \in Session : pc'[b] = "purging" => b = c
    BY <2>1, <2>2 DEF Inv, TypeOK
  <2>5. \A b \in Session : pc'[b] \in Storing => pc[b] \in Storing /\ object[b] \notin todo[c]
    BY <2>1 DEF Inv, TypeOK, Originals, Storing
  <2>6. \A b \in Session : failed[b] = {}
    BY <2>2 DEF Condemned
  <2> QED
    BY <2>1, <2>3, <2>4, <2>5, <2>6 DEF Condemned
<1>9. ASSUME NEW c \in Session, NEW o \in Object, Purge(c, o) PROVE Condemned'
  <2>1. /\ pc[c] = "purging" /\ o \in todo[c] /\ todo' = [todo EXCEPT ![c] = @ \ {o}]
        /\ failed' = failed \/ failed' = [failed EXCEPT ![c] = @ \cup {o}]
        /\ UNCHANGED <<live, docs, remaining, object, pc>>
    BY <1>9 DEF Purge, app, rows, deletion
  <2>2. /\ todo'[c] \subseteq todo[c] /\ failed'[c] \subseteq failed[c] \cup todo[c]
        /\ \A b \in Session \ {c} : todo'[b] = todo[b] /\ failed'[b] = failed[b]
    BY <2>1 DEF Inv, TypeOK
  <2>3. Rowed' = Rowed
    BY <2>1 DEF Rowed
  <2> QED
    BY <2>1, <2>2, <2>3 DEF Condemned
<1>10. ASSUME NEW c \in Session, RecordPurge(c) PROVE Condemned'
  <2>1. pc[c] = "purging" /\ remaining' = failed[c] /\ End(c) /\ UNCHANGED <<live, docs>>
    BY <1>10 DEF RecordPurge, Failures, app, rows
  <2>2. remaining' \subseteq remaining /\ ~live'
    BY <2>1 DEF Condemned, Inv, Life
  <2>3. /\ pc'[c] = "idle" /\ failed'[c] = {}
        /\ \A b \in Session \ {c} :
              pc'[b] = pc[b] /\ todo'[b] = todo[b] /\ failed'[b] = failed[b] /\ object'[b] = object[b]
    BY <2>1 DEF Inv, TypeOK, End
  <2>4. \A b \in Session : pc'[b] # "purging"
    BY <2>1, <2>3 DEF Inv, Life
  <2> QED
    BY <2>2, <2>3, <2>4 DEF Condemned, Storing
<1>11. CASE Crash
  BY <1>11 DEF Crash, Condemned, Storing
<1>12. ASSUME NEW c \in Session, NEW u \in Officer, NEW v \in 1 .. MaxVersion, Change(c, u, v)
       PROVE  Condemned'
  BY <1>0, <1>12 DEF Change, rows, deletion
<1>13. ASSUME NEW u \in Admin, RequestDelete(u) PROVE Condemned'
  BY <1>0, <1>13 DEF RequestDelete, app, rows, session
<1>14. CASE Expire
  BY <1>0, <1>14 DEF Expire, app, rows, session
<1>15. CASE UNCHANGED vars
  BY <1>0, <1>15 DEF vars, app, rows, deletion, session
<1>16. ASSUME NEW c \in Session, Upload(c) PROVE Condemned'
  BY <1>1, <1>2, <1>3, <1>5, <1>6, <1>16 DEF Upload, AskUpload
<1>17. ASSUME NEW c \in Session, ChangeApplication(c) PROVE Condemned'
  BY <1>1, <1>5, <1>12, <1>17 DEF ChangeApplication, AskReassign
<1>18. ASSUME NEW c \in Session, Delete(c) PROVE Condemned'
  BY <1>1, <1>7, <1>8, <1>9, <1>10, <1>18 DEF Delete, AskDelete
<1> QED
  BY <1>5, <1>11, <1>13, <1>14, <1>15, <1>16, <1>17, <1>18 DEF Next

(* What is removed by a delete is named on the tombstone (lifecycle.py:404). *)
THEOREM Condemnation == Spec => []Condemned
<1>1. Init => Condemned
  BY DEF Init, Condemned, Storing
<1>2. Inv /\ Condemned /\ [Next]_vars => Condemned'
  BY CondemnedStep
<1> QED
  BY Invariance, <1>1, <1>2, PTL DEF Spec

(* An object has one place at most.                                          *)
LEMMA Apart ==
  ASSUME Inv, Condemned
  PROVE  Held \cap Rowed = {} /\ Held \cap remaining = {} /\ Rowed \cap remaining = {}
<1>1. ASSUME NEW o \in Held PROVE o \notin Rowed /\ o \notin remaining
  <2>1. PICK c \in Session : object[c] = o /\ o \in Object
    BY DEF Held
  <2>2. pc[c] \in Storing
    BY <2>1 DEF Inv, Shape, Object
  <2>3. o \notin Rowed
    BY <2>1, <2>2 DEF Inv, Originals, Rowed
  <2>4. o \notin remaining
    BY <2>1, <2>2 DEF Condemned
  <2> QED
    BY <2>3, <2>4
<1>2. Rowed \cap remaining = {}
  BY DEF Inv, Life, Rowed
<1> QED
  BY <1>1, <1>2

(* No object is at the same time with an upload, behind a row and on the     *)
(* tombstone (documents.py:262, lifecycle.py:430): whoever removes one takes *)
(* it from nobody else.                                                      *)
THEOREM OnePlace ==
  Spec => [](Held \cap Rowed = {} /\ Held \cap remaining = {} /\ Rowed \cap remaining = {})
<1>1. Inv /\ Condemned =>
        Held \cap Rowed = {} /\ Held \cap remaining = {} /\ Rowed \cap remaining = {}
  BY Apart
<1> QED
  BY Invariance, Condemnation, <1>1, PTL

(* The objects in hand after a step of c.                                    *)
LEMMA HeldMore ==
  ASSUME TypeOK, NEW c \in Session, object[c] = 0, NEW o \in Object,
         object' = [object EXCEPT ![c] = o]
  PROVE  Held' = Held \cup {o}
<1>1. object'[c] = o /\ \A b \in Session \ {c} : object'[b] = object[b]
  BY DEF TypeOK
<1>2. 0 \notin Object
  BY DEF Object
<1> QED
  BY <1>1, <1>2 DEF Held

LEMMA HeldLess ==
  ASSUME Inv, NEW c \in Session, object' = [object EXCEPT ![c] = 0]
  PROVE  Held' = Held \ Stored(c)
<1>1. object'[c] = 0 /\ \A b \in Session \ {c} : object'[b] = object[b]
  BY DEF Inv, TypeOK
<1>2. 0 \notin Object
  BY DEF Object
<1>3. object[c] # 0 => \A b \in Session \ {c} : object[b] # object[c]
  BY DEF Inv, Shape, Originals
<1> QED
  BY <1>1, <1>2, <1>3 DEF Held, Stored

LEMMA LedgerStutters ==
  ASSUME UNCHANGED <<live, store, made, docs, remaining>>, Held' = Held
  PROVE  UNCHANGED Ledger!vars
BY DEF Ledger!vars, Rowed

LEMMA LedgerInit == ASSUME Init PROVE Ledger!Init
<1>1. 1 .. made = {}
  BY DEF Init
<1>2. Held = {}
  BY DEF Init, Held, Object
<1> QED
  BY <1>1, <1>2 DEF Init, Rowed, Ledger!Init

(* The steps that change the ledger.                                         *)
LEMMA PutTakes ==
  ASSUME Inv, NEW c \in Session, Put(c) \/ PutTooBig(c)
  PROVE  [Ledger!Next]_(Ledger!vars)
<1>0. made < MaxUploads
  BY DEF Put, PutTooBig
<1> PICK o \in Object : o = made + 1
  BY <1>0, CustodyAssumption DEF Inv, TypeOK, Object
<1>1. /\ made' = o /\ object' = [object EXCEPT ![c] = o]
      /\ pc[c] = "asked" /\ store' \in {store, store \cup {o}}
      /\ UNCHANGED <<live, docs, remaining>>
  BY DEF Put, PutTooBig, app, rows, deletion
<1>2. made \in Nat
  BY CustodyAssumption DEF Inv, TypeOK
<1>3. o \notin 1 .. made /\ 1 .. made' = (1 .. made) \cup {o}
  BY <1>1, <1>2
<1>4. object[c] = 0
  BY <1>1 DEF Inv, Shape, Storing
<1>5. Held' = Held \cup {o} /\ Rowed' = Rowed
  BY <1>1, <1>4, HeldMore DEF Inv, Rowed
<1>6. Ledger!Take(o)
  BY <1>1, <1>3, <1>5 DEF Ledger!Take
<1> QED
  BY <1>6 DEF Ledger!Next

(* An upload that ends without a row gives up the object it has, if any.     *)
LEMMA EndGivesUp ==
  ASSUME Inv, NEW c \in Session, End(c), store' \in {store, store \ Stored(c)},
         UNCHANGED <<live, made, docs, remaining>>
  PROVE  [Ledger!Next]_(Ledger!vars)
<1>1. Held' = Held \ Stored(c) /\ Rowed' = Rowed
  BY HeldLess DEF End, Rowed
<1>2. CASE Stored(c) = {}
  BY <1>1, <1>2, LedgerStutters
<1>3. CASE Stored(c) # {}
  <2>1. PICK o \in Object : Stored(c) = {o}
    BY <1>3 DEF Stored
  <2>2. o \in Held
    BY <2>1 DEF Held, Stored
  <2>3. Ledger!GiveUp(o)
    BY <1>1, <2>1, <2>2 DEF Ledger!GiveUp
  <2> QED
    BY <2>3 DEF Ledger!Next
<1> QED
  BY <1>2, <1>3

LEMMA InsertRecords ==
  ASSUME Inv, NEW c \in Session, Accepts(c), Insert(c), store' \in {store, store \ Stored(c)}
  PROVE  [Ledger!Next]_(Ledger!vars)
<1>0. pc[c] = "checked"
  BY DEF Accepts
<1> PICK o \in Object : o = object[c]
  BY <1>0 DEF Inv, TypeOK, Shape, Storing
<1>1. /\ docs' = docs \cup {[object |-> o, file |-> file[c]]} /\ End(c)
      /\ UNCHANGED <<live, made, remaining>>
  BY DEF Insert, deletion
<1>2. live
  BY <1>0 DEF Inv, Life, HasRow
<1>3. Stored(c) = {o} /\ o \in Held
  BY DEF Stored, Held
<1>4. Held' = Held \ {o} /\ Rowed' = Rowed \cup {o}
  BY <1>1, <1>3, HeldLess, RowAdded DEF End
<1>5. Ledger!Record(o)
  BY <1>1, <1>2, <1>3, <1>4 DEF Ledger!Record
<1> QED
  BY <1>5 DEF Ledger!Next

LEMMA DeleteCloses ==
  ASSUME Condemned, NEW c \in Session, CommitDelete(c)
  PROVE  [Ledger!Next]_(Ledger!vars)
<1>1. /\ pc[c] = "listed" /\ live /\ live' = FALSE /\ docs' = {} /\ remaining' = todo[c]
      /\ UNCHANGED <<store, made, object>>
  BY DEF CommitDelete, Goto
<1>2. todo[c] \subseteq Rowed
  BY <1>1 DEF Condemned
<1>3. Held' = Held /\ Rowed' = {}
  BY <1>1 DEF Held, Rowed
<1>4. Ledger!Close
  BY <1>1, <1>2, <1>3 DEF Ledger!Close
<1> QED
  BY <1>4 DEF Ledger!Next

LEMMA PurgeRemoves ==
  ASSUME Condemned, NEW c \in Session, NEW o \in Object, Purge(c, o)
  PROVE  [Ledger!Next]_(Ledger!vars)
<1>1. /\ pc[c] = "purging" /\ o \in todo[c] /\ store' \in {store, store \ {o}}
      /\ UNCHANGED <<live, made, docs, remaining, object>>
  BY DEF Purge, app, rows, deletion
<1>2. o \in remaining
  BY <1>1 DEF Condemned
<1>3. Held' = Held /\ Rowed' = Rowed
  BY <1>1 DEF Held, Rowed
<1>4. CASE store' = store
  BY <1>1, <1>3, <1>4, LedgerStutters
<1>5. CASE store' = store \ {o}
  <2>1. Ledger!Remove(o)
    BY <1>1, <1>2, <1>3, <1>5 DEF Ledger!Remove
  <2> QED
    BY <2>1 DEF Ledger!Next
<1> QED
  BY <1>1, <1>4, <1>5

LEMMA RecordPurgeForgets ==
  ASSUME Inv, Condemned, NEW c \in Session, RecordPurge(c)
  PROVE  [Ledger!Next]_(Ledger!vars)
<1>1. /\ pc[c] = "purging" /\ todo[c] = {} /\ remaining' = failed[c]
      /\ object' = [object EXCEPT ![c] = 0] /\ UNCHANGED <<live, made, docs, store>>
  BY DEF RecordPurge, Failures, End, app, rows
<1>2. failed[c] \subseteq remaining /\ remaining \cap store \subseteq failed[c]
  BY <1>1 DEF Condemned, Inv, Custody
<1>3. Stored(c) = {}
  BY <1>1 DEF Inv, Shape, Storing, Stored, Object
<1>4. Held' = Held /\ Rowed' = Rowed
  BY <1>1, <1>3, HeldLess DEF Rowed
<1>5. Ledger!Forget
  BY <1>1, <1>2, <1>4 DEF Ledger!Forget
<1> QED
  BY <1>5 DEF Ledger!Next

LEMMA CrashFails ==
  ASSUME Crash
  PROVE  [Ledger!Next]_(Ledger!vars)
<1>1. object' = [c \in Session |-> 0] /\ UNCHANGED <<live, made, docs, store, remaining>>
  BY DEF Crash, rows, deletion
<1>2. Held' = {} /\ Rowed' = Rowed
  BY <1>1 DEF Held, Rowed, Object
<1>3. Ledger!Fail
  BY <1>1, <1>2 DEF Ledger!Fail
<1> QED
  BY <1>3 DEF Ledger!Next

LEMMA LedgerStep == ASSUME Inv, Condemned, [Next]_vars PROVE [Ledger!Next]_(Ledger!vars)
<1>0. ASSUME UNCHANGED <<live, store, made, docs, remaining, object>>
      PROVE  [Ledger!Next]_(Ledger!vars)
  <2>1. Held' = Held
    BY <1>0 DEF Held
  <2> QED
    BY <1>0, <2>1, LedgerStutters
<1>1. ASSUME NEW c \in Session, NEW o, NEW u, NEW f, NEW k, NEW v, Begin(c, o, u, f, k, v)
      PROVE  [Ledger!Next]_(Ledger!vars)
  BY <1>0, <1>1 DEF Begin, app, rows, deletion
<1>2. ASSUME NEW c \in Session, Lock(c) \/ Check(c) \/ ListKeys(c)
      PROVE  [Ledger!Next]_(Ledger!vars)
  BY <1>0, <1>2 DEF Lock, Check, ListKeys, app, rows, deletion
<1>3. ASSUME NEW c \in Session, AnswerExisting(c) \/ Reject(c) \/ Abort(c)
      PROVE  [Ledger!Next]_(Ledger!vars)
  <2>1. /\ End(c) /\ store' \in {store, store \ Stored(c)}
        /\ UNCHANGED <<live, made, docs, remaining>>
    BY <1>3 DEF AnswerExisting, Reject, Abort, app, rows, deletion
  <2> QED
    BY <2>1, EndGivesUp
<1>4. ASSUME NEW c \in Session, NEW u \in Officer, CommitReassign(c, u)
      PROVE  [Ledger!Next]_(Ledger!vars)
  <2>1. End(c) /\ store' = store /\ UNCHANGED <<live, made, docs, remaining>>
    BY <1>4 DEF CommitReassign, rows, deletion
  <2> QED
    BY <2>1, EndGivesUp
<1>5. ASSUME NEW c \in Session, CommitUpload(c) \/ CommitUnacknowledged(c)
      PROVE  [Ledger!Next]_(Ledger!vars)
  <2>1. Accepts(c) /\ Insert(c) /\ store' \in {store, store \ Stored(c)}
    BY <1>5 DEF CommitUpload, CommitUnacknowledged
  <2> QED
    BY <2>1, InsertRecords
<1>6. ASSUME NEW c \in Session, NEW u \in Officer, NEW v \in 1 .. MaxVersion, Change(c, u, v)
      PROVE  [Ledger!Next]_(Ledger!vars)
  BY <1>0, <1>6 DEF Change, rows, deletion
<1>7. ASSUME NEW u \in Admin, RequestDelete(u) PROVE [Ledger!Next]_(Ledger!vars)
  BY <1>0, <1>7 DEF RequestDelete, app, rows, session
<1>8. CASE Expire
  BY <1>0, <1>8 DEF Expire, app, rows, session
<1>9. CASE UNCHANGED vars
  BY <1>0, <1>9 DEF vars, app, rows, deletion, session
<1>10. ASSUME NEW c \in Session, Upload(c) PROVE [Ledger!Next]_(Ledger!vars)
  BY <1>1, <1>2, <1>3, <1>5, <1>10, PutTakes DEF Upload, AskUpload
<1>11. ASSUME NEW c \in Session, ChangeApplication(c) PROVE [Ledger!Next]_(Ledger!vars)
  BY <1>1, <1>4, <1>6, <1>11 DEF ChangeApplication, AskReassign
<1>12. ASSUME NEW c \in Session, Delete(c) PROVE [Ledger!Next]_(Ledger!vars)
  BY <1>1, <1>2, <1>12, DeleteCloses, PurgeRemoves, RecordPurgeForgets DEF Delete, AskDelete
<1> QED
  BY <1>3, <1>7, <1>8, <1>9, <1>10, <1>11, <1>12, CrashFails DEF Next

(* What becomes of an object is what ObjectLedger allows, whatever crashes,  *)
(* fails or goes unacknowledged: its own upload removes it, or a delete that *)
(* has named it on the tombstone, and a deleted application gets no document *)
(* (documents.py:415, lifecycle.py:411).                                     *)
THEOREM LedgerImplemented == Spec => LedgerSpec
<1>1. Init => Ledger!Init
  BY LedgerInit
<1>2. Inv /\ Condemned /\ [Next]_vars => [Ledger!Next]_(Ledger!vars)
  BY LedgerStep
<1> QED
  BY Invariance, Condemnation, <1>1, <1>2, PTL DEF Spec, LedgerSpec, Ledger!Spec
=============================================================================
