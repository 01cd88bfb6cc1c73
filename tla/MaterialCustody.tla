-------------------------- MODULE MaterialCustody --------------------------
(***************************************************************************)
(* The originals of one application: rows in PostgreSQL, objects in MinIO, *)
(* which no transaction covers.  documents.upload_document stores the      *)
(* object first and removes it again if the row does not come about;       *)
(* lifecycle.confirm_hard_delete removes the rows first, and the objects   *)
(* after its commit, from a list it has left on the tombstone.             *)
(*                                                                         *)
(* An upload locks the row of the application between its two looks at it. *)
(* A hard delete and a reassignment read without a lock, and what they     *)
(* write waits for one.  The server may crash at any point, the object     *)
(* store may refuse to remove an object, and a commit may succeed without  *)
(* its session being told.                                                 *)
(***************************************************************************)
EXTENDS Integers, FiniteSets

CONSTANTS
    Session,      \* sessions of the API server
    Officer,      \* users who may own the application
    Admin,        \* administrators
    File,         \* contents of materials
    Big,          \* those above max_material_bytes
    RequestKey,   \* values of the Idempotency-Key header
    Capacity,     \* max_application_materials
    MaxUploads,   \* bound of the model: objects, at most
    MaxRequests,  \* bound of the model: hard-delete requests
    MaxVersion,   \* bound of the model: versions of the application
    None          \* no session, no user, no file

ASSUME CustodyAssumption ==
    /\ None \notin Session \cup Officer \cup Admin \cup File \cup RequestKey
    /\ Officer \cap Admin = {}
    /\ Big \subseteq File /\ Officer # {}
    /\ Capacity \in Nat /\ MaxUploads \in Nat /\ MaxRequests \in Nat /\ MaxVersion \in Nat

Object == 1 .. MaxUploads
User == Officer \cup Admin
Document == [object : Object, file : File]

VARIABLES
    live,        \* the row of the application is there
    owner,       \* applications.owner_id
    version,     \* applications.version
    lock,        \* the session that has the row FOR UPDATE
    docs,        \* documents: set of Document
    keys,        \* idempotency_records of uploads: set of [by, key, file, object]
    store,       \* objects in the bucket
    made,        \* object keys drawn so far
    asked,       \* hard_delete_requests so far
    request,     \* who made the latest one, or None once it has expired
    tomb,        \* application_tombstones: there is one
    remaining,   \* its remaining_object_keys
    op, pc, user, \* [Session -> ...], what a session does, how far it is, for whom
    file, key,   \* [Session -> ...], the material and the Idempotency-Key of an upload
    object,      \* [Session -> Object \cup {0}], the object it stores
    todo, failed,\* [Session -> SUBSET Object], a purge: keys not tried, keys that failed
    base, raced, \* [Session -> ...], the version a request is for; overtaken by another
    \* history
    adrift,      \* objects lost in a crash or refused by the store
    fresh,       \* [Session -> SUBSET Object], documents added since a delete listed them
    late,        \* objects of such documents, deleted with the application
    unsure,      \* objects removed after a commit that was not acknowledged
    answers,     \* [by, key, file, object] of uploads answered
    accepted     \* [version, raced, n] of the changes accepted

app == <<live, owner, version, lock>>
rows == <<docs, keys>>
deletion == <<asked, request, tomb, remaining>>
session == <<op, pc, user, file, key, object, todo, failed, base, raced>>
history == <<adrift, fresh, late, unsure, answers, accepted>>
vars == <<app, rows, store, made, deletion, session, history>>

Op == {"none", "upload", "change", "reassign", "delete"}
PC == {"idle", "asked", "stored", "locked", "checked", "listed", "purging"}
HasRow == {"locked", "checked"}

Answer == [by : Officer, key : RequestKey, file : File, object : Object]

TypeOK ==
    /\ live \in BOOLEAN /\ owner \in Officer /\ version \in 1 .. MaxVersion + 1
    /\ lock \in Session \cup {None}
    /\ docs \subseteq Document /\ keys \subseteq Answer
    /\ store \subseteq Object /\ made \in 0 .. MaxUploads
    /\ asked \in 0 .. MaxRequests /\ request \in Admin \cup {None}
    /\ tomb \in BOOLEAN /\ remaining \subseteq Object
    /\ op \in [Session -> Op] /\ pc \in [Session -> PC]
    /\ user \in [Session -> User \cup {None}]
    /\ file \in [Session -> File \cup {None}] /\ key \in [Session -> RequestKey \cup {None}]
    /\ object \in [Session -> Object \cup {0}]
    /\ todo \in [Session -> SUBSET Object] /\ failed \in [Session -> SUBSET Object]
    /\ base \in [Session -> Nat] /\ raced \in [Session -> BOOLEAN]
    /\ fresh \in [Session -> SUBSET Object]
    /\ adrift \subseteq Object /\ late \subseteq Object /\ unsure \subseteq Object
    /\ answers \subseteq Answer
    /\ accepted \subseteq [version : Nat, raced : BOOLEAN, n : Nat]
    /\ \A c \in Session : pc[c] \in HasRow <=> lock = c

Init ==
    /\ live = TRUE /\ owner \in Officer /\ version = 1 /\ lock = None
    /\ docs = {} /\ keys = {} /\ store = {} /\ made = 0
    /\ asked = 0 /\ request = None /\ tomb = FALSE /\ remaining = {}
    /\ op = [c \in Session |-> "none"] /\ pc = [c \in Session |-> "idle"]
    /\ user = [c \in Session |-> None]
    /\ file = [c \in Session |-> None] /\ key = [c \in Session |-> None]
    /\ object = [c \in Session |-> 0]
    /\ todo = [c \in Session |-> {}] /\ failed = [c \in Session |-> {}]
    /\ base = [c \in Session |-> 0] /\ raced = [c \in Session |-> FALSE]
    /\ adrift = {} /\ fresh = [c \in Session |-> {}] /\ late = {} /\ unsure = {}
    /\ answers = {} /\ accepted = {}

-----------------------------------------------------------------------------
(* Sessions. *)

Begin(c, o, u, f, k, v) ==
    /\ pc[c] = "idle" /\ live
    /\ op' = [op EXCEPT ![c] = o] /\ pc' = [pc EXCEPT ![c] = "asked"]
    /\ user' = [user EXCEPT ![c] = u]
    /\ file' = [file EXCEPT ![c] = f] /\ key' = [key EXCEPT ![c] = k]
    /\ base' = [base EXCEPT ![c] = v]
    /\ UNCHANGED <<app, rows, store, made, deletion, object, todo, failed, raced, history>>

\* The session is over.
End(c) ==
    /\ op' = [op EXCEPT ![c] = "none"] /\ pc' = [pc EXCEPT ![c] = "idle"]
    /\ user' = [user EXCEPT ![c] = None]
    /\ file' = [file EXCEPT ![c] = None] /\ key' = [key EXCEPT ![c] = None]
    /\ object' = [object EXCEPT ![c] = 0]
    /\ todo' = [todo EXCEPT ![c] = {}] /\ failed' = [failed EXCEPT ![c] = {}]
    /\ base' = [base EXCEPT ![c] = 0]

Goto(c, place) ==
    /\ pc' = [pc EXCEPT ![c] = place]
    /\ UNCHANGED <<op, user, file, key, todo, failed, base, raced>>

\* Mutant: an answer without a new document leaves the row locked.
Kept(c) == lock
Unlocked(c) == IF lock = c THEN None ELSE lock

Stored(c) == {object[c]} \cap Object
Held == {object[c] : c \in Session} \cap Object
Rowed == {d.object : d \in docs}

-----------------------------------------------------------------------------
(* upload_document. *)

AskUpload(c, u, f, k) == owner = u /\ Begin(c, "upload", u, f, k, 0)

\* object_store.put, under a new key.
Put(c) ==
    /\ op[c] = "upload" /\ pc[c] = "asked" /\ file[c] \notin Big
    /\ made < MaxUploads /\ made' = made + 1
    /\ store' = store \cup {made'}
    /\ object' = [object EXCEPT ![c] = made']
    /\ Goto(c, "stored")
    /\ UNCHANGED <<app, rows, deletion, history>>

\* What is too big is not stored, and its key is only a name.
PutTooBig(c) ==
    /\ op[c] = "upload" /\ pc[c] = "asked" /\ file[c] \in Big
    /\ made < MaxUploads /\ made' = made + 1
    /\ object' = [object EXCEPT ![c] = made']
    /\ Goto(c, "stored")
    /\ UNCHANGED <<app, rows, store, deletion, history>>

\* Mutant: the second look at the application does not ask for its owner.
LockAnyOwner(c) ==
    /\ op[c] = "upload" /\ pc[c] = "stored" /\ live /\ lock = None
    /\ lock' = c

\* Mutant: the second look finds the row that the session remembers.
LockRemembered(c) ==
    /\ op[c] = "upload" /\ pc[c] = "stored" /\ owner = user[c] /\ lock = None
    /\ lock' = c

\* Mutant: the second look does not wait for another session.
LockShared(c) ==
    /\ op[c] = "upload" /\ pc[c] = "stored" /\ live /\ owner = user[c]
    /\ lock' = c

LockRow(c) ==
    /\ op[c] = "upload" /\ pc[c] = "stored" /\ live /\ owner = user[c] /\ lock = None
    /\ lock' = c

Lock(c) ==
    /\ LockRow(c)
    /\ Goto(c, "locked")
    /\ UNCHANGED <<live, owner, version, rows, store, made, deletion, object, history>>

Mine(c) == {r \in keys : r.by = user[c] /\ r.key = key[c]}
Mismatch(c) == \E r \in Mine(c) : r.file # file[c]

\* Mutant: a key is replayed for whatever comes with it.
ReplayedAnyway(c) == {r.object : r \in Mine(c)}

\* replay_resource_id; a key that came with another file is refused.
Replayed(c) == {r.object : r \in {m \in Mine(c) : m.file = file[c]}}

\* existing_upload: the document of the key, or else one with the same digest.
Existing(c) ==
    IF Replayed(c) # {} THEN Replayed(c)
    ELSE IF Mismatch(c) THEN {}
    ELSE {d.object : d \in {e \in docs : e.file = file[c]}}

ToAnswer(c, o) == [by |-> user[c], key |-> key[c], file |-> file[c], object |-> o]

\* The new object is removed; a key that is new is remembered.
AnswerExisting(c) ==
    \E o \in Existing(c) :
        /\ op[c] = "upload" /\ pc[c] = "locked"
        /\ store' = store \ Stored(c)
        /\ keys' = keys \cup (IF Mine(c) = {} THEN {ToAnswer(c, o)} ELSE {})
        /\ answers' = answers \cup {ToAnswer(c, o)}
        /\ lock' = Unlocked(c)
        /\ End(c) /\ UNCHANGED raced
        /\ UNCHANGED <<live, owner, version, docs, made, deletion>>
        /\ UNCHANGED <<adrift, fresh, late, unsure, accepted>>

\* enforce_application_capacity
Check(c) ==
    /\ op[c] = "upload" /\ pc[c] = "locked"
    /\ Existing(c) = {} /\ ~Mismatch(c)
    /\ Cardinality(docs) < Capacity
    /\ Goto(c, "checked")
    /\ UNCHANGED <<app, rows, store, made, deletion, object, history>>

\* The unique keys of the database.
Accepts(c) ==
    /\ op[c] = "upload" /\ pc[c] = "checked"
    /\ Mine(c) = {} /\ \A d \in docs : d.file # file[c]

Insert(c) ==
    /\ docs' = docs \cup {[object |-> object[c], file |-> file[c]]}
    /\ keys' = keys \cup {ToAnswer(c, object[c])}
    /\ lock' = Unlocked(c)
    /\ fresh' = [b \in Session |->
           IF pc[b] = "listed" THEN fresh[b] \cup Stored(c) ELSE fresh[b]]
    /\ End(c) /\ UNCHANGED raced
    /\ UNCHANGED <<live, owner, version, made, deletion, adrift, late, accepted>>

CommitUpload(c) ==
    /\ Accepts(c) /\ Insert(c)
    /\ answers' = answers \cup {ToAnswer(c, object[c])}
    /\ UNCHANGED <<store, unsure>>

\* The commit gets through, its acknowledgement does not: the handler of
\* exceptions removes the object of a document that is there.
CommitUnacknowledged(c) ==
    /\ Accepts(c) /\ Insert(c)
    /\ store' = store \ Stored(c)
    /\ unsure' = unsure \cup Stored(c)
    /\ UNCHANGED answers

\* An exception: roll back and remove the object, unless the store refuses.
Reject(c) ==
    /\ op[c] = "upload"
    /\ lock' = Unlocked(c)
    /\ \/ store' = store \ Stored(c) /\ UNCHANGED adrift
       \/ UNCHANGED store /\ adrift' = adrift \cup (Stored(c) \cap store)
    /\ End(c) /\ UNCHANGED raced
    /\ UNCHANGED <<live, owner, version, rows, made, deletion>>
    /\ UNCHANGED <<fresh, late, unsure, answers, accepted>>

-----------------------------------------------------------------------------
(* Changes of the application: an officer's, which locks the row before it   *)
(* looks at the version, and an administrator's, which does not.             *)

\* Reassignments that have read the version now have a stale one.
Overtake(c) ==
    raced' = [b \in Session |-> b # c /\ (raced[b] \/ op[b] = "reassign")]

Accept(c, v, r) ==
    accepted' = accepted \cup {[version |-> v, raced |-> r, n |-> Cardinality(accepted)]}

\* complete, reopen, archive: one step, between the lock and the commit.
Change(c, u, v) ==
    /\ pc[c] = "idle" /\ live /\ lock = None
    /\ owner = u /\ version = v /\ version <= MaxVersion
    /\ version' = version + 1
    /\ Overtake(c) /\ Accept(c, v, FALSE)
    /\ UNCHANGED <<live, owner, lock, rows, store, made, deletion>>
    /\ UNCHANGED <<op, pc, user, file, key, object, todo, failed, base>>
    /\ UNCHANGED <<adrift, fresh, late, unsure, answers>>

\* Mutant: a reassignment goes by the version there is.
AnyVersion(v) == TRUE
SameVersion(v) == version = v

AskReassign(c, u, v) ==
    /\ SameVersion(v) /\ version <= MaxVersion
    /\ Begin(c, "reassign", u, None, None, v)

\* The version that was read, plus one, is written over the one there is.
CommitReassign(c, u) ==
    /\ op[c] = "reassign" /\ live /\ lock = None
    /\ owner' = u /\ version' = base[c] + 1
    /\ Accept(c, base[c], raced[c]) /\ Overtake(c)
    /\ End(c)
    /\ UNCHANGED <<live, lock, rows, store, made, deletion>>
    /\ UNCHANGED <<adrift, fresh, late, unsure, answers>>

-----------------------------------------------------------------------------
(* Hard delete in two phases. *)

RequestDelete(u) ==
    /\ live /\ asked < MaxRequests /\ asked' = asked + 1
    /\ request' = u
    /\ UNCHANGED <<app, rows, store, made, tomb, remaining, session, history>>

Expire ==
    /\ request # None /\ request' = None
    /\ UNCHANGED <<app, rows, store, made, asked, tomb, remaining, session, history>>

\* The token of the latest request.
AskDelete(c, u) == request = u /\ Begin(c, "delete", u, None, None, 0)

\* Mutant: the objects are removed as soon as they are listed.
ListAndRemove(c) ==
    /\ op[c] = "delete" /\ pc[c] = "asked"
    /\ todo' = [todo EXCEPT ![c] = Rowed]
    /\ pc' = [pc EXCEPT ![c] = "listed"] /\ fresh' = [fresh EXCEPT ![c] = {}]
    /\ store' = store \ Rowed
    /\ UNCHANGED <<app, rows, made, deletion>>
    /\ UNCHANGED <<op, user, file, key, object, failed, base, raced>>
    /\ UNCHANGED <<adrift, late, unsure, answers, accepted>>

ListKeys(c) ==
    /\ op[c] = "delete" /\ pc[c] = "asked"
    /\ todo' = [todo EXCEPT ![c] = Rowed]
    /\ pc' = [pc EXCEPT ![c] = "listed"] /\ fresh' = [fresh EXCEPT ![c] = {}]
    /\ UNCHANGED <<app, rows, store, made, deletion>>
    /\ UNCHANGED <<op, user, file, key, object, failed, base, raced>>
    /\ UNCHANGED <<adrift, late, unsure, answers, accepted>>

\* The rows go with all that refers to them, the tombstone comes: one commit.
\* The delete waits for whoever has locked the row, and takes what they added.
CommitDelete(c) ==
    /\ op[c] = "delete" /\ pc[c] = "listed"
    /\ live /\ lock = None /\ ~tomb
    /\ live' = FALSE /\ docs' = {}
    /\ tomb' = TRUE /\ remaining' = todo[c]
    /\ late' = late \cup fresh[c]
    /\ Goto(c, "purging")
    /\ UNCHANGED <<owner, version, lock, keys, store, made, asked, request, object>>
    /\ UNCHANGED <<adrift, fresh, unsure, answers, accepted>>

\* The objects are removed one by one.  One that the store says it has not
\* removed may be gone all the same.
Purge(c, o) ==
    /\ pc[c] = "purging" /\ o \in todo[c]
    /\ todo' = [todo EXCEPT ![c] = @ \ {o}]
    /\ \/ store' = store \ {o} /\ UNCHANGED failed
       \/ store' \in {store, store \ {o}} /\ failed' = [failed EXCEPT ![c] = @ \cup {o}]
    /\ UNCHANGED <<app, rows, made, deletion, op, pc, user, file, key, object, base, raced>>
    /\ UNCHANGED history

\* Mutant: the tombstone is cleared at the end of the purge.
Nothing(c) == {}
Failures(c) == failed[c]

RecordPurge(c) ==
    /\ pc[c] = "purging" /\ todo[c] = {}
    /\ remaining' = Failures(c)
    /\ End(c)
    /\ UNCHANGED <<app, rows, store, made, asked, request, tomb, raced, history>>

\* A request that is refused or fails before its commit.
Abort(c) ==
    /\ op[c] \in {"reassign", "delete"} /\ pc[c] # "purging"
    /\ raced' = [raced EXCEPT ![c] = FALSE]
    /\ End(c)
    /\ UNCHANGED <<app, rows, store, made, deletion, history>>

\* The server dies, and every session with it.
Crash ==
    /\ adrift' = adrift \cup (Held \cap store)
    /\ lock' = None
    /\ op' = [c \in Session |-> "none"] /\ pc' = [c \in Session |-> "idle"]
    /\ user' = [c \in Session |-> None]
    /\ file' = [c \in Session |-> None] /\ key' = [c \in Session |-> None]
    /\ object' = [c \in Session |-> 0]
    /\ todo' = [c \in Session |-> {}] /\ failed' = [c \in Session |-> {}]
    /\ base' = [c \in Session |-> 0] /\ raced' = [c \in Session |-> FALSE]
    /\ UNCHANGED <<live, owner, version, rows, store, made, deletion>>
    /\ UNCHANGED <<fresh, late, unsure, answers, accepted>>

-----------------------------------------------------------------------------

Upload(c) ==
    \/ \E u \in Officer, f \in File, k \in RequestKey : AskUpload(c, u, f, k)
    \/ Put(c) \/ PutTooBig(c) \/ Lock(c) \/ AnswerExisting(c) \/ Check(c)
    \/ CommitUpload(c) \/ CommitUnacknowledged(c) \/ Reject(c)

ChangeApplication(c) ==
    \/ \E u \in Officer, v \in 1 .. MaxVersion : Change(c, u, v)
    \/ \E u \in Admin, v \in 1 .. MaxVersion : AskReassign(c, u, v)
    \/ \E u \in Officer : CommitReassign(c, u)

Delete(c) ==
    \/ \E u \in Admin : AskDelete(c, u)
    \/ ListKeys(c) \/ CommitDelete(c)
    \/ \E o \in Object : Purge(c, o)
    \/ RecordPurge(c)

Next ==
    \/ \E c \in Session : Upload(c) \/ ChangeApplication(c) \/ Delete(c) \/ Abort(c)
    \/ \E u \in Admin : RequestDelete(u)
    \/ Expire
    \/ Crash

Spec == Init /\ [][Next]_vars

-----------------------------------------------------------------------------
(* Properties. *)

\* Every object in the bucket belongs to a document, to an upload under way, or
\* is listed on the tombstone, in every state and through every crash of a
\* delete.  Otherwise it was lost in a crash or failure of an upload
\* (documents.py:262) or belongs to a document that was added between the two
\* statements of confirm_hard_delete (lifecycle.py:407-411).
ObjectsNamed == store \subseteq Rowed \cup Held \cup remaining \cup adrift \cup late

\* A document has its original until the application is deleted, unless it was
\* too big to be stored or its commit was not acknowledged (documents.py:415).
DocumentsHaveOriginals ==
    \A d \in docs : d.file \in Big \/ d.object \in store \/ d.object \in unsure

\* The limit on documents holds, whoever uploads at once (documents.py:334).
WithinCapacity == Cardinality(docs) <= Capacity

\* Whatever a key is sent with and however often, the document in the answer is
\* one of the file that was sent, and the same for the same key
\* (documents.py:156, idempotency.py:27).
AnswersAgree ==
    \A a \in answers :
        /\ live => [object |-> a.object, file |-> a.file] \in docs
        /\ \A b \in answers : a.by = b.by /\ a.key = b.key => a = b

\* A document is added by who owns the application when it is, even if it was
\* reassigned while the material was sent (lifecycle.py:281).
OwnersUpload ==
    [][\A c \in Session : op[c] = "upload" /\ docs' # docs /\ op'[c] = "none" =>
          owner = user[c] /\ live]_vars

\* No two changes are accepted for one version of the application, until a
\* reassignment is overtaken between its look at the version and its commit
\* (lifecycle.py:291).
VersionsSerialise ==
    (\A a \in accepted : ~a.raced) =>
        \A a, b \in accepted : a.version = b.version => a = b

Ledger == INSTANCE ObjectLedger WITH
    open <- live, drawn <- 1 .. made, held <- Held, rows <- Rowed,
    condemned <- remaining, kept <- store

\* Uploads and the delete implement ObjectLedger: through crashes, refusals of
\* the store and commits that are not acknowledged, an object is removed by its
\* own upload, or by the delete once the tombstone names it and the rows are
\* gone, and no upload adds a document to what is deleted (documents.py:415,
\* lifecycle.py:411).
LedgerSpec == Ledger!Spec
=============================================================================
