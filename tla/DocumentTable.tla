---------------------------- MODULE DocumentTable ----------------------------
(***************************************************************************)
(* The life of the rows of the local SQLite database: documents in a tree, *)
(* moved to the recycle bin with their descendants, restored, purged, and  *)
(* written by commands that were under way meanwhile.                      *)
(*                                                                         *)
(* The rows a document owns in document_tags, document_revisions and       *)
(* document_ai_data are kept consistent by the commands alone: foreign     *)
(* keys are declared and switched off.  Only empty_recycle_bin runs in a   *)
(* transaction; a loop or a sequence of statements of another command may  *)
(* stop after any of them.                                                 *)
(***************************************************************************)
EXTENDS Integers

CONSTANTS
    MaxDocs,    \* documents there can be
    MaxOps      \* bound: user operations and restarts in a behaviour

ASSUME MaxDocsAssumption == MaxDocs \in Nat
ASSUME MaxOpsAssumption == MaxOps \in Nat

VARIABLES
    present,    \* the documents that have a row
    parent,     \* parent_id of the row, Root for NULL
    deletedAt,  \* deleted_at of the row, 0 for NULL
    tags,       \* the documents with rows in document_tags
    revisions,  \* the documents with rows in document_revisions
    aiData,     \* the documents with a row in document_ai_data
    shown,      \* parent_id of the copy the user interface shows
    saving,     \* the outstanding save_document of each document
    extracting, \* the documents extract_info is working on
    ops,        \* operations so far: what the clock shows
    deletion,   \* history: the operation that put a document in the bin
    emptied     \* history: the documents purged by emptying the bin

rows == <<present, parent, deletedAt>>
data == <<tags, revisions, aiData>>
requests == <<shown, saving, extracting>>
history == <<deletion, emptied>>
vars == <<rows, data, requests, ops, history>>

-----------------------------------------------------------------------------
(* Documents are numbered in the order of their creation, so the parent of *)
(* one has a smaller number.  Documents are never moved to another folder. *)
Doc == 1 .. MaxDocs
Root == 0
Parent == 0 .. MaxDocs

(* What a request does to the tags: it has none, an empty list, or some.   *)
Request == [parent : Parent, tags : {"keep", "clear", "set"},
            revision : BOOLEAN, pending : BOOLEAN]

NoRequest == [parent |-> Root, tags |-> "keep",
              revision |-> FALSE, pending |-> FALSE]

Live(d) == d \in present /\ deletedAt[d] = 0
InBin(d) == d \in present /\ deletedAt[d] # 0

(* WITH RECURSIVE descendants(id): the document, and every row whose       *)
(* parent is one of them.                                                  *)
Descendants(d) ==
    {e \in Doc : \A S \in SUBSET Doc :
        d \in S /\ (\A c \in present : parent[c] \in S => c \in S) => e \in S}

-----------------------------------------------------------------------------
Init ==
    /\ parent \in {p \in [Doc -> Parent] : \A d \in Doc : p[d] < d}
    /\ present \in {1 .. n : n \in Parent}
    /\ \A d \in Doc \ present : parent[d] = Root
    /\ shown = parent
    /\ deletedAt = [d \in Doc |-> 0]
    /\ tags = {}
    /\ revisions = {}
    /\ aiData = {}
    /\ saving = [d \in Doc |-> NoRequest]
    /\ extracting = {}
    /\ ops = 0
    /\ deletion = [d \in Doc |-> 0]
    /\ emptied = {}

-----------------------------------------------------------------------------
(* The user saves.  The request holds what the store shows at that time;   *)
(* the command writes it when it gets the database lock.                   *)

Operate ==
    /\ ops < MaxOps
    /\ ops' = ops + 1

Send(d, request) ==
    /\ ~saving[d].pending
    /\ saving' = [saving EXCEPT ![d] = request]
    /\ UNCHANGED <<rows, data, extracting, history>>

Asks(p, t, revision) ==
    [parent |-> p, tags |-> t, revision |-> revision, pending |-> TRUE]

CreateDocument(d, p) ==
    /\ Operate
    /\ d \notin present \cup emptied
    /\ \A e \in 1 .. (d - 1) : e \in present \cup emptied \/ saving[e].pending
    /\ p < d
    /\ p = Root \/ Live(p)
    /\ Send(d, Asks(p, "keep", FALSE))
    /\ shown' = [shown EXCEPT ![d] = p]

(* saveDocument, renameDocument, removeTagFromDocument and the editor.     *)
SaveDocument(d, t, revision) ==
    /\ Operate
    /\ Live(d)
    /\ Send(d, Asks(shown[d], t, revision))
    /\ UNCHANGED shown

(* toggleFavorite and addTagToDocument: the request has no parent_id,      *)
(* which save_document writes as NULL, and no version.                     *)
PartialSave(d, t) ==
    /\ Operate
    /\ Live(d)
    /\ Send(d, Asks(Root, t, FALSE))
    /\ UNCHANGED shown

(* handleRestore moves a document whose parent is not there to the root    *)
(* before it restores it.                                                  *)
MoveToRoot(d, t, revision) ==
    /\ Operate
    /\ InBin(d)
    /\ shown[d] # Root /\ ~Live(shown[d])
    /\ Send(d, Asks(Root, t, revision))
    /\ shown' = [shown EXCEPT ![d] = Root]

-----------------------------------------------------------------------------
(* The command save_document under the lock: upsert, tags, revision.       *)
(* deleted_at is left alone; the row of a purged document is inserted.     *)

Upsert(d, p) ==
    /\ present' = present \cup {d}
    /\ parent' = [parent EXCEPT ![d] = p]
    /\ UNCHANGED deletedAt

TagsAfter(d, t) ==
    CASE t = "keep" -> tags
      [] t = "clear" -> tags \ {d}
      [] t = "set" -> tags \cup {d}

WriteDocument(d) ==
    LET request == saving[d] IN
    /\ request.pending
    /\ Upsert(d, request.parent)
    /\ tags' = TagsAfter(d, request.tags)
    /\ revisions' = IF request.revision THEN revisions \cup {d} ELSE revisions
    /\ saving' = [saving EXCEPT ![d] = NoRequest]
    /\ UNCHANGED <<aiData, shown, extracting, ops, history>>

(* A statement after the upsert fails, or the client stops there: the old  *)
(* tags are there, or they are gone, or some of the new ones are there.    *)
WriteStops(d) ==
    LET request == saving[d] IN
    /\ request.pending
    /\ Upsert(d, request.parent)
    /\ tags' \in IF request.tags = "keep" THEN {tags}
                 ELSE {tags, tags \ {d}, TagsAfter(d, request.tags)}
    /\ saving' = [saving EXCEPT ![d] = NoRequest]
    /\ UNCHANGED <<revisions, aiData, shown, extracting, ops, history>>

-----------------------------------------------------------------------------
(* extract_info: minutes may pass between the request and the write.       *)

ExtractInfo(d) ==
    /\ Operate
    /\ Live(d)
    /\ d \notin extracting
    /\ extracting' = extracting \cup {d}
    /\ UNCHANGED <<rows, data, shown, saving, history>>

(* Mutant: the row is taken to be there still.                             *)
ExtractUpsertMissing(d) == UNCHANGED <<present, parent>>

(* Mutant: an empty text instead of NULL, the id of no document.           *)
ExtractUpsertEmptyParent(d) ==
    /\ present' = present \cup {d}
    /\ parent' = [parent EXCEPT ![d] = IF d \in present THEN @ ELSE MaxDocs + 1]

(* The INSERT has no parent_id and no deleted_at; on conflict both stay.   *)
ExtractUpsert(d) ==
    /\ present' = present \cup {d}
    /\ parent' = [parent EXCEPT ![d] = IF d \in present THEN @ ELSE Root]

(* The statements run one after another: the document, the AI data, the    *)
(* old tags away, the new ones in.  Any of the later ones may fail.        *)
ExtractWrites(d) ==
    /\ d \in extracting
    /\ extracting' = extracting \ {d}
    /\ ExtractUpsert(d)
    /\ \/ UNCHANGED <<aiData, tags>>
       \/ /\ aiData' = aiData \cup {d}
          /\ tags' \in {tags, tags \ {d}, tags \cup {d}}
    /\ UNCHANGED <<deletedAt, revisions, shown, saving, ops, history>>

ExtractFails(d) ==
    /\ d \in extracting
    /\ extracting' = extracting \ {d}
    /\ UNCHANGED <<rows, data, shown, saving, ops, history>>

-----------------------------------------------------------------------------
(* The command delete_document.                                            *)

(* Mutant: the deletion time of nested documents is overwritten.           *)
MarksAll(e) == TRUE

(* AND deleted_at IS NULL: nested deletions keep their time.               *)
Marks(e) == deletedAt[e] = 0

(* The rows are marked one by one, a row after its parent, each with the   *)
(* same time; `done' is how far the loop got.                              *)
DeleteDocument(d, done) ==
    LET marked == {e \in done \cap present : Marks(e)} IN
    /\ Operate
    /\ Live(d)
    /\ done \subseteq Descendants(d)
    /\ \A e \in done \ {d} : parent[e] \in done
    /\ deletedAt' = [e \in Doc |-> IF e \in marked THEN ops' ELSE deletedAt[e]]
    /\ deletion' = [e \in Doc |-> IF e \in marked /\ Live(e)
                                  THEN ops' ELSE deletion[e]]
    /\ UNCHANGED <<present, parent, data, requests, emptied>>

(* deleted_at is a BLOB that the command reads as text: for a document in  *)
(* the bin the query fails, and the branch "Hard Delete" is never reached. *)
DeleteForever(d) ==
    /\ Operate
    /\ InBin(d)
    /\ UNCHANGED <<rows, data, requests, history>>

-----------------------------------------------------------------------------
(* The command restore_document.                                           *)

(* "Only restore if deleted at the exact same time".                       *)
Restores(d) ==
    {e \in Descendants(d) : InBin(e) /\ deletedAt[e] = deletedAt[d]}

(* The rows are updated one by one; `done' is how far the loop got.        *)
RestoreDocument(d, done) ==
    /\ Operate
    /\ InBin(d)
    /\ done \subseteq Restores(d)
    /\ deletedAt' = [e \in Doc |-> IF e \in done THEN 0 ELSE deletedAt[e]]
    /\ deletion' = [e \in Doc |-> IF e \in done THEN 0 ELSE deletion[e]]
    /\ UNCHANGED <<present, parent, data, requests, emptied>>

-----------------------------------------------------------------------------
(* The command empty_recycle_bin: one transaction.                         *)

(* Mutant: what lies below a document in the bin is purged with it.        *)
PurgedWithDescendants == UNION {Descendants(d) : d \in {e \in Doc : InBin(e)}}

Purged == {d \in Doc : InBin(d)}

EmptyRecycleBin ==
    /\ Operate
    /\ Purged # {}
    /\ present' = present \ Purged
    /\ parent' = [d \in Doc |-> IF d \in Purged THEN Root ELSE parent[d]]
    /\ deletedAt' = [d \in Doc |-> IF d \in Purged THEN 0 ELSE deletedAt[d]]
    /\ deletion' = [d \in Doc |-> IF d \in Purged THEN 0 ELSE deletion[d]]
    /\ tags' = tags \ Purged
    /\ revisions' = revisions \ Purged
    /\ aiData' = aiData \ Purged
    /\ emptied' = emptied \cup Purged
    /\ UNCHANGED requests

-----------------------------------------------------------------------------
(* The store takes what the table holds.                                   *)

ShownRows == [d \in Doc |-> IF d \in present THEN parent[d] ELSE shown[d]]

FetchDocuments ==
    /\ shown' = ShownRows
    /\ UNCHANGED <<rows, data, saving, extracting, ops, history>>

(* The client stops and is started again: outstanding commands are gone.   *)
Restart ==
    /\ Operate
    /\ saving' = [d \in Doc |-> NoRequest]
    /\ extracting' = {}
    /\ shown' = ShownRows
    /\ UNCHANGED <<rows, data, history>>

-----------------------------------------------------------------------------
Next ==
    \/ \E d \in Doc :
          \/ \E p \in Parent : CreateDocument(d, p)
          \/ \E t \in {"keep", "clear", "set"}, revision \in BOOLEAN :
                SaveDocument(d, t, revision) \/ MoveToRoot(d, t, revision)
          \/ \E t \in {"keep", "set"} : PartialSave(d, t)
          \/ WriteDocument(d)
          \/ WriteStops(d)
          \/ ExtractInfo(d)
          \/ ExtractWrites(d)
          \/ ExtractFails(d)
          \/ \E done \in SUBSET Doc :
                DeleteDocument(d, done) \/ RestoreDocument(d, done)
          \/ DeleteForever(d)
    \/ EmptyRecycleBin
    \/ FetchDocuments
    \/ Restart

Spec == Init /\ [][Next]_vars

-----------------------------------------------------------------------------
(* Type invariant: every variable keeps its type; in particular parent_id  *)
(* is NULL or the id of a document there has been.                         *)
TypeOK ==
    /\ present \subseteq Doc
    /\ parent \in [Doc -> Parent]
    /\ deletedAt \in [Doc -> Nat]
    /\ tags \subseteq Doc
    /\ revisions \subseteq Doc
    /\ aiData \subseteq Doc
    /\ shown \in [Doc -> Parent]
    /\ saving \in [Doc -> Request]
    /\ extracting \subseteq Doc
    /\ ops \in Nat
    /\ deletion \in [Doc -> Nat]
    /\ emptied \subseteq Doc

(* With foreign keys off, no command leaves tags, revisions or AI data of  *)
(* a document that has no row, even one that finishes after the document   *)
(* was purged.                                                             *)
NoOrphanData == tags \cup revisions \cup aiData \subseteq present

(* restore_document undoes one deletion: the documents a step takes out of *)
(* the bin all went there by the same operation, and those deleted on      *)
(* their own before stay.                                                  *)
Revived == {d \in present : deletedAt[d] # 0 /\ deletedAt'[d] = 0
                            /\ d \in present'}

RestoreRevivesOneDeletion ==
    [][\A d, e \in Revived : deletion[d] = deletion[e]]_vars

(* empty_recycle_bin purges what is in the bin and nothing else: a live    *)
(* document, such as one a late save put below a deleted folder, keeps its *)
(* row whatever the other commands do.                                     *)
LiveNeverPurged ==
    [][\A d \in present \ present' : deletedAt[d] # 0]_vars

=============================================================================
