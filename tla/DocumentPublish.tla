--------------------------- MODULE DocumentPublish ---------------------------
(***************************************************************************)
(* Saving and publishing one document of the desktop client.               *)
(*                                                                         *)
(* Three copies of the document are kept: the one the user interface shows *)
(* (`store', the documents array of documentStore.ts), the row of the      *)
(* local SQLite table (`row'), and what the index service was given        *)
(* (`index').  The Tauri command save_document writes the row under the    *)
(* database lock, drops the lock, posts a Published document to the server *)
(* and, when the post fails, takes the lock again and undoes the           *)
(* publication with a relative UPDATE.  Commands run concurrently: between *)
(* any two steps of one, a step of another may happen.                     *)
(*                                                                         *)
(* save_document touches only the rows of its own document, so one         *)
(* document and several calls show every interleaving there is.            *)
(***************************************************************************)
EXTENDS Integers

CONSTANTS
    Slot,       \* the calls the user interface may have outstanding at once
    MaxOps      \* bound: user operations and restarts in a behaviour

ASSUME MaxOpsAssumption == MaxOps \in Nat

VARIABLES
    store,      \* the copy the user interface shows
    row,        \* the row in the documents table
    revisions,  \* the rows of document_revisions
    index,      \* what the index service was given
    token,      \* AuthState.token is Some: FALSE after an offline login
    seen,       \* last_synced_at of the row is before the store's lastSyncedAt
    calls,      \* the outstanding call of each slot
    ops,        \* operations so far; the number of one names what it wrote
    amiss       \* history: what befell the row since it was last saved

syncVars == <<index, token>>
vars == <<store, row, revisions, syncVars, seen, calls, ops, amiss>>

-----------------------------------------------------------------------------
(* Data.  Titles, bodies and tags are named by the number of the operation *)
(* that made them; 0 is an empty text, or no tags.                         *)

(* "Draft" stands for Feedback too: nothing here tells the two apart.      *)
DocumentState == {"Draft", "Published"}
GroupType == {"Department", "Project", "Private"}
Text == Nat

Document == [state : DocumentState, version : Int, group : GroupType,
             title : Text, body : Text, tags : Text]

Revision == [version : Nat \ {0}, title : Text, body : Text]

(* What the index service is given: neither the body nor an id.  The       *)
(* summary, the embedding, the group and the times are left out.           *)
Entry == [title : Text, tags : Text]

(* "save" is documentStore.saveDocument, "favorite" toggleFavorite, "tags"  *)
(* the tag editors, "editor" handleSave of the editor.                     *)
Kind == {"none", "save", "favorite", "tags", "rename", "editor", "extract", "fetch"}

(* "asked"    the metadata panel waits for the user's confirmation         *)
(* "sent"     the command is invoked and has not taken the lock yet        *)
(* "syncing"  the row is written, the post is on its way                   *)
(* "stored"   the server has stored it, its answer is on its way           *)
(* "failed"   the post failed, the row is not rolled back yet              *)
(* "ok" "err" the command has returned, the promise is not handled yet     *)
(* "extracting": extract_info awaits the models; "fetch", "listed" and     *)
(* "empty": list_documents is asked, or answered with or without the row   *)
Phase == {"idle", "asked", "sent", "syncing", "stored", "failed", "ok", "err",
          "extracting", "fetch", "listed", "empty"}

(* doc is the request, or the row list_documents read; old is what an      *)
(* optimistic update replaced; saved tells a fetch that the row was saved  *)
(* at or after the lastSyncedAt it sent, and a list that the row was saved *)
(* after the list was read; latest is history: no call has written the row *)
(* since this one.                                                         *)
Call == [phase : Phase, kind : Kind, doc : Document, old : Document,
         saved : BOOLEAN, latest : BOOLEAN]

NoDocument == [state |-> "Draft", version |-> 0, group |-> "Private",
               title |-> 0, body |-> 0, tags |-> 0]

IdleCall == [phase |-> "idle", kind |-> "none", doc |-> NoDocument,
             old |-> NoDocument, saved |-> FALSE, latest |-> FALSE]

(* "untagged": the request had no tags and the row kept its own, of which  *)
(* the index is given none.  "extracted", "halfWritten": extract_info, or  *)
(* a section that stopped between statements, wrote the row.  "cutShort",  *)
(* "notUndone": a crash came before its publication was known, or the      *)
(* statement of the rollback failed.                                       *)
Mishap == {"untagged", "extracted", "halfWritten", "cutShort", "notUndone"}

(* save_document posts a document that is Published and not Private.       *)
MustSync(d) == d.state = "Published" /\ d.group # "Private"

(* The requests of saveDocument and of the tag editors have the tags.      *)
SendsTags(c) == c.kind \in {"save", "tags"}

(* `req.tags.clone().unwrap_or_default()'.                                 *)
Posted(c) == [title |-> c.doc.title, tags |-> IF SendsTags(c) THEN c.doc.tags ELSE 0]

-----------------------------------------------------------------------------
(* A document createDocument has just made, and the store that shows it.   *)

Init ==
    /\ \E g \in GroupType : row = [NoDocument EXCEPT !.group = g]
    /\ store = row
    /\ revisions = {}
    /\ index = {}
    /\ token \in BOOLEAN
    /\ seen \in BOOLEAN
    /\ calls = [s \in Slot |-> IdleCall]
    /\ ops = 0
    /\ amiss = {}

-----------------------------------------------------------------------------
(* What the user does.  Each operation reads the store and invokes a       *)
(* command; the handlers run to their first await in one go.               *)

New == ops + 1

Begin(s, phase, kind, doc) ==
    /\ ops < MaxOps
    /\ ops' = ops + 1
    /\ calls[s].phase = "idle"
    /\ calls' = [calls EXCEPT ![s] =
                    [phase |-> phase, kind |-> kind, doc |-> doc,
                     old |-> IF kind \in {"favorite", "tags"} THEN store ELSE NoDocument,
                     saved |-> (phase = "fetch" /\ ~seen), latest |-> FALSE]]
    /\ UNCHANGED <<row, revisions, syncVars, seen, amiss>>

(* saveDocument of a copy with a chosen state: what is sent.               *)
Request(copy) ==
    [copy EXCEPT !.version = @ + IF copy.state = "Published" THEN 1 ELSE 0]

(* The status and visibility menus of the metadata panel, which a Private  *)
(* document does not have.  Publishing again republishes.                  *)
SaveDocument(s, state) ==
    LET copy == [store EXCEPT !.state = state] IN
    /\ store.group # "Private"
    /\ state = "Published" => store.state = "Published"
    /\ store' = copy
    /\ Begin(s, "sent", "save", Request(copy))

(* They ask first when the document is to be published, or its visibility  *)
(* is not that of the group; the copy was taken before the question.       *)
AskFirst(s, state) ==
    /\ store.group # "Private"
    /\ state \in {"Published", store.state}
    /\ \A t \in Slot : calls[t].phase # "asked"
    /\ Begin(s, "asked", "save", [store EXCEPT !.state = state])
    /\ UNCHANGED store

Confirm(s) ==
    /\ calls[s].phase = "asked"
    /\ store' = calls[s].doc
    /\ calls' = [calls EXCEPT ![s].phase = "sent", ![s].doc = Request(@)]
    /\ UNCHANGED <<row, revisions, syncVars, seen, ops, amiss>>

Decline(s) ==
    /\ calls[s].phase = "asked"
    /\ calls' = [calls EXCEPT ![s] = IdleCall]
    /\ UNCHANGED <<store, row, revisions, syncVars, seen, ops, amiss>>

(* toggleFavorite, and addTagToDocument and removeTagFromDocument, whose   *)
(* requests have the tags.  None has a version, which save_document reads  *)
(* as 0.                                                                   *)
PartialSave(s, kind, tags) ==
    /\ store' = [store EXCEPT !.tags = tags]
    /\ Begin(s, "sent", kind, [store EXCEPT !.tags = tags, !.version = 0])

ToggleFavorite(s) == PartialSave(s, "favorite", store.tags)
EditTags(s) == PartialSave(s, "tags", New)

RenameDocument(s) ==
    /\ store' = [store EXCEPT !.title = New]
    /\ Begin(s, "sent", "rename", [store EXCEPT !.title = New, !.version = 0])

(* `doc.group_type || 2' in handleSave: Department is 0 and 2 is Private.  *)
EditorGroup(g) == IF g = "Department" THEN "Private" ELSE g

EditorSave(s) ==
    /\ Begin(s, "sent", "editor",
             [store EXCEPT !.title = New, !.body = New, !.group = EditorGroup(@)])
    /\ UNCHANGED store

(* Typing in the body of a Published document makes the shown copy a draft *)
(* again; the row stays Published until it is saved.                       *)
EditBody ==
    /\ store.state = "Published"
    /\ store' = [store EXCEPT !.state = "Draft"]
    /\ UNCHANGED <<row, revisions, syncVars, seen, calls, ops, amiss>>

ExtractInfo(s) ==
    /\ Begin(s, "extracting", "extract",
             [store EXCEPT !.title = New, !.body = New, !.tags = New])
    /\ UNCHANGED store

FetchDocuments(s) ==
    /\ Begin(s, "fetch", "fetch", NoDocument)
    /\ UNCHANGED store

-----------------------------------------------------------------------------
(* The command save_document.                                              *)

(* A save sets the row's last_synced_at, so that fetches after it, and     *)
(* those that sent an older lastSyncedAt, are answered with the row.       *)
(* What else wrote the row before is not the latest any more.              *)
Touched ==
    [t \in Slot |->
        [calls[t] EXCEPT !.saved = @ \/ calls[t].phase \in {"fetch", "listed", "empty"},
                         !.latest = FALSE]]

RevisionOf(d) == [version |-> d.version, title |-> d.title, body |-> d.body]

(* Mutant: a revision that exists is kept instead of replaced.             *)
KeepRevision(d) ==
    IF d.group # "Private" /\ d.version > 0
       /\ \A r \in revisions : r.version # d.version
    THEN revisions \cup {RevisionOf(d)}
    ELSE revisions

(* Mutant: no test that the version is above 0.                            *)
RevisionOfAnyVersion(d) ==
    IF d.group # "Private"
    THEN {r \in revisions : r.version # d.version}
            \cup {RevisionOf(d)}
    ELSE revisions

(* INSERT ... ON CONFLICT(document_id, version) DO UPDATE.                 *)
RevisionsWith(d) ==
    IF d.group # "Private" /\ d.version > 0
    THEN {r \in revisions : r.version # d.version}
            \cup {RevisionOf(d)}
    ELSE revisions

(* The upsert; a request without tags leaves the row its own.              *)
Written(c) == [c.doc EXCEPT !.tags = IF SendsTags(c) THEN @ ELSE row.tags]

(* The section under the database lock.                                    *)
WriteRow(s) ==
    LET c == calls[s] IN
    /\ c.phase = "sent"
    /\ row' = Written(c)
    /\ amiss' = IF SendsTags(c) THEN {} ELSE {"untagged"}
    /\ revisions' = RevisionsWith(c.doc)
    /\ seen' = FALSE
    /\ calls' = [Touched EXCEPT ![s].phase = IF MustSync(c.doc) THEN "syncing" ELSE "ok",
                                ![s].latest = TRUE]
    /\ UNCHANGED <<store, syncVars, ops>>

(* The statements of the section are no transaction: when one after the    *)
(* upsert fails the command returns its error, the row stays as written,   *)
(* with the tags of before, none or the new ones, and there is neither a   *)
(* revision nor a post.                                                    *)
WriteFails(s) ==
    LET c == calls[s] IN
    /\ c.phase = "sent"
    /\ \E tags \in {row.tags} \cup IF SendsTags(c) THEN {0, c.doc.tags} ELSE {} :
          row' = [c.doc EXCEPT !.tags = tags]
    /\ amiss' = {"halfWritten"}
    /\ seen' = FALSE
    /\ calls' = [Touched EXCEPT ![s].phase = "err"]
    /\ UNCHANGED <<store, revisions, syncVars, ops>>

Advance(s, from, to) ==
    /\ calls[s].phase = from
    /\ calls' = [calls EXCEPT ![s].phase = to]
    /\ UNCHANGED <<store, row, revisions, token, seen, ops, amiss>>

(* The upsert itself fails, or an encryption before it.                    *)
WriteRefused(s) ==
    /\ Advance(s, "sent", "err")
    /\ UNCHANGED index

PostStored(s) ==
    /\ token
    /\ Advance(s, "syncing", "stored")
    /\ index' = index \cup {Posted(calls[s])}

(* Mutant: an early return before the rollback.                            *)
PostFailsForgotten(s) ==
    /\ Advance(s, "syncing", "err")
    /\ UNCHANGED index

(* No token, no connection, or an answer that is not a success.            *)
PostFails(s) ==
    /\ Advance(s, "syncing", "failed")
    /\ UNCHANGED index

AnswerArrives(s) ==
    /\ Advance(s, "stored", "ok")
    /\ UNCHANGED index

(* The connection breaks after the server has stored the document.         *)
AnswerLost(s) ==
    /\ Advance(s, "stored", "failed")
    /\ UNCHANGED index

(* Mutant: only the version is reverted.                                   *)
RollbackVersionOnly(s) ==
    /\ calls[s].phase = "failed"
    /\ row' = [row EXCEPT !.version = @ - 1]
    /\ calls' = [calls EXCEPT ![s].phase = "err"]
    /\ UNCHANGED <<store, revisions, syncVars, seen, ops, amiss>>

(* UPDATE documents SET document_state = 1, version = version - 1: the row *)
(* as it is now, whoever wrote it last; last_synced_at is left alone.      *)
Rollback(s) ==
    /\ calls[s].phase = "failed"
    /\ row' = [row EXCEPT !.state = "Draft", !.version = @ - 1]
    /\ calls' = [calls EXCEPT ![s].phase = "err"]
    /\ UNCHANGED <<store, revisions, syncVars, seen, ops, amiss>>

(* `let _ = conn.execute(...)': that the statement fails is not looked at. *)
RollbackFails(s) ==
    /\ calls[s].phase = "failed"
    /\ amiss' = IF calls[s].latest THEN amiss \cup {"notUndone"} ELSE amiss
    /\ calls' = [calls EXCEPT ![s].phase = "err"]
    /\ UNCHANGED <<store, row, revisions, syncVars, seen, ops>>

-----------------------------------------------------------------------------
(* The end of extract_info: title, content and tags of the row are         *)
(* replaced, its state, version and group are not.  Its statements are no  *)
(* transaction either.                                                     *)

ExtractOver(s, tags) ==
    LET d == calls[s].doc IN
    /\ calls[s].phase = "extracting"
    /\ row' = [row EXCEPT !.title = d.title, !.body = d.body, !.tags = tags]
    /\ amiss' = amiss \cup {"extracted"}
    /\ seen' = FALSE
    /\ UNCHANGED <<store, revisions, syncVars, ops>>

ExtractWrites(s) ==
    /\ ExtractOver(s, calls[s].doc.tags)
    /\ calls' = [Touched EXCEPT ![s].phase = "ok"]

ExtractStops(s) ==
    /\ \E tags \in {row.tags, 0} : ExtractOver(s, tags)
    /\ calls' = [Touched EXCEPT ![s] = IdleCall]

ExtractFails(s) ==
    /\ calls[s].phase = "extracting"
    /\ calls' = [calls EXCEPT ![s] = IdleCall]
    /\ UNCHANGED <<store, row, revisions, syncVars, seen, ops, amiss>>

-----------------------------------------------------------------------------
(* The user interface handles what the commands return.                    *)

FetchAgain == [IdleCall EXCEPT !.phase = "fetch", !.kind = "fetch",
                               !.saved = ~seen]

(* saveDocument and handleSave show the document the command returned,     *)
(* which repeats the request; after an extraction the store is refreshed.  *)
ReturnOk(s) ==
    LET c == calls[s] IN
    /\ c.phase = "ok"
    /\ store' = IF c.kind \in {"save", "editor"} THEN c.doc ELSE store
    /\ calls' = [calls EXCEPT
                    ![s] = IF c.kind = "extract" THEN FetchAgain ELSE IdleCall]
    /\ UNCHANGED <<row, revisions, syncVars, seen, ops, amiss>>

(* saveDocument and renameDocument fetch, the partial saves put back the   *)
(* copy they had replaced, handleSave only reports.                        *)
ReturnErr(s) ==
    LET c == calls[s] IN
    /\ c.phase = "err"
    /\ store' = IF c.kind \in {"favorite", "tags"} THEN c.old ELSE store
    /\ calls' = [calls EXCEPT
                    ![s] = IF c.kind \in {"save", "rename"}
                           THEN FetchAgain ELSE IdleCall]
    /\ UNCHANGED <<row, revisions, syncVars, seen, ops, amiss>>

ListDocuments(s) ==
    /\ calls[s].phase = "fetch"
    /\ calls' = [calls EXCEPT
                    ![s].phase = IF calls[s].saved THEN "listed" ELSE "empty",
                    ![s].doc = row,
                    ![s].saved = FALSE]
    /\ UNCHANGED <<store, row, revisions, syncVars, seen, ops, amiss>>

(* The answer's last_synced_at becomes the store's lastSyncedAt: a row     *)
(* saved since is not seen, one saved in the same second may be.           *)
ApplyList(s) ==
    LET c == calls[s] IN
    /\ c.phase \in {"listed", "empty"}
    /\ store' = IF c.phase = "listed" THEN c.doc ELSE store
    /\ seen' \in IF c.saved THEN {FALSE}
                 ELSE IF c.phase = "empty" THEN {TRUE} ELSE BOOLEAN
    /\ calls' = [calls EXCEPT ![s] = IdleCall]
    /\ UNCHANGED <<row, revisions, syncVars, ops, amiss>>

-----------------------------------------------------------------------------
(* The client stops at any point and is started again: outstanding calls   *)
(* are gone, a post on its way may still arrive, init_database runs its    *)
(* version migration, the user logs in online or offline and the store,    *)
(* which is not persisted, is filled from the table.                       *)

Migrated(d) == IF d.state # "Published" /\ d.version = 1
               THEN [d EXCEPT !.version = 0] ELSE d

InPhase(phases) == {s \in Slot : calls[s].phase \in phases}

Restart ==
    /\ ops < MaxOps
    /\ ops' = ops + 1
    /\ calls' = [s \in Slot |-> IdleCall]
    /\ \E arriving \in SUBSET {Posted(calls[s]) : s \in InPhase({"syncing"})} :
          /\ token \/ arriving = {}
          /\ index' = index \cup arriving
    /\ amiss' = IF \E s \in InPhase({"syncing", "failed"}) : calls[s].latest
                THEN amiss \cup {"cutShort"} ELSE amiss
    /\ row' = Migrated(row)
    /\ store' = row'
    /\ token' \in BOOLEAN
    /\ seen' \in BOOLEAN
    /\ UNCHANGED revisions

-----------------------------------------------------------------------------
UserOperation(s) ==
    \/ \E state \in DocumentState : SaveDocument(s, state) \/ AskFirst(s, state)
    \/ Confirm(s)
    \/ Decline(s)
    \/ ToggleFavorite(s)
    \/ EditTags(s)
    \/ RenameDocument(s)
    \/ EditorSave(s)
    \/ ExtractInfo(s)
    \/ FetchDocuments(s)

(* The steps of a call that wait for nothing but the lock.                 *)
LocalStep(s) ==
    \/ WriteRow(s)
    \/ WriteFails(s)
    \/ WriteRefused(s)
    \/ Rollback(s)
    \/ RollbackFails(s)
    \/ ReturnOk(s)
    \/ ReturnErr(s)
    \/ ListDocuments(s)
    \/ ApplyList(s)

(* The steps that wait for the server, or for the models.                  *)
RemoteStep(s) ==
    \/ PostStored(s)
    \/ PostFails(s)
    \/ AnswerArrives(s)
    \/ AnswerLost(s)
    \/ ExtractWrites(s)
    \/ ExtractStops(s)
    \/ ExtractFails(s)

Next ==
    \/ \E s \in Slot : UserOperation(s) \/ LocalStep(s) \/ RemoteStep(s)
    \/ EditBody
    \/ Restart

Spec == Init /\ [][Next]_vars

(* Commands are tasks of an async runtime: what waits for the lock alone   *)
(* goes on.  A post has no timeout and may hang; the user need not do      *)
(* anything.                                                               *)
FairSpec == Spec /\ \A s \in Slot : WF_vars(LocalStep(s))

-----------------------------------------------------------------------------
(* Type invariant: every variable keeps its type; in particular no         *)
(* revision has a version below 1 (save_document writes none for them).    *)
TypeOK ==
    /\ store \in Document
    /\ row \in Document
    /\ revisions \subseteq Revision
    /\ index \subseteq Entry
    /\ token \in BOOLEAN
    /\ seen \in BOOLEAN
    /\ calls \in [Slot -> Call]
    /\ ops \in Nat
    /\ amiss \subseteq Mishap

(* What the index ought to have of the row.                                *)
RowEntry == [title |-> row.title, tags |-> IF "untagged" \in amiss THEN 0 ELSE row.tags]

Unsettled == \E s \in InPhase({"syncing", "failed"}) : calls[s].latest

(* save_document rolls back every publication the server did not           *)
(* confirm: the index was given the title and the tags of a row that says  *)
(* Published, or the call that wrote the row is still to post it or to     *)
(* undo it.  The exceptions are named: the tags, when the request had      *)
(* none; and a row that something else befell since it was saved.          *)
PublishedIsIndexed ==
    MustSync(row) /\ amiss \subseteq {"untagged"} => RowEntry \in index \/ Unsettled

(* The row of a Published document and its revision are written under one  *)
(* lock: the revision with the row's version has the title and the body    *)
(* that were published, however many saves, rollbacks and restarts came    *)
(* before, unless a statement failed between the two or extract_info wrote *)
(* over the row.                                                           *)
PublishedHasRevision ==
    MustSync(row) /\ row.version > 0 =>
        RevisionOf(row) \in revisions \/ amiss \cap {"extracted", "halfWritten"} # {}

Pending == MustSync(row) /\ amiss \subseteq {"untagged"} /\ RowEntry \notin index

(* A row that claims Published before the server knows it does not stay    *)
(* so: it is indexed, or it stops being Published, or the rollback failed; *)
(* provided that every post gets an answer or an error, which no timeout   *)
(* ensures.                                                                *)
EveryPostEnds == \A s \in Slot : []<>(calls[s].phase \notin {"syncing", "stored"})
PublishSettles == EveryPostEnds => (Pending ~> ~Pending)

=============================================================================
