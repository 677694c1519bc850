----------------------- MODULE DocumentPublish_proofs -----------------------
(***************************************************************************)
(* Proofs about DocumentPublish, for any set of slots and any number of    *)
(* operations.  The type invariant is inductive by itself; the two safety  *)
(* invariants are inductive relative to it.                                *)
(***************************************************************************)
EXTENDS DocumentPublish, TLAPS

-----------------------------------------------------------------------------
(* Putting a well-typed call in one slot keeps the calls well typed.       *)
LEMMA CallsUpdate ==
    ASSUME NEW f \in [Slot -> Call], NEW s \in Slot, NEW c \in Call
    PROVE  [f EXCEPT ![s] = c] \in [Slot -> Call]
    OBVIOUS

(* A call keeps its type when its phase changes.                           *)
LEMMA PhaseUpdate ==
    ASSUME NEW c \in Call, NEW p \in Phase
    PROVE  [c EXCEPT !.phase = p] \in Call
    BY DEF Call

(* A document whose fields are replaced by values of their types is one.   *)
LEMMA StateUpdate ==
    ASSUME NEW d \in Document, NEW state \in DocumentState, NEW v \in Int
    PROVE  [d EXCEPT !.state = state, !.version = v] \in Document
    BY DEF Document

LEMMA TextUpdate ==
    ASSUME NEW d \in Document, NEW x \in Text, NEW y \in Text, NEW z \in Text,
           NEW v \in Int
    PROVE  [d EXCEPT !.title = x, !.body = y, !.tags = z, !.version = v] \in Document
    BY DEF Document

(* The same for the updates that leave some of the fields alone.           *)
LEMMA SomeTextUpdates ==
    ASSUME NEW d \in Document, NEW x \in Text, NEW y \in Text, NEW z \in Text
    PROVE  /\ [d EXCEPT !.tags = z] \in Document
           /\ [d EXCEPT !.tags = z, !.version = 0] \in Document
           /\ [d EXCEPT !.title = x] \in Document
           /\ [d EXCEPT !.title = x, !.version = 0] \in Document
           /\ [d EXCEPT !.title = x, !.body = y, !.tags = z] \in Document
<1>1. 0 \in Int
    OBVIOUS
<1> QED BY <1>1 DEF Document

(* An idle call, and the fetch that follows a failed save, are calls.      *)
LEMMA ConstantCalls ==
    ASSUME seen \in BOOLEAN
    PROVE  NoDocument \in Document /\ IdleCall \in Call /\ FetchAgain \in Call
<1>1. NoDocument \in Document
    BY DEF NoDocument, Document, DocumentState, GroupType, Text
<1>2. IdleCall \in Call
    BY <1>1 DEF IdleCall, Call, Phase, Kind
<1>3. (~seen) \in BOOLEAN
    OBVIOUS
<1>4. FetchAgain \in Call
    BY <1>2, <1>3 DEF FetchAgain, Call, Phase, Kind
<1> QED BY <1>1, <1>2, <1>4

(* A save in progress keeps the other calls well typed.                    *)
LEMMA TouchedType ==
    ASSUME calls \in [Slot -> Call]
    PROVE  Touched \in [Slot -> Call]
    BY DEF Touched, Call

(* A save touches no call but the fetches.                                 *)
LEMMA TouchedFrame ==
    ASSUME calls \in [Slot -> Call], NEW t \in Slot
    PROVE  /\ Touched[t].phase = calls[t].phase /\ Touched[t].doc = calls[t].doc
           /\ Touched[t].kind = calls[t].kind /\ Touched[t].latest = FALSE
    BY DEF Touched, Call

(* The revisions a save leaves are revisions.                              *)
LEMMA RevisionsType ==
    ASSUME revisions \subseteq Revision, NEW d \in Document
    PROVE  RevisionsWith(d) \subseteq Revision
    BY DEF RevisionsWith, RevisionOf, Revision, Document, Text

-----------------------------------------------------------------------------
(* Starting a call keeps the types, when its request is a document.        *)
LEMMA BeginType ==
    ASSUME TypeOK, NEW s \in Slot, NEW p \in Phase, NEW k \in Kind,
           NEW d \in Document, Begin(s, p, k, d), store' \in Document
    PROVE  TypeOK'
<1>1. ops' \in Nat
    BY DEF TypeOK, Begin
<1>2. [phase |-> p, kind |-> k, doc |-> d,
       old |-> IF k \in {"favorite", "tags"} THEN store ELSE NoDocument,
       saved |-> (p = "fetch" /\ ~seen), latest |-> FALSE] \in Call
    <2>1. NoDocument \in Document
        BY ConstantCalls DEF TypeOK
    <2>2. (p = "fetch" /\ ~seen) \in BOOLEAN
        OBVIOUS
    <2>3. 0 \in Int
        OBVIOUS
    <2> QED BY <2>1, <2>2, <2>3 DEF TypeOK, Call
<1>3. calls' \in [Slot -> Call]
    BY <1>2, CallsUpdate DEF TypeOK, Begin
<1> QED BY <1>1, <1>3 DEF TypeOK, Begin, syncVars

LEMMA TypeInit == Init => TypeOK
<1> SUFFICES ASSUME Init PROVE TypeOK
    OBVIOUS
<1>1. NoDocument \in Document /\ IdleCall \in Call
    BY ConstantCalls DEF Init
<1>2. row \in Document
    BY <1>1 DEF Init, Document
<1> QED BY <1>1, <1>2 DEF Init, TypeOK, Text

LEMMA TypeUserOperation ==
    ASSUME TypeOK, NEW s \in Slot, UserOperation(s)
    PROVE  TypeOK'
<1>1. /\ store \in Document /\ store.tags \in Text /\ store.group \in GroupType
      /\ New \in Text
    BY DEF TypeOK, Document, Text, New
<1>2. calls[s] \in Call /\ calls[s].doc \in Document
    BY DEF TypeOK, Call
<1>3. \A copy \in Document : Request(copy) \in Document
    <2> TAKE copy \in Document
    <2> DEFINE v == copy.version + IF copy.state = "Published" THEN 1 ELSE 0
    <2>1. v \in Int
        BY DEF Document
    <2>2. Request(copy) = [copy EXCEPT !.version = v]
        BY DEF Request, Document
    <2> QED BY <2>1, <2>2 DEF Document
<1>4. \A state \in DocumentState : [store EXCEPT !.state = state] \in Document
    BY <1>1 DEF Document
<1>5. ASSUME NEW state \in DocumentState, SaveDocument(s, state) PROVE TypeOK'
    <2> DEFINE copy == [store EXCEPT !.state = state]
    <2>1. store' = copy /\ Begin(s, "sent", "save", Request(copy))
        BY <1>5 DEF SaveDocument
    <2> QED BY <1>3, <1>4, <2>1, BeginType DEF Phase, Kind
<1>6. ASSUME NEW state \in DocumentState, AskFirst(s, state) PROVE TypeOK'
    BY <1>1, <1>4, <1>6, BeginType DEF AskFirst, Phase, Kind
<1>7. CASE Confirm(s)
    <2> DEFINE c == [calls[s] EXCEPT !.phase = "sent", !.doc = Request(calls[s].doc)]
    <2>1. c \in Call
        BY <1>2, <1>3 DEF Call, Phase
    <2>2. calls' = [calls EXCEPT ![s] = c]
        BY <1>2, <1>7 DEF Confirm, TypeOK, Call
    <2>3. calls' \in [Slot -> Call]
        BY <2>1, <2>2, CallsUpdate DEF TypeOK
    <2> QED BY <1>2, <1>7, <2>3 DEF Confirm, TypeOK, syncVars
<1>8. CASE Decline(s)
    <2>1. IdleCall \in Call
        BY ConstantCalls DEF TypeOK
    <2>2. calls' \in [Slot -> Call]
        BY <1>8, <2>1, CallsUpdate DEF Decline, TypeOK
    <2> QED BY <1>8, <2>2 DEF Decline, TypeOK, syncVars
<1>9. ASSUME NEW k \in {"favorite", "tags"}, NEW tags \in Text,
             PartialSave(s, k, tags)
      PROVE  TypeOK'
    <2>1. /\ [store EXCEPT !.tags = tags] \in Document
          /\ [store EXCEPT !.tags = tags, !.version = 0] \in Document
        BY <1>1, SomeTextUpdates
    <2>2. k \in Kind /\ "sent" \in Phase
        BY DEF Kind, Phase
    <2>3. Begin(s, "sent", k, [store EXCEPT !.tags = tags, !.version = 0])
          /\ store' \in Document
        BY <1>9, <2>1 DEF PartialSave
    <2> QED BY <2>1, <2>2, <2>3, BeginType
<1>10. CASE RenameDocument(s)
    <2>1. /\ [store EXCEPT !.title = New] \in Document
          /\ [store EXCEPT !.title = New, !.version = 0] \in Document
        BY <1>1, SomeTextUpdates
    <2> QED BY <1>10, <2>1, BeginType DEF RenameDocument, Phase, Kind
<1>11. CASE EditorSave(s)
    <2>1. EditorGroup(store.group) \in GroupType
        BY <1>1 DEF EditorGroup, GroupType
    <2>2. [store EXCEPT !.title = New, !.body = New, !.group = EditorGroup(@)]
              \in Document
        BY <1>1, <2>1 DEF Document
    <2> QED BY <1>1, <1>11, <2>2, BeginType DEF EditorSave, Phase, Kind
<1>12. CASE ExtractInfo(s)
    <2>1. [store EXCEPT !.title = New, !.body = New, !.tags = New] \in Document
        BY <1>1, SomeTextUpdates
    <2> QED BY <1>1, <1>12, <2>1, BeginType DEF ExtractInfo, Phase, Kind
<1>13. CASE FetchDocuments(s)
    <2>1. NoDocument \in Document
        BY ConstantCalls DEF TypeOK
    <2> QED BY <1>1, <1>13, <2>1, BeginType DEF FetchDocuments, Phase, Kind
<1> QED BY <1>1, <1>5, <1>6, <1>7, <1>8, <1>9, <1>10, <1>11, <1>12, <1>13
        DEF UserOperation, ToggleFavorite, EditTags

LEMMA TypeLocalStep ==
    ASSUME TypeOK, NEW s \in Slot, LocalStep(s)
    PROVE  TypeOK'
<1> USE DEF syncVars
<1> DEFINE d == calls[s].doc
<1>1. calls[s] \in Call /\ d \in Document /\ calls[s].old \in Document
      /\ row \in Document /\ row.tags \in Text /\ d.tags \in Text /\ 0 \in Text
    BY DEF TypeOK, Call, Document, Text
<1>2. IdleCall \in Call /\ FetchAgain \in Call
    BY ConstantCalls DEF TypeOK
<1>3. Touched \in [Slot -> Call] /\ Touched[s] \in Call
    BY TouchedType DEF TypeOK
<1>4. CASE WriteRow(s)
    <2> DEFINE p == IF MustSync(d) THEN "syncing" ELSE "ok"
    <2>1. [Touched[s] EXCEPT !.phase = p, !.latest = TRUE] \in Call
        BY <1>3 DEF Call, Phase
    <2>2. calls' = [Touched EXCEPT
               ![s] = [Touched[s] EXCEPT !.phase = p, !.latest = TRUE]]
        BY <1>3, <1>4 DEF WriteRow, Call
    <2>3. calls' \in [Slot -> Call]
        BY <1>3, <2>1, <2>2, CallsUpdate
    <2>4. revisions' \subseteq Revision
        BY <1>1, <1>4, RevisionsType DEF WriteRow, TypeOK
    <2>5. Written(calls[s]) \in Document
        BY <1>1, SomeTextUpdates DEF Written, Document
    <2> QED BY <1>4, <2>3, <2>4, <2>5 DEF WriteRow, TypeOK, Mishap
<1>5. CASE WriteFails(s)
    <2>1. calls' \in [Slot -> Call]
        BY <1>3, <1>5, PhaseUpdate, CallsUpdate DEF WriteFails, Phase
    <2>2. row' \in Document
        <3>1. \A tags \in {row.tags, 0, d.tags} : [d EXCEPT !.tags = tags] \in Document
            BY <1>1, SomeTextUpdates
        <3> QED BY <1>5, <3>1 DEF WriteFails
    <2> QED BY <1>5, <2>1, <2>2 DEF WriteFails, TypeOK, Mishap
<1>6. CASE WriteRefused(s)
    <2>1. calls' \in [Slot -> Call]
        BY <1>1, <1>6, PhaseUpdate, CallsUpdate DEF WriteRefused, Advance, TypeOK, Phase
    <2> QED BY <1>6, <2>1 DEF WriteRefused, Advance, TypeOK
<1>7. CASE Rollback(s)
    <2>1. row' \in Document
        <3>1. row.version - 1 \in Int
            BY DEF TypeOK, Document
        <3>2. "Draft" \in DocumentState /\ row \in Document
            BY DEF DocumentState, TypeOK
        <3>3. row' = [row EXCEPT !.state = "Draft",
                                 !.version = row.version - 1]
            BY <1>7, <3>2 DEF Rollback, Document
        <3> QED BY <3>1, <3>2, <3>3, StateUpdate
    <2>2. calls' \in [Slot -> Call]
        BY <1>1, <1>7, PhaseUpdate, CallsUpdate DEF Rollback, TypeOK, Phase
    <2> QED BY <1>7, <2>1, <2>2 DEF Rollback, TypeOK
<1>8. CASE RollbackFails(s)
    <2>1. calls' \in [Slot -> Call]
        BY <1>1, <1>8, PhaseUpdate, CallsUpdate DEF RollbackFails, TypeOK, Phase
    <2> QED BY <1>8, <2>1 DEF RollbackFails, TypeOK, Mishap
<1>9. CASE ReturnOk(s)
    <2>1. calls' \in [Slot -> Call]
        BY <1>2, <1>9, CallsUpdate DEF ReturnOk, TypeOK
    <2> QED BY <1>1, <1>9, <2>1 DEF ReturnOk, TypeOK
<1>10. CASE ReturnErr(s)
    <2>1. calls' \in [Slot -> Call]
        BY <1>2, <1>10, CallsUpdate DEF ReturnErr, TypeOK
    <2> QED BY <1>1, <1>10, <2>1 DEF ReturnErr, TypeOK
<1>11. CASE ListDocuments(s)
    <2> DEFINE p == IF calls[s].saved THEN "listed" ELSE "empty"
    <2>1. [calls[s] EXCEPT !.phase = p, !.doc = row, !.saved = FALSE] \in Call
        BY <1>1 DEF Call, Phase, TypeOK
    <2>2. calls' = [calls EXCEPT ![s] =
                [calls[s] EXCEPT !.phase = p, !.doc = row, !.saved = FALSE]]
        BY <1>1, <1>11 DEF ListDocuments, TypeOK, Call
    <2>3. calls' \in [Slot -> Call]
        BY <2>1, <2>2, CallsUpdate DEF TypeOK
    <2> QED BY <1>11, <2>3 DEF ListDocuments, TypeOK
<1>12. CASE ApplyList(s)
    <2>1. calls' \in [Slot -> Call]
        BY <1>2, <1>12, CallsUpdate DEF ApplyList, TypeOK
    <2>2. seen' \in BOOLEAN
        BY <1>12 DEF ApplyList
    <2> QED BY <1>1, <1>12, <2>1, <2>2 DEF ApplyList, TypeOK
<1> QED BY <1>4, <1>5, <1>6, <1>7, <1>8, <1>9, <1>10, <1>11, <1>12 DEF LocalStep

LEMMA TypeRemoteStep ==
    ASSUME TypeOK, NEW s \in Slot, RemoteStep(s)
    PROVE  TypeOK'
<1> USE DEF syncVars
<1> DEFINE d == calls[s].doc
<1>1. /\ calls[s] \in Call /\ d \in Document /\ row \in Document
      /\ d.title \in Text /\ d.body \in Text /\ d.tags \in Text
      /\ row.tags \in Text /\ 0 \in Text
    BY DEF TypeOK, Call, Document, Text
<1>2. IdleCall \in Call
    BY ConstantCalls DEF TypeOK
<1>3. Touched \in [Slot -> Call] /\ Touched[s] \in Call
    BY TouchedType DEF TypeOK
<1>4. ASSUME NEW from, NEW to \in Phase, Advance(s, from, to)
      PROVE  /\ calls' \in [Slot -> Call]
             /\ UNCHANGED <<store, row, revisions, token, seen, ops, amiss>>
    BY <1>1, <1>4, PhaseUpdate, CallsUpdate DEF Advance, TypeOK
<1>5. CASE PostStored(s)
    <2>1. Posted(calls[s]) \in Entry
        BY <1>1 DEF Posted, Entry
    <2> QED BY <1>4, <1>5, <2>1 DEF PostStored, TypeOK, Phase
<1>6. CASE PostFails(s)
    BY <1>4, <1>6 DEF PostFails, TypeOK, Phase
<1>7. CASE AnswerArrives(s)
    BY <1>4, <1>7 DEF AnswerArrives, TypeOK, Phase
<1>8. CASE AnswerLost(s)
    BY <1>4, <1>8 DEF AnswerLost, TypeOK, Phase
<1>9. ASSUME NEW tags \in Text, ExtractOver(s, tags), calls' \in [Slot -> Call]
      PROVE  TypeOK'
    <2>1. row' \in Document
        BY <1>1, <1>9, SomeTextUpdates DEF ExtractOver
    <2> QED BY <1>9, <2>1 DEF ExtractOver, TypeOK, Mishap
<1>10. CASE ExtractWrites(s)
    <2>1. calls' \in [Slot -> Call]
        BY <1>3, <1>10, PhaseUpdate, CallsUpdate DEF ExtractWrites, Phase
    <2> QED BY <1>1, <1>9, <1>10, <2>1 DEF ExtractWrites
<1>11. CASE ExtractStops(s)
    <2>1. calls' \in [Slot -> Call]
        BY <1>2, <1>3, <1>11, CallsUpdate DEF ExtractStops
    <2> QED BY <1>1, <1>9, <1>11, <2>1 DEF ExtractStops
<1>12. CASE ExtractFails(s)
    BY <1>2, <1>12, CallsUpdate DEF ExtractFails, TypeOK
<1> QED BY <1>5, <1>6, <1>7, <1>8, <1>10, <1>11, <1>12 DEF RemoteStep

(* The row after the migration of a restart is a document, and it is       *)
(* unchanged when it is Published.                                         *)
LEMMA MigratedType ==
    ASSUME NEW d \in Document
    PROVE  Migrated(d) \in Document /\ (MustSync(Migrated(d)) => Migrated(d) = d)
    BY DEF Migrated, MustSync, Document

LEMMA TypeNext ==
    ASSUME TypeOK, [Next]_vars
    PROVE  TypeOK'
<1>1. CASE EditBody
    BY <1>1 DEF EditBody, TypeOK, Document, DocumentState, syncVars
<1>2. CASE Restart
    <2>1. row' \in Document
        BY <1>2, MigratedType DEF Restart, TypeOK
    <2>2. \A s \in Slot : Posted(calls[s]) \in Entry
        BY DEF Posted, Entry, TypeOK, Call, Document, Text
    <2>3. \A arriving \in SUBSET {Posted(calls[s]) : s \in InPhase({"syncing"})} :
              arriving \subseteq Entry
        BY <2>2 DEF InPhase
    <2>4. index' \subseteq Entry
        BY <1>2, <2>3 DEF Restart, TypeOK
    <2>5. amiss' \subseteq Mishap
        BY <1>2 DEF Restart, TypeOK, Mishap
    <2>6. calls' \in [Slot -> Call]
        BY <1>2, ConstantCalls DEF Restart, TypeOK
    <2> QED BY <1>2, <2>1, <2>4, <2>5, <2>6 DEF Restart, TypeOK
<1>3. CASE UNCHANGED vars
    BY <1>3 DEF vars, syncVars, TypeOK
<1> QED BY <1>1, <1>2, <1>3, TypeUserOperation, TypeLocalStep, TypeRemoteStep DEF Next

(* Every variable keeps its type; no revision has a version below 1.       *)
THEOREM TypeCorrect == Spec => []TypeOK
<1>1. Init => TypeOK
    BY TypeInit
<1>2. TypeOK /\ [Next]_vars => TypeOK'
    BY TypeNext
<1> QED BY <1>1, <1>2, PTL DEF Spec

-----------------------------------------------------------------------------
(* While a call that was the last to write the row still posts it or undoes *)
(* it, what it posts is what the index ought to have of the row.           *)
Posting == {"syncing", "stored", "failed"}

PostsTheRow ==
    MustSync(row) /\ amiss \subseteq {"untagged"} =>
        \A s \in InPhase(Posting) : calls[s].latest => Posted(calls[s]) = RowEntry

IndexInv == PublishedIsIndexed /\ PostsTheRow

(* A step that leaves the row alone, forgets nothing of the index, starts  *)
(* no post and settles none keeps the relation of the three.               *)
LEMMA IndexFrame ==
    ASSUME TypeOK, IndexInv, row' = row, amiss' = amiss, index \subseteq index',
           \A t \in Slot : calls'[t].phase \in Posting /\ calls'[t].latest =>
                /\ calls[t].phase \in Posting /\ calls[t].latest
                /\ calls'[t].doc = calls[t].doc /\ calls'[t].kind = calls[t].kind,
           \A t \in Slot : calls[t].phase \in {"syncing", "failed"} /\ calls[t].latest =>
                calls'[t].phase \in {"syncing", "failed"} /\ calls'[t].latest
    PROVE  IndexInv'
<1>1. RowEntry' = RowEntry /\ MustSync(row)' = MustSync(row)
    BY DEF RowEntry, MustSync
<1>2. Unsettled => Unsettled'
    BY DEF Unsettled, InPhase
<1>3. ASSUME MustSync(row), amiss \subseteq {"untagged"},
             NEW t \in Slot, calls'[t].phase \in Posting, calls'[t].latest
      PROVE  Posted(calls[t])' = RowEntry
    <2>1. Posted(calls[t])' = Posted(calls[t])
        BY <1>3 DEF Posted, SendsTags
    <2> QED BY <1>3, <2>1 DEF IndexInv, PostsTheRow, InPhase
<1>4. PublishedIsIndexed'
    BY <1>1, <1>2 DEF IndexInv, PublishedIsIndexed
<1>5. PostsTheRow'
    BY <1>1, <1>3 DEF PostsTheRow, InPhase
<1> QED BY <1>4, <1>5 DEF IndexInv

(* The same for a step of one call that leaves the others alone.           *)
LEMMA IndexSlotFrame ==
    ASSUME TypeOK, IndexInv, row' = row, amiss' = amiss, index' = index,
           NEW s \in Slot, NEW c, calls' = [calls EXCEPT ![s] = c],
           c.phase \notin Posting, calls[s].phase \notin {"syncing", "failed"}
    PROVE  IndexInv'
<1>1. \A t \in Slot : calls'[t] = IF t = s THEN c ELSE calls[t]
    BY DEF TypeOK
<1> QED BY <1>1, IndexFrame

(* A row that does not say Published has nothing to be indexed.            *)
LEMMA NotPublished ==
    ASSUME ~MustSync(row)' \/ ~(amiss' \subseteq {"untagged"})
    PROVE  IndexInv'
    BY DEF IndexInv, PublishedIsIndexed, PostsTheRow

LEMMA IndexUserOperation ==
    ASSUME TypeOK, IndexInv, NEW s \in Slot, UserOperation(s)
    PROVE  IndexInv'
<1>1. ASSUME NEW p \in {"sent", "asked", "extracting", "fetch"}, NEW k, NEW d,
             Begin(s, p, k, d)
      PROVE  IndexInv'
    <2> DEFINE c == [phase |-> p, kind |-> k, doc |-> d,
                     old |-> IF k \in {"favorite", "tags"} THEN store ELSE NoDocument,
                     saved |-> (p = "fetch" /\ ~seen), latest |-> FALSE]
    <2>1. calls' = [calls EXCEPT ![s] = c] /\ calls[s].phase = "idle"
          /\ row' = row /\ amiss' = amiss /\ index' = index
        BY <1>1 DEF Begin, syncVars
    <2>2. c.phase \notin Posting
        BY DEF Posting
    <2> HIDE DEF c
    <2> QED BY <2>1, <2>2, IndexSlotFrame
<1>2. CASE Confirm(s)
    <2> DEFINE c == [calls[s] EXCEPT !.phase = "sent", !.doc = Request(calls[s].doc)]
    <2>1. calls[s] \in Call
        BY DEF TypeOK
    <2>2. calls' = [calls EXCEPT ![s] = c] /\ c.phase \notin Posting
        BY <1>2, <2>1 DEF Confirm, TypeOK, Call, Posting
    <2>3. calls[s].phase = "asked" /\ row' = row /\ amiss' = amiss /\ index' = index
        BY <1>2 DEF Confirm, syncVars
    <2> HIDE DEF c
    <2> QED BY <2>2, <2>3, IndexSlotFrame
<1>3. CASE Decline(s)
    <2>1. calls' = [calls EXCEPT ![s] = IdleCall] /\ IdleCall.phase \notin Posting
        BY <1>3 DEF Decline, IdleCall, Posting
    <2>2. calls[s].phase = "asked" /\ row' = row /\ amiss' = amiss /\ index' = index
        BY <1>3 DEF Decline, syncVars
    <2> QED BY <2>1, <2>2, IndexSlotFrame
<1>4. CASE Confirm(s) \/ Decline(s) \/
           \E p \in {"sent", "asked", "extracting", "fetch"} : \E k, d : Begin(s, p, k, d)
    BY <1>1, <1>2, <1>3, <1>4
<1> QED BY <1>4 DEF UserOperation, SaveDocument, AskFirst, ToggleFavorite, EditTags,
           PartialSave, RenameDocument, EditorSave, ExtractInfo, FetchDocuments

LEMMA IndexLocalStep ==
    ASSUME TypeOK, IndexInv, NEW s \in Slot, LocalStep(s)
    PROVE  IndexInv'
<1> USE DEF syncVars
<1> DEFINE c == calls[s]
<1>1. c \in Call /\ c.doc \in Document /\ row \in Document
    BY DEF TypeOK, Call
<1>2. CASE WriteRow(s)
    <2>1. \A t \in Slot \ {s} : ~calls'[t].latest
        BY <1>2, TouchedType, TouchedFrame DEF WriteRow, TypeOK
    <2>2. /\ calls'[s].doc = c.doc /\ calls'[s].kind = c.kind /\ calls'[s].latest
          /\ (MustSync(c.doc) => calls'[s].phase = "syncing")
        BY <1>2, TouchedType, TouchedFrame DEF WriteRow, TypeOK, Call
    <2>3. row' = Written(c) /\ amiss' = IF SendsTags(c) THEN {} ELSE {"untagged"}
        BY <1>2 DEF WriteRow
    <2>4. Posted(calls[s])' = RowEntry'
        BY <1>1, <2>2, <2>3 DEF Posted, SendsTags, RowEntry, Written, Document
    <2>5. MustSync(row') => Unsettled'
        BY <1>1, <2>2, <2>3 DEF MustSync, Written, Document, Unsettled, InPhase
    <2>6. PublishedIsIndexed'
        BY <2>5 DEF PublishedIsIndexed, MustSync
    <2>7. PostsTheRow'
        BY <2>1, <2>4 DEF PostsTheRow, InPhase
    <2> QED BY <2>6, <2>7 DEF IndexInv
<1>3. CASE WriteFails(s)
    BY <1>3, NotPublished DEF WriteFails
<1>4. CASE WriteRefused(s)
    <2>1. calls' = [calls EXCEPT ![s] = [c EXCEPT !.phase = "err"]]
          /\ [c EXCEPT !.phase = "err"].phase \notin Posting
        BY <1>1, <1>4 DEF WriteRefused, Advance, Call, Posting
    <2>2. c.phase = "sent" /\ row' = row /\ amiss' = amiss /\ index' = index
        BY <1>4 DEF WriteRefused, Advance
    <2> QED BY <2>1, <2>2, IndexSlotFrame
<1>5. CASE Rollback(s)
    <2>1. row'.state = "Draft"
        BY <1>1, <1>5 DEF Rollback, Document
    <2> QED BY <2>1, NotPublished DEF MustSync
<1>6. CASE RollbackFails(s)
    <2>1. CASE c.latest
        BY <1>6, <2>1, NotPublished DEF RollbackFails
    <2>2. CASE ~c.latest
        <3>1. /\ row' = row /\ amiss' = amiss /\ index' = index
              /\ calls'[s].phase = "err"
              /\ \A t \in Slot \ {s} : calls'[t] = calls[t]
            BY <1>1, <1>6, <2>2 DEF RollbackFails, TypeOK, Call
        <3>2. "err" \notin Posting
            BY DEF Posting
        <3> QED BY <2>2, <3>1, <3>2, IndexFrame
    <2> QED BY <2>1, <2>2
<1>7. ASSUME NEW new, calls' = [calls EXCEPT ![s] = new], new.phase \notin Posting,
             c.phase \in {"ok", "err", "fetch", "listed", "empty"},
             UNCHANGED <<row, amiss, index>>
      PROVE  IndexInv'
    BY <1>7, IndexSlotFrame
<1>8. IdleCall.phase \notin Posting /\ FetchAgain.phase \notin Posting
    BY DEF IdleCall, FetchAgain, Posting
<1>9. CASE ReturnOk(s)
    BY <1>7, <1>8, <1>9 DEF ReturnOk
<1>10. CASE ReturnErr(s)
    BY <1>7, <1>8, <1>10 DEF ReturnErr
<1>11. CASE ListDocuments(s)
    <2> DEFINE p == IF c.saved THEN "listed" ELSE "empty"
               new == [c EXCEPT !.phase = p, !.doc = row, !.saved = FALSE]
    <2>1. calls' = [calls EXCEPT ![s] = new] /\ new.phase = p
        BY <1>1, <1>11 DEF ListDocuments, TypeOK, Call
    <2>2. p \notin Posting
        BY DEF Posting
    <2>3. c.phase = "fetch" /\ UNCHANGED <<row, amiss, index>>
        BY <1>11 DEF ListDocuments
    <2> HIDE DEF new, p
    <2> QED BY <1>7, <2>1, <2>2, <2>3
<1>12. CASE ApplyList(s)
    BY <1>7, <1>8, <1>12 DEF ApplyList
<1> QED BY <1>2, <1>3, <1>4, <1>5, <1>6, <1>9, <1>10, <1>11, <1>12 DEF LocalStep

LEMMA IndexRemoteStep ==
    ASSUME TypeOK, IndexInv, NEW s \in Slot, RemoteStep(s)
    PROVE  IndexInv'
<1> DEFINE c == calls[s]
<1>1. c \in Call
    BY DEF TypeOK
<1>2. ASSUME NEW from, NEW to, Advance(s, from, to)
      PROVE  /\ c.phase = from /\ calls'[s] = [c EXCEPT !.phase = to]
             /\ calls'[s].phase = to /\ calls'[s].latest = c.latest
             /\ calls'[s].doc = c.doc /\ calls'[s].kind = c.kind
             /\ \A t \in Slot \ {s} : calls'[t] = calls[t]
             /\ row' = row /\ amiss' = amiss
    BY <1>1, <1>2 DEF Advance, TypeOK, Call
<1>3. CASE PostStored(s)
    <2>1. Advance(s, "syncing", "stored") /\ index' = index \cup {Posted(c)}
        BY <1>3 DEF PostStored
    <2>2. \A t \in Slot : calls'[t].phase \in Posting /\ calls'[t].latest =>
                /\ calls[t].phase \in Posting /\ calls[t].latest
                /\ calls'[t].doc = calls[t].doc /\ calls'[t].kind = calls[t].kind
        BY <1>2, <2>1 DEF Posting
    <2>3. CASE ~c.latest
        <3>1. \A t \in Slot : calls[t].phase \in {"syncing", "failed"} /\ calls[t].latest =>
                  calls'[t].phase \in {"syncing", "failed"} /\ calls'[t].latest
            BY <1>2, <2>1, <2>3
        <3> QED BY <1>2, <2>1, <2>2, <3>1, IndexFrame
    <2>4. CASE c.latest
        <3>1. RowEntry' = RowEntry /\ MustSync(row)' = MustSync(row) /\ amiss' = amiss
            BY <1>2, <2>1 DEF RowEntry, MustSync
        <3>2. MustSync(row) /\ amiss \subseteq {"untagged"} => Posted(c) = RowEntry
            BY <1>2, <2>1, <2>4 DEF IndexInv, PostsTheRow, InPhase, Posting
        <3>3. PublishedIsIndexed'
            BY <2>1, <3>1, <3>2 DEF PublishedIsIndexed
        <3>4. ASSUME MustSync(row), amiss \subseteq {"untagged"},
                     NEW t \in Slot, calls'[t].phase \in Posting, calls'[t].latest
              PROVE  Posted(calls[t])' = RowEntry
            <4>1. Posted(calls[t])' = Posted(calls[t])
                BY <2>2, <3>4 DEF Posted, SendsTags
            <4> QED BY <2>2, <3>4, <4>1 DEF IndexInv, PostsTheRow, InPhase
        <3>5. PostsTheRow'
            BY <3>1, <3>4 DEF PostsTheRow, InPhase
        <3> QED BY <3>3, <3>5 DEF IndexInv
    <2> QED BY <2>3, <2>4
<1>4. CASE PostFails(s)
    BY <1>2, <1>4, IndexFrame DEF PostFails, Posting
<1>5. CASE AnswerArrives(s)
    <2>1. Advance(s, "stored", "ok") /\ index' = index
        BY <1>5 DEF AnswerArrives
    <2>2. "stored" \notin {"syncing", "failed"} /\ "ok" \notin Posting
        BY DEF Posting
    <2>3. /\ calls[s].phase = "stored" /\ calls'[s].phase = "ok"
          /\ row' = row /\ amiss' = amiss
          /\ \A t \in Slot \ {s} : calls'[t] = calls[t]
        BY <1>2, <2>1
    <2>4. \A t \in Slot : calls'[t].phase \in Posting /\ calls'[t].latest =>
              calls'[t] = calls[t]
        BY <2>2, <2>3
    <2>5. \A t \in Slot : calls[t].phase \in {"syncing", "failed"} =>
              calls'[t] = calls[t]
        BY <2>2, <2>3
    <2> QED BY <2>1, <2>3, <2>4, <2>5, IndexFrame
<1>6. CASE AnswerLost(s)
    BY <1>2, <1>6, IndexFrame DEF AnswerLost, Posting
<1>7. CASE ExtractWrites(s) \/ ExtractStops(s)
    <2>1. "extracted" \in amiss'
        BY <1>7 DEF ExtractWrites, ExtractStops, ExtractOver
    <2> QED BY <2>1, NotPublished
<1>8. CASE ExtractFails(s)
    <2>1. calls' = [calls EXCEPT ![s] = IdleCall] /\ IdleCall.phase \notin Posting
        BY <1>8 DEF ExtractFails, IdleCall, Posting
    <2>2. c.phase = "extracting" /\ row' = row /\ amiss' = amiss /\ index' = index
        BY <1>8 DEF ExtractFails, syncVars
    <2> QED BY <2>1, <2>2, IndexSlotFrame
<1> QED BY <1>3, <1>4, <1>5, <1>6, <1>7, <1>8 DEF RemoteStep

LEMMA IndexNext ==
    ASSUME TypeOK, IndexInv, [Next]_vars
    PROVE  IndexInv'
<1>1. CASE EditBody
    BY <1>1, IndexFrame DEF EditBody, syncVars
<1>2. CASE Restart
    <2>1. \A t \in Slot : calls'[t].phase = "idle"
        BY <1>2 DEF Restart, IdleCall
    <2>2. PostsTheRow'
        BY <2>1 DEF PostsTheRow, InPhase, Posting
    <2>3. MustSync(row') => row' = row
        BY <1>2, MigratedType DEF Restart, TypeOK
    <2>4. CASE Unsettled
        BY <1>2, <2>4, NotPublished DEF Restart, Unsettled
    <2>5. CASE ~Unsettled
        <3>1. amiss' = amiss /\ index \subseteq index'
            BY <1>2, <2>5 DEF Restart, Unsettled
        <3>2. PublishedIsIndexed'
            BY <2>3, <2>5, <3>1 DEF IndexInv, PublishedIsIndexed, RowEntry, MustSync
        <3> QED BY <2>2, <3>2 DEF IndexInv
    <2> QED BY <2>4, <2>5
<1>3. CASE UNCHANGED vars
    BY <1>3, IndexFrame DEF vars, syncVars
<1> QED BY <1>1, <1>2, <1>3, IndexUserOperation, IndexLocalStep, IndexRemoteStep DEF Next

(* A Published row has been indexed with its title and tags, or the call   *)
(* that wrote it is still to post it or to undo it, or one of the named    *)
(* exceptions happened since it was saved.                                 *)
THEOREM PublishedIsIndexedHolds == Spec => []PublishedIsIndexed
<1>1. Init => IndexInv
    BY DEF Init, IndexInv, PublishedIsIndexed, PostsTheRow, MustSync, NoDocument
<1>2. TypeOK /\ IndexInv /\ [Next]_vars => IndexInv'
    BY IndexNext
<1>3. IndexInv => PublishedIsIndexed
    BY DEF IndexInv
<1> QED BY <1>1, <1>2, <1>3, TypeCorrect, PTL DEF Spec

-----------------------------------------------------------------------------
(* A step that neither writes the row nor the revisions keeps the relation *)
(* between the two.                                                        *)
LEMMA RevisionFrame ==
    ASSUME PublishedHasRevision, UNCHANGED <<row, revisions>>, amiss \subseteq amiss'
    PROVE  PublishedHasRevision'
    BY DEF PublishedHasRevision, MustSync, RevisionOf

LEMMA RevisionNext ==
    ASSUME TypeOK, PublishedHasRevision, [Next]_vars
    PROVE  PublishedHasRevision'
<1> USE DEF syncVars
<1>1. ASSUME NEW s \in Slot, UserOperation(s) PROVE PublishedHasRevision'
    <2>1. UNCHANGED <<row, revisions, amiss>>
        BY <1>1 DEF UserOperation, SaveDocument, AskFirst, Confirm, Decline,
                    ToggleFavorite, EditTags, PartialSave, RenameDocument,
                    EditorSave, ExtractInfo, FetchDocuments, Begin
    <2> QED BY <2>1, RevisionFrame
<1>2. ASSUME NEW s \in Slot, WriteRow(s) PROVE PublishedHasRevision'
    <2>1. calls[s].doc \in Document
        BY DEF TypeOK, Call
    <2>2. /\ RevisionOf(row') = RevisionOf(calls[s].doc)
          /\ MustSync(row') => calls[s].doc.group # "Private"
          /\ row'.version = calls[s].doc.version
        BY <1>2, <2>1 DEF WriteRow, Written, RevisionOf, MustSync, Document
    <2>3. revisions' = RevisionsWith(calls[s].doc)
        BY <1>2 DEF WriteRow
    <2> QED BY <2>2, <2>3 DEF PublishedHasRevision, MustSync, RevisionsWith, RevisionOf
<1>3. ASSUME NEW s \in Slot, WriteFails(s) PROVE PublishedHasRevision'
    BY <1>3 DEF WriteFails, PublishedHasRevision
<1>4. ASSUME NEW s \in Slot, Rollback(s) PROVE PublishedHasRevision'
    <2>1. row'.state = "Draft"
        BY <1>4 DEF Rollback, TypeOK, Document
    <2> QED BY <2>1 DEF PublishedHasRevision, MustSync
<1>5. ASSUME NEW s \in Slot, ExtractWrites(s) \/ ExtractStops(s)
      PROVE  PublishedHasRevision'
    <2>1. "extracted" \in amiss'
        BY <1>5 DEF ExtractWrites, ExtractStops, ExtractOver
    <2> QED BY <2>1 DEF PublishedHasRevision
<1>6. ASSUME NEW s \in Slot,
             \/ WriteRefused(s) \/ RollbackFails(s) \/ PostStored(s)
             \/ PostFails(s) \/ AnswerArrives(s) \/ AnswerLost(s)
             \/ ExtractFails(s) \/ ReturnOk(s) \/ ReturnErr(s)
             \/ ListDocuments(s) \/ ApplyList(s)
      PROVE  PublishedHasRevision'
    <2>1. UNCHANGED <<row, revisions>> /\ amiss \subseteq amiss'
        BY <1>6 DEF WriteRefused, RollbackFails, PostStored, PostFails,
                    AnswerArrives, AnswerLost, Advance, ExtractFails, ReturnOk,
                    ReturnErr, ListDocuments, ApplyList
    <2> QED BY <2>1, RevisionFrame
<1>7. CASE Restart
    <2>1. MustSync(row') => row' = row
        BY <1>7, MigratedType DEF Restart, TypeOK
    <2> QED BY <1>7, <2>1 DEF Restart, PublishedHasRevision, MustSync, RevisionOf
<1>8. CASE EditBody
    BY <1>8, RevisionFrame DEF EditBody
<1>9. CASE UNCHANGED vars
    BY <1>9, RevisionFrame DEF vars
<1> QED BY <1>1, <1>2, <1>3, <1>4, <1>5, <1>6, <1>7, <1>8, <1>9
        DEF Next, LocalStep, RemoteStep

(* The revision numbered like a Published row is what was published.       *)
THEOREM PublishedHasRevisionHolds == Spec => []PublishedHasRevision
<1>1. Init => PublishedHasRevision
    BY DEF Init, PublishedHasRevision, MustSync, NoDocument
<1>2. TypeOK /\ PublishedHasRevision /\ [Next]_vars => PublishedHasRevision'
    BY RevisionNext
<1> QED BY <1>1, <1>2, TypeCorrect, PTL DEF Spec

=============================================================================
