------------------------ MODULE DocumentTable_proofs ------------------------
(***************************************************************************)
(* Proofs about DocumentTable, for any number of documents and operations. *)
(***************************************************************************)
EXTENDS DocumentTable, TLAPS

-----------------------------------------------------------------------------
(* Requests are well typed.                                                *)
LEMMA RequestTypes ==
    /\ NoRequest \in Request
    /\ \A p \in Parent, t \in {"keep", "clear", "set"}, r \in BOOLEAN :
          Asks(p, t, r) \in Request
<1>1. Root \in Parent
    BY MaxDocsAssumption DEF Root, Parent
<1> QED BY <1>1 DEF NoRequest, Asks, Request

(* What a request makes of the tags is a set of documents, and it owns at  *)
(* most the document of the request more than before.                      *)
LEMMA TagsAfterBounds ==
    ASSUME NEW d \in Doc, NEW t \in {"keep", "clear", "set"}
    PROVE  TagsAfter(d, t) \subseteq tags \cup {d}
<1>1. CASE t = "keep"
    BY <1>1 DEF TagsAfter
<1>2. CASE t = "clear"
    BY <1>2 DEF TagsAfter
<1>3. CASE t = "set"
    BY <1>3 DEF TagsAfter
<1> QED BY <1>1, <1>2, <1>3

-----------------------------------------------------------------------------
LEMMA TypeInit == Init => TypeOK
<1> SUFFICES ASSUME Init PROVE TypeOK
    OBVIOUS
<1>1. present \subseteq Doc
    BY MaxDocsAssumption DEF Init, Doc, Parent
<1> QED BY <1>1, RequestTypes DEF Init, TypeOK

(* Actions that only send a request.                                       *)
LEMMA TypeSend ==
    ASSUME TypeOK, NEW d \in Doc, NEW request \in Request, Operate,
           Send(d, request), shown' \in [Doc -> Parent]
    PROVE  TypeOK'
<1>1. ops' \in Nat
    BY DEF TypeOK, Operate
<1>2. saving' \in [Doc -> Request]
    BY DEF TypeOK, Send
<1> QED BY <1>1, <1>2 DEF TypeOK, Send, rows, data, history

LEMMA TypeNext ==
    ASSUME TypeOK, [Next]_vars
    PROVE  TypeOK'
<1> USE DEF rows, data, requests, history
<1>0. Root \in Parent
    BY MaxDocsAssumption DEF Root, Parent
<1>1. ASSUME NEW d \in Doc, NEW p \in Parent, CreateDocument(d, p)
      PROVE  TypeOK'
    <2>1. shown' \in [Doc -> Parent]
        BY <1>1 DEF CreateDocument, TypeOK
    <2> QED BY <1>1, <2>1, RequestTypes, TypeSend DEF CreateDocument
<1>2. ASSUME NEW d \in Doc, NEW t \in {"keep", "clear", "set"},
             NEW r \in BOOLEAN, SaveDocument(d, t, r)
      PROVE  TypeOK'
    <2>1. shown' \in [Doc -> Parent] /\ shown[d] \in Parent
        BY <1>2 DEF SaveDocument, TypeOK
    <2> QED BY <1>2, <2>1, RequestTypes, TypeSend DEF SaveDocument
<1>3. ASSUME NEW d \in Doc, NEW t \in {"keep", "clear", "set"},
             NEW r \in BOOLEAN, MoveToRoot(d, t, r)
      PROVE  TypeOK'
    <2>1. shown' \in [Doc -> Parent]
        BY <1>0, <1>3 DEF MoveToRoot, TypeOK
    <2> QED BY <1>0, <1>3, <2>1, RequestTypes, TypeSend DEF MoveToRoot
<1>4. ASSUME NEW d \in Doc, NEW t \in {"keep", "set"}, PartialSave(d, t)
      PROVE  TypeOK'
    <2>1. shown' \in [Doc -> Parent]
        BY <1>4 DEF PartialSave, TypeOK
    <2>2. Asks(Root, t, FALSE) \in Request
        BY <1>0, RequestTypes
    <2> QED BY <1>4, <2>1, <2>2, TypeSend DEF PartialSave
<1>5. ASSUME NEW d \in Doc, WriteDocument(d) \/ WriteStops(d)
      PROVE  TypeOK'
    <2>1. saving[d].parent \in Parent /\ saving[d].tags \in {"keep", "clear", "set"}
        BY DEF TypeOK, Request
    <2>2. present' \subseteq Doc /\ parent' \in [Doc -> Parent]
          /\ deletedAt' = deletedAt
        BY <1>5, <2>1 DEF WriteDocument, WriteStops, Upsert, TypeOK
    <2>3. tags' \subseteq Doc
        <3>1. TagsAfter(d, saving[d].tags) \subseteq tags \cup {d}
            BY <2>1, TagsAfterBounds
        <3> QED BY <1>5, <3>1 DEF WriteDocument, WriteStops, TypeOK
    <2>4. revisions' \subseteq Doc
        BY <1>5 DEF WriteDocument, WriteStops, TypeOK
    <2>5. saving' \in [Doc -> Request]
        BY <1>5, RequestTypes DEF WriteDocument, WriteStops, TypeOK
    <2>6. UNCHANGED <<aiData, shown, extracting, ops, history>>
        BY <1>5 DEF WriteDocument, WriteStops
    <2> QED BY <2>2, <2>3, <2>4, <2>5, <2>6 DEF TypeOK
<1>6. ASSUME NEW d \in Doc, ExtractInfo(d) \/ ExtractFails(d)
      PROVE  TypeOK'
    BY <1>6 DEF ExtractInfo, ExtractFails, Operate, TypeOK
<1>7. ASSUME NEW d \in Doc, ExtractWrites(d)
      PROVE  TypeOK'
    <2>1. present' \subseteq Doc /\ parent' \in [Doc -> Parent]
        BY <1>0, <1>7 DEF ExtractWrites, ExtractUpsert, TypeOK
    <2>2. aiData' \subseteq Doc /\ tags' \subseteq Doc
        BY <1>7 DEF ExtractWrites, TypeOK
    <2> QED BY <1>7, <2>1, <2>2 DEF ExtractWrites, TypeOK
<1>8. ASSUME NEW d \in Doc, NEW done \in SUBSET Doc, DeleteDocument(d, done)
      PROVE  TypeOK'
    <2>1. ops' \in Nat
        BY <1>8 DEF DeleteDocument, Operate, TypeOK
    <2>2. deletedAt' \in [Doc -> Nat] /\ deletion' \in [Doc -> Nat]
        BY <1>8, <2>1 DEF DeleteDocument, TypeOK
    <2> QED BY <1>8, <2>1, <2>2 DEF DeleteDocument, TypeOK
<1>9. ASSUME NEW d \in Doc, NEW done \in SUBSET Doc, RestoreDocument(d, done)
      PROVE  TypeOK'
    BY <1>9 DEF RestoreDocument, Operate, TypeOK
<1>10. ASSUME NEW d \in Doc, DeleteForever(d)
       PROVE  TypeOK'
    BY <1>10 DEF DeleteForever, Operate, TypeOK
<1>11. CASE EmptyRecycleBin
    <2>1. Purged \subseteq Doc
        BY DEF Purged
    <2>2. present' \subseteq Doc /\ tags' \subseteq Doc /\ revisions' \subseteq Doc
          /\ aiData' \subseteq Doc /\ emptied' \subseteq Doc
        BY <1>11, <2>1 DEF EmptyRecycleBin, TypeOK
    <2>3. parent' \in [Doc -> Parent] /\ deletedAt' \in [Doc -> Nat]
          /\ deletion' \in [Doc -> Nat] /\ ops' \in Nat
        BY <1>0, <1>11 DEF EmptyRecycleBin, Operate, TypeOK
    <2> QED BY <1>11, <2>2, <2>3 DEF EmptyRecycleBin, TypeOK
<1>12. CASE FetchDocuments
    BY <1>12 DEF FetchDocuments, ShownRows, TypeOK
<1>13. CASE Restart
    <2>1. shown' \in [Doc -> Parent]
        BY <1>13 DEF Restart, ShownRows, TypeOK
    <2> QED BY <1>13, <2>1, RequestTypes DEF Restart, Operate, TypeOK
<1>14. CASE UNCHANGED vars
    BY <1>14 DEF vars, TypeOK
<1> QED BY <1>1, <1>2, <1>3, <1>4, <1>5, <1>6, <1>7, <1>8, <1>9, <1>10, <1>11,
           <1>12, <1>13, <1>14 DEF Next

(* Every variable keeps its type; a parent_id is that of some document.    *)
THEOREM TypeCorrect == Spec => []TypeOK
<1>1. Init => TypeOK
    BY TypeInit
<1>2. TypeOK /\ [Next]_vars => TypeOK'
    BY TypeNext
<1> QED BY <1>1, <1>2, PTL DEF Spec

-----------------------------------------------------------------------------
LEMMA OrphanNext ==
    ASSUME TypeOK, NoOrphanData, [Next]_vars
    PROVE  NoOrphanData'
<1> USE DEF rows, data, requests, history
<1>1. ASSUME UNCHANGED <<present, data>> PROVE NoOrphanData'
    BY <1>1 DEF NoOrphanData
<1>2. ASSUME NEW d \in Doc, WriteDocument(d) \/ WriteStops(d)
      PROVE  NoOrphanData'
    <2>1. saving[d].tags \in {"keep", "clear", "set"}
        BY DEF TypeOK, Request
    <2>2. TagsAfter(d, saving[d].tags) \subseteq tags \cup {d}
        BY <2>1, TagsAfterBounds
    <2>3. tags' \subseteq tags \cup {d} /\ revisions' \subseteq revisions \cup {d}
          /\ aiData' = aiData /\ present' = present \cup {d}
        BY <1>2, <2>2 DEF WriteDocument, WriteStops, Upsert
    <2> QED BY <2>3 DEF NoOrphanData
<1>3. ASSUME NEW d \in Doc, ExtractWrites(d)
      PROVE  NoOrphanData'
    BY <1>3 DEF ExtractWrites, ExtractUpsert, NoOrphanData
<1>4. CASE EmptyRecycleBin
    BY <1>4 DEF EmptyRecycleBin, NoOrphanData
<1>5. ASSUME NEW d \in Doc,
             \/ \E p \in Parent : CreateDocument(d, p)
             \/ \E t \in {"keep", "clear", "set"}, r \in BOOLEAN :
                   SaveDocument(d, t, r) \/ MoveToRoot(d, t, r)
             \/ \E t \in {"keep", "set"} : PartialSave(d, t)
      PROVE  NoOrphanData'
    BY <1>1, <1>5 DEF CreateDocument, SaveDocument, MoveToRoot, PartialSave, Send
<1>6. ASSUME NEW d \in Doc,
             \/ ExtractInfo(d) \/ ExtractFails(d) \/ DeleteForever(d)
             \/ \E done \in SUBSET Doc :
                   DeleteDocument(d, done) \/ RestoreDocument(d, done)
      PROVE  NoOrphanData'
    BY <1>1, <1>6 DEF ExtractInfo, ExtractFails, DeleteForever, DeleteDocument,
                      RestoreDocument
<1>7. CASE FetchDocuments \/ Restart \/ UNCHANGED vars
    BY <1>1, <1>7 DEF FetchDocuments, Restart, vars
<1> QED BY <1>2, <1>3, <1>4, <1>5, <1>6, <1>7 DEF Next

(* No tags, revisions or AI data without the row of their document.        *)
THEOREM NoOrphanDataHolds == Spec => []NoOrphanData
<1>1. Init => NoOrphanData
    BY DEF Init, NoOrphanData
<1>2. TypeOK /\ NoOrphanData /\ [Next]_vars => NoOrphanData'
    BY OrphanNext
<1> QED BY <1>1, <1>2, TypeCorrect, PTL DEF Spec

-----------------------------------------------------------------------------
(* A document in the bin carries the time of the operation that put it     *)
(* there: what ties deleted_at, which restore_document compares, to the    *)
(* deletion that wrote it.                                                 *)
DeletionIsTime == deletion = deletedAt

LEMMA DeletionNext ==
    ASSUME TypeOK, DeletionIsTime, [Next]_vars
    PROVE  DeletionIsTime'
<1> USE DEF rows, data, requests, history
<1>1. ASSUME UNCHANGED <<deletedAt, deletion>> PROVE DeletionIsTime'
    BY <1>1 DEF DeletionIsTime
<1>2. ASSUME NEW d \in Doc, NEW done \in SUBSET Doc, DeleteDocument(d, done)
      PROVE  DeletionIsTime'
    <2> DEFINE marked == {e \in done \cap present : Marks(e)}
    <2>1. \A e \in marked : Live(e)
        BY DEF Marks, Live
    <2> QED BY <1>2, <2>1 DEF DeleteDocument, DeletionIsTime
<1>3. ASSUME NEW d \in Doc, NEW done \in SUBSET Doc, RestoreDocument(d, done)
      PROVE  DeletionIsTime'
    BY <1>3 DEF RestoreDocument, DeletionIsTime
<1>4. CASE EmptyRecycleBin
    BY <1>4 DEF EmptyRecycleBin, DeletionIsTime
<1>5. ASSUME NEW d \in Doc,
             \/ \E p \in Parent : CreateDocument(d, p)
             \/ \E t \in {"keep", "clear", "set"}, r \in BOOLEAN :
                   SaveDocument(d, t, r) \/ MoveToRoot(d, t, r)
             \/ \E t \in {"keep", "set"} : PartialSave(d, t)
      PROVE  DeletionIsTime'
    BY <1>1, <1>5 DEF CreateDocument, SaveDocument, MoveToRoot, PartialSave, Send
<1>6. ASSUME NEW d \in Doc,
             \/ WriteDocument(d) \/ WriteStops(d) \/ ExtractInfo(d)
             \/ ExtractWrites(d) \/ ExtractFails(d) \/ DeleteForever(d)
      PROVE  DeletionIsTime'
    BY <1>1, <1>6 DEF WriteDocument, WriteStops, Upsert, ExtractInfo,
                      ExtractWrites, ExtractFails, DeleteForever
<1>7. CASE FetchDocuments \/ Restart \/ UNCHANGED vars
    BY <1>1, <1>7 DEF FetchDocuments, Restart, vars
<1> QED BY <1>2, <1>3, <1>4, <1>5, <1>6, <1>7 DEF Next

(* One step takes out of the bin only documents one operation put there.   *)
LEMMA RevivedTogether ==
    ASSUME TypeOK, DeletionIsTime, [Next]_vars
    PROVE  \A d, e \in Revived : deletion[d] = deletion[e]
<1> USE DEF rows, data, requests, history
<1>1. ASSUME \A e \in present \cap present' :
                deletedAt[e] # 0 => deletedAt'[e] # 0
      PROVE  Revived = {}
    BY <1>1 DEF Revived
<1>2. ASSUME UNCHANGED deletedAt PROVE Revived = {}
    BY <1>1, <1>2
<1>3. ASSUME NEW d \in Doc, NEW done \in SUBSET Doc, DeleteDocument(d, done)
      PROVE  Revived = {}
    <2>1. ops' # 0
        BY <1>3 DEF DeleteDocument, Operate, TypeOK
    <2> QED BY <1>1, <1>3, <2>1 DEF DeleteDocument, TypeOK
<1>4. ASSUME NEW d \in Doc, NEW done \in SUBSET Doc, RestoreDocument(d, done)
      PROVE  \A e, f \in Revived : deletion[e] = deletion[f]
    <2>1. \A e \in Revived : deletedAt[e] = deletedAt[d]
        BY <1>4 DEF RestoreDocument, Revived, Restores, TypeOK
    <2> QED BY <2>1 DEF DeletionIsTime
<1>5. CASE EmptyRecycleBin
    <2>1. \A e \in present \cap present' : deletedAt'[e] = deletedAt[e]
        BY <1>5 DEF EmptyRecycleBin, TypeOK
    <2> QED BY <1>1, <2>1
<1>6. ASSUME NEW d \in Doc,
             \/ \E p \in Parent : CreateDocument(d, p)
             \/ \E t \in {"keep", "clear", "set"}, r \in BOOLEAN :
                   SaveDocument(d, t, r) \/ MoveToRoot(d, t, r)
             \/ \E t \in {"keep", "set"} : PartialSave(d, t)
      PROVE  Revived = {}
    BY <1>2, <1>6 DEF CreateDocument, SaveDocument, MoveToRoot, PartialSave, Send
<1>7. ASSUME NEW d \in Doc,
             \/ WriteDocument(d) \/ WriteStops(d) \/ ExtractInfo(d)
             \/ ExtractWrites(d) \/ ExtractFails(d) \/ DeleteForever(d)
      PROVE  Revived = {}
    BY <1>2, <1>7 DEF WriteDocument, WriteStops, Upsert, ExtractInfo,
                      ExtractWrites, ExtractFails, DeleteForever
<1>8. CASE FetchDocuments \/ Restart \/ UNCHANGED vars
    BY <1>2, <1>8 DEF FetchDocuments, Restart, vars
<1> QED BY <1>3, <1>4, <1>5, <1>6, <1>7, <1>8 DEF Next

(* restore_document undoes one deletion and leaves the others alone.       *)
THEOREM RestoreRevivesOneDeletionHolds == Spec => RestoreRevivesOneDeletion
<1>1. Init => DeletionIsTime
    BY DEF Init, DeletionIsTime
<1>2. TypeOK /\ DeletionIsTime /\ [Next]_vars => DeletionIsTime'
    BY DeletionNext
<1>3. TypeOK /\ DeletionIsTime /\ [Next]_vars
          => [\A d, e \in Revived : deletion[d] = deletion[e]]_vars
    BY RevivedTogether
<1> QED BY <1>1, <1>2, <1>3, TypeCorrect, PTL DEF Spec, RestoreRevivesOneDeletion

-----------------------------------------------------------------------------
LEMMA PurgesOnlyBin ==
    ASSUME TypeOK, [Next]_vars
    PROVE  \A d \in present \ present' : deletedAt[d] # 0
<1> USE DEF rows, data, requests, history
<1>1. ASSUME present \subseteq present'
      PROVE  \A d \in present \ present' : deletedAt[d] # 0
    BY <1>1
<1>2. CASE EmptyRecycleBin
    BY <1>2 DEF EmptyRecycleBin, Purged, InBin
<1>3. ASSUME NEW d \in Doc,
             \/ \E p \in Parent : CreateDocument(d, p)
             \/ \E t \in {"keep", "clear", "set"}, r \in BOOLEAN :
                   SaveDocument(d, t, r) \/ MoveToRoot(d, t, r)
             \/ \E t \in {"keep", "set"} : PartialSave(d, t)
      PROVE  present \subseteq present'
    BY <1>3 DEF CreateDocument, SaveDocument, MoveToRoot, PartialSave, Send
<1>4. ASSUME NEW d \in Doc,
             \/ WriteDocument(d) \/ WriteStops(d) \/ ExtractInfo(d)
             \/ ExtractWrites(d) \/ ExtractFails(d) \/ DeleteForever(d)
             \/ \E done \in SUBSET Doc :
                   DeleteDocument(d, done) \/ RestoreDocument(d, done)
      PROVE  present \subseteq present'
    BY <1>4 DEF WriteDocument, WriteStops, Upsert, ExtractInfo, ExtractWrites,
                ExtractUpsert, ExtractFails, DeleteForever, DeleteDocument,
                RestoreDocument
<1>5. CASE FetchDocuments \/ Restart \/ UNCHANGED vars
    BY <1>5 DEF FetchDocuments, Restart, vars
<1> QED BY <1>1, <1>2, <1>3, <1>4, <1>5 DEF Next

(* Only what is in the bin is purged.                                      *)
THEOREM LiveNeverPurgedHolds == Spec => LiveNeverPurged
<1>1. TypeOK /\ [Next]_vars
          => [\A d \in present \ present' : deletedAt[d] # 0]_vars
    BY PurgesOnlyBin
<1> QED BY <1>1, TypeCorrect, PTL DEF Spec, LiveNeverPurged

=============================================================================
