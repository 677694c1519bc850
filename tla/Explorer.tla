------------------------------- MODULE Explorer -------------------------------
(***************************************************************************)
(* The list of documents in the side bar: a tree for each group, built     *)
(* anew whenever the documents of the store change, and altered in place   *)
(* by what the user unfolds and drags.                                     *)
(*                                                                         *)
(* Three things have to agree that are kept apart: the documents, with     *)
(* their groups and parents; the tree that is shown; and what is to stay   *)
(* unfolded when the tree is next built.  Two effects keep them together:  *)
(* one builds the tree, the other unfolds it down to the active document.  *)
(* A document is created by a call that takes its time; the user goes on.  *)
(* The order of siblings, titles and the search field are left out.        *)
(***************************************************************************)
EXTENDS Integers

CONSTANTS
    Doc,            \* ids of documents, of those there will be too
    Private, Own, Foreign, Favorites,   \* groups: the private one, that of the
                    \* user's department, one the profile does not know, and
                    \* the one that stands for the favourites
    Favorite,       \* the documents that are favourites
    FirstDocs,      \* the documents at the start
    MaxOps,         \* bound: operations of the user in a behaviour, and answers
                    \* that bring a document otherwise than it is shown
    None

Group == {Private, Own, Foreign, Favorites}

ASSUME GroupsAssumption ==
    /\ Private \notin {Own, Foreign, Favorites}
    /\ Own \notin {Foreign, Favorites} /\ Foreign # Favorites
    /\ Group \cap Doc = {}
    /\ None \notin Doc \cup Group
ASSUME MaxOpsAssumption == MaxOps \in Nat
ASSUME FavoriteAssumption == Favorite \subseteq Doc

VARIABLES
    documents,
    made,           \* the documents as they were asked for, or at the start
    activeTabId,
    isFavoriteFilter,
    under,          \* the tree: the item or the group a document is shown under
    open,           \* items and groups that are shown unfolded
    remembered,     \* expandedIdsRef and expandedGroupsRef
    ops,
    lost,           \* history: items a drag has dropped since the tree was built
    dragged,        \* history: a drag has altered the tree since it was built
    disturbed,      \* history: the user has folded, sorted or dragged since the
                    \* tree was unfolded down to the active document
    astray          \* history: documents made, or brought, where the list does not
                    \* look, and those below them

tree == <<under, open>>
explorerHistory == <<lost, dragged, disturbed, astray>>
explorerVars == <<documents, made, activeTabId, isFavoriteFilter, tree, remembered,
                  ops, explorerHistory>>

-----------------------------------------------------------------------------
(* A document that was asked for is in the store once the call answers.    *)
DocumentRow ==
    [state : {"none", "asked", "live", "recycled", "gone"},
     type : {"private", "department"},
     group : Group \cup {None},
     parent : Doc \cup {None}]

Live(docs) == {d \in Doc : docs[d].state = "live"}
Stored(docs) == {d \in Doc : docs[d].state \in {"live", "recycled"}}

(* The group whose tree takes a document: a private one has no group.      *)
Home(r) ==
    IF r.type = "department" THEN r.group
    ELSE IF r.group = None THEN Private ELSE None

(* At the start no document is below itself, and whatever is below another *)
(* was made when that was there; some may be where the list does not look. *)
ASSUME FirstAssumption ==
    /\ FirstDocs \in [Doc -> DocumentRow]
    /\ \A S \in SUBSET Doc : S # {} => \E d \in S : FirstDocs[d].parent \notin S
    /\ \A d \in Doc : FirstDocs[d].parent # None =>
          "none" \notin {FirstDocs[d].state, FirstDocs[FirstDocs[d].parent].state}

Elsewhere(docs) ==
    {d \in Doc :
        \/ docs[d].state # "none" /\ Home(docs[d]) = None
        \/ /\ docs[d].parent # None
           /\ \/ Home(docs[docs[d].parent]) # Home(docs[d])
              \/ docs[d].state = "live" /\ docs[d].parent \notin Live(docs)}

Groups == IF isFavoriteFilter THEN {Favorites}
          ELSE {Private, Own} \cup ({Home(documents[d]) : d \in Live(documents)} \ {None})

(* The documents d is below, d itself included, by a function that gives   *)
(* the place of each: they are in every set that has d and the places of   *)
(* its members.  The group at their top belongs to the path.               *)
UpClosed(above, S) == \A x \in S : above[x] \in Doc => above[x] \in S
Items(above, d) ==
    LET closed == {S \in {T \cup {d} : T \in SUBSET (Doc \ {d})} : UpClosed(above, S)}
    IN  {x \in Doc : \A S \in closed : x \in S}
Path(above, d) ==
    LET items == Items(above, d)
    IN  items \cup ({above[x] : x \in items} \ {None})

Below(above, d) == {x \in Doc : d \in Path(above, x)}
Parent == [d \in Doc |-> documents[d].parent]

Listed(t, d) == Path(t, d) \cap Group # {}
Visible(d) ==
    LET path == Path(under, d) \ {d} IN path \cap Group # {} /\ path \subseteq open
Children(d) == {x \in Doc : under[x] = d}

-----------------------------------------------------------------------------
(* The tree of the documents: the favourites side by side, or each live    *)
(* document below its parent if the parent is in the same group.           *)
Tree(docs, favorites) ==
    LET Place(d) ==
            LET parent == docs[d].parent
                home == Home(docs[d])
            IN  IF d \notin Live(docs) THEN None
                ELSE IF favorites THEN (IF d \in Favorite THEN Favorites ELSE None)
                ELSE IF home = None \/ parent = None THEN home
                ELSE IF parent \in Live(docs) /\ Home(docs[parent]) = home THEN parent
                ELSE None
    IN  [d \in Doc |-> Place(d)]

Unfolded(refs, favorites) == IF favorites THEN {Favorites} ELSE refs

(* Mutant: the items above the active document are unfolded, not the group. *)
DownToItems(t, shown, docs, active) ==
    IF active = None \/ active \notin Stored(docs) \/ ~Listed(t, active) THEN shown
    ELSE shown \cup (Path([d \in Doc |-> docs[d].parent], active) \ {active})

(* The effect of activeTabId and documents: the group that shows the       *)
(* active document is unfolded, and in it the items that the store has     *)
(* above the document.                                                     *)
DownTo(t, shown, docs, active) ==
    IF active = None \/ active \notin Stored(docs) \/ ~Listed(t, active) THEN shown
    ELSE LET group == Path(t, active) \cap Group
             parents == Path([d \in Doc |-> docs[d].parent], active) \ {active}
         IN  shown \cup group \cup {p \in parents : Path(t, p) \cap group # {}}

(* The documents, or the array that holds them, are replaced.              *)
SetDocuments(docs, active, refs, favorites) ==
    LET t == Tree(docs, favorites) IN
    /\ documents' = docs
    /\ activeTabId' = active
    /\ remembered' = refs
    /\ isFavoriteFilter' = favorites
    /\ under' = t
    /\ open' = DownTo(t, Unfolded(refs, favorites), docs, active)
    /\ lost' = {}
    /\ dragged' = FALSE
    /\ disturbed' = FALSE

(* Another document becomes active: only the second effect runs.           *)
Activate(d) ==
    /\ activeTabId' = d
    /\ open' = DownTo(under, open, documents, d)
    /\ disturbed' = IF d = activeTabId THEN disturbed ELSE dragged

ExplorerInit ==
    /\ documents = FirstDocs /\ made = FirstDocs
    /\ activeTabId = None
    /\ isFavoriteFilter = FALSE
    /\ remembered = {Private}
    /\ under = Tree(FirstDocs, FALSE)
    /\ open = {Private}
    /\ ops = 0
    /\ lost = {}
    /\ dragged = FALSE
    /\ disturbed = FALSE
    /\ astray = Elsewhere(FirstDocs)

-----------------------------------------------------------------------------
Operate == ops < MaxOps /\ ops' = ops + 1

(* The list: it is unmounted with the side bar, and starts afresh.         *)
OpenSidebar ==
    /\ Operate
    /\ SetDocuments(documents, activeTabId, {Private}, FALSE)
    /\ UNCHANGED <<made, astray>>

(* A fetch opens a document if there is no tab.                            *)
ActiveThen(docs) == IF activeTabId = None /\ Stored(docs) # {} THEN Stored(docs)
                    ELSE {activeTabId}

(* The store replaces its documents without a change of their places.      *)
FetchDocuments ==
    /\ \E active \in ActiveThen(documents) :
          SetDocuments(documents, active, remembered, isFavoriteFilter)
    /\ UNCHANGED <<made, ops, astray>>

(* What an answer may bring of a document.  The answers to handleSave and  *)
(* saveDocument show it live, under the parent it had when they were sent, *)
(* and that to handleSave as private whatever it was; a copy that is put   *)
(* back, and the table that is fetched after a deletion or a restoration   *)
(* failed, may be behind in its state; and the table may have lost the     *)
(* parent to a save that does not send it.                                 *)
Brought(d) ==
    [state : {"live", "recycled"}, type : {made[d].type, "private"},
     group : {made[d].group}, parent : {made[d].parent, None}]

(* A document that the store removed may be in the table still.            *)
MergeDocument(d) ==
    /\ Operate
    /\ documents[d].state \notin {"none", "asked"}
    /\ \E r \in Brought(d) :
          LET docs == [documents EXCEPT ![d] = r] IN
          /\ \E active \in {activeTabId} \cup ActiveThen(docs) :
                SetDocuments(docs, active, remembered, isFavoriteFilter)
          /\ astray' = astray \cup Elsewhere(docs)
    /\ UNCHANGED made

(* The filter and the order of a group: only the first effect runs.        *)
Rebuild(favorites) ==
    /\ Operate
    /\ isFavoriteFilter' = favorites
    /\ under' = Tree(documents, favorites)
    /\ open' = Unfolded(remembered, favorites)
    /\ lost' = {}
    /\ dragged' = FALSE
    /\ disturbed' = TRUE
    /\ UNCHANGED <<documents, made, activeTabId, remembered, astray>>

ToggleFavorites == Rebuild(~isFavoriteFilter)
HandleSortChange == Rebuild(isFavoriteFilter)

(* Mutant: what is folded is not forgotten.                                *)
SwitchedOn(set, x) == set \cup {x}

Switched(set, x) == IF x \in open THEN set \ {x} ELSE set \cup {x}

Toggle(x) ==
    /\ Operate
    /\ open' = IF x \in open THEN open \ {x} ELSE open \cup {x}
    /\ remembered' = Switched(remembered, x)
    /\ disturbed' = TRUE
    /\ UNCHANGED <<documents, made, activeTabId, isFavoriteFilter, under, lost, dragged,
                   astray>>

ToggleGroup == \E g \in Groups : Toggle(g)

(* Only an item that has children has the arrow.                           *)
HasArrow(d) == Children(d) # {} /\ Visible(d)

ToggleExpandItem == \E d \in Doc : Toggle(d) /\ HasArrow(d)

(* Everything is unfolded if anything is folded.  What has no children is  *)
(* not remembered.                                                         *)
ToggleAllGroups ==
    LET items == {d \in Doc : Listed(under, d)}
        parents == {d \in items : Children(d) # {}}
        all == ~(Groups \cup parents \subseteq open)
    IN
    /\ Operate
    /\ open' = IF all THEN open \cup Groups \cup items ELSE open \ (Groups \cup items)
    /\ remembered' = IF all THEN remembered \cup Groups \cup parents
                     ELSE remembered \ (Groups \cup parents)
    /\ disturbed' = TRUE
    /\ UNCHANGED <<documents, made, activeTabId, isFavoriteFilter, under, lost, dragged,
                   astray>>

-----------------------------------------------------------------------------
(* Creating.  The call is under way while the document is asked for.       *)

Known(g) == g = Own

(* Mutant: the id the list gives to the private group is sent.             *)
RequestAsIs(g, parent) ==
    [state |-> "asked", type |-> IF Known(g) THEN "department" ELSE "private",
     group |-> g, parent |-> parent]

(* A group that the profile does not know gives a private document, which  *)
(* yet bears the id of the group.                                          *)
Request(g, parent) ==
    [state |-> "asked", type |-> IF Known(g) THEN "department" ELSE "private",
     group |-> IF g = Private THEN None ELSE g, parent |-> parent]

Misfiled(g, parent) ==
    \/ g \in {Foreign, Favorites}
    \/ parent # None /\ Home(documents[parent]) # g

Ask(d, g, parent) ==
    /\ Operate
    /\ documents[d].state = "none"
    /\ documents' = [documents EXCEPT ![d] = Request(g, parent)]
    /\ made' = [made EXCEPT ![d] = Request(g, parent)]
    /\ astray' = IF Misfiled(g, parent) THEN astray \cup {d} ELSE astray
    /\ UNCHANGED <<activeTabId, isFavoriteFilter, under, lost, dragged, disturbed>>

(* The plus of a group or of an item, which is unfolded at once, and is    *)
(* remembered to be.                                                       *)
HandleAddSubPage(d) ==
    \/ \E g \in Groups :
          /\ Ask(d, g, None)
          /\ remembered' = remembered \cup {g}
          /\ UNCHANGED open
    \/ \E p \in Doc, g \in Groups :
          /\ Ask(d, g, p)
          /\ Visible(p) /\ g \in Path(under, p)
          /\ remembered' = remembered \cup {g, p}
          /\ open' = open \cup {g, p}

(* The dialog offers the groups of the profile.                            *)
Offered == {Own}

HandleCreate(d) == (\E g \in Offered : Ask(d, g, None)) /\ UNCHANGED <<open, remembered>>

(* The document joins the store and is opened.  Its parent may have been   *)
(* recycled meanwhile.                                                     *)
CreateDocument(d) ==
    LET parent == documents[d].parent IN
    /\ documents[d].state = "asked"
    /\ SetDocuments([documents EXCEPT ![d].state = "live"], d, remembered, isFavoriteFilter)
    /\ astray' = IF parent # None /\ parent \notin Live(documents)
                 THEN astray \cup {d} ELSE astray
    /\ UNCHANGED <<made, ops>>

CreateFails(d) ==
    /\ documents[d].state = "asked"
    /\ documents' = [documents EXCEPT ![d].state = "gone"]
    /\ UNCHANGED <<made, activeTabId, isFavoriteFilter, tree, remembered, ops,
                   explorerHistory>>

-----------------------------------------------------------------------------
(* Opening, by a click on an item, by a tab, or from the bin; closing the  *)
(* last tab leaves none.                                                   *)
OpenTab(d) ==
    /\ Operate
    /\ d \in Stored(documents) \cup {None}
    /\ Activate(d)
    /\ UNCHANGED <<documents, made, isFavoriteFilter, under, remembered, lost, dragged,
                   astray>>

(* Mutant: the tabs are closed, and one of them stays the active one.      *)
ActiveStays(removed) == {activeTabId}

(* The tabs of what is removed are closed; the last of those left becomes  *)
(* active.                                                                 *)
ActiveAfter(removed) ==
    IF activeTabId \in removed THEN {None} \cup (Stored(documents) \ removed)
    ELSE {activeTabId}

Remove(removed, state) ==
    LET docs == [d \in Doc |-> IF d \in removed
                               THEN [documents[d] EXCEPT !.state = state] ELSE documents[d]]
    IN  /\ Operate
        /\ \E active \in ActiveAfter(removed) :
              SetDocuments(docs, active, remembered, isFavoriteFilter)
        /\ UNCHANGED <<made, astray>>

DeleteDocument(d) ==
    LET subtree == Below(Parent, d) \cap Stored(documents) IN
    \/ Remove(subtree, "recycled") /\ Visible(d)
    \/ documents[d].state = "recycled" /\ Remove(subtree, "gone")

EmptyRecycleBin ==
    LET recycled == Stored(documents) \ Live(documents) IN
    recycled # {} /\ Remove(recycled, "gone")

(* A document whose parent is not live goes to the top of its group.       *)
Restored(d) ==
    LET parent == documents[d].parent IN
    [documents[d] EXCEPT !.state = "live",
                         !.parent = IF parent \in Live(documents) THEN parent ELSE None]

RestoreDocument(d) ==
    /\ Operate
    /\ documents[d].state = "recycled"
    /\ SetDocuments([documents EXCEPT ![d] = Restored(d)], d, remembered, isFavoriteFilter)
    /\ UNCHANGED <<made, astray>>

-----------------------------------------------------------------------------
(* Dragging alters the tree alone.  The item is taken out with what is     *)
(* below it and then put at its target, which is found no more if it is    *)
(* the header of a group or is itself below the item.                      *)

(* There is a position once the mouse has moved over another item, be it   *)
(* not the one the drag ends at.                                           *)
Positioned(d, seen) == seen # {d}

HandleDragEnd ==
    LET seen == {x \in Doc : Visible(x)} IN
    /\ Operate
    /\ \E d \in seen :
          /\ Positioned(d, seen)
          /\ LET targets == seen \ Below(under, d) IN
             \/ \E over \in targets :
                   /\ \/ under' = [under EXCEPT ![d] = under[over]] /\ UNCHANGED open
                      \/ under' = [under EXCEPT ![d] = over] /\ open' = open \cup {over}
                   /\ UNCHANGED lost
             \/ \E over \in (Groups \cup seen) \ (targets \cup {d}) :
                   /\ under' = [under EXCEPT ![d] = None]
                   /\ lost' = lost \cup {d}
                   /\ UNCHANGED open
    /\ dragged' = TRUE
    /\ disturbed' = TRUE
    /\ UNCHANGED <<documents, made, activeTabId, isFavoriteFilter, remembered, astray>>

-----------------------------------------------------------------------------
Fold == ToggleFavorites \/ HandleSortChange \/ ToggleGroup \/ ToggleExpandItem
        \/ ToggleAllGroups
Create(d) == HandleAddSubPage(d) \/ HandleCreate(d) \/ CreateDocument(d) \/ CreateFails(d)
Change(d) == DeleteDocument(d) \/ RestoreDocument(d) \/ MergeDocument(d)

ExplorerNext ==
    \/ OpenSidebar \/ FetchDocuments \/ Fold \/ HandleDragEnd \/ EmptyRecycleBin
    \/ \E d \in Doc : Create(d) \/ Change(d)
    \/ \E d \in Doc \cup {None} : OpenTab(d)

ExplorerSpec == ExplorerInit /\ [][ExplorerNext]_explorerVars

-----------------------------------------------------------------------------
ExplorerTypeOK ==
    /\ documents \in [Doc -> DocumentRow] /\ made \in [Doc -> DocumentRow]
    /\ activeTabId \in Stored(documents) \cup {None}
    /\ isFavoriteFilter \in BOOLEAN
    /\ under \in [Doc -> Doc \cup Group \cup {None}]
    /\ ops \in 0 .. MaxOps
    /\ open \subseteq Doc \cup Group
    /\ remembered \subseteq Doc \cup Group
    /\ lost \subseteq Doc
    /\ dragged \in BOOLEAN
    /\ disturbed \in BOOLEAN
    /\ astray \subseteq Doc

(* Every live document (every favourite, in that view) is somewhere in the *)
(* list, but for the ways to lose it: a drag dropped it, or an item above  *)
(* it, on a header or into itself; it was made with the plus of the        *)
(* favourites, or of a group the profile does not know; below an item that *)
(* a drag had shown in another group; below a parent that was recycled     *)
(* while the call was under way; or an answer brought it, or what it is    *)
(* below, as private with the id of a department, or the one live and the  *)
(* other not (DocumentList.tsx 600-760, 932-1038; handleSave's             *)
(* `group_type || 2').                                                     *)
NothingDisappears ==
    \A d \in Live(documents) :
        \/ isFavoriteFilter /\ d \notin Favorite
        \/ Listed(under, d)
        \/ Path(under, d) \cap (lost \cup astray) # {}

(* The document in the active tab can be seen in the list if it is in it   *)
(* at all, whatever changed the documents or the tab, until the user folds *)
(* or sorts or drags (DocumentList.tsx 762-815).                           *)
ActiveIsVisible ==
    activeTabId \in Doc /\ Listed(under, activeTabId) /\ ~disturbed
        => Visible(activeTabId)

(* The next tree is not built with an item unfolded that the user sees     *)
(* folded (DocumentList.tsx 529-531, 634, 847-930).                        *)
RememberedIsShown ==
    ~isFavoriteFilter =>
        \A d \in remembered \cap Doc : Listed(under, d) /\ Children(d) # {} => d \in open

=============================================================================
