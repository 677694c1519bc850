---------------------------- MODULE Editor_proofs ----------------------------
(***************************************************************************)
(* Proofs about Editor, for any number of commands at once, changes and    *)
(* operations.                                                             *)
(***************************************************************************)
EXTENDS Editor, TLAPS

-----------------------------------------------------------------------------
(* The parts of the inductive invariant.  The editor: closed it has no text *)
(* and no changes.  No text is from a change yet to come.                  *)
UpTo(text) == text.title <= edits /\ text.content <= edits

EditorOK ==
    /\ editor \in EditorState
    /\ editor.on = (editor.text # NoText)
    /\ editor.armed => editor.isDirty
    /\ ~editor.on => ~editor.isDirty /\ ~editor.loading
    /\ editor.isDirty => editor.seen \in 0 .. edits
    /\ UpTo(editor.text)

CallsOK ==
    /\ calls \in [Call -> CallState]
    /\ \A c \in Call :
          /\ UpTo(calls[c].text) /\ UpTo(calls[c].before)
          /\ calls[c].kind \notin {"none", "fetch"} => calls[c].text \in Text

RestOK ==
    /\ row \in Text /\ listed \in Texts /\ draft \in Texts /\ typed \in Text
    /\ UpTo(row) /\ UpTo(listed) /\ UpTo(draft) /\ UpTo(typed)
    /\ tab \in {"none", "front", "back"}
    /\ edits \in 0 .. MaxEdits /\ ops \in 0 .. MaxOps /\ emptied \subseteq 1 .. edits
    /\ slipped \in BOOLEAN /\ behind \in BOOLEAN

LinksOK ==
    /\ editor.on => tab # "none"
    /\ \A c \in Call : calls[c].here => editor.on

Types == EditorOK /\ CallsOK /\ RestOK /\ LinksOK

(* A rename that has not been written yet brings typed to the row.         *)
Renaming ==
    \E c \in Call : /\ calls[c].kind = "rename" /\ calls[c].phase = "sent"
                    /\ calls[c].text = typed

(* Until work slips, what was typed last is in one of four places; of the  *)
(* calls only a rename is needed for it.                                   *)
Kept ==
    \/ typed \in {row, draft}
    \/ editor.on /\ (editor.isDirty \/ editor.loading) /\ editor.text = typed
    \/ Renaming

(* A dirty editor has it; a call that wrote or read it found it in the row *)
(* and left it there; the store has it only if the row has it or will.     *)
DirtyIsTyped == editor.isDirty => editor.text = typed
WrittenIsRow ==
    \A c \in Call :
        /\ calls[c].kind # "none" /\ calls[c].text = typed
        /\ \/ calls[c].phase = "done"
           \/ calls[c].phase = "failed" /\ calls[c].kind = "rename"
        => row = typed
ListedIsRow ==
    /\ listed = typed => row = typed \/ Renaming
    /\ \A c \in Call : calls[c].kind = "keep" /\ calls[c].before = typed
                           => row = typed \/ Renaming

Work == slipped \/ (Kept /\ DirtyIsTyped /\ WrittenIsRow /\ ListedIsRow)

(* What a closed editor would load is what was typed last, and so is the   *)
(* draft, but for a title left empty in it.                                *)
LoadableIsTyped ==
    ~editor.on /\ ~slipped /\ ~behind =>
        /\ listed # NoText => Loadable = typed
        /\ draft # NoText /\ ~TakesTitle => draft = typed
        /\ draft # NoText => draft.content = typed.content

IInv == Types /\ Work
Shown == LoadableIsTyped /\ EditorShowsWork

-----------------------------------------------------------------------------
LEMMA TextFields ==
    \A x \in Texts : /\ x.title \in -1 .. MaxEdits /\ x.content \in -1 .. MaxEdits
                     /\ x = NoText \/ x \in Text
    BY BoundsAssumption DEF Texts, Text, NoText

LEMMA NoTextFields ==
    /\ NoText \in Texts /\ NoText.title = -1 /\ NoText.content = -1
    /\ NoText \notin Text /\ Text \subseteq Texts
    BY DEF NoText, Text, Texts

LEMMA Constants ==
    /\ Off \in EditorState /\ Off.text = NoText
    /\ Off.on = FALSE /\ Off.isDirty = FALSE /\ Off.loading = FALSE /\ Off.armed = FALSE
    /\ Fetch \in CallState /\ Fetch.kind = "fetch" /\ Fetch.phase = "sent"
    /\ Fetch.text = NoText /\ Fetch.before = NoText /\ Fetch.here = FALSE
    /\ NoCall \in CallState /\ NoCall.kind = "none" /\ NoCall.phase = "sent"
    /\ NoCall.text = NoText /\ NoCall.before = NoText /\ NoCall.here = FALSE
<1>1. NoText \in Texts /\ -1 \in -1 .. MaxEdits
    BY BoundsAssumption DEF Texts
<1>2. Off \in EditorState /\ Off.text = NoText /\ Off.on = FALSE /\ Off.isDirty = FALSE
      /\ Off.loading = FALSE /\ Off.armed = FALSE
    BY <1>1 DEF Off, EditorState
<1>3. NoCall \in CallState /\ NoCall.kind = "none" /\ NoCall.phase = "sent"
      /\ NoCall.text = NoText /\ NoCall.before = NoText /\ NoCall.here = FALSE
    BY <1>1 DEF NoCall, CallState
<1>4. Fetch \in CallState /\ Fetch.kind = "fetch" /\ Fetch.phase = "sent"
      /\ Fetch.text = NoText /\ Fetch.before = NoText /\ Fetch.here = FALSE
    BY <1>3 DEF Fetch, CallState, Kind
<1> QED BY <1>2, <1>3, <1>4

LEMMA ClosedEditor == editor = Off /\ edits \in Nat => EditorOK
<1> SUFFICES ASSUME editor = Off, edits \in Nat PROVE EditorOK
    OBVIOUS
<1>1. editor \in EditorState /\ editor.on = (editor.text # NoText)
    BY Constants
<1>2. /\ ~editor.armed /\ ~editor.isDirty /\ ~editor.loading
    BY Constants
<1>3. UpTo(editor.text)
    BY Constants, NoTextFields DEF UpTo
<1> QED BY <1>1, <1>2, <1>3 DEF EditorOK

LEMMA InitTypes == Init => Types
<1> SUFFICES ASSUME Init PROVE Types
    OBVIOUS
<1>1. PICK c \in Call : calls = [x \in Call |-> IF x = c THEN Fetch ELSE NoCall]
    BY DEF Init
<1>2. First \in Text /\ First.title = 0 /\ First.content = 0 /\ 0 \in 0 .. MaxEdits
    BY BoundsAssumption DEF First, Text
<1>3. EditorOK
    BY ClosedEditor DEF Init
<1>4. CallsOK
    BY <1>1, Constants, NoTextFields DEF Init, CallsOK, UpTo
<1>5. RestOK
    <2>1. UpTo(First) /\ UpTo(NoText)
        BY <1>2, NoTextFields DEF Init, UpTo
    <2>2. edits \in 0 .. MaxEdits /\ ops \in 0 .. MaxOps /\ emptied \subseteq 1 .. edits
        BY BoundsAssumption DEF Init
    <2> QED BY <1>2, <2>1, <2>2, NoTextFields DEF Init, RestOK
<1>6. LinksOK
    BY <1>1, Constants DEF Init, LinksOK
<1> QED BY <1>3, <1>4, <1>5, <1>6 DEF Types

(* The tab is brought to the front or leaves it.                           *)
LEMMA TurnTypes ==
    ASSUME Types, OpenTab \/ LeaveTab
    PROVE  Types'
<1>1. /\ editor' = [editor EXCEPT !.armed = FALSE, !.seen = editor.text.title]
      /\ tab' \in {"front", "back"}
      /\ UNCHANGED <<row, listed, draft, calls, edits, ops, emptied, typed, slipped, behind>>
    BY DEF OpenTab, LeaveTab, history
<1>2. editor' \in EditorState
    BY <1>1, TextFields DEF Types, EditorOK, EditorState
<1>3. /\ editor'.on = editor.on /\ editor'.text = editor.text
      /\ editor'.isDirty = editor.isDirty /\ editor'.loading = editor.loading
      /\ ~editor'.armed
    BY <1>1 DEF Types, EditorOK, EditorState
<1>4. EditorOK'
    <2>1. editor'.on = (editor'.text # NoText)
        BY <1>3 DEF Types, EditorOK
    <2>2. editor'.isDirty => editor'.seen \in 0 .. edits
        <3>1. editor.isDirty => editor.text \in Text
            BY DEF Types, EditorOK, EditorState, Texts
        <3> QED BY <1>1, <1>3, <3>1, BoundsAssumption
                DEF Types, EditorOK, EditorState, Text, RestOK, UpTo
    <2> QED BY <1>1, <1>2, <1>3, <2>1, <2>2 DEF Types, EditorOK, UpTo
<1>5. CallsOK'
    BY <1>1 DEF Types, CallsOK, UpTo
<1>6. RestOK' /\ LinksOK'
    BY <1>1, <1>3 DEF Types, RestOK, LinksOK, UpTo
<1> QED BY <1>4, <1>5, <1>6 DEF Types

(* What is loaded is a text, once the store has the document.              *)
LEMMA LoadableText ==
    ASSUME RestOK, listed # NoText
    PROVE  Loadable \in Text /\ Loadable \in Texts /\ Loadable # NoText /\ UpTo(Loadable)
<1>1. /\ listed \in Text /\ UpTo(listed) /\ UpTo(draft)
      /\ draft # NoText => draft \in Text
    BY TextFields DEF RestOK
<1>2. CASE draft = NoText
    BY <1>1, <1>2, NoTextFields DEF Loadable, LoadedWith
<1>3. CASE draft # NoText /\ ~TakesTitle
    BY <1>1, <1>3, NoTextFields DEF Loadable, LoadedWith
<1>4. CASE draft # NoText /\ TakesTitle
    <2>1. Loadable = [draft EXCEPT !.title = listed.title]
        BY <1>4 DEF Loadable, LoadedWith
    <2> QED BY <1>1, <1>4, <2>1, NoTextFields DEF Text, UpTo
<1> QED BY <1>2, <1>3, <1>4

LEMMA MountTypes == ASSUME Types, Mount PROVE Types'
<1>1. /\ editor' = [Off EXCEPT !.on = TRUE, !.loading = TRUE, !.text = Loadable]
      /\ tab # "none" /\ listed # NoText
      /\ UNCHANGED <<row, listed, draft, tab, calls, edits, ops, emptied, typed, slipped, behind>>
    BY DEF Mount, Loaded, history
<1>2. Loadable \in Texts /\ Loadable # NoText /\ UpTo(Loadable)
    BY <1>1, LoadableText DEF Types, RestOK
<1> HIDE DEF Loadable
<1>3. editor' \in EditorState
    BY <1>1, <1>2, Constants DEF EditorState
<1>4. /\ editor'.on /\ editor'.text = Loadable
      /\ ~editor'.isDirty /\ ~editor'.armed
    BY <1>1, <1>2, Constants DEF EditorState
<1>5. EditorOK'
    BY <1>1, <1>2, <1>3, <1>4 DEF EditorOK, UpTo
<1>6. CallsOK' /\ RestOK' /\ LinksOK'
    BY <1>1, <1>4 DEF Types, CallsOK, RestOK, LinksOK, UpTo
<1> QED BY <1>5, <1>6 DEF Types

LEMMA EndLoadingTypes == ASSUME Types, EndLoading PROVE Types'
<1>1. EditorOK'
    BY TextFields DEF EndLoading, Types, EditorOK, EditorState, Cleaned, UpTo, history
<1>2. editor'.on = editor.on
    BY DEF EndLoading, Types, EditorOK, EditorState, Cleaned
<1>3. CallsOK' /\ RestOK' /\ LinksOK'
    BY <1>2 DEF EndLoading, Types, CallsOK, RestOK, LinksOK, UpTo
<1> QED BY <1>1, <1>3 DEF Types

LEMMA CloseTypes == ASSUME Types, CloseTab \/ Crash PROVE Types'
<1>1. editor' = Off /\ UNCHANGED <<row, draft, edits, emptied, typed>>
    BY DEF CloseTab, Crash, Leave
<1>2. EditorOK'
    <2>1. edits \in Nat
        BY BoundsAssumption DEF Types, RestOK
    <2>2. editor' \in EditorState /\ editor'.on = (editor'.text # NoText)
        BY <1>1, Constants
    <2>3. ~editor'.armed /\ ~editor'.isDirty /\ ~editor'.loading
        BY <1>1, Constants
    <2>4. UpTo(editor.text)'
        BY <1>1, <2>1, Constants, NoTextFields DEF UpTo
    <2> QED BY <2>2, <2>3, <2>4 DEF EditorOK
<1>3. slipped' \in BOOLEAN /\ behind' \in BOOLEAN
    BY DEF CloseTab, Crash, Leave
<1>4. CASE CloseTab
    <2>1. CallsOK' /\ LinksOK'
        BY <1>1, <1>4, Constants DEF CloseTab, Types, CallsOK, CallState, LinksOK, UpTo
    <2>2. RestOK'
        BY <1>1, <1>3, <1>4 DEF CloseTab, Types, RestOK, UpTo
    <2> QED BY <1>2, <2>1, <2>2 DEF Types
<1>5. CASE Crash
    <2>1. PICK c \in Call : calls' = [x \in Call |-> IF x = c THEN Fetch ELSE NoCall]
        BY <1>5 DEF Crash
    <2>2. CallsOK' /\ LinksOK'
        BY <1>1, <2>1, Constants, NoTextFields DEF Types, CallsOK, LinksOK, RestOK, UpTo
    <2>3. RestOK'
        BY <1>1, <1>3, <1>5, NoTextFields, BoundsAssumption
            DEF Crash, Operate, Types, RestOK, UpTo
    <2> QED BY <1>2, <2>2, <2>3 DEF Types
<1> QED BY <1>4, <1>5

(* A change: the text is new, and what was is older.                       *)
LEMMA NewText ==
    ASSUME Types, CanType, NEW text \in {[editor.text EXCEPT !.content = edits + 1],
                                         [editor.text EXCEPT !.title = edits + 1]}
    PROVE  /\ text \in Text /\ text # NoText
           /\ text.title <= edits + 1 /\ text.content <= edits + 1
           /\ text.title = edits + 1 \/ text.content = edits + 1
           /\ edits + 1 \in 0 .. MaxEdits /\ edits' = edits + 1 /\ edits \in Nat
<1>1. editor.text \in Text /\ edits + 1 \in 0 .. MaxEdits /\ edits \in Nat
      /\ editor.text.title <= edits /\ editor.text.content <= edits /\ edits' = edits + 1
    BY BoundsAssumption DEF CanType, Types, EditorOK, RestOK, EditorState, Texts, UpTo
<1>2. CASE text = [editor.text EXCEPT !.content = edits + 1]
    BY <1>1, <1>2, NoTextFields DEF Text
<1>3. CASE text = [editor.text EXCEPT !.title = edits + 1]
    BY <1>1, <1>3, NoTextFields DEF Text
<1> QED BY <1>2, <1>3

LEMMA TypeTypes == ASSUME Types, TypeContent \/ TypeTitle PROVE Types'
<1>1. CanType /\ editor \in EditorState /\ editor.on
    BY DEF TypeContent, TypeTitle, CanType, Types, EditorOK
<1>2. PICK text \in {[editor.text EXCEPT !.content = edits + 1],
                     [editor.text EXCEPT !.title = edits + 1]} :
          LET seen == IF editor.isDirty THEN editor.seen ELSE text.title IN
          /\ typed' = text
          /\ \/ editor' = [editor EXCEPT !.text = text]
             \/ editor' = [editor EXCEPT !.text = text, !.isDirty = TRUE, !.seen = seen]
             \/ editor' = [editor EXCEPT !.text = text, !.isDirty = TRUE,
                              !.armed = editor.isDirty, !.seen = seen]
    <2>1. CASE TypeContent
        BY <2>1 DEF TypeContent
    <2>2. CASE TypeTitle
        BY <2>2 DEF TypeTitle
    <2> QED BY <2>1, <2>2
<1>3. /\ text \in Text /\ text # NoText
      /\ text.title <= edits + 1 /\ text.content <= edits + 1
      /\ edits + 1 \in 0 .. MaxEdits /\ edits' = edits + 1 /\ edits \in Nat
    BY <1>1, <1>2, NewText
<1>4. text \in Texts /\ text.title \in -1 .. MaxEdits /\ text.title \in 0 .. edits + 1
    BY <1>3, TextFields, NoTextFields DEF Text
<1>5. editor.isDirty => editor.seen \in 0 .. edits + 1
    BY <1>3 DEF Types, EditorOK
<1>6. /\ editor' \in EditorState
      /\ editor'.text = text /\ editor'.on = TRUE
      /\ editor'.armed => editor'.isDirty
      /\ editor'.isDirty => editor'.seen \in 0 .. edits + 1
    <2>1. CASE editor' = [editor EXCEPT !.text = text]
        BY <1>1, <1>4, <1>5, <2>1 DEF Types, EditorOK, EditorState
    <2>2. CASE editor' # [editor EXCEPT !.text = text]
        BY <1>1, <1>2, <1>4, <1>5, <2>2 DEF Types, EditorOK, EditorState
    <2> QED BY <2>1, <2>2
<1>7. EditorOK'
    BY <1>3, <1>6 DEF EditorOK, UpTo
<1>8. UNCHANGED <<row, listed, draft, tab, calls, ops, slipped, behind>>
    BY DEF TypeContent, TypeTitle
<1>9. \A x \in Texts : UpTo(x) => UpTo(x)'
    BY <1>3, TextFields DEF UpTo
<1>10. CallsOK'
    BY <1>8, <1>9 DEF Types, CallsOK, CallState
<1>11. RestOK'
    <2>1. UpTo(row)' /\ UpTo(listed)' /\ UpTo(draft)'
        BY <1>8, <1>9, NoTextFields DEF Types, RestOK
    <2>2. UpTo(typed)'
        BY <1>2, <1>3 DEF UpTo
    <2>3. emptied' \subseteq 1 .. edits'
        <3>1. emptied' \subseteq emptied \cup {edits + 1}
            BY DEF TypeContent, TypeTitle
        <3> QED BY <1>3, <3>1 DEF Types, RestOK
    <2> QED BY <1>2, <1>3, <1>8, <2>1, <2>2, <2>3 DEF Types, RestOK
<1>12. LinksOK'
    BY <1>1, <1>6, <1>8 DEF Types, LinksOK, CanType
<1> QED BY <1>7, <1>10, <1>11, <1>12 DEF Types

LEMMA AutoSaveTypes == ASSUME Types, AutoSave PROVE Types'
<1>1. /\ editor.on /\ editor.text \in Text /\ editor.seen \in 0 .. edits
      /\ editor \in EditorState /\ edits \in 0 .. MaxEdits
      /\ editor.text.content \in 0 .. MaxEdits /\ editor.text.content <= edits
    BY DEF AutoSave, Types, EditorOK, RestOK, EditorState, Texts, Text, UpTo
<1>2. /\ editor' = [editor EXCEPT !.armed = FALSE]
      /\ draft' \in {draft, [title |-> editor.seen, content |-> editor.text.content]}
      /\ UNCHANGED <<row, listed, tab, calls, edits, ops, emptied, typed, slipped, behind>>
    BY DEF AutoSave, history
<1>3. draft' \in Texts /\ UpTo(draft)'
    BY <1>1, <1>2, BoundsAssumption DEF Types, RestOK, Texts, Text, UpTo
<1>4. EditorOK' /\ editor'.on = editor.on
    BY <1>1, <1>2 DEF Types, EditorOK, EditorState, UpTo
<1>5. CallsOK' /\ RestOK' /\ LinksOK'
    BY <1>2, <1>3, <1>4 DEF Types, CallsOK, RestOK, LinksOK, UpTo
<1> QED BY <1>4, <1>5 DEF Types

(* A command is sent, with a text there is.                                *)
LEMMA BeginTypes ==
    ASSUME Types, NEW c \in Call, NEW call \in CallState, Begin(c, call),
           UpTo(call.text), UpTo(call.before), call.here => editor.on,
           call.kind \notin {"none", "fetch"} => call.text \in Text,
           UNCHANGED <<editor, edits, tab>>
    PROVE  CallsOK' /\ EditorOK' /\ LinksOK'
    BY DEF Begin, Types, CallsOK, EditorOK, LinksOK, UpTo

LEMMA SendTypes ==
    ASSUME Types, NEW c \in Call,
           HandleSave(c) \/ (\E kind \in {"keep", "state"} : SaveCopy(c, kind))
           \/ HandleAiExtraction(c)
    PROVE  Types'
<1>1. ops' \in 0 .. MaxOps /\ UNCHANGED <<row, listed, draft, tab, editor, edits, emptied, history>>
    BY BoundsAssumption DEF HandleSave, SaveCopy, HandleAiExtraction, Operate, Types, RestOK
<1>2. RestOK'
    BY <1>1 DEF Types, RestOK, UpTo, history
<1>3. ASSUME NEW call, Begin(c, call),
             call \in CallState, call.text \in {editor.text, listed},
             call.text # NoText, call.before \in {listed, NoText},
             call.here => editor.on
      PROVE  Types'
    <2>1. /\ editor.text \in Texts /\ listed \in Texts /\ editor.on \in BOOLEAN
          /\ edits \in Nat /\ UpTo(editor.text) /\ UpTo(listed)
        BY BoundsAssumption DEF Types, RestOK, EditorOK, EditorState
    <2>2. call.text \in Text
        BY <1>3, <2>1, TextFields
    <2>4. UpTo(call.text) /\ UpTo(call.before)
        BY <1>3, <2>1, NoTextFields DEF UpTo
    <2> QED BY <1>1, <1>2, <1>3, <2>2, <2>4, BeginTypes DEF Types
<1>4. CASE HandleSave(c)
    <2>0. editor.text \in Texts /\ listed \in Texts
        BY DEF Types, RestOK, EditorOK, EditorState
    <2> DEFINE call == [NoCall EXCEPT !.kind = "save", !.text = editor.text, !.here = TRUE]
    <2>1. Begin(c, call) /\ editor.on = TRUE /\ editor.text # NoText
        BY <1>4 DEF HandleSave, Types, EditorOK, EditorState
    <2>2. /\ call \in CallState /\ call.text = editor.text
          /\ call.before = NoText
        BY <2>0, Constants DEF CallState, Kind
    <2> HIDE DEF call
    <2> QED BY <1>3, <2>1, <2>2
<1>5. ASSUME NEW kind \in {"keep", "state"}, SaveCopy(c, kind)
      PROVE  Types'
    <2>0. editor.text \in Texts /\ listed \in Texts
        BY DEF Types, RestOK, EditorOK, EditorState
    <2> DEFINE call == [NoCall EXCEPT !.kind = kind, !.text = listed, !.before = listed]
    <2>1. Begin(c, call) /\ listed # NoText
        BY <1>5 DEF SaveCopy
    <2>2. /\ call \in CallState /\ call.text = listed
          /\ call.before = listed /\ call.here = FALSE
        BY <2>0, Constants DEF CallState, Kind
    <2> HIDE DEF call
    <2> QED BY <1>3, <2>1, <2>2
<1>6. CASE HandleAiExtraction(c)
    <2>0. editor.text \in Texts /\ listed \in Texts
        BY DEF Types, RestOK, EditorOK, EditorState
    <2> DEFINE call == [NoCall EXCEPT !.kind = "extract", !.text = editor.text]
    <2>1. Begin(c, call) /\ editor.text # NoText
        BY <1>6 DEF HandleAiExtraction, Types, EditorOK
    <2>2. /\ call \in CallState /\ call.text = editor.text
          /\ call.before = NoText /\ call.here = FALSE
        BY <2>0, Constants DEF CallState, Kind
    <2> HIDE DEF call
    <2> QED BY <1>3, <2>1, <2>2
<1> QED BY <1>4, <1>5, <1>6

LEMMA RenameTypes ==
    ASSUME Types, NEW c \in Call, RenameDocument(c)
    PROVE  Types'
<1>1. /\ listed \in Text /\ typed \in Text /\ listed # NoText /\ edits \in Nat
      /\ edits + 1 \in 0 .. MaxEdits /\ edits' = edits + 1
      /\ listed.content <= edits /\ typed.content <= edits
    BY BoundsAssumption, TextFields DEF RenameDocument, Types, RestOK, UpTo
<1>2. /\ listed' = [listed EXCEPT !.title = edits + 1]
      /\ typed' = [typed EXCEPT !.title = edits + 1]
      /\ UNCHANGED <<row, draft, tab, editor, emptied, behind>>
      /\ slipped' \in BOOLEAN /\ ops' \in 0 .. MaxOps
    BY BoundsAssumption DEF RenameDocument, Operate, Types, RestOK
<1>9. emptied' \subseteq 1 .. edits'
    BY <1>1, <1>2 DEF Types, RestOK
<1>3. listed' \in Text /\ typed' \in Text /\ UpTo(listed)' /\ UpTo(typed)'
    BY <1>1, <1>2, TextFields DEF Text, UpTo
<1>4. \A x \in Texts : UpTo(x) => UpTo(x)'
    BY <1>1, TextFields DEF UpTo
<1> DEFINE call == [NoCall EXCEPT !.kind = "rename", !.text = listed']
<1>5. calls' = [calls EXCEPT ![c] = call]
    BY <1>2 DEF RenameDocument, Renamed, Begin
<1>6. listed' \in Texts
    BY <1>3, NoTextFields
<1>7. /\ call \in CallState /\ call.text = listed' /\ call.before = NoText
      /\ call.here = FALSE
    BY <1>6, Constants DEF CallState, Kind
<1> HIDE DEF call
<1>8. CallsOK'
    <2>1. UpTo(NoText)'
        BY <1>1, NoTextFields DEF UpTo
    <2>2. \A x \in Call \ {c} : calls'[x] = calls[x]
        BY <1>5 DEF Types, CallsOK
    <2>3. calls' \in [Call -> CallState] /\ calls'[c] = call
        BY <1>5, <1>7 DEF Types, CallsOK
    <2>4. ASSUME NEW x \in Call
          PROVE  /\ UpTo(calls[x].text)' /\ UpTo(calls[x].before)'
                 /\ calls'[x].kind \notin {"none", "fetch"} => calls'[x].text \in Text
        <3>1. CASE x = c
            <4>1. UpTo(calls[x].text)'
                BY <1>3, <1>7, <2>3, <3>1 DEF UpTo
            <4>2. UpTo(calls[x].before)'
                BY <1>7, <2>1, <2>3, <3>1 DEF UpTo
            <4> QED BY <1>3, <1>7, <2>3, <3>1, <4>1, <4>2
        <3>2. CASE x # c
            <4>1. calls'[x] = calls[x] /\ calls[x].text \in Texts /\ calls[x].before \in Texts
                BY <2>2, <3>2 DEF Types, CallsOK, CallState
            <4>2. UpTo(calls[x].text) /\ UpTo(calls[x].before)
                BY DEF Types, CallsOK
            <4>3. UpTo(calls[x].text)' /\ UpTo(calls[x].before)'
                BY <1>1, <4>1, <4>2, TextFields DEF UpTo
            <4> QED BY <4>1, <4>3 DEF Types, CallsOK
        <3> QED BY <3>1, <3>2
    <2> QED BY <2>3, <2>4 DEF CallsOK
<1>10. LinksOK'
    BY <1>2, <1>5, <1>7 DEF Types, LinksOK, CallsOK
<1>11. EditorOK'
    BY <1>1, <1>2, <1>4 DEF Types, EditorOK, EditorState
<1>12. RestOK'
    BY <1>1, <1>2, <1>3, <1>4, <1>9, NoTextFields DEF Types, RestOK
<1> QED BY <1>8, <1>10, <1>11, <1>12 DEF Types

LEMMA CommandTypes ==
    ASSUME Types, NEW c \in Call, Write(c) \/ ListDocuments(c)
    PROVE  Types'
<1>1. /\ calls \in [Call -> CallState] /\ calls[c] \in CallState
      /\ row \in Text /\ row \in Texts /\ UpTo(row)
    BY NoTextFields DEF Types, CallsOK, RestOK
<1>2. UNCHANGED <<listed, draft, tab, editor, edits, ops, emptied, typed, behind>>
    BY DEF Write, ListDocuments, history
<1>3. row' \in Text /\ UpTo(row)' /\ slipped' \in BOOLEAN
    <2>1. CASE Write(c)
        <3>1. calls[c].text \in Text /\ UpTo(calls[c].text)
            BY <2>1 DEF Write, Sent, Types, CallsOK
        <3>2. row' \in {row, calls[c].text} /\ slipped' \in BOOLEAN
            BY <2>1 DEF Write, Types, RestOK
        <3> QED BY <1>1, <1>2, <3>1, <3>2 DEF UpTo
    <2>2. CASE ListDocuments(c)
        BY <1>1, <1>2, <2>2 DEF ListDocuments, history, Types, RestOK, UpTo
    <2> QED BY <2>1, <2>2
<1>4. /\ calls' \in [Call -> CallState] /\ \A x \in Call \ {c} : calls'[x] = calls[x]
      /\ calls'[c].kind = calls[c].kind /\ calls'[c].before = calls[c].before
      /\ calls'[c].here = calls[c].here
      /\ \/ calls'[c].text = calls[c].text
         \/ calls'[c].text = row
    <2>1. CASE Write(c)
        <3>1. PICK phase \in {"done", "failed"} : calls' = [calls EXCEPT ![c].phase = phase]
            BY <2>1 DEF Write
        <3> QED BY <1>1, <3>1 DEF CallState
    <2>2. CASE ListDocuments(c)
        BY <1>1, <2>2 DEF ListDocuments, CallState
    <2> QED BY <2>1, <2>2
<1>5. CallsOK'
    BY <1>1, <1>2, <1>4 DEF Types, CallsOK, UpTo
<1>6. RestOK'
    BY <1>2, <1>3 DEF Types, RestOK, UpTo
<1>7. EditorOK' /\ LinksOK'
    BY <1>2, <1>4 DEF Types, EditorOK, LinksOK, UpTo
<1> QED BY <1>5, <1>6, <1>7 DEF Types

LEMMA AnswerTypes ==
    ASSUME Types, NEW c \in Call,
           SaveAnswered(c) \/ Refetch(c) \/ NothingShown(c) \/ ShowAnswer(c)
    PROVE  Types'
<1>1. /\ calls \in [Call -> CallState] /\ calls[c] \in CallState
      /\ UpTo(calls[c].text) /\ UpTo(calls[c].before)
      /\ calls[c].text \in Texts /\ calls[c].before \in Texts
    BY DEF Types, CallsOK, CallState
<1>2. UNCHANGED <<row, tab, edits, ops, emptied, typed>>
    BY DEF SaveAnswered, Refetch, NothingShown, ShowAnswer, history
<1>3. PICK call \in {NoCall, Fetch} : calls' = [calls EXCEPT ![c] = call]
    BY DEF SaveAnswered, Refetch, NothingShown, ShowAnswer, End
<1>4. /\ listed' \in {listed, calls[c].text, calls[c].before}
      /\ draft' \in {draft, NoText}
      /\ editor' \in {editor, Cleaned(editor)}
      /\ slipped' \in BOOLEAN /\ behind' \in BOOLEAN
    BY DEF SaveAnswered, Refetch, NothingShown, ShowAnswer, Show, history, Dropped,
           Types, RestOK
<1>5. CallsOK'
    <2>1. UpTo(NoText)
        BY NoTextFields, BoundsAssumption DEF Types, RestOK, UpTo
    <2> QED BY <1>2, <1>3, <2>1, Constants DEF Types, CallsOK, UpTo
<1>6. RestOK'
    <2>1. UpTo(NoText)
        BY NoTextFields, BoundsAssumption DEF Types, RestOK, UpTo
    <2> QED BY <1>1, <1>2, <1>4, <2>1, NoTextFields DEF Types, RestOK, UpTo
<1>7. /\ editor' \in EditorState /\ editor'.on = editor.on /\ editor'.text = editor.text
      /\ editor'.seen = editor.seen /\ editor'.loading = editor.loading
      /\ editor'.armed => editor.armed
      /\ editor'.isDirty => editor.isDirty
      /\ editor'.armed => editor'.isDirty
    BY <1>4 DEF Cleaned, Types, EditorOK, EditorState
<1>8. EditorOK'
    BY <1>2, <1>7 DEF Types, EditorOK, UpTo
<1>9. LinksOK'
    BY <1>2, <1>3, <1>7, Constants DEF Types, LinksOK, CallsOK
<1> QED BY <1>5, <1>6, <1>8, <1>9 DEF Types

LEMMA NextTypes == Types /\ [Next]_vars => Types'
<1> SUFFICES ASSUME Types, [Next]_vars PROVE Types'
    OBVIOUS
<1>1. CASE UNCHANGED vars
    BY <1>1 DEF vars, Types, EditorOK, CallsOK, RestOK, LinksOK, UpTo
<1>2. CASE Next
    BY <1>2, TurnTypes, CloseTypes, MountTypes, EndLoadingTypes, TypeTypes, AutoSaveTypes,
       SendTypes, RenameTypes, CommandTypes, AnswerTypes DEF Next
<1> QED BY <1>1, <1>2

LEMMA TypesAreTypes == Types => TypeOK
    BY DEF Types, EditorOK, CallsOK, RestOK, LinksOK, TypeOK

(* Every variable keeps its type: only a dirty editor has a timer, and a   *)
(* call waits for an editor only while that is open.                       *)
THEOREM TypeCorrect == Spec => []TypeOK
    BY InitTypes, NextTypes, TypesAreTypes, PTL DEF Spec

-----------------------------------------------------------------------------
LEMMA InitWork == Init => Work
<1> SUFFICES ASSUME Init PROVE Work
    OBVIOUS
<1>1. First # NoText
    BY NoTextFields DEF First
<1>2. PICK c \in Call : calls = [x \in Call |-> IF x = c THEN Fetch ELSE NoCall]
    BY DEF Init
<1>3. \A x \in Call : calls[x].text = NoText /\ calls[x].kind # "keep"
    BY <1>2, Constants
<1>4. Kept /\ DirtyIsTyped /\ WrittenIsRow /\ ListedIsRow
    BY <1>1, <1>3, Constants DEF Init, Kept, DirtyIsTyped, WrittenIsRow, ListedIsRow
<1> QED BY <1>4 DEF Work

LEMMA TurnWork ==
    ASSUME IInv, OpenTab \/ LeaveTab
    PROVE  Work'
<1>1. /\ editor' = [editor EXCEPT !.armed = FALSE, !.seen = editor.text.title]
      /\ UNCHANGED <<row, listed, draft, calls, typed, slipped>>
    BY DEF OpenTab, LeaveTab, history
<1>2. /\ editor'.on = editor.on /\ editor'.text = editor.text
      /\ editor'.isDirty = editor.isDirty /\ editor'.loading = editor.loading
    BY <1>1 DEF IInv, Types, EditorOK, EditorState
<1> QED BY <1>1, <1>2 DEF IInv, Work, Kept, DirtyIsTyped, WrittenIsRow, ListedIsRow,
                          Renaming

LEMMA MountWork == ASSUME IInv, Mount PROVE Work'
<1>1. /\ ~editor.on /\ ~editor.isDirty
      /\ editor' = [Off EXCEPT !.on = TRUE, !.loading = TRUE, !.text = Loaded]
      /\ UNCHANGED <<row, listed, draft, calls, typed, slipped>>
    BY DEF Mount, history, IInv, Types, EditorOK
<1>2. ~editor'.isDirty
    BY <1>1, Constants DEF EditorState
<1> QED BY <1>1, <1>2 DEF IInv, Work, Kept, DirtyIsTyped, WrittenIsRow, ListedIsRow,
                          Renaming

LEMMA EndLoadingWork == ASSUME IInv, EndLoading PROVE Work'
<1>1. /\ ~editor'.isDirty /\ editor'.on = editor.on /\ editor'.text = editor.text
    BY DEF EndLoading, Cleaned, IInv, Types, EditorOK, EditorState
<1>2. UNCHANGED <<row, listed, draft, calls, typed>>
    BY DEF EndLoading
<1>3. SUFFICES ASSUME ~slipped, editor.text = Loadable,
                      TakesTitle => typed \in {draft, row}
               PROVE  Kept'
    BY <1>1, <1>2 DEF EndLoading, IInv, Work, DirtyIsTyped, WrittenIsRow, ListedIsRow,
                      Renaming
<1>4. CASE editor.text = typed
    <2>1. typed \in {draft, row} \/ typed = listed
        BY <1>3, <1>4 DEF Loadable, LoadedWith
    <2> QED BY <1>2, <1>3, <2>1 DEF IInv, Work, ListedIsRow, Kept, Renaming
<1>5. CASE editor.text # typed
    BY <1>2, <1>3, <1>5 DEF IInv, Work, Kept, Renaming
<1> QED BY <1>4, <1>5

LEMMA CloseWork == ASSUME IInv, CloseTab \/ Crash PROVE Work'
<1>1. editor' = Off /\ UNCHANGED <<row, draft, typed>>
    BY DEF CloseTab, Crash, Leave
<1>2. DirtyIsTyped'
    BY <1>1, Constants DEF DirtyIsTyped
<1>3. CASE CloseTab
    <2>1. /\ UNCHANGED listed
          /\ \A c \in Call : /\ calls'[c].kind = calls[c].kind
                             /\ calls'[c].phase = calls[c].phase
                             /\ calls'[c].text = calls[c].text
                             /\ calls'[c].before = calls[c].before
        BY <1>3 DEF CloseTab, IInv, Types, CallsOK, CallState
    <2>2. Renaming => Renaming'
        BY <1>1, <2>1 DEF Renaming
    <2>3. WrittenIsRow /\ ListedIsRow => WrittenIsRow' /\ ListedIsRow'
        BY <1>1, <2>1, <2>2 DEF WrittenIsRow, ListedIsRow
    <2>4. slipped' = (slipped \/ ((editor.isDirty \/ editor.loading) /\ typed \notin {draft, row}))
        BY <1>3 DEF CloseTab, Leave
    <2>5. Kept => Kept' \/ slipped'
        BY <1>1, <2>2, <2>4 DEF Kept
    <2> QED BY <1>2, <2>3, <2>4, <2>5 DEF IInv, Work
<1>4. CASE Crash
    <2>1. PICK c \in Call : calls' = [x \in Call |-> IF x = c THEN Fetch ELSE NoCall]
        BY <1>4 DEF Crash
    <2>2. listed' = NoText /\ typed # NoText
        BY <1>4, NoTextFields DEF Crash, IInv, Types, RestOK
    <2>3. WrittenIsRow' /\ ListedIsRow'
        BY <1>1, <2>1, <2>2, Constants DEF WrittenIsRow, ListedIsRow
    <2>4. slipped' = (slipped \/ ((editor.isDirty \/ (\E x \in Call : calls[x].kind = "rename")
                                   \/ editor.loading) /\ typed \notin {draft, row}))
        BY <1>4 DEF Crash, Leave
    <2>5. Kept => Kept' \/ slipped'
        BY <1>1, <2>4 DEF Kept, Renaming
    <2> QED BY <1>2, <2>3, <2>4, <2>5 DEF IInv, Work
<1> QED BY <1>3, <1>4

(* Typing is seen at once.                                                 *)
LEMMA TypedShown ==
    ASSUME IInv, TypeContent \/ TypeTitle
    PROVE  editor'.on /\ editor'.text = typed' /\ (editor'.isDirty \/ editor'.loading)
<1>0. CanType
    BY DEF TypeContent, TypeTitle
<1>1. editor \in EditorState /\ editor.on
    BY <1>0 DEF CanType, IInv, Types, EditorOK
<1>2. CASE TypeContent
    <2> DEFINE text == [editor.text EXCEPT !.content = edits + 1]
    <2>1. /\ typed' = text
          /\ editor' = IF editor.loading
             THEN [editor EXCEPT !.text = text]
             ELSE [editor EXCEPT !.text = text, !.isDirty = TRUE,
                       !.armed = editor.isDirty,
                       !.seen = IF editor.isDirty THEN @ ELSE text.title]
        BY <1>2 DEF TypeContent
    <2> HIDE DEF text
    <2> QED BY <1>1, <2>1 DEF EditorState
<1>3. CASE TypeTitle
    <2> DEFINE text == [editor.text EXCEPT !.title = edits + 1]
    <2>1. /\ typed' = text
          /\ editor' = [editor EXCEPT !.text = text, !.isDirty = TRUE,
                           !.seen = IF editor.isDirty THEN @ ELSE text.title]
        BY <1>3 DEF TypeTitle
    <2> HIDE DEF text
    <2> QED BY <1>1, <2>1 DEF EditorState
<1> QED BY <1>2, <1>3

LEMMA TypeWork == ASSUME IInv, TypeContent \/ TypeTitle PROVE Work'
<1>1. CanType /\ UNCHANGED <<row, listed, draft, calls, slipped>>
    BY DEF TypeContent, TypeTitle
<1>2. typed' \in {[editor.text EXCEPT !.content = edits + 1],
                  [editor.text EXCEPT !.title = edits + 1]}
    BY DEF TypeContent, TypeTitle
<1>3. /\ edits \in Nat
      /\ typed'.title = edits + 1 \/ typed'.content = edits + 1
    BY <1>1, <1>2, NewText DEF IInv
<1>4. \A x \in Texts : UpTo(x) => x # typed'
    BY <1>3, TextFields DEF UpTo
<1>5. /\ editor'.on = TRUE /\ editor'.text = typed'
      /\ editor'.isDirty \/ editor'.loading
    BY TypedShown
<1>6. Kept' /\ DirtyIsTyped'
    BY <1>5 DEF Kept, DirtyIsTyped
<1>7. /\ listed # typed'
      /\ \A c \in Call : calls[c].text # typed' /\ calls[c].before # typed'
    BY <1>4 DEF IInv, Types, RestOK, CallsOK, CallState
<1>8. WrittenIsRow' /\ ListedIsRow'
    BY <1>1, <1>7 DEF WrittenIsRow, ListedIsRow
<1> QED BY <1>6, <1>8 DEF Work

LEMMA AutoSaveWork == ASSUME IInv, AutoSave PROVE Work'
<1>1. /\ editor.isDirty /\ editor.on /\ editor \in EditorState
      /\ editor' = [editor EXCEPT !.armed = FALSE]
      /\ UNCHANGED <<row, listed, calls, typed, slipped>>
    BY DEF AutoSave, history, IInv, Types, EditorOK
<1>2. editor'.isDirty /\ editor'.on /\ editor'.text = editor.text
    BY <1>1 DEF EditorState
<1>3. DirtyIsTyped => Kept' /\ DirtyIsTyped'
    BY <1>1, <1>2 DEF DirtyIsTyped, Kept
<1>4. WrittenIsRow /\ ListedIsRow => WrittenIsRow' /\ ListedIsRow'
    BY <1>1 DEF WrittenIsRow, ListedIsRow, Renaming
<1> QED BY <1>1, <1>3, <1>4 DEF IInv, Work

LEMMA SendWork ==
    ASSUME IInv, NEW c \in Call,
           HandleSave(c) \/ (\E kind \in {"keep", "state"} : SaveCopy(c, kind))
           \/ HandleAiExtraction(c)
    PROVE  Work'
<1>1. UNCHANGED <<row, listed, draft, editor, typed, slipped>>
    BY DEF HandleSave, SaveCopy, HandleAiExtraction, history
<1>2. /\ calls'[c].phase = "sent" /\ calls'[c].kind # "rename" /\ calls[c] = NoCall
      /\ calls'[c].kind = "keep" => calls'[c].before = listed
      /\ \A x \in Call \ {c} : calls'[x] = calls[x]
    <2>1. CASE HandleSave(c)
        <3>1. /\ calls[c] = NoCall
              /\ calls' = [calls EXCEPT ![c] = [NoCall EXCEPT !.kind = "save",
                                              !.text = editor.text, !.here = TRUE]]
            BY <2>1 DEF HandleSave, Begin
        <3> QED BY <3>1, Constants DEF IInv, Types, CallsOK, CallState
    <2>2. ASSUME NEW kind \in {"keep", "state"}, SaveCopy(c, kind)
          PROVE  /\ calls'[c].phase = "sent" /\ calls'[c].kind # "rename"
                 /\ calls[c] = NoCall
                 /\ calls'[c].kind = "keep" => calls'[c].before = listed
                 /\ \A x \in Call \ {c} : calls'[x] = calls[x]
        <3>1. /\ calls[c] = NoCall
              /\ calls' = [calls EXCEPT ![c] = [NoCall EXCEPT !.kind = kind,
                                              !.text = listed, !.before = listed]]
            BY <2>2 DEF SaveCopy, Begin
        <3> QED BY <3>1, Constants DEF IInv, Types, CallsOK, CallState
    <2>3. CASE HandleAiExtraction(c)
        <3>1. /\ calls[c] = NoCall
              /\ calls' = [calls EXCEPT ![c] = [NoCall EXCEPT !.kind = "extract",
                                              !.text = editor.text]]
            BY <2>3 DEF HandleAiExtraction, Begin
        <3> QED BY <3>1, Constants DEF IInv, Types, CallsOK, CallState
    <2> QED BY <2>1, <2>2, <2>3
<1>3. Renaming => Renaming'
    BY <1>1, <1>2, Constants DEF Renaming
<1>4. Kept /\ DirtyIsTyped => Kept' /\ DirtyIsTyped'
    BY <1>1, <1>3 DEF Kept, DirtyIsTyped
<1>5. WrittenIsRow => WrittenIsRow'
    BY <1>1, <1>2 DEF WrittenIsRow
<1>6. ListedIsRow => ListedIsRow'
    BY <1>1, <1>2, <1>3 DEF ListedIsRow
<1> QED BY <1>1, <1>4, <1>5, <1>6 DEF IInv, Work

LEMMA RenameWork == ASSUME IInv, NEW c \in Call, RenameDocument(c) PROVE Work'
<1>1. SUFFICES ASSUME ~slipped' PROVE Work'
    BY DEF Work
<1>2. /\ ~editor.on /\ draft = NoText /\ typed = listed
      /\ \A x \in Call : calls[x].kind = "none"
    BY <1>1 DEF RenameDocument
<1>3. /\ UNCHANGED <<row, draft, editor>> /\ listed' = typed'
      /\ calls' = [calls EXCEPT ![c] = [NoCall EXCEPT !.kind = "rename", !.text = listed']]
    BY <1>2 DEF RenameDocument, Begin, Renamed
<1>4. /\ calls'[c].kind = "rename" /\ calls'[c].phase = "sent" /\ calls'[c].text = typed'
      /\ \A x \in Call \ {c} : calls'[x] = calls[x]
    BY <1>3, Constants DEF IInv, Types, CallsOK, CallState
<1>5. Renaming'
    BY <1>4 DEF Renaming
<1>6. ~editor.isDirty
    BY <1>2 DEF IInv, Types, EditorOK
<1> QED BY <1>2, <1>3, <1>4, <1>5, <1>6
        DEF Work, Kept, DirtyIsTyped, WrittenIsRow, ListedIsRow

LEMMA WriteWork == ASSUME IInv, NEW c \in Call, Write(c) PROVE Work'
<1>1. SUFFICES ASSUME ~slipped' PROVE Work'
    BY DEF Work
<1>2. /\ UNCHANGED <<listed, draft, editor, typed>> /\ ~slipped
      /\ calls[c].kind # "none" /\ calls[c].phase = "sent"
      /\ \A x \in Call \ {c} : calls'[x] = calls[x]
      /\ calls'[c].kind = calls[c].kind /\ calls'[c].text = calls[c].text
      /\ calls'[c].before = calls[c].before
    BY <1>1 DEF Write, Sent, IInv, Types, CallsOK, CallState
<1>3. \/ row' = calls[c].text
      \/ row' = row /\ calls'[c].phase = "failed" /\ calls[c].kind # "rename"
    BY <1>1 DEF Write, IInv, Types, CallsOK, CallState
<1>4. row = typed => row' = typed
    BY <1>1, <1>3 DEF Write
<1>5. Renaming => Renaming' \/ row' = typed
    BY <1>2, <1>3 DEF Renaming
<1>6. Kept /\ DirtyIsTyped => Kept' /\ DirtyIsTyped'
    BY <1>2, <1>4, <1>5 DEF Kept, DirtyIsTyped
<1>7. WrittenIsRow => WrittenIsRow'
    BY <1>2, <1>3, <1>4 DEF WrittenIsRow
<1>8. ListedIsRow => ListedIsRow'
    BY <1>2, <1>4, <1>5 DEF ListedIsRow
<1> QED BY <1>2, <1>6, <1>7, <1>8 DEF IInv, Work

LEMMA ListWork == ASSUME IInv, NEW c \in Call, ListDocuments(c) PROVE Work'
<1>1. /\ UNCHANGED <<row, listed, draft, editor, typed, slipped>>
      /\ \A x \in Call \ {c} : calls'[x] = calls[x]
      /\ calls[c].kind = "fetch" /\ calls'[c].kind = "fetch"
      /\ calls'[c].phase = "failed" \/ calls'[c].text = row
    BY DEF ListDocuments, Sent, history, IInv, Types, CallsOK, CallState
<1>2. Renaming => Renaming'
    BY <1>1 DEF Renaming
<1>3. WrittenIsRow => WrittenIsRow'
    BY <1>1 DEF WrittenIsRow
<1>4. ListedIsRow => ListedIsRow'
    BY <1>1, <1>2 DEF ListedIsRow
<1> QED BY <1>1, <1>2, <1>3, <1>4 DEF IInv, Work, Kept, DirtyIsTyped

(* A call is taken from the calls; what it shows was the row's.            *)
LEMMA AnswerWork ==
    ASSUME IInv, NEW c \in Call,
           SaveAnswered(c) \/ Refetch(c) \/ NothingShown(c) \/ ShowAnswer(c)
    PROVE  Work'
<1>1. SUFFICES ASSUME ~slipped' PROVE Work'
    BY DEF Work
<1>2. PICK call \in {NoCall, Fetch} : calls' = [calls EXCEPT ![c] = call]
    BY DEF SaveAnswered, Refetch, NothingShown, ShowAnswer, End
<1>3. /\ UNCHANGED <<row, typed>> /\ ~slipped
      /\ calls[c].kind # "none"
      /\ calls[c].phase = "done" \/ calls[c].phase = "failed"
    <2>1. UNCHANGED <<row, typed>>
        BY DEF SaveAnswered, Refetch, NothingShown, ShowAnswer, history
    <2>2. slipped => slipped'
        BY DEF SaveAnswered, Refetch, NothingShown, ShowAnswer, history
    <2>3. calls[c].kind # "none" /\ (calls[c].phase = "done" \/ calls[c].phase = "failed")
        BY DEF SaveAnswered, Refetch, NothingShown, ShowAnswer, Answered
    <2> QED BY <1>1, <2>1, <2>2, <2>3
<1>4. /\ calls'[c] = call /\ \A x \in Call \ {c} : calls'[x] = calls[x]
      /\ call.text = NoText /\ call.kind # "keep" /\ call.phase = "sent"
    BY <1>2, Constants DEF IInv, Types, CallsOK
<1>5. Renaming => Renaming'
    BY <1>3, <1>4 DEF Renaming
<1>6. Kept /\ DirtyIsTyped /\ WrittenIsRow /\ ListedIsRow
    BY <1>3 DEF IInv, Work
<1>7. WrittenIsRow'
    BY <1>3, <1>4, <1>6 DEF WrittenIsRow
<1>8. ListedIsRow'
    <2>1. listed' = typed => row = typed \/ Renaming
        <3>1. listed' \in {listed, calls[c].text, calls[c].before}
              /\ (listed' # listed =>
                     \/ listed' = calls[c].text /\ calls[c].phase = "done"
                     \/ listed' = calls[c].before /\ calls[c].kind = "keep")
            BY DEF SaveAnswered, Refetch, NothingShown, ShowAnswer, Show, Answered, history
        <3> QED BY <1>3, <1>6, <3>1 DEF WrittenIsRow, ListedIsRow
    <2> QED BY <1>3, <1>4, <1>5, <1>6, <2>1 DEF ListedIsRow
<1>9. Kept' /\ DirtyIsTyped'
    <2>1. CASE SaveAnswered(c) /\ calls[c].phase = "done"
        <3>1. typed = calls[c].text
            BY <1>1, <2>1 DEF SaveAnswered, Answered
        <3>2. row = typed
            BY <1>3, <1>6, <2>1, <3>1 DEF WrittenIsRow
        <3>3. editor' \in {editor, Cleaned(editor)}
            BY <2>1 DEF SaveAnswered, Answered
        <3>4. editor'.isDirty => editor.isDirty /\ editor'.text = editor.text
            BY <3>3 DEF Cleaned, IInv, Types, EditorOK, EditorState
        <3> QED BY <1>3, <1>6, <3>2, <3>4 DEF Kept, DirtyIsTyped
    <2>2. CASE ~(SaveAnswered(c) /\ calls[c].phase = "done")
        <3>1. UNCHANGED <<draft, editor>>
            BY <2>2 DEF SaveAnswered, Refetch, NothingShown, ShowAnswer, Answered, Dropped,
                        history
        <3> QED BY <1>3, <1>5, <1>6, <3>1 DEF Kept, DirtyIsTyped
    <2> QED BY <2>1, <2>2
<1> QED BY <1>6, <1>7, <1>8, <1>9 DEF Work

LEMMA NextIInv == IInv /\ [Next]_vars => IInv'
<1> SUFFICES ASSUME IInv, [Next]_vars PROVE Work'
    BY NextTypes DEF IInv
<1>1. CASE UNCHANGED vars
    BY <1>1 DEF vars, IInv, Work, Kept, DirtyIsTyped, WrittenIsRow, ListedIsRow, Renaming
<1>2. CASE Next
    BY <1>2, TurnWork, CloseWork, MountWork, EndLoadingWork, TypeWork, AutoSaveWork,
       SendWork, RenameWork, WriteWork, ListWork, AnswerWork DEF Next
<1> QED BY <1>1, <1>2

LEMMA Invariant == Spec => []IInv
<1>1. Init => IInv
    BY InitTypes, InitWork DEF IInv
<1> QED BY <1>1, NextIInv, PTL DEF Spec

(* Whatever is saved, fetched, renamed, closed or cut short, what the user *)
(* last made of the document is in the row, the draft, an editor that      *)
(* shows it unsaved, or on its way to the row, outside the ways named in   *)
(* `slipped' (handleSave, the auto-save, saveDocument, renameDocument).    *)
THEOREM WorkIsSafeHolds == Spec => []WorkIsSafe
<1>1. IInv => WorkIsSafe
    BY DEF IInv, Work, Kept, Renaming, WorkIsSafe
<1> QED BY <1>1, Invariant, PTL

-----------------------------------------------------------------------------
(* Where what an editor loads, and what it shows, stays as it is.          *)
LEMMA SameShown ==
    ASSUME Shown, UNCHANGED <<listed, draft, emptied, typed>>,
           editor'.on = editor.on, editor'.text = editor.text,
           slipped => slipped', behind => behind'
    PROVE  Shown'
BY DEF Shown, LoadableIsTyped, EditorShowsWork, Loadable, LoadedWith, TakesTitle

LEMMA EditorShown ==
    ASSUME IInv, Shown,
           OpenTab \/ LeaveTab \/ CloseTab \/ Crash \/ Mount \/ EndLoading
           \/ TypeContent \/ TypeTitle \/ AutoSave
    PROVE  Shown'
<1>0. /\ editor \in EditorState /\ (editor.isDirty => editor.on)
      /\ (editor.armed => editor.isDirty) /\ slipped \in BOOLEAN /\ behind \in BOOLEAN
    BY DEF IInv, Types, EditorOK, RestOK
<1>1. CASE OpenTab \/ LeaveTab
    <2>1. editor' = [editor EXCEPT !.armed = FALSE, !.seen = editor.text.title]
        BY <1>1 DEF OpenTab, LeaveTab
    <2>2. editor'.on = editor.on /\ editor'.text = editor.text
        BY <1>0, <2>1 DEF EditorState
    <2> QED BY <1>1, <2>2, SameShown DEF OpenTab, LeaveTab, history
<1>2. CASE CloseTab \/ Crash
    <2>1. /\ editor' = Off /\ UNCHANGED <<draft, emptied, typed>>
          /\ listed' \in {listed, NoText}
          /\ behind' = (behind \/ (editor.on /\ Loadable # typed))
          /\ slipped => slipped'
        BY <1>2 DEF CloseTab, Crash, Leave
    <2>2. ~editor'.on
        BY <2>1, Constants
    <2>3. editor.on /\ Loadable = typed =>
              /\ draft # NoText /\ ~TakesTitle => draft = typed
              /\ draft # NoText => draft.content = typed.content
        BY TextFields DEF Loadable, LoadedWith, IInv, Types, RestOK, Text
    <2> QED BY <2>1, <2>2, <2>3
            DEF Shown, LoadableIsTyped, EditorShowsWork, Loadable, LoadedWith, TakesTitle
<1>3. CASE Mount
    <2>1. /\ ~editor.on /\ listed # NoText /\ UNCHANGED <<typed, slipped, behind>>
          /\ editor' = [Off EXCEPT !.on = TRUE, !.loading = TRUE, !.text = Loadable]
        BY <1>3 DEF Mount, Loaded, history
    <2>2. editor'.on /\ editor'.text = Loadable
        BY <2>1, Constants DEF EditorState
    <2> QED BY <2>1, <2>2 DEF Shown, LoadableIsTyped, EditorShowsWork
<1>4. CASE EndLoading
    <2>1. editor'.on = editor.on /\ editor'.text = editor.text
        BY <1>0, <1>4 DEF EndLoading, Cleaned, EditorState
    <2> QED BY <1>4, <2>1, SameShown DEF EndLoading
<1>5. CASE TypeContent \/ TypeTitle
    BY <1>5, TypedShown DEF Shown, LoadableIsTyped, EditorShowsWork
<1>6. CASE AutoSave
    <2>1. /\ editor.on /\ UNCHANGED <<typed, slipped, behind>>
          /\ editor' = [editor EXCEPT !.armed = FALSE]
        BY <1>0, <1>6 DEF AutoSave, history
    <2>2. editor'.on = editor.on /\ editor'.text = editor.text
        BY <1>0, <2>1 DEF EditorState
    <2> QED BY <2>1, <2>2 DEF Shown, LoadableIsTyped, EditorShowsWork
<1> QED BY <1>1, <1>2, <1>3, <1>4, <1>5, <1>6

LEMMA CallShown ==
    ASSUME IInv, Shown, NEW c \in Call,
           \/ HandleSave(c) \/ RenameDocument(c) \/ HandleAiExtraction(c)
           \/ \E kind \in {"keep", "state"} : SaveCopy(c, kind)
           \/ Write(c) \/ ListDocuments(c) \/ Refetch(c) \/ NothingShown(c)
    PROVE  Shown'
<1>1. CASE RenameDocument(c)
    <2>1. /\ UNCHANGED <<editor, draft, behind>>
          /\ ~slipped' => ~editor.on /\ draft = NoText /\ listed' = typed'
        BY <1>1 DEF RenameDocument
    <2> QED BY <2>1 DEF Shown, LoadableIsTyped, EditorShowsWork, Loadable, LoadedWith
<1>2. CASE ~RenameDocument(c)
    <2>1. UNCHANGED <<listed, draft, emptied, typed, editor, behind>>
        BY <1>2 DEF HandleSave, HandleAiExtraction, SaveCopy, Write, ListDocuments, Refetch,
                    NothingShown, history
    <2>2. slipped => slipped'
        <3>1. CASE Write(c)
            BY <3>1 DEF Write
        <3>2. CASE ~Write(c)
            BY <1>2, <3>2 DEF HandleSave, HandleAiExtraction, SaveCopy, ListDocuments,
                              Refetch, NothingShown, history
        <3> QED BY <3>1, <3>2
    <2> QED BY <2>1, <2>2, SameShown
<1> QED BY <1>1, <1>2

LEMMA AnswerShown ==
    ASSUME IInv, Shown, NEW c \in Call, SaveAnswered(c) \/ ShowAnswer(c)
    PROVE  Shown'
<1>1. CASE SaveAnswered(c)
    <2>1. PICK phase \in {"done", "failed"} :
              /\ draft' = IF Dropped(phase) THEN NoText ELSE draft
              /\ IF phase = "done"
                 THEN /\ listed' = calls[c].text
                      /\ editor' = IF calls[c].here THEN Cleaned(editor) ELSE editor
                      /\ slipped' = (slipped \/ typed # calls[c].text)
                      /\ behind' = (behind \/ typed # calls[c].text)
                 ELSE UNCHANGED <<listed, editor, slipped, behind>>
        BY <1>1 DEF SaveAnswered
    <2>2. UNCHANGED <<emptied, typed>>
        BY <1>1 DEF SaveAnswered
    <2>3. editor'.on = editor.on /\ editor'.text = editor.text
        BY <2>1 DEF Cleaned, IInv, Types, EditorOK, EditorState
    <2>4. CASE phase = "done"
        BY <2>1, <2>2, <2>3, <2>4
        DEF Dropped, Shown, LoadableIsTyped, EditorShowsWork, Loadable, LoadedWith
    <2>5. CASE phase = "failed"
        BY <2>1, <2>2, <2>5, SameShown DEF Dropped
    <2> QED BY <2>4, <2>5
<1>2. CASE ShowAnswer(c)
    <2>1. PICK text \in {calls[c].text, calls[c].before} : Show(text)
        BY <1>2 DEF ShowAnswer
    <2>2. /\ UNCHANGED <<draft, editor, emptied, typed, slipped>> /\ listed' = text
          /\ behind' = (behind \/ (draft = NoText /\ text # typed)
                              \/ (TakesTitle /\ text.title # typed.title))
        BY <1>2, <2>1 DEF ShowAnswer, Show
    <2>3. /\ draft # NoText => draft \in Text
          /\ typed \in Text
        BY TextFields DEF IInv, Types, RestOK
    <2>4. draft # NoText /\ draft.content = typed.content /\ text.title = typed.title
              => [draft EXCEPT !.title = text.title] = typed
        BY <2>3 DEF Text
    <2> QED BY <2>2, <2>4
            DEF Shown, LoadableIsTyped, EditorShowsWork, Loadable, LoadedWith, TakesTitle
<1> QED BY <1>1, <1>2

(* An editor shows what the user last made of the document: what it loads  *)
(* when the tab is opened, and what the answers to the commands of other   *)
(* panels and lists make of the store, never bring an older text to it     *)
(* outside the ways named in `slipped' and `behind' (SingleTabEditor,      *)
(* documentStore).                                                         *)
THEOREM EditorShowsWorkHolds == Spec => []EditorShowsWork
<1>1. Init => Shown
    BY Constants DEF Init, Shown, LoadableIsTyped, EditorShowsWork
<1>2. ASSUME IInv, Shown, [Next]_vars PROVE Shown'
    <2>1. CASE UNCHANGED vars
        BY <1>2, <2>1, SameShown DEF vars
    <2>2. CASE Next
        BY <1>2, <2>2, EditorShown, CallShown, AnswerShown DEF Next
    <2> QED BY <1>2, <2>1, <2>2
<1>3. Shown => EditorShowsWork
    BY DEF Shown
<1> QED BY <1>1, <1>2, <1>3, Invariant, PTL DEF Spec
=============================================================================
