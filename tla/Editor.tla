-------------------------------- MODULE Editor --------------------------------
(***************************************************************************)
(* The text of one document while it is worked on: in its editor, in the   *)
(* draft the editor keeps beside it, in the copy the store shows, in the   *)
(* row of the local database, and in the commands on their way to it.      *)
(*                                                                         *)
(* A command that saves a document writes the whole row, whoever sends it: *)
(* the editor its own text, the list and the panels the copy of the store. *)
(* The editor is loaded once, from the draft if there is one.  Its draft   *)
(* is written five seconds after the content was last typed in; the timer  *)
(* does not survive a change of tab, nor the tab itself.                   *)
(***************************************************************************)
EXTENDS Integers

CONSTANTS
    Call,       \* commands that may be under way at once
    MaxEdits,   \* bound: changes of the title or the content
    MaxOps      \* bound: commands the user sends, and crashes

ASSUME BoundsAssumption == MaxEdits \in Nat /\ MaxOps \in Nat

VARIABLES
    row,        \* title and content in the table documents
    listed,     \* title and content in the store
    draft,      \* draft-<id> in localStorage
    tab,        \* no tab, the active tab or another one
    editor,
    calls,
    edits, ops,
    emptied,    \* the changes of the title that left it empty
    typed,      \* history: what the user last made of the document
    slipped,    \* history: how work can get lost has happened
    behind      \* history: the editor was closed before what it would load
                \* had caught up, or that was set back since

vars == <<row, listed, draft, tab, editor, calls, edits, ops, emptied, typed,
          slipped, behind>>
history == <<typed, slipped, behind>>

-----------------------------------------------------------------------------
(* Each change is numbered; a title or a content is the change it is from. *)
Text == [title : 0 .. MaxEdits, content : 0 .. MaxEdits]
NoText == [title |-> -1, content |-> -1]
Texts == Text \cup {NoText}

EditorState ==
    [on : BOOLEAN,
     loading : BOOLEAN,         \* ignoreUpdate
     text : Texts,
     isDirty : BOOLEAN,
     seen : -1 .. MaxEdits,     \* the title in the closure of the auto-save
     armed : BOOLEAN]           \* autoSaveTimeoutId
Off == [on |-> FALSE, loading |-> FALSE, text |-> NoText, isDirty |-> FALSE,
        seen |-> -1, armed |-> FALSE]

Kind == {"save", "rename", "keep", "state", "extract", "fetch"}
CallState ==
    [kind : Kind \cup {"none"},
     phase : {"sent", "done", "failed"},
     text : Texts,
     before : Texts,            \* keep: the copy it replaced
     here : BOOLEAN]            \* save: the editor that sent it is still there
NoCall == [kind |-> "none", phase |-> "sent", text |-> NoText,
           before |-> NoText, here |-> FALSE]
Fetch == [NoCall EXCEPT !.kind = "fetch"]

First == [title |-> 0, content |-> 0]

(* The tabs survive a restart, the list and the editors do not.            *)
Init ==
    /\ row = First
    /\ listed = NoText
    /\ draft = NoText
    /\ tab = "none"
    /\ editor = Off
    /\ \E c \in Call : calls = [x \in Call |-> IF x = c THEN Fetch ELSE NoCall]
    /\ edits = 0
    /\ ops = 0
    /\ emptied = {}
    /\ typed = First
    /\ slipped = FALSE
    /\ behind = FALSE

Operate == ops < MaxOps /\ ops' = ops + 1
Begin(c, call) == calls[c] = NoCall /\ calls' = [calls EXCEPT ![c] = call]

(* What an editor would load with this copy of the document in the store:  *)
(* an empty title of the draft is falsy, and that of the copy is taken.    *)
TakesTitle == draft.title \in emptied
LoadedWith(copy) ==
    IF draft = NoText THEN copy
    ELSE IF TakesTitle THEN [draft EXCEPT !.title = copy.title] ELSE draft
Loadable == LoadedWith(listed)

-----------------------------------------------------------------------------
(* The tab and its editor.                                                 *)

OpenTab ==
    /\ tab # "front" /\ listed # NoText
    /\ tab' = "front"
    /\ editor' = [editor EXCEPT !.armed = FALSE, !.seen = editor.text.title]
    /\ UNCHANGED <<row, listed, draft, calls, edits, ops, emptied, history>>

(* Another tab is activated: the effect of the auto-save ends and, when    *)
(* this one is activated again, begins anew.                               *)
LeaveTab ==
    /\ tab = "front"
    /\ tab' = "back"
    /\ editor' = [editor EXCEPT !.armed = FALSE, !.seen = editor.text.title]
    /\ UNCHANGED <<row, listed, draft, calls, edits, ops, emptied, history>>

(* Mutant: the list comes before the draft.                                *)
LoadedFromList == listed

Loaded == Loadable

(* The content is loaded once the list has the document, and only then;    *)
(* a draft that is loaded leaves the editor clean.                         *)
Mount ==
    /\ tab # "none" /\ ~editor.on /\ listed # NoText
    /\ editor' = [Off EXCEPT !.on = TRUE, !.loading = TRUE, !.text = Loaded]
    /\ UNCHANGED <<row, listed, draft, tab, calls, edits, ops, emptied, history>>

(* Mutant: the timer of the auto-save goes on.                             *)
CleanedArmed(e) == [e EXCEPT !.isDirty = FALSE]

Cleaned(e) == [e EXCEPT !.isDirty = FALSE, !.armed = FALSE]

(* 50 ms later.  What was typed meanwhile is in an editor that is clean.   *)
EndLoading ==
    /\ editor.on /\ editor.loading
    /\ editor' = [Cleaned(editor) EXCEPT !.loading = FALSE]
    /\ slipped' = (slipped \/ editor.text # Loadable
                           \/ (TakesTitle /\ typed \notin {draft, row}))
    /\ UNCHANGED <<row, listed, draft, tab, calls, edits, ops, emptied, typed, behind>>

(* The work is in no editor any more: is it in the draft or in the row?    *)
Leave(atRisk) ==
    /\ slipped' = (slipped \/ ((atRisk \/ editor.loading) /\ typed \notin {draft, row}))
    /\ behind' = (behind \/ (editor.on /\ Loadable # typed))
    /\ editor' = Off

CloseTab ==
    /\ tab # "none"
    /\ tab' = "none"
    /\ Leave(editor.isDirty)
    /\ calls' = [c \in Call |-> [calls[c] EXCEPT !.here = FALSE]]
    /\ UNCHANGED <<row, listed, draft, edits, ops, emptied, typed>>

(* The client ends or crashes and is started again: the tabs and drafts    *)
(* are kept, and the list is fetched.                                      *)
Crash ==
    /\ Operate
    /\ Leave(editor.isDirty \/ \E c \in Call : calls[c].kind = "rename")
    /\ listed' = NoText
    /\ \E c \in Call : calls' = [x \in Call |-> IF x = c THEN Fetch ELSE NoCall]
    /\ UNCHANGED <<row, draft, tab, edits, emptied, typed>>

-----------------------------------------------------------------------------
(* Typing.                                                                 *)

CanType == tab = "front" /\ editor.on /\ edits < MaxEdits /\ edits' = edits + 1

(* The first change makes the editor dirty, which begins the effect of the *)
(* auto-save; the changes after it set its timer.                          *)
TypeContent ==
    LET text == [editor.text EXCEPT !.content = edits + 1] IN
    /\ CanType
    /\ typed' = text
    /\ editor' = IF editor.loading
                 THEN [editor EXCEPT !.text = text]
                 ELSE [editor EXCEPT !.text = text, !.isDirty = TRUE,
                           !.armed = editor.isDirty,
                           !.seen = IF editor.isDirty THEN @ ELSE text.title]
    /\ UNCHANGED <<row, listed, draft, tab, calls, ops, emptied, slipped, behind>>

TypeTitle ==
    LET text == [editor.text EXCEPT !.title = edits + 1] IN
    /\ CanType
    /\ emptied' \in {emptied, emptied \cup {edits + 1}}
    /\ typed' = text
    /\ editor' = [editor EXCEPT !.text = text, !.isDirty = TRUE,
                     !.seen = IF editor.isDirty THEN @ ELSE text.title]
    /\ UNCHANGED <<row, listed, draft, tab, calls, ops, slipped, behind>>

(* The title is the one of the closure; localStorage may be full.          *)
AutoSave ==
    /\ editor.armed
    /\ editor' = [editor EXCEPT !.armed = FALSE]
    /\ draft' \in {draft, [title |-> editor.seen, content |-> editor.text.content]}
    /\ UNCHANGED <<row, listed, tab, calls, edits, ops, emptied, history>>

-----------------------------------------------------------------------------
(* What sends a command.                                                   *)

HandleSave(c) ==
    /\ Operate
    /\ tab = "front" /\ editor.on /\ editor.isDirty
    /\ Begin(c, [NoCall EXCEPT !.kind = "save", !.text = editor.text, !.here = TRUE])
    /\ UNCHANGED <<row, listed, draft, tab, editor, edits, emptied, history>>

Renamed(title) == [listed EXCEPT !.title = title]

(* renameDocument sends the content the store has, and does not tell an    *)
(* open editor.                                                            *)
RenameDocument(c) ==
    /\ Operate
    /\ listed # NoText
    /\ edits < MaxEdits /\ edits' = edits + 1
    /\ listed' = [listed EXCEPT !.title = edits + 1]
    /\ Begin(c, [NoCall EXCEPT !.kind = "rename", !.text = Renamed(edits + 1)])
    /\ typed' = [typed EXCEPT !.title = edits + 1]
    /\ slipped' = (slipped \/ editor.on \/ draft # NoText \/ typed # listed
                           \/ \E x \in Call : calls[x].kind # "none")
    /\ UNCHANGED <<row, draft, tab, editor, emptied, behind>>

(* toggleFavorite and the tag editors put the copy back when they fail;    *)
(* saveDocument, for the state and the visibility, fetches instead.        *)
SaveCopy(c, kind) ==
    /\ Operate
    /\ kind \in {"keep", "state"}
    /\ listed # NoText
    /\ Begin(c, [NoCall EXCEPT !.kind = kind, !.text = listed, !.before = listed])
    /\ UNCHANGED <<row, listed, draft, tab, editor, edits, emptied, history>>

HandleAiExtraction(c) ==
    /\ Operate
    /\ tab = "front" /\ editor.on
    /\ Begin(c, [NoCall EXCEPT !.kind = "extract", !.text = editor.text])
    /\ UNCHANGED <<row, listed, draft, tab, editor, edits, emptied, history>>

-----------------------------------------------------------------------------
(* The commands.                                                           *)

Sent(c) == calls[c].kind # "none" /\ calls[c].phase = "sent"

(* save_document and extract_info write the row.  They may fail before     *)
(* that, and save_document after it as well: when the publication fails.   *)
Write(c) ==
    /\ Sent(c) /\ calls[c].kind # "fetch"
    /\ \/ /\ row' = calls[c].text
          /\ \E phase \in {"done", "failed"} :
                calls' = [calls EXCEPT ![c].phase = phase]
          /\ slipped' = (slipped \/ (row = typed /\ calls[c].text # typed))
       \/ /\ calls' = [calls EXCEPT ![c].phase = "failed"]
          /\ slipped' = (slipped \/ calls[c].kind = "rename")
          /\ UNCHANGED row
    /\ UNCHANGED <<listed, draft, tab, editor, edits, ops, emptied, typed, behind>>

ListDocuments(c) ==
    /\ Sent(c) /\ calls[c].kind = "fetch"
    /\ \/ calls' = [calls EXCEPT ![c].phase = "done", ![c].text = row]
       \/ calls' = [calls EXCEPT ![c].phase = "failed"]
    /\ UNCHANGED <<row, listed, draft, tab, editor, edits, ops, emptied, history>>

-----------------------------------------------------------------------------
(* Their answers.                                                          *)

Answered(c, kind, phase) == calls[c].kind = kind /\ calls[c].phase = phase
End(c) == calls' = [calls EXCEPT ![c] = NoCall]
(* A list that is set back is what an editor opened later would load, its  *)
(* title at least.                                                         *)
Show(text) ==
    /\ listed' = text
    /\ behind' = (behind \/ (draft = NoText /\ text # typed)
                         \/ (TakesTitle /\ text.title # typed.title))

(* Mutant: the draft goes when the command is sent back, saved or not.     *)
DroppedAlways(phase) == TRUE

Dropped(phase) == phase = "done"

(* The editor that sent it, if it is still there, is clean, even when it   *)
(* was typed in since; the draft goes.                                     *)
SaveAnswered(c) ==
    /\ \E phase \in {"done", "failed"} :
          /\ Answered(c, "save", phase)
          /\ draft' = IF Dropped(phase) THEN NoText ELSE draft
          /\ IF phase = "done"
             THEN /\ listed' = calls[c].text
                  /\ editor' = IF calls[c].here THEN Cleaned(editor) ELSE editor
                  /\ slipped' = (slipped \/ typed # calls[c].text)
                  /\ behind' = (behind \/ typed # calls[c].text)
             ELSE UNCHANGED <<listed, editor, slipped, behind>>
    /\ End(c)
    /\ UNCHANGED <<row, tab, edits, ops, emptied, typed>>

(* The commands that fetch the list when they fail, or when they are done. *)
Refetch(c) ==
    /\ \/ \E kind \in {"rename", "state"} : Answered(c, kind, "failed")
       \/ Answered(c, "extract", "done")
    /\ calls' = [calls EXCEPT ![c] = Fetch]
    /\ UNCHANGED <<row, listed, draft, tab, editor, edits, ops, emptied, history>>

NothingShown(c) ==
    /\ \/ \E kind \in {"rename", "keep"} : Answered(c, kind, "done")
       \/ Answered(c, "extract", "failed")
       \/ Answered(c, "fetch", "failed")
    /\ End(c)
    /\ UNCHANGED <<row, listed, draft, tab, editor, edits, ops, emptied, history>>

(* The list that was fetched, the document as saved, the copy put back.    *)
ShowAnswer(c) ==
    /\ \/ Answered(c, "fetch", "done") /\ Show(calls[c].text)
       \/ Answered(c, "state", "done") /\ Show(calls[c].text)
       \/ Answered(c, "keep", "failed") /\ listed # NoText /\ Show(calls[c].before)
    /\ End(c)
    /\ UNCHANGED <<row, draft, tab, editor, edits, ops, emptied, typed, slipped>>

-----------------------------------------------------------------------------
Next ==
    \/ OpenTab \/ LeaveTab \/ CloseTab \/ Crash
    \/ Mount \/ EndLoading \/ TypeContent \/ TypeTitle \/ AutoSave
    \/ \E c \in Call :
          \/ HandleSave(c) \/ RenameDocument(c) \/ HandleAiExtraction(c)
          \/ \E kind \in {"keep", "state"} : SaveCopy(c, kind)
          \/ Write(c) \/ ListDocuments(c)
          \/ SaveAnswered(c) \/ Refetch(c) \/ NothingShown(c) \/ ShowAnswer(c)

Spec == Init /\ [][Next]_vars

-----------------------------------------------------------------------------
(* Every text is one the user made, an editor that is open has a text, and *)
(* only a dirty editor has a timer or a title of its own for the draft.    *)
TypeOK ==
    /\ row \in Text
    /\ listed \in Texts /\ draft \in Texts /\ typed \in Text
    /\ tab \in {"none", "front", "back"}
    /\ editor \in EditorState
    /\ editor.on = (editor.text # NoText)
    /\ editor.on => tab # "none"
    /\ editor.armed => editor.isDirty
    /\ \A c \in Call : calls[c].here => editor.on
    /\ calls \in [Call -> CallState]
    /\ edits \in 0 .. MaxEdits /\ ops \in 0 .. MaxOps /\ emptied \subseteq 1 .. edits
    /\ slipped \in BOOLEAN /\ behind \in BOOLEAN

(* What the user last made of the document is in the row, in the draft (an *)
(* emptied title too, though an editor that loads it takes another), in an *)
(* editor that shows it is not saved, or on its way to the row, unless the *)
(* tab was closed or the client ended before the draft had it, it was      *)
(* typed while a save was under way or the editor was loading, an older    *)
(* text was written over it, or the document was renamed in the list while *)
(* it was open, had a draft or was being saved.                            *)
WorkIsSafe ==
    \/ slipped
    \/ typed \in {row, draft}
    \/ editor.on /\ (editor.isDirty \/ editor.loading) /\ editor.text = typed
    \/ \E c \in Call : calls[c].kind \in {"save", "rename"} /\ calls[c].text = typed

(* An editor shows what the user last made of the document, unless work    *)
(* got lost, or what it was loaded from - the draft, but the store's title *)
(* where the user had emptied the draft's - was not up to date when the    *)
(* tab was closed or was set back afterwards.                              *)
EditorShowsWork ==
    editor.on /\ ~slipped /\ ~behind => editor.text = typed

=============================================================================
