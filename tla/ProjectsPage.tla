----------------------------- MODULE ProjectsPage -----------------------------
(***************************************************************************)
(* The page of the administrator that lists the projects of a tenant, with *)
(* its dialogs and the panel that picks users, and the table it shows.     *)
(*                                                                         *)
(* A new order and a new level are shown before the service has them, and  *)
(* are not asked for again when it has; any other change is asked for      *)
(* again when it succeeds.  A list that was asked for before a change may  *)
(* arrive after it.  A dialog that was left is still told to close when    *)
(* its call succeeds, and closes what it shows by then, panel and all.     *)
(* A user is picked from the list of a department or of a search, and the  *)
(* panel shows the list that arrived last.  The service changes a project  *)
(* by reading its row and saving all of it later, its place in the order   *)
(* too, and by then the row may be another one or gone.                    *)
(***************************************************************************)
EXTENDS Integers, FiniteSets, Sequences, Functions

CONSTANTS
    Call,           \* calls that may be under way at once
    User,
    Matching,       \* the projects whose name the search of the page finds
    MaxProjects,    \* bound: projects ever created
    FirstProjects,  \* the table when the page is opened
    MaxOps,         \* bound: calls of the administrator
    MaxPicks,       \* bound: what the administrator does in the dialogs
    None            \* nobody

VARIABLES
    rows,       \* the table projects, by id
    born,       \* the ids given so far
    calls,
    projects,   \* the list that is shown, or hidden while it is loading
    isLoading,
    searching,  \* searchQuery is not empty
    editing,    \* EditProjectModal
    creating,   \* CreateProjectModal
    ops, picks,
    wanted,     \* history: what was last chosen for a project, field by field
    raced,      \* history: the projects of which a choice was lost, or made
                \* on what was not in the table or beside another one, or
                \* whose dialog opened with the panel of another project
    strayed     \* history: what is shown may not be what the table holds

table == <<rows, born>>
shown == <<projects, isLoading, searching>>
dialogs == <<editing, creating, picks>>
history == <<wanted, raced, strayed>>
vars == <<table, calls, shown, dialogs, ops, history>>

-----------------------------------------------------------------------------
Project == 1 .. MaxProjects
Nothing == 0
Level == 1 .. 2
Choice == [owner : User \cup {None}, members : SUBSET User, level : Level \cup {0}]
Row == [owner : User \cup {None}, members : SUBSET User, level : Level, order : 0 .. MaxProjects]
Shown == [id : Project, row : Row]

(* What was last chosen: of a project from which all members were taken,   *)
(* that they were.                                                         *)
Emptied == {None}
Wish == [owner : User \cup {None}, members : SUBSET (User \cup {None}), level : Level]

(* What a call sets: nobody, no member and no level change nothing.        *)
NoChoice == [owner |-> None, members |-> {}, level |-> 0]
Chosen(row) == [owner |-> row.owner, members |-> row.members, level |-> row.level]
NewChoice == [NoChoice EXCEPT !.level = 1]

CallState ==
    [kind : {"none", "list", "reorder", "level", "update", "delete", "create", "batch"},
     phase : {"sent", "read", "done"},
     search : BOOLEAN,                  \* of the list, now or when it succeeds
     project : Project \cup {Nothing},  \* batch: the name in the file
     choice : Choice,
     row : Row,                         \* update, level: what the service read
     items : Seq(Shown),                \* the new order; list: the answer
     replace : BOOLEAN,                 \* batch: importMode
     old : BOOLEAN]                     \* history: the list is not what the
                                        \* table and the page ended with

NoRow == [owner |-> None, members |-> {}, level |-> 1, order |-> 0]
Idle == [kind |-> "none", phase |-> "sent", search |-> FALSE, project |-> Nothing,
         choice |-> NoChoice, row |-> NoRow, items |-> <<>>, replace |-> FALSE, old |-> FALSE]

(* A dialog, the panel that covers it, and what is ticked there.           *)
Form == [open : BOOLEAN, busy : BOOLEAN, project : Project \cup {Nothing},
         choice : Choice, panel : {"none", "owner", "members"}, ticked : SUBSET User,
         touched : SUBSET {"owner", "members", "level"}]
Closed == [open |-> FALSE, busy |-> FALSE, project |-> Nothing, choice |-> NewChoice,
           panel |-> "none", ticked |-> {}, touched |-> {}]

Underway == {c \in Call : calls[c].kind # "none"}
Updating(p) ==
    \E c \in Underway : calls[c].kind \in {"update", "level"} /\ calls[c].project = p

(* What is shown of a change the service has not made yet.                 *)
Ahead == {c \in Underway : calls[c].kind \in {"reorder", "level"} /\ calls[c].phase # "done"}

Fresh ==
    /\ rows = FirstProjects
    /\ born = Len(FirstProjects)
    /\ projects = <<>>
    /\ isLoading = TRUE
    /\ searching = FALSE
    /\ editing = Closed
    /\ creating = Closed
    /\ ops = 0
    /\ picks = 0
    /\ wanted = [p \in DOMAIN rows |-> Chosen(rows[p])]
    /\ raced = {}
    /\ strayed = FALSE

(* A page asks for its list when it is opened.                             *)
Unopened == Fresh /\ calls = [c \in Call |-> Idle]

Init ==
    /\ Fresh
    /\ \E c \in Call :
          calls = [x \in Call |-> IF x = c THEN [Idle EXCEPT !.kind = "list"] ELSE Idle]

-----------------------------------------------------------------------------
(* The service.                                                            *)

Before(p, q) ==
    \/ rows[p].order < rows[q].order
    \/ (rows[p].order = rows[q].order /\ p > q)

(* By sort_order, and the newest first.                                    *)
List(search) ==
    LET found == IF search THEN DOMAIN rows \cap Matching ELSE DOMAIN rows
        place(p) == 1 + Cardinality({q \in found : Before(q, p)})
    IN  [i \in 1 .. Cardinality(found) |->
            LET p == CHOOSE q \in found : place(q) = i IN [id |-> p, row |-> rows[p]]]

ListProjects(c) ==
    /\ calls[c].kind = "list" /\ calls[c].phase = "sent"
    /\ calls' = [calls EXCEPT ![c].phase = "done",
                              ![c].items = List(calls[c].search),
                              ![c].old = @ \/ Ahead # {}]
    /\ UNCHANGED <<table, shown, dialogs, ops, history>>

Aged(x) == [calls[x] EXCEPT !.old = @ \/ (calls[x].kind = "list" /\ calls[x].phase = "done")]

(* The service has done a call, and the lists it has read are old.         *)
Done(c) ==
    calls' = [x \in Call |->
        IF x = c THEN [calls[c] EXCEPT !.phase = "done", !.row = NoRow] ELSE Aged(x)]

Patched(row, choice) ==
    [row EXCEPT !.owner = IF choice.owner = None THEN @ ELSE choice.owner,
                !.members = IF choice.members = {} THEN @ ELSE choice.members,
                !.level = IF choice.level = 0 THEN @ ELSE choice.level]

ReadProject(c) ==
    LET call == calls[c] IN
    /\ call.kind \in {"update", "level"} /\ call.phase = "sent"
    /\ call.project \in DOMAIN rows
    /\ calls' = [calls EXCEPT ![c].phase = "read", ![c].row = rows[call.project]]
    /\ UNCHANGED <<table, shown, dialogs, ops, history>>

(* Every column is saved, and the row put back if it was deleted: what was *)
(* done to it since it was read is undone.  A level is not followed by     *)
(* another list, which would show that.                                    *)
SaveProject(c) ==
    LET call == calls[c]
        p == call.project
    IN  /\ call.kind \in {"update", "level"} /\ call.phase = "read"
        /\ rows' = [q \in DOMAIN rows \cup {p} |->
                        IF q = p THEN Patched(call.row, call.choice) ELSE rows[q]]
        /\ Done(c)
        /\ strayed' = \/ strayed
                      \/ call.kind = "level" /\ (p \in DOMAIN rows => rows[p] # call.row)
        /\ UNCHANGED <<born, shown, dialogs, ops, wanted, raced>>

DeleteProject(c) ==
    /\ calls[c].kind = "delete" /\ calls[c].phase = "sent"
    /\ rows' = Restrict(rows, DOMAIN rows \ {calls[c].project})
    /\ Done(c)
    /\ UNCHANGED <<born, shown, dialogs, ops, history>>

(* The projects of the list are numbered, the others keep their numbers.   *)
Numbered(items) ==
    [p \in DOMAIN rows |->
        IF \E i \in DOMAIN items : items[i].id = p
        THEN [rows[p] EXCEPT !.order = (CHOOSE i \in DOMAIN items : items[i].id = p) - 1]
        ELSE rows[p]]

ReorderProjects(c) ==
    /\ calls[c].kind = "reorder" /\ calls[c].phase = "sent"
    /\ rows' = Numbered(calls[c].items)
    /\ Done(c)
    /\ UNCHANGED <<born, shown, dialogs, ops, history>>

Added(kept, new) ==
    [p \in DOMAIN kept \cup {born + 1} |-> IF p = born + 1 THEN new ELSE kept[p]]
Created(kept, choice) ==
    Added(kept, [owner |-> choice.owner, members |-> choice.members,
                 level |-> choice.level, order |-> 0])

CreateProject(c) ==
    /\ calls[c].kind = "create" /\ calls[c].phase = "sent"
    /\ born < MaxProjects
    /\ rows' = Created(rows, calls[c].choice)
    /\ born' = born + 1
    /\ wanted' = Added(wanted, calls[c].choice)
    /\ Done(c)
    /\ UNCHANGED <<shown, dialogs, ops, raced, strayed>>

(* One transaction: a name that is there is left alone, or all are         *)
(* replaced.                                                               *)
BatchCreateProjects(c) ==
    LET call == calls[c] IN
    /\ call.kind = "batch" /\ call.phase = "sent"
    /\ \/ /\ call.project \in DOMAIN rows /\ ~call.replace
          /\ UNCHANGED <<table, wanted>>
       \/ /\ call.project \notin DOMAIN rows \/ call.replace
          /\ born < MaxProjects
          /\ rows' = Created(IF call.replace THEN <<>> ELSE rows, call.choice)
          /\ born' = born + 1
          /\ wanted' = Added(wanted, call.choice)
    /\ Done(c)
    /\ UNCHANGED <<shown, dialogs, ops, raced, strayed>>

-----------------------------------------------------------------------------
(* The page, while no dialog covers it.                                    *)

Operate == ops < MaxOps /\ ops' = ops + 1
OnPage == ~editing.open /\ ~creating.open

Send(c, call) ==
    /\ Operate
    /\ calls[c] = Idle
    /\ calls' = [calls EXCEPT ![c] = call]
Ask(kind) == [Idle EXCEPT !.kind = kind, !.search = searching]

(* What is chosen for a project beside another choice may not be what      *)
(* stays.                                                                  *)
Choose(p, choice, fields) ==
    /\ wanted' = [wanted EXCEPT ![p] =
          [owner |-> IF "owner" \in fields THEN choice.owner ELSE @.owner,
           members |-> IF "members" \notin fields THEN @.members
                       ELSE IF choice.members = {} THEN Emptied ELSE choice.members,
           level |-> IF "level" \in fields THEN choice.level ELSE @.level]]
    /\ raced' = IF Updating(p) THEN raced \cup {p} ELSE raced

(* The lists that are under way were asked for by the other search.        *)
Search(c) ==
    /\ OnPage /\ Operate
    /\ calls[c] = Idle
    /\ searching' = ~searching
    /\ isLoading' = TRUE
    /\ calls' = [x \in Call |->
            IF x = c THEN [Idle EXCEPT !.kind = "list", !.search = ~searching]
            ELSE [calls[x] EXCEPT !.old = @ \/ calls[x].kind = "list"]]
    /\ UNCHANGED <<table, projects, dialogs, history>>

(* A change that is shown at once: a list that has been read comes late,   *)
(* and the service may make two of them in either order.                   *)
SendAhead(c, call) ==
    /\ Operate
    /\ calls[c] = Idle
    /\ calls' = [x \in Call |-> IF x = c THEN call ELSE Aged(x)]
    /\ strayed' = (strayed \/ \E x \in Ahead :
                      calls[x].kind = call.kind /\ calls[x].project = call.project)

(* Mutant: the project that is moved is not taken from its place.          *)
MovedCopy(list, from, to) ==
    SubSeq(list, 1, to - 1) \o <<list[from]>> \o SubSeq(list, to, Len(list))

Moved(list, from, to) ==
    LET rest == [i \in 1 .. Len(list) - 1 |-> IF i < from THEN list[i] ELSE list[i + 1]]
    IN  SubSeq(rest, 1, to - 1) \o <<list[from]>> \o SubSeq(rest, to, Len(rest))

HandleDragEnd(c, from, to) ==
    LET list == Moved(projects, from, to)
        items == [i \in DOMAIN list |-> [list[i] EXCEPT !.row.order = i - 1]]
    IN  /\ OnPage /\ ~isLoading
        /\ projects' = items
        /\ SendAhead(c, [Ask("reorder") EXCEPT !.items = items])
        /\ UNCHANGED <<table, isLoading, searching, dialogs, wanted, raced>>

HandleVisibilityChange(c, i, level) ==
    LET p == projects[i].id IN
    /\ OnPage /\ ~isLoading
    /\ projects' = [projects EXCEPT ![i].row.level = level]
    /\ SendAhead(c, [Ask("level") EXCEPT !.project = p, !.choice.level = level])
    /\ Choose(p, [NoChoice EXCEPT !.level = level], {"level"})
    /\ UNCHANGED <<table, isLoading, searching, dialogs>>

HandleDelete(c, i) ==
    /\ OnPage /\ ~isLoading
    /\ Send(c, [Ask("delete") EXCEPT !.project = projects[i].id])
    /\ UNCHANGED <<table, shown, dialogs, history>>

-----------------------------------------------------------------------------
(* EditProjectModal.                                                       *)

Loaded(row) == Chosen(row)

(* A panel that was open when the dialog was closed is open again, and     *)
(* ticks the members of the project of then.                               *)
OnEdit(i) ==
    LET p == projects[i].id
        row == projects[i].row
    IN  /\ OnPage /\ ~isLoading /\ Operate
        /\ editing' = [editing EXCEPT !.open = TRUE, !.project = p, !.choice = Loaded(row),
                                      !.ticked = editing.choice.members, !.touched = {}]
        /\ raced' = IF /\ p \in DOMAIN rows
                       /\ Chosen(rows[p]) = Chosen(row)
                       /\ ~Updating(p)
                       /\ editing.panel # "members"
                    THEN raced ELSE raced \cup {p}
        /\ UNCHANGED <<picks, table, calls, shown, creating, wanted, strayed>>

(* What is kept of a dialog that closes: its panel, and the members.       *)
Left(dialog) ==
    [Closed EXCEPT !.panel = dialog.panel,
                   !.choice.members = IF dialog.panel = "members" THEN dialog.choice.members ELSE {}]

CancelEdit ==
    /\ editing.open /\ editing.panel = "none"
    /\ editing' = [Closed EXCEPT !.busy = editing.busy]
    /\ UNCHANGED <<picks, table, calls, shown, creating, ops, history>>

(* All of it is sent, whatever was touched.                                *)
HandleSubmit(c) ==
    /\ editing.open /\ ~editing.busy /\ editing.panel = "none"
    /\ Send(c, [Ask("update") EXCEPT !.project = editing.project, !.choice = editing.choice])
    /\ editing' = [editing EXCEPT !.busy = TRUE]
    /\ Choose(editing.project, editing.choice, editing.touched)
    /\ UNCHANGED <<picks, table, shown, creating, strayed>>

-----------------------------------------------------------------------------
(* CreateProjectModal: one project by a form, or the rows of a file.       *)

OpenCreate ==
    /\ OnPage /\ Operate
    /\ creating' = [creating EXCEPT !.open = TRUE]
    /\ UNCHANGED <<picks, table, calls, shown, editing, history>>

CloseCreate ==
    /\ creating.open /\ creating.panel = "none"
    /\ creating' = [Closed EXCEPT !.busy = creating.busy]
    /\ UNCHANGED <<picks, table, calls, shown, editing, ops, history>>

HandleSingleSubmit(c) ==
    /\ creating.open /\ ~creating.busy /\ creating.panel = "none"
    /\ Send(c, [Ask("create") EXCEPT !.choice = creating.choice])
    /\ creating' = [creating EXCEPT !.busy = TRUE]
    /\ UNCHANGED <<picks, table, shown, editing, history>>

(* A file with a row: the name of a project or of none yet, and an owner   *)
(* who was looked up, or not found.                                        *)
HandleBulkSubmit(c, p, owner, replace) ==
    /\ creating.open /\ ~creating.busy /\ creating.panel = "none"
    /\ replace => p = Nothing      \* no name is there any more
    /\ Send(c, [Ask("batch") EXCEPT !.project = p, !.replace = replace,
                                   !.choice = [NewChoice EXCEPT !.owner = owner]])
    /\ creating' = [creating EXCEPT !.busy = TRUE]
    /\ UNCHANGED <<picks, table, shown, editing, history>>

-----------------------------------------------------------------------------
(* UserPickerPanel, in the dialog that is open.                            *)

Changed(dialog, d) ==
    \/ (dialog = "edit" /\ editing' = d /\ UNCHANGED creating)
    \/ (dialog = "create" /\ creating' = d /\ UNCHANGED editing)
InDialog(dialog) == IF dialog = "edit" THEN editing ELSE creating

Pick == picks < MaxPicks /\ picks' = picks + 1

SetLevel(dialog, level) ==
    LET d == InDialog(dialog) IN
    /\ d.open /\ d.panel = "none"
    /\ level # d.choice.level
    /\ Changed(dialog, [d EXCEPT !.choice.level = level, !.touched = @ \cup {"level"}])
    /\ Pick
    /\ UNCHANGED <<table, calls, shown, ops, history>>

(* Members are picked when there is an owner; the ticks are the members.   *)
OpenPanel(dialog, panel) ==
    LET d == InDialog(dialog) IN
    /\ d.open /\ d.panel = "none"
    /\ panel = "members" => d.choice.owner # None
    /\ Changed(dialog, [d EXCEPT !.panel = panel, !.ticked = d.choice.members])
    /\ UNCHANGED <<picks, table, calls, shown, ops, history>>

(* The panel lists a department or what a search found, whichever list     *)
(* arrived last: anyone may be in it, but the owner among the members.     *)
Offered(d) == IF d.panel = "members" THEN User \ {d.choice.owner} ELSE User

PickOwner(dialog, u) ==
    LET d == InDialog(dialog) IN
    /\ d.open /\ d.panel = "owner"
    /\ u \in Offered(d)
    /\ Changed(dialog, [d EXCEPT !.choice.owner = u, !.panel = "none", !.ticked = {},
                                 !.touched = @ \cup {"owner"}])
    /\ UNCHANGED <<picks, table, calls, shown, ops, history>>

(* Those who are ticked are in a list of their own.                        *)
Tick(dialog, u) ==
    LET d == InDialog(dialog) IN
    /\ d.open /\ d.panel = "members"
    /\ u \in d.ticked \cup Offered(d)
    /\ Changed(dialog, [d EXCEPT !.ticked = IF u \in @ THEN @ \ {u} ELSE @ \cup {u}])
    /\ Pick
    /\ UNCHANGED <<table, calls, shown, ops, history>>

HandleConfirmMulti(dialog) ==
    LET d == InDialog(dialog) IN
    /\ d.open /\ d.panel = "members"
    /\ Changed(dialog, [d EXCEPT !.choice.members = d.ticked, !.panel = "none", !.ticked = {},
                                 !.touched = @ \cup {"members"}])
    /\ UNCHANGED <<picks, table, calls, shown, ops, history>>

ClosePanel(dialog) ==
    LET d == InDialog(dialog) IN
    /\ d.open /\ d.panel # "none"
    /\ Changed(dialog, [d EXCEPT !.panel = "none", !.ticked = {}])
    /\ UNCHANGED <<picks, table, calls, shown, ops, history>>

-----------------------------------------------------------------------------
(* The answers.                                                            *)

ShowProjects(c) ==
    /\ calls[c].kind = "list" /\ calls[c].phase = "done"
    /\ projects' = calls[c].items
    /\ isLoading' = FALSE
    /\ strayed' = calls[c].old
    /\ calls' = [calls EXCEPT ![c] = Idle]
    /\ UNCHANGED <<table, searching, dialogs, ops, wanted, raced>>

(* Mutant: the list is left as it is.                                      *)
RefetchedNot(call) == Idle

(* The list is asked for by the search the call was made under.            *)
Refetched(call) ==
    [Idle EXCEPT !.kind = "list", !.search = call.search, !.old = call.search # searching]

Settle(c) ==
    /\ calls[c].kind \in {"reorder", "level"} /\ calls[c].phase = "done"
    /\ calls' = [calls EXCEPT ![c] = Idle]
    /\ UNCHANGED <<table, shown, dialogs, ops, history>>

Succeed(c) ==
    LET kind == calls[c].kind IN
    /\ kind \in {"update", "delete", "create", "batch"} /\ calls[c].phase = "done"
    /\ calls' = [calls EXCEPT ![c] = Refetched(calls[c])]
    /\ isLoading' = TRUE
    /\ editing' = IF kind = "update" THEN Left(editing) ELSE editing
    /\ creating' = IF kind \in {"create", "batch"} THEN Closed ELSE creating
    /\ UNCHANGED <<picks, table, projects, searching, ops, history>>

Lost(c) ==
    raced' = IF calls[c].kind \in {"update", "level"} THEN raced \cup {calls[c].project} ELSE raced

(* A new level that failed, and a new order that was lost, are taken back. *)
TakeBack(c) ==
    /\ calls[c].kind \in {"reorder", "level"}
    /\ calls' = [calls EXCEPT ![c] = Refetched(calls[c])]
    /\ isLoading' = TRUE
    /\ Lost(c)
    /\ UNCHANGED <<table, projects, searching, dialogs, ops, wanted, strayed>>

(* A new order that was refused is not: the answer is not looked at.       *)
Fail(c) ==
    LET call == calls[c] IN
    /\ call.kind \notin {"none", "level"}
    /\ call.kind = "reorder" => call.phase = "sent"
    /\ calls' = [calls EXCEPT ![c] = Idle]
    /\ isLoading' = (isLoading /\ call.kind # "list")
    /\ editing' = [editing EXCEPT !.busy = @ /\ call.kind # "update"]
    /\ creating' = [creating EXCEPT !.busy = @ /\ call.kind \notin {"create", "batch"}]
    /\ strayed' = (strayed \/ call.kind \in {"list", "reorder"} \/ call.phase = "done")
    /\ Lost(c)
    /\ UNCHANGED <<table, projects, searching, picks, ops, wanted>>

-----------------------------------------------------------------------------
Service(c) ==
    \/ ListProjects(c) \/ ReadProject(c) \/ SaveProject(c) \/ DeleteProject(c)
    \/ ReorderProjects(c) \/ CreateProject(c) \/ BatchCreateProjects(c)

Administrator ==
    \/ \E c \in Call :
          \/ Search(c)
          \/ \E from, to \in DOMAIN projects : from # to /\ HandleDragEnd(c, from, to)
          \/ \E i \in DOMAIN projects, level \in Level : HandleVisibilityChange(c, i, level)
          \/ \E i \in DOMAIN projects : HandleDelete(c, i)
          \/ HandleSubmit(c) \/ HandleSingleSubmit(c)
          \/ \E p \in DOMAIN rows \cup {Nothing}, u \in User \cup {None}, replace \in BOOLEAN :
                HandleBulkSubmit(c, p, u, replace)
    \/ \E i \in DOMAIN projects : OnEdit(i)
    \/ CancelEdit \/ OpenCreate \/ CloseCreate

Picker ==
    \E dialog \in {"edit", "create"} :
        \/ \E level \in Level : SetLevel(dialog, level)
        \/ \E panel \in {"owner", "members"} : OpenPanel(dialog, panel)
        \/ \E u \in User : PickOwner(dialog, u) \/ Tick(dialog, u)
        \/ HandleConfirmMulti(dialog) \/ ClosePanel(dialog)

Next ==
    \/ Administrator
    \/ Picker
    \/ \E c \in Call :
          Service(c) \/ ShowProjects(c) \/ Settle(c) \/ Succeed(c) \/ TakeBack(c) \/ Fail(c)

Spec == Init /\ [][Next]_vars

-----------------------------------------------------------------------------
(* No project is shown twice, a dialog whose buttons are blocked waits for *)
(* a call, and only an open dialog is covered or one that a call closed.   *)
TypeOK ==
    /\ DOMAIN rows \subseteq 1 .. born /\ born \in 0 .. MaxProjects
    /\ rows \in [DOMAIN rows -> Row]
    /\ calls \in [Call -> CallState]
    /\ projects \in Seq(Shown)
    /\ \A i, j \in DOMAIN projects : i # j => projects[i].id # projects[j].id
    /\ isLoading \in BOOLEAN /\ searching \in BOOLEAN
    /\ editing \in Form /\ creating \in Form
    /\ ~(editing.open /\ creating.open)
    /\ editing.busy <=> \E c \in Call : calls[c].kind = "update"
    /\ creating.busy <=> \E c \in Call : calls[c].kind \in {"create", "batch"}
    /\ ops \in 0 .. MaxOps /\ picks \in 0 .. MaxPicks
    /\ wanted \in [1 .. born -> Wish]
    /\ raced \subseteq 1 .. born
    /\ strayed \in BOOLEAN

(* When nothing is under way the page shows what the table holds, in its   *)
(* order, unless a list came late, two new orders or levels were under way *)
(* at once, a level was saved over what its project had become since it    *)
(* was read, an order was refused, or an answer was lost.                  *)
PageShowsTable ==
    Underway = {} /\ ~strayed => projects = List(searching)

(* A project ends with the owner, the members and the level that were last *)
(* chosen for it, though a dialog sends what was not touched too and the   *)
(* service saves what it did not change: but for members that were all     *)
(* taken away, which the service does not do, and unless a choice was made *)
(* on what was not in the table, beside another one or in the panel of     *)
(* another project, or was lost.                                           *)
Kept(row, wish) ==
    /\ row.owner = wish.owner /\ row.level = wish.level
    /\ row.members = wish.members \/ wish.members = Emptied

LastChoiceKept ==
    \A p \in DOMAIN rows \ raced : Updating(p) \/ Kept(rows[p], wanted[p])

=============================================================================
