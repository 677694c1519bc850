----------------------------- MODULE Departments -----------------------------
(***************************************************************************)
(* The departments of one tenant: the table, the calls of the service, and *)
(* the page of the administrator.                                          *)
(*                                                                         *)
(* The page shows most changes before the service has made them, and does  *)
(* not wait: several requests may be under way.  When one is refused it    *)
(* puts back an old list or asks for a new one.  The service makes every   *)
(* change in one transaction, but for a change of the level, which reads   *)
(* the row and then saves the whole of it.  An answer may be lost on the   *)
(* way although the service did what it was asked to do.                   *)
(***************************************************************************)
EXTENDS Integers, FiniteSets, Functions, TLC

CONSTANTS
    Call,           \* requests that may be under way at once
    MaxDepartments, \* bound: departments ever created
    FirstRows,      \* departments when the page is opened
    Matching,       \* the departments whose name the search finds
    MaxOps          \* bound: operations of the administrator

ASSUME RowsAssumption ==
    MaxDepartments \in Nat /\ FirstRows \in 0 .. MaxDepartments
ASSUME MatchingAssumption == Matching \subseteq 1 .. MaxDepartments
ASSUME MaxOpsAssumption == MaxOps \in Nat

VARIABLES
    rows,       \* the table departments, by id
    staffed,    \* the departments a user refers to
    lastId,     \* the ids given so far
    calls,      \* the requests of the page
    shown,      \* departments, by id
    searching,  \* searchQuery is not empty
    isLoading,
    ops,
    looped,     \* history: a department was dropped below itself, be it
                \* by way of one whose deletion is under way
    strayed     \* history: calls disturbed each other or an answer was lost

table == <<rows, staffed, lastId>>
page == <<shown, searching, isLoading>>
vars == <<table, calls, page, ops, looped, strayed>>

-----------------------------------------------------------------------------
Department == 1 .. MaxDepartments
None == 0
Level == 1 .. 2

Row == [parent : Department \cup {None}, level : Level]
List == UNION {[D -> Row] : D \in SUBSET Department}
Without(list, d) == Restrict(list, DOMAIN list \ {d})
With(list, d, row) ==
    [x \in DOMAIN list \cup {d} |-> IF x = d THEN row ELSE list[x]]

Kind == {"fetch", "delete", "level", "reorder", "create"}
Request ==
    [kind : Kind \cup {"none"},
     phase : {"sent", "read", "done", "failed"},
     id : Department \cup {None},
     level : Level \cup {None},
     silent : BOOLEAN,  \* fetch: the list stays on the screen
     list : List]       \* delete: previousDepartments; reorder: the items;
                        \* fetch: the answer; level: the row that was read

NoCall == [kind |-> "none", phase |-> "sent", id |-> None, level |-> None,
           silent |-> FALSE, list |-> <<>>]
Fetch == [NoCall EXCEPT !.kind = "fetch"]

Init ==
    /\ rows = [d \in 1 .. FirstRows |-> [parent |-> None, level |-> 1]]
    /\ staffed = {}
    /\ lastId = FirstRows
    /\ \E c \in Call : calls = [x \in Call |-> IF x = c THEN Fetch ELSE NoCall]
    /\ shown = <<>>
    /\ searching = FALSE
    /\ isLoading = TRUE
    /\ ops = 0
    /\ looped = FALSE
    /\ strayed = FALSE

(* Two requests that may not be under way together if the page is to end   *)
(* with what the table holds: a list beside a change, two moves, a move    *)
(* beside the change of a level, two changes of one row of which one is of *)
(* its level.                                                              *)
Disturb(r, s) ==
    \/ "fetch" \in {r.kind, s.kind} /\ r.kind # s.kind
    \/ r.kind = "reorder" /\ s.kind \in {"reorder", "level"}
    \/ r.kind = "level" /\ s.kind = "reorder"
    \/ {r.kind, s.kind} \in {{"level"}, {"level", "delete"}} /\ r.id = s.id

(* filteredDepartments: the page filters by itself what it was given.       *)
Found(list) ==
    IF searching THEN Restrict(list, DOMAIN list \cap Matching) ELSE list

Underway == {c \in Call : calls[c].kind # "none"}

Operate == ops < MaxOps /\ ops' = ops + 1

(* The page sends a request.                                               *)
Begin(c, request) ==
    /\ calls[c] = NoCall
    /\ calls' = [calls EXCEPT ![c] = request]
    /\ strayed' = (strayed \/ \E o \in Underway : Disturb(calls[o], calls'[c]))

-----------------------------------------------------------------------------
(* What the administrator does; the list is hidden while it is loading.    *)

Search(c) ==
    /\ Operate
    /\ searching' = ~searching
    /\ Begin(c, Fetch)
    /\ isLoading' = TRUE
    /\ UNCHANGED <<table, shown, looped>>

HandleDelete(c, d) ==
    /\ Operate
    /\ ~isLoading
    /\ d \in DOMAIN Found(shown)
    /\ shown' = Without(shown, d)
    /\ UNCHANGED <<table, searching, isLoading, looped>>
    /\ Begin(c, [NoCall EXCEPT !.kind = "delete", !.id = d, !.list = shown])

HandleVisibilityChange(c, d, level) ==
    /\ Operate
    /\ ~isLoading /\ ~searching
    /\ d \in DOMAIN shown
    /\ shown' = [shown EXCEPT ![d].level = level]
    /\ UNCHANGED <<table, searching, isLoading, looped>>
    /\ Begin(c, [NoCall EXCEPT !.kind = "level", !.id = d, !.level = level])

(* The parents above d in a list; those not in the list are roots.         *)
Up(list, d) == IF d \in DOMAIN list THEN list[d].parent ELSE None
UpClosed(list, S) == \A x \in S : Up(list, x) \in S \cup {None}
Above(list, d) ==
    {x \in Department : \A S \in SUBSET Department :
        UpClosed(list, S) /\ Up(list, d) \in S \cup {None} => x \in S}

(* The list with the departments whose deletion is under way: the page     *)
(* does not show them, but they may be there.                              *)
Hidden == {c \in Call : calls[c].kind = "delete"}
Whole ==
    [d \in DOMAIN shown \cup {calls[c].id : c \in Hidden} |->
        IF d \in DOMAIN shown THEN shown[d]
        ELSE LET c == CHOOSE c \in Hidden : calls[c].id = d IN calls[c].list[d]]

(* Mutant: the target is moved in place of the department.                 *)
DroppedOver(list, d, over) == [list EXCEPT ![over].parent = list[d].parent]

(* The parent of the target is adopted; the order among siblings is left   *)
(* out.                                                                    *)
Dropped(list, d, over) == [list EXCEPT ![d].parent = list[over].parent]

HandleDragEnd(c, d, over) ==
    /\ Operate
    /\ ~isLoading /\ ~searching
    /\ {d, over} \subseteq DOMAIN shown
    /\ d # over
    /\ shown' = Dropped(shown, d, over)
    /\ looped' = (looped \/ d \in Above(Whole, over))
    /\ UNCHANGED <<table, searching, isLoading>>
    /\ Begin(c, [NoCall EXCEPT !.kind = "reorder", !.list = shown'])

(* The form of a new department, or of a file of them; the form has a list *)
(* of its own for the parent.                                              *)
Submit(c) ==
    /\ Operate
    /\ UNCHANGED <<table, page, looped>>
    /\ Begin(c, [NoCall EXCEPT !.kind = "create"])

(* A user is put into a department, or out of it; a foreign key holds.     *)
Staff(d) ==
    /\ Operate
    /\ d \in DOMAIN rows
    /\ staffed' = IF d \in staffed THEN staffed \ {d} ELSE staffed \cup {d}
    /\ UNCHANGED <<rows, lastId, calls, page, looped, strayed>>

-----------------------------------------------------------------------------
(* What the service does.                                                  *)

Waits(c, kind, phase) == calls[c].kind = kind /\ calls[c].phase = phase

(* An answer is lost although the change was made, or nothing was made.    *)
Answer(c, list) ==
    \/ /\ calls' = [calls EXCEPT ![c].phase = "done", ![c].list = list]
       /\ UNCHANGED strayed
    \/ /\ calls' = [calls EXCEPT ![c].phase = "failed"]
       /\ strayed' = TRUE
Refuse(c) ==
    /\ calls' = [calls EXCEPT ![c].phase = "failed"]
    /\ UNCHANGED <<rows, lastId, strayed>>
Serve == UNCHANGED <<staffed, page, ops, looped>>

(* The page names its search in a way the gateway does not read.           *)
ListDepartments(c) ==
    /\ Waits(c, "fetch", "sent")
    /\ Answer(c, rows)
    /\ UNCHANGED <<rows, lastId>>
    /\ Serve

(* A row that is not there is deleted as well; one a user refers to is not. *)
DeleteDepartment(c) ==
    /\ Waits(c, "delete", "sent")
    /\ IF calls[c].id \in staffed
       THEN Refuse(c)
       ELSE /\ rows' = Without(rows, calls[c].id)
            /\ Answer(c, calls[c].list)
            /\ UNCHANGED lastId
    /\ Serve

(* UpdateDepartment reads the row.                                         *)
UpdateDepartment(c) ==
    LET d == calls[c].id IN
    /\ Waits(c, "level", "sent")
    /\ IF d \notin DOMAIN rows
       THEN Refuse(c)
       ELSE /\ calls' = [calls EXCEPT ![c].phase = "read",
                                      ![c].list = Restrict(rows, {d})]
            /\ UNCHANGED <<rows, lastId, strayed>>
    /\ Serve

(* Save writes every column, and inserts a row that is gone unless another *)
(* one has its name by now.                                                *)
SaveDepartment(c) ==
    LET d == calls[c].id
        row == [calls[c].list[d] EXCEPT !.level = calls[c].level]
    IN  /\ Waits(c, "level", "read")
        /\ \/ /\ rows' = With(rows, d, row)
              /\ Answer(c, calls[c].list)
              /\ UNCHANGED lastId
           \/ d \notin DOMAIN rows /\ Refuse(c)
        /\ Serve

(* Mutant: a row that is not there is inserted.                            *)
ReorderedUpsert(items) == items @@ rows

(* Only the order and the parent of the rows that are there are written.   *)
Reordered(items) ==
    [d \in DOMAIN rows |->
        IF d \in DOMAIN items THEN [rows[d] EXCEPT !.parent = items[d].parent]
        ELSE rows[d]]

(* Each of the rows in turn, in one transaction.                           *)
ReorderDepartments(c) ==
    /\ Waits(c, "reorder", "sent")
    /\ \/ rows' = Reordered(calls[c].list) /\ Answer(c, calls[c].list)
       \/ UNCHANGED rows /\ Refuse(c)
    /\ UNCHANGED lastId
    /\ Serve

Inserted(list, d, parent) == With(list, d, [parent |-> parent, level |-> 1])

(* The parent is not looked for: it may be gone since the form listed it.  *)
CreateDepartment(c, parent) ==
    /\ Waits(c, "create", "sent")
    /\ lastId < MaxDepartments
    /\ parent \in (1 .. lastId) \cup {None}
    /\ lastId' = lastId + 1
    /\ rows' = Inserted(rows, lastId', parent)
    /\ Answer(c, calls[c].list)
    /\ Serve

(* Mutant: the users of the departments are not looked at.                 *)
ReplaceAlways(replace) == TRUE

Replaceable(replace) == replace => staffed = {}

(* A file: the departments without a parent are created first, then one    *)
(* that names its parent, created before or already there.  replace        *)
(* deletes every row first.                                                *)
BatchCreateDepartments(c, replace, children) ==
    LET kept == IF replace THEN <<>> ELSE rows
        root == lastId + 1
    IN  /\ Waits(c, "create", "sent")
        /\ root + children <= MaxDepartments
        /\ Replaceable(replace)
        /\ lastId' = root + children
        /\ \E parent \in DOMAIN kept \cup {root} :
              rows' = IF children = 0 THEN Inserted(kept, root, None)
                      ELSE Inserted(Inserted(kept, root, None), root + 1, parent)
        /\ Answer(c, calls[c].list)
        /\ Serve

(* A name that is taken, an unknown parent, a row in use, an error: all or *)
(* nothing.                                                                *)
RefuseCreate(c) ==
    /\ Waits(c, "create", "sent")
    /\ Refuse(c)
    /\ Serve

-----------------------------------------------------------------------------
(* What the page does with an answer.                                      *)

Settled(c, kind, phase) ==
    /\ Waits(c, kind, phase)
    /\ UNCHANGED <<table, searching, ops, looped>>
End(c) == calls' = [calls EXCEPT ![c] = NoCall]

ShowFetched(c) ==
    /\ Settled(c, "fetch", "done") \/ Settled(c, "fetch", "failed")
    /\ shown' = IF calls[c].phase = "done" THEN calls[c].list ELSE shown
    /\ strayed' = (strayed \/ calls[c].phase = "failed")
    /\ isLoading' = (isLoading /\ calls[c].silent)
    /\ End(c)

DeleteDone(c) ==
    /\ Settled(c, "delete", "done")
    /\ End(c)
    /\ UNCHANGED <<shown, isLoading, strayed>>

(* Mutant: the row stays away from the page.                               *)
RevertNothing(c) == shown

Reverted(c) == calls[c].list

(* previousDepartments is the list as it was at the click: what changed    *)
(* since is lost.                                                          *)
RevertDelete(c) ==
    /\ Settled(c, "delete", "failed")
    /\ shown' = Reverted(c)
    /\ strayed' = (strayed \/ shown # Without(calls[c].list, calls[c].id))
    /\ End(c)
    /\ UNCHANGED isLoading

(* The list is fetched again after a change of level or a move failed, and *)
(* after a creation.                                                       *)
Refetches(r) == (r.kind = "create") = (r.phase = "done")

ChangeAnswered(c) ==
    /\ \E kind \in {"level", "reorder", "create"}, phase \in {"done", "failed"} :
          Settled(c, kind, phase)
    /\ IF Refetches(calls[c])
       THEN /\ calls' = [calls EXCEPT ![c] =
                  [Fetch EXCEPT !.silent = calls[c].kind = "create"]]
            /\ isLoading' = (isLoading \/ ~calls'[c].silent)
            /\ strayed' = (strayed \/ \E o \in Underway \ {c} :
                                 Disturb(calls[o], calls'[c]))
       ELSE End(c) /\ UNCHANGED <<isLoading, strayed>>
    /\ UNCHANGED shown

-----------------------------------------------------------------------------
Administer ==
    \E c \in Call :
        \/ Search(c)
        \/ Submit(c)
        \/ \E d \in Department :
              \/ HandleDelete(c, d)
              \/ \E level \in Level : HandleVisibilityChange(c, d, level)
              \/ \E over \in Department : HandleDragEnd(c, d, over)

Service ==
    \E c \in Call :
        \/ ListDepartments(c)
        \/ DeleteDepartment(c)
        \/ UpdateDepartment(c)
        \/ SaveDepartment(c)
        \/ ReorderDepartments(c)
        \/ \E parent \in Department \cup {None} : CreateDepartment(c, parent)
        \/ \E replace \in BOOLEAN, children \in 0 .. 1 :
              BatchCreateDepartments(c, replace, children)
        \/ RefuseCreate(c)

Page ==
    \E c \in Call :
        ShowFetched(c) \/ DeleteDone(c) \/ RevertDelete(c) \/ ChangeAnswered(c)

Next == Administer \/ Service \/ Page \/ \E d \in Department : Staff(d)

Spec == Init /\ [][Next]_vars

-----------------------------------------------------------------------------
(* The table, the page and the requests have their shapes, the ids in them *)
(* were given, and a user never refers to a department without a row: the  *)
(* foreign key refuses a deletion and an import that replaces everything.  *)
TypeOK ==
    /\ rows \in List /\ DOMAIN rows \subseteq 1 .. lastId
    /\ staffed \subseteq DOMAIN rows
    /\ lastId \in 0 .. MaxDepartments
    /\ calls \in [Call -> Request]
    /\ shown \in List /\ DOMAIN shown \subseteq 1 .. lastId
    /\ searching \in BOOLEAN /\ isLoading \in BOOLEAN
    /\ ops \in 0 .. MaxOps
    /\ looped \in BOOLEAN /\ strayed \in BOOLEAN

(* When every request was answered the page shows what the table holds,    *)
(* whatever was refused, unless two requests disturbed each other, an      *)
(* answer was lost, or a refused deletion put back a list that had changed *)
(* since.                                                                  *)
PageShowsTable ==
    Underway = {} /\ ~strayed => shown = rows

(* No department is above itself, where buildTree would show neither it    *)
(* nor what is below it, unless one was dropped below itself, be it by way *)
(* of one that the page does not show because its deletion is under way,   *)
(* or the page had strayed from the table.                                 *)
TableIsForest ==
    looped \/ strayed \/ \A d \in DOMAIN rows : d \notin Above(rows, d)

(* A department that was deleted comes back only by the change of its      *)
(* level: a list of the page that still has it, sent with a move, does not *)
(* bring it back.                                                          *)
DeletedStaysDeleted ==
    [][\A d \in DOMAIN rows' \ DOMAIN rows :
        d > lastId \/ \E c \in Call : Waits(c, "level", "read") /\ calls[c].id = d]_vars

=============================================================================
