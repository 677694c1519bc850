------------------------------ MODULE UsersPage ------------------------------
(***************************************************************************)
(* The page of the administrator that lists the users of a tenant, with    *)
(* its badges and dialogs, and the table it shows.                         *)
(*                                                                         *)
(* The list is cut into pages by the service, the newest user first: it    *)
(* refuses any other order, for the query then names a column that two of  *)
(* its tables have.  Whatever the page changes it changes by a call, and   *)
(* asks for the list again when the call succeeds: for the page and the    *)
(* order that were shown when the call was made.  Nothing waits for a      *)
(* call, but the buttons of the dialog that made it; a dialog that was     *)
(* left is still told to close when its call succeeds, and closes whatever *)
(* it shows by then.  An answer may be lost.  The service changes a row in *)
(* one step here; Accounts has the race of two changes of one row.         *)
(***************************************************************************)
EXTENDS Integers, FiniteSets, Sequences, Functions

CONSTANTS
    Call,           \* calls that may be under way at once
    Name, Unset,    \* departments, and positions; an empty field
    MaxUsers,       \* bound: users ever created
    FirstUsers,     \* the table when the page is opened
    PageSize,
    MaxOps          \* bound: operations of the administrator

VARIABLES
    rows,       \* the table users, by id
    born,       \* the ids given so far
    calls,
    users,      \* the page of the list that is shown
    totalCount,
    page,
    sort,
    isLoading,  \* no list has arrived yet: nothing else is shown
    editing,    \* EditUserModal
    creating,   \* CreateUserModal
    ops,
    wanted,     \* history: what was last chosen for a user, field by field
    raced,      \* history: the users of whom a choice was lost, or made on
                \* what was not in the table, or beside another one
    strayed     \* history: what is shown came from a list that was read
                \* before a change, or a call failed

table == <<rows, born>>
shown == <<users, totalCount, page, sort, isLoading>>
dialogs == <<editing, creating>>
history == <<wanted, raced, strayed>>
vars == <<table, calls, shown, dialogs, ops, history>>

-----------------------------------------------------------------------------
User == 1 .. MaxUsers
Nobody == 0
Role == {"user", "viewer"}
Row == [dept : Name \cup {Unset}, position : Name \cup {Unset}, role : Role]

(* What a call sets: an empty field, or no role, changes nothing.          *)
Patch == [dept : Name \cup {Unset}, position : Name \cup {Unset}, role : Role \cup {"none"}]
NoPatch == [dept |-> Unset, position |-> Unset, role |-> "none"]

(* What was last chosen: of a user whose position was taken back, that it  *)
(* was.                                                                    *)
Emptied == "emptied"
Wish == [dept : Name \cup {Unset}, position : Name \cup {Unset, Emptied}, role : Role]

Column == {"created_at", "position", "department"}
Shown == [id : User, row : Row]

CallState ==
    [kind : {"none", "list", "update", "delete", "create", "batch", "reset"},
     phase : {"sent", "done"},
     page : 1 .. MaxUsers + 1, sort : Column,        \* what the list will be asked for
     dialog : {"none", "edit", "create"},
     user : User \cup {Nobody},         \* batch: the address in the file
     patch : Patch,                     \* create, batch: the row
     replace : BOOLEAN,                 \* batch: importMode
     answer : Seq(Shown), total : 0 .. MaxUsers,   \* list: what it was answered
     old : BOOLEAN]                     \* history: the table has changed since

Idle == [kind |-> "none", phase |-> "sent", page |-> 1, sort |-> "created_at",
         dialog |-> "none", user |-> Nobody, patch |-> NoPatch,
         replace |-> FALSE, answer |-> <<>>, total |-> 0, old |-> FALSE]

Blank == [dept |-> Unset, position |-> Unset, role |-> "user"]
Form == [open : BOOLEAN, busy : BOOLEAN, user : User \cup {Nobody}, form : Row,
         touched : SUBSET {"dept", "position", "role"}]
Closed == [open |-> FALSE, busy |-> FALSE, user |-> Nobody, form |-> Blank, touched |-> {}]

Underway == {c \in Call : calls[c].kind # "none"}
Updating(u) ==
    \E c \in Underway : calls[c].kind \in {"update", "batch"} /\ calls[c].user = u

Fresh ==
    /\ rows = FirstUsers
    /\ born = Len(FirstUsers)
    /\ users = <<>>
    /\ totalCount = 0
    /\ page = 1
    /\ sort = "created_at"
    /\ isLoading = TRUE
    /\ editing = Closed
    /\ creating = Closed
    /\ ops = 0
    /\ wanted = rows
    /\ raced = {}
    /\ strayed = FALSE

(* A page asks for its list when it is opened.                             *)
Unopened == Fresh /\ calls = [c \in Call |-> Idle]

Init ==
    /\ Fresh
    /\ \E c \in Call :
          calls = [x \in Call |-> IF x = c THEN [Idle EXCEPT !.kind = "list"] ELSE Idle]

-----------------------------------------------------------------------------
(* The service.                                                            *)

Least(x, y) == IF x < y THEN x ELSE y

(* The rows of a page, the newest user first: offset and limit.            *)
Slice(p) ==
    LET before(u) == Cardinality({v \in DOMAIN rows : v > u})
        first == (p - 1) * PageSize
    IN  [i \in 1 .. Least(PageSize, Cardinality(DOMAIN rows) - first) |->
            LET u == CHOOSE v \in DOMAIN rows : before(v) = first + i - 1
            IN  [id |-> u, row |-> rows[u]]]

ListUsers(c) ==
    /\ calls[c].kind = "list" /\ calls[c].phase = "sent"
    /\ calls[c].sort = "created_at"
    /\ calls' = [calls EXCEPT ![c].phase = "done",
                              ![c].answer = Slice(calls[c].page),
                              ![c].total = Cardinality(DOMAIN rows)]
    /\ UNCHANGED <<table, shown, dialogs, ops, history>>

(* The service has done a call, and the lists it has read are old.         *)
Done(c) ==
    calls' = [x \in Call |->
        IF x = c THEN [calls[c] EXCEPT !.phase = "done"]
        ELSE IF calls[x].kind = "list" /\ calls[x].phase = "done"
        THEN [calls[x] EXCEPT !.old = TRUE] ELSE calls[x]]

Patched(row, patch) ==
    [dept |-> IF patch.dept = Unset THEN row.dept ELSE patch.dept,
     position |-> IF patch.position = Unset THEN row.position ELSE patch.position,
     role |-> IF patch.role = "none" THEN row.role ELSE patch.role]

UpdateUser(c) ==
    LET call == calls[c] IN
    /\ call.kind = "update" /\ call.phase = "sent"
    /\ call.user \in DOMAIN rows
    /\ rows' = [rows EXCEPT ![call.user] = Patched(@, call.patch)]
    /\ Done(c)
    /\ UNCHANGED <<born, shown, dialogs, ops, history>>

DeleteUser(c) ==
    /\ calls[c].kind = "delete" /\ calls[c].phase = "sent"
    /\ calls[c].user \in DOMAIN rows
    /\ rows' = Restrict(rows, DOMAIN rows \ {calls[c].user})
    /\ Done(c)
    /\ UNCHANGED <<born, shown, dialogs, ops, history>>

(* The rows with a new one for what a call asks for.                       *)
Created(kept, row) ==
    [u \in DOMAIN kept \cup {born + 1} |-> IF u = born + 1 THEN row ELSE kept[u]]

CreateUser(c) ==
    /\ calls[c].kind = "create" /\ calls[c].phase = "sent"
    /\ born < MaxUsers
    /\ rows' = Created(rows, calls[c].patch)
    /\ born' = born + 1
    /\ wanted' = Created(wanted, calls[c].patch)
    /\ Done(c)
    /\ UNCHANGED <<shown, dialogs, ops, raced, strayed>>

(* An import sets every column of a row it finds, empty ones too.          *)
BatchCreateUsers(c) ==
    LET call == calls[c] IN
    /\ call.kind = "batch" /\ call.phase = "sent"
    /\ \/ /\ call.user \in DOMAIN rows /\ ~call.replace
          /\ rows' = [rows EXCEPT ![call.user] = call.patch]
          /\ wanted' = [wanted EXCEPT ![call.user] = call.patch]
          /\ UNCHANGED born
       \/ /\ call.user \notin DOMAIN rows \/ call.replace
          /\ born < MaxUsers
          /\ rows' = Created(IF call.replace THEN <<>> ELSE rows, call.patch)
          /\ wanted' = Created(wanted, call.patch)
          /\ born' = born + 1
    /\ Done(c)
    /\ UNCHANGED <<shown, dialogs, ops, raced, strayed>>

BatchResetPassword(c) ==
    /\ calls[c].kind = "reset" /\ calls[c].phase = "sent"
    /\ calls' = [calls EXCEPT ![c].phase = "done"]
    /\ UNCHANGED <<table, shown, dialogs, ops, history>>

-----------------------------------------------------------------------------
(* The page, while no dialog covers it.                                    *)

Operate == ops < MaxOps /\ ops' = ops + 1
OnPage == ~isLoading /\ ~editing.open /\ ~creating.open

(* A call, and the page and order its closure holds.                       *)
Send(c, call) ==
    /\ Operate
    /\ calls[c] = Idle
    /\ calls' = [calls EXCEPT ![c] = call]
Ask(kind) == [Idle EXCEPT !.kind = kind, !.page = page, !.sort = sort]

(* What is chosen for a user beside another choice may not be what stays.  *)
Choose(u, choice, fields) ==
    /\ wanted' = [wanted EXCEPT ![u] =
          [dept |-> IF "dept" \in fields THEN choice.dept ELSE @.dept,
           position |-> IF "position" \notin fields THEN @.position
                        ELSE IF choice.position = Unset THEN Emptied ELSE choice.position,
           role |-> IF "role" \in fields THEN choice.role ELSE @.role]]
    /\ raced' = IF Updating(u) THEN raced \cup {u} ELSE raced

(* No list comes any more but those that are under way, and those of the   *)
(* calls that are.                                                         *)
HandleSort(c, column) ==
    /\ OnPage
    /\ Send(c, [Idle EXCEPT !.kind = "list", !.sort = column])
    /\ sort' = column
    /\ UNCHANGED <<table, users, totalCount, page, isLoading, dialogs, history>>

TurnPage(c, p) ==
    /\ OnPage
    /\ \/ p = page - 1 /\ page # 1
       \/ p = page + 1 /\ page * PageSize < totalCount
    /\ Send(c, [Ask("list") EXCEPT !.page = p])
    /\ UNCHANGED <<table, shown, dialogs, history>>

(* PositionBadge and DepartmentBadge.  Their list stays open, and what it  *)
(* offers may be chosen again, while a choice is under way.                *)
HandleUpdate(c, i, patch) ==
    LET user == users[i] IN
    /\ OnPage
    /\ Patched(user.row, patch) # user.row
    /\ user.id \in DOMAIN wanted
    /\ Send(c, [Ask("update") EXCEPT !.user = user.id, !.patch = patch])
    /\ Choose(user.id, patch, IF patch.dept = Unset THEN {"position"} ELSE {"dept"})
    /\ UNCHANGED <<table, shown, dialogs, strayed>>

HandleDeleteUser(c, i) ==
    /\ OnPage
    /\ Send(c, [Ask("delete") EXCEPT !.user = users[i].id])
    /\ UNCHANGED <<table, shown, dialogs, history>>

HandleBatchReset(c) ==
    /\ OnPage
    /\ totalCount # 0
    /\ Send(c, Ask("reset"))
    /\ UNCHANGED <<table, shown, dialogs, history>>

-----------------------------------------------------------------------------
(* EditUserModal.                                                          *)

(* Mutant: the role of the row is not looked at.                           *)
PrefilledUser(row) == [row EXCEPT !.role = "user"]

Prefilled(row) == row

(* It starts from the row that is shown, which may not be the table's.     *)
HandleEditClick(i) ==
    LET user == users[i] IN
    /\ OnPage /\ Operate
    /\ editing' = [editing EXCEPT !.open = TRUE, !.user = user.id,
                                  !.form = Prefilled(user.row), !.touched = {}]
    /\ raced' = IF user.id \in DOMAIN rows /\ rows[user.id] = user.row /\ ~Updating(user.id)
                THEN raced ELSE raced \cup {user.id}
    /\ UNCHANGED <<table, calls, shown, creating, wanted, strayed>>

(* A department cannot be taken back, a position can.                      *)
EditForm ==
    /\ editing.open
    /\ \/ \E v \in Name : editing' = [editing EXCEPT !.form.dept = v, !.touched = @ \cup {"dept"}]
       \/ \E v \in Name \cup {Unset} :
             editing' = [editing EXCEPT !.form.position = v, !.touched = @ \cup {"position"}]
       \/ \E v \in Role \ {editing.form.role} :
             editing' = [editing EXCEPT !.form.role = v, !.touched = @ \cup {"role"}]
    /\ UNCHANGED <<table, calls, shown, creating, ops, history>>

CloseEdit == editing' = [Closed EXCEPT !.busy = editing.busy]
CancelEdit ==
    /\ editing.open
    /\ CloseEdit
    /\ UNCHANGED <<table, calls, shown, creating, ops, history>>

Complete(form) == form.role = "viewer" \/ form.dept # Unset

(* The whole form is sent, whatever was touched.                           *)
HandleSubmit(c) ==
    /\ editing.open /\ ~editing.busy
    /\ Complete(editing.form)
    /\ editing.user \in DOMAIN wanted
    /\ Send(c, [Ask("update") EXCEPT !.dialog = "edit", !.user = editing.user,
                                      !.patch = editing.form])
    /\ editing' = [editing EXCEPT !.busy = TRUE]
    /\ Choose(editing.user, editing.form, editing.touched)
    /\ UNCHANGED <<table, shown, creating, strayed>>

-----------------------------------------------------------------------------
(* CreateUserModal: one user by a form, or the rows of a file.             *)

OpenCreate ==
    /\ OnPage /\ Operate
    /\ creating' = [creating EXCEPT !.open = TRUE]
    /\ UNCHANGED <<table, calls, shown, editing, history>>

FillForm ==
    /\ creating.open
    /\ \/ \E v \in Name : creating' = [creating EXCEPT !.form.dept = v]
       \/ \E v \in Role : creating' = [creating EXCEPT !.form.role = v]
    /\ UNCHANGED <<table, calls, shown, editing, ops, history>>

CloseCreate ==
    /\ creating.open
    /\ creating' = [Closed EXCEPT !.busy = creating.busy]
    /\ UNCHANGED <<table, calls, shown, editing, ops, history>>

(* The position of the form is sent by a name the service does not read.   *)
HandleSingleSubmit(c) ==
    /\ creating.open /\ ~creating.busy
    /\ Complete(creating.form)
    /\ Send(c, [Ask("create") EXCEPT !.dialog = "create", !.patch = creating.form])
    /\ creating' = [creating EXCEPT !.busy = TRUE]
    /\ UNCHANGED <<table, shown, editing, history>>

(* A file with a row: the address of a user or of nobody yet, and a        *)
(* department and a position, empty when the page does not know the name.  *)
HandleBulkSubmit(c, u, row, replace) ==
    /\ creating.open /\ ~creating.busy
    /\ replace => u = Nobody       \* no address is there any more
    /\ Send(c, [Ask("batch") EXCEPT !.dialog = "create", !.user = u,
                                     !.patch = row, !.replace = replace])
    /\ creating' = [creating EXCEPT !.busy = TRUE]
    /\ raced' = IF Updating(u) THEN raced \cup {u} ELSE raced
    /\ UNCHANGED <<table, shown, editing, wanted, strayed>>

-----------------------------------------------------------------------------
(* The answers.                                                            *)

ShowUsers(c) ==
    LET call == calls[c] IN
    /\ call.kind = "list" /\ call.phase = "done"
    /\ users' = call.answer
    /\ totalCount' = call.total
    /\ page' = call.page
    /\ isLoading' = FALSE
    /\ strayed' = call.old
    /\ calls' = [calls EXCEPT ![c] = Idle]
    /\ UNCHANGED <<table, sort, dialogs, ops, wanted, raced>>

(* The list is asked for as the call found it.                             *)
Refetched(call) ==
    [Idle EXCEPT !.kind = "list", !.page = call.page, !.sort = call.sort]

(* The dialog of the call, or the one that has been opened since, closes.  *)
Succeed(c) ==
    /\ calls[c].kind \notin {"none", "list"} /\ calls[c].phase = "done"
    /\ calls' = [calls EXCEPT ![c] = Refetched(calls[c])]
    /\ editing' = IF calls[c].dialog = "edit" THEN Closed ELSE editing
    /\ creating' = IF calls[c].dialog = "create" THEN Closed ELSE creating
    /\ UNCHANGED <<table, shown, ops, history>>

(* It was refused, or it or its answer was lost.                           *)
Fail(c) ==
    LET call == calls[c] IN
    /\ call.kind # "none"
    /\ calls' = [calls EXCEPT ![c] = Idle]
    /\ isLoading' = (isLoading /\ call.kind # "list")
    /\ editing' = [editing EXCEPT !.busy = @ /\ call.dialog # "edit"]
    /\ creating' = [creating EXCEPT !.busy = @ /\ call.dialog # "create"]
    /\ raced' = IF call.kind = "update" THEN raced \cup {call.user} ELSE raced
    /\ strayed' = (strayed \/ call.kind = "list" \/ call.phase = "done")
    /\ UNCHANGED <<table, users, totalCount, page, sort, ops, wanted>>

-----------------------------------------------------------------------------
Patches ==
    {[NoPatch EXCEPT !.dept = v] : v \in Name} \cup
    {[NoPatch EXCEPT !.position = v] : v \in Name}

Service(c) ==
    \/ ListUsers(c) \/ UpdateUser(c) \/ DeleteUser(c) \/ CreateUser(c)
    \/ BatchCreateUsers(c) \/ BatchResetPassword(c)

Administrator ==
    \/ \E c \in Call :
          \/ \E column \in {"position", "department"} : HandleSort(c, column)
          \/ \E p \in {page - 1, page + 1} : TurnPage(c, p)
          \/ \E i \in DOMAIN users, patch \in Patches : HandleUpdate(c, i, patch)
          \/ \E i \in DOMAIN users : HandleDeleteUser(c, i)
          \/ HandleBatchReset(c)
          \/ HandleSubmit(c) \/ HandleSingleSubmit(c)
          \/ \E u \in DOMAIN rows \cup {Nobody}, v \in Name \cup {Unset}, replace \in BOOLEAN :
                HandleBulkSubmit(c, u, [Blank EXCEPT !.dept = v], replace)
    \/ \E i \in DOMAIN users : HandleEditClick(i)
    \/ EditForm \/ CancelEdit \/ OpenCreate \/ FillForm \/ CloseCreate

Next ==
    \/ Administrator
    \/ \E c \in Call : Service(c) \/ ShowUsers(c) \/ Succeed(c) \/ Fail(c)

Spec == Init /\ [][Next]_vars

-----------------------------------------------------------------------------
(* A list is asked for a page from 1 on, and no row is shown twice; a      *)
(* dialog whose buttons are blocked waits for a call.                      *)
TypeOK ==
    /\ DOMAIN rows \subseteq 1 .. born /\ born \in 0 .. MaxUsers
    /\ rows \in [DOMAIN rows -> Row]
    /\ calls \in [Call -> CallState]
    /\ users \in Seq(Shown) /\ Len(users) <= PageSize
    /\ \A i, j \in DOMAIN users : i # j => users[i].id # users[j].id
    /\ totalCount \in 0 .. MaxUsers
    /\ page \in 1 .. MaxUsers + 1
    /\ sort \in Column
    /\ isLoading \in BOOLEAN
    /\ editing \in Form /\ creating \in Form
    /\ editing.busy <=> \E c \in Call : calls[c].dialog = "edit"
    /\ creating.busy <=> \E c \in Call : calls[c].dialog = "create"
    /\ ops \in 0 .. MaxOps
    /\ wanted \in [1 .. born -> Wish]
    /\ raced \subseteq 1 .. born
    /\ strayed \in BOOLEAN

(* When nothing is under way the page shows a page of what the table       *)
(* holds, unless the list it shows was read before a change, or the list   *)
(* that was asked for last or an answer was lost or refused.               *)
PageShowsSlice ==
    Underway = {} /\ ~strayed =>
        totalCount = Cardinality(DOMAIN rows) /\ users = Slice(page)

(* A user ends with what was last chosen for each field, though a dialog   *)
(* sends the fields that were not touched too: but for a position that was *)
(* taken back, which the service does not do, and unless a choice was made *)
(* on a row that was not the table's, beside another one, or was lost.     *)
Kept(row, wish) ==
    /\ row.dept = wish.dept /\ row.role = wish.role
    /\ row.position = wish.position \/ wish.position = Emptied

LastChoiceKept ==
    \A u \in DOMAIN rows \ raced : Updating(u) \/ Kept(rows[u], wanted[u])

=============================================================================
