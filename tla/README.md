# A TLA+ model of the document client and its servers

The repository is a document system: a desktop client (Tauri: a React user
interface over a Rust backend with an encrypted SQLite database and two local
model servers), and services in Go behind an HTTP gateway (auth, index,
signaling).  This directory holds TLA+ specifications of the parts where steps
of several actors interleave or fail half-way, TLC configurations that check
them on small instances, and TLAPS proofs of their main invariants for every
value of the constants.

    tlc -workers 2 -config MCDocumentPublish.cfg MCDocumentPublish
    tlapm DocumentPublish_proofs.tla

## 1. Inventory

Paths are below `src/`; `client/src-tauri/src/commands` is written `commands`, and
`web/src/app/admin/(dashboard)` `admin`.

| Component | State | Operations | What is hard | What makes it correct |
|---|---|---|---|---|
| Document publication (`commands/documents.rs`, `client/src/stores/documentStore.ts`, editor, metadata panel) | the store's copy, the row, its revisions, what the index was given, the token | `save_document`, `list_documents`, `extract_info`; saveDocument, toggleFavorite, tag editors, rename, editor save, fetch | the command writes, unlocks, posts, locks again and undoes; calls overlap; a crash anywhere; copies sent by the user interface are stale | a Published row was indexed; its revision is what was published; a failed publication is undone |
| Document table and recycle bin (`documents.rs`, `ai.rs`, `database.rs`, `RecycleBin.tsx`) | rows in a tree, `deleted_at`, tags, revisions, AI data | create, save, move to root, delete, delete for ever, restore, empty the bin, extract | foreign keys off, upserts of rows that were purged, loops without a transaction, nested deletions | no data without a row; a restoration undoes one deletion; only the bin is purged |
| Editor, tabs, drafts (`SingleTabEditor.tsx`, `EditorTabs.tsx`, `documentStore.ts`) | the text in the editor, in `localStorage`, in the store, in the row | typing, save, auto-save of drafts, rename, tabs | typing while a save is under way, a timer that ends with the tab, whole-row saves by others | what the user last typed is somewhere, and the editor shows it |
| Document list (`DocumentList.tsx`, `documentStore.ts`) | trees, what is unfolded and remembered, the active tab | create, drag, fold, sort, filter, open | the tree is rebuilt by one effect, unfolded by another, altered in place by drags | every document is in the list, the active one can be seen |
| RAG chats (`commands/rag.rs`, `chatStore.ts`, `RagPanel.tsx`) | chats, messages, the shown chat | new, delete, page, ask | a chat deleted or left while the models answer | no messages without a chat; what is shown is the end of the chat |
| Client session (`commands/auth.rs`, `database.rs`, `LoginForm.tsx`, `App.tsx`) | AuthState, the cached user | lookup of tenants, login, offline login, change of password | answers that are lost, a cache of another tenant or an old password | what is kept belongs to the session; no password is accepted that never was one |
| Users of the service (`server/auth/user.go`, `auth.go`, `email.go`) | users of each tenant | create, import, update, delete, reset, mail, change password, list | reads and whole-row saves in separate statements; mail after the write | nothing revives a replaced row; a mailed password must be changed |
| Departments (`server/auth/department.go`, `admin/departments/page.tsx`) | a tree of departments, the list shown | create, import, delete, level, drag, search | changes are shown before they are made, and taken back when refused | the page ends with the table; departments form no cycle |
| Users page, projects page (`admin/users`, `admin/projects`, their dialogs, `project.go`) | a page of the list, badges, dialogs, the panel that picks users | list, badges, edit, create, import, reorder, delete, reset | dialogs that were left, late lists, untouched fields sent from old rows | the page ends with the table; a row has what was last chosen |
| Access control (`server/auth/acl.go`) | access requests, permissions | request, grant, reject, check | look and create in separate statements, repeated decisions | an approved request has its permission; the last grant counts |
| Signaling relay (`server/signaling`, `server/gateway/handlers/signaling.go`) | map of streams by peer, gRPC streams, WebSockets | connect, register, relay, end | connections of one peer overlap, streams fill up, services restart | signals arrive at their peer, once and in order; nothing stale is registered |
| Sidecars (`sidecar.rs`) | two children, `is_running` | spawn, stop | test and set in two steps, one of two fails | no child outlives its bookkeeping |
| Positions, tenants, index service, gateway handlers, other pages of the web site, AI text, crypto, media | flat lists, or none of their own | translation, presentation, pure functions, single statements | | |

How they interact.  The user interface invokes Tauri commands and goes on; the
promise is handled later.  Commands run concurrently and share one mutex around
the SQLite connection, which is never held across an await.  A command calls the
gateway over HTTP; the gateway calls the services over gRPC.  The web site calls
the gateway over HTTP and, like the client, does not wait.  The auth service
keeps its tables in Postgres and mostly uses one statement at a time.
WebSockets of clients are bridged to one gRPC stream each.

`PROJECT.json` lists the hazards, each at its line, with the property that would
catch it or the reason there is none.

## 2. Modules

| Module | Models | Kind |
|---|---|---|
| `DocumentPublish` | saving and publishing one document | specification |
| `DocumentTable` | the rows of the database and the recycle bin | specification |
| `SignalRelay` | what the relay promises | abstract specification |
| `Signaling` | gateway and service, implements `SignalRelay` | specification |
| `Accounts` | users of the service, passwords, the client's session and cache | specification |
| `Chats` | questions to the local model: tables, commands and panel | specification |
| `Editor` | the text of one document and its draft | specification |
| `Explorer` | the list of documents in the side bar | specification |
| `Access` | requests for access, and permissions | specification |
| `Departments` | the departments: table, service, page | specification |
| `UsersPage`, `ProjectsPage` | a page of the web site with its dialogs, and its table | specifications |
| `AdminSite` | the two pages as the site opens them (`INSTANCE ... WITH`) | composition |
| `DocumentPublish_proofs`, `DocumentTable_proofs`, `Signaling_proofs`, `Chats_proofs`, `Editor_proofs`, `Departments_proofs` | the theorems of the module each is named for | proofs |
| `Visibility_proofs` | the theorems of `Access` and `Explorer`: what a user may see, and what the list shows | proofs |
| `Administration_proofs` | the theorems of `Accounts` and of `AdminSite` with its two pages | proofs |
| `MC...` | model values, bounds and symmetry for TLC | |

Operators with a comment that begins "Mutant:" are plausible mistakes of one
definition.  No specification uses them; replacing the definition by one shows
that a property can fail.

Many properties of this code hold but for some sequences of steps that the code
lets happen. Such an exception is a history variable, named in the module and
set by exactly the step that opens it (`strayed`, `raced`, `slipped`,
`askedTwice`, `lost`, `amiss`, ...): the property then says there is no other
way, and the variable tells a reader which ways there are. They restrict no
step.

### DocumentPublish

`save_document` touches only the rows of its own document, so one document and
several call slots show every interleaving.  Title, body and tags are each named by
the operation that wrote them.  Not modelled: favourite flag, visibility level,
summary, size, several users, encryption.

A call runs through phases: `sent` (invoked), then `WriteRow`, the section under
the lock (documents.rs:134-315), then for a Published and not Private document
`syncing` (the post), `stored` (the server has it), `failed`, and `ok` or `err`,
which `ReturnOk` and `ReturnErr` hand to the store. The post has the title and
the tags of the *request* (`Posted`), not the body, and no tags when the request
has none, though the row keeps its own (`Written`). The three copies of the
rollback statement (documents.rs:377, 397, 415) are the actions `Rollback`,
which changes the row *as it is then*, and `RollbackFails`: whether the
statement succeeds is not looked at. The metadata panel takes its copy, asks the
user and sends it after the answer (`AskFirst`, `Confirm`, `Decline`).
`WriteFails` is a statement of the section that fails after the upsert: there is
no transaction. `AnswerLost` is the network error after the server has stored
the document. `Restart` is a crash with the migration of `init_database`; the
store is not persisted and is filled again. `seen` abstracts the comparison of
`last_synced_at` with the store's `lastSyncedAt`: it tells whether an
incremental fetch would miss the row. `PartialSave` sends no version and the
command writes 0. `EditorGroup` is `doc.group_type || 2`.

### DocumentTable

Documents are numbered in the order of creation and are not moved (the user
interface has no such operation, except to the root).  A row is present or not,
with a parent and a deletion time; for tags, revisions and AI data it matters
only whether a document has any.  The clock is the number of operations so far:
two deletions differ in time, as RFC 3339 texts with nanoseconds do.  A
request keeps what the store showed when it was sent.  `DeleteDocument` and
`RestoreDocument` take the set of rows their loop reached (`done`), in the order
of the recursive query for the former, so an interrupted loop is one of the
cases.  `WriteStops` and the disjuncts of `ExtractWrites` are the sections that
stop between statements.  `DeleteForever` changes nothing: the command reads the
BLOB `deleted_at` as text and fails.  `shown` is the parent in the store's copy;
`FetchDocuments` refreshes it at any time (it is called on mount, after an
extraction and after failed commands).  Documents are shown from the moment they
are requested, and saved only when their row is there.  `document_deltas`,
`document_snapshots` and `document_ai_queue` are deleted from but never written
by this code, and left out.

### Signaling and SignalRelay

`gateway[c]` is the loop of `HandleWebSocket`, `reading` its goroutine,
`handler[c]` the `StreamSignals` of the service.  `up` and `down` are the two
directions of a gRPC stream: ordered, with at most `Window` answers not yet
received, after which `Send` blocks.  `Receive` is `Recv` with `peers.Load`;
the handler then holds the stream it loaded (`sending`) until `Send` or
`SendFails`.  `EndOfStream` runs the deferred `Delete(peerID)`, which removes
whatever is registered for the peer.  `RestartService` breaks all streams; the
gateway may still receive a first part of what was on its way, and a WebSocket
stays open until its client sends something.  Left out: a stream that cannot be
created (the WebSocket closes at once), the close handshake (a closed socket is
`closing` and every write to it fails), two handlers inside `Send` of one stream
at the same time (gRPC does not define it).

`SignalRelay` has connections, what each posted, and what arrived at each.  A
signal may arrive at a connection only if it was posted to its owner, nothing
later of the same sender arrived there, and it has not arrived anywhere.
`RelaySpec` says `Signaling` implements it: the three variables are variables of
`Signaling`, so the mapping is the identity on them.

### Accounts

One email address with at most one row in each tenant.  A password is a number,
new each time the service makes one; a user who changes his may take a new one,
the present one or one that was mailed to him (`Choices`), for nothing refuses
it.  A row is identified by the password it was created with, so that a row
deleted and created again is another row.  Calls that read
a row and save it later (`ResetPassword`, `UpdateUser`, `ReadChange`) are two or
three steps; creations, deletions and imports are one.  `MailReset` is the mail
after the write, which may fail.  The client is the login form with its steps
(`Attempt`), the commands `login`, `try_offline_login` and `change_password`,
and the one row the local table keeps for an address.  Every answer may be lost
(`answer = "lost"`), the save into the cache may fail, and `Restart` closes the
client.  `SubmitUnread` is the form when the query for the cached tenant fails,
which `get_saved_tenant` reports as no row: it goes on as on another computer,
with the row still there.  Left out: token expiry and the signing of tokens (a
library), the other fields of a user (UsersPage), invoking `logout`, which no
code does, and the administrator the seed makes: each start of the service sets
that one address's password to the seed's again (seed.go:94-107, main.go:55), so
for it nothing is promised; the address of the model is another.

### Chats

A message is a question's number with the role of its author, the milliseconds
it is dated with, and the how-manieth message it is.  `ask_ai` is three
sections under the lock with the models between them; `selectChat`,
`loadMoreMessages` and `deleteChat` are a call and its answer.  Two questions
may be under way though the form is disabled by `isLoading`, because opening a
chat resets it.  `clock` is the computer's: `MaxSlips` times it may not have gone
on since the last message, or may have been set back.  A page is asked for by
the date of the oldest message shown and is the end of the rows dated strictly
before it, in the order of the dates and then of insertion (`ByTime`, the index
the query uses).  `listed` is the list of the panel: a load that fails is only
logged and leaves it as it was, so a deleted chat can be opened from it.  Left
out: the search for sources, the search in the history, titles.

### Editor

Title and content are each the number of the edit that made them. A text can be
in the row, in the store's copy (`listed`), in the draft, in the editor, and in
a command on its way. `editor` has the flags of the component (dirty, timer
armed, loading); the timer ends with the component and with a change of tab, as
the effect's cleanup does. `Write` is the command's section, `Refetch` the
incremental fetch that follows. An editor is loaded from the draft, if there is
one, but for a title the user had emptied (`emptied`): `draft.title ||
doc.title` takes the store's then (`LoadedWith`). An emptied content is HTML
with an empty paragraph, which is not falsy. `Crash` loses all but
`localStorage` and the row. `slipped` collects the ways to lose work that
`WorkIsSafe` names.

### Explorer

`documents` is the store's list with group, parent and state, `under` the tree
that is shown, `open` what is unfolded, `remembered` the refs that outlive a
rebuild. Whatever changes the documents or the tab runs the two effects (`Tree`,
`DownTo`) in the same step, as React does before the next event. Drags alter the
tree only, and only until the next rebuild. `Items` is what a document is below
in the tree, as the least set that is closed under the place of each member
(recursion in the code, which ends because no document is below itself:
`FirstAssumption` says so of the first documents, and drags keep it). Documents
that are where the list does not look at the start (`Elsewhere`) are `astray`
from the start. `FetchDocuments` rebuilds the tree and may open the first
document; `MergeDocument` is what the answer to a save, a copy that is put back,
or the fetch after a deletion, a restoration or an emptying failed may bring of
a document: live or recycled, without its parent, or, by `doc.group_type || 2`,
private with the id of a department, which makes it `astray`. A fetch that is
answered while a document is being created, which would show it twice, is left
out. The specification is `ExplorerSpec`; its formulas have names of their own
because `Visibility_proofs` extends `Access` too. Left out: the order of
siblings, other sort keys, the search field.

### Access

Tables are functions from row numbers; each statement of `RequestAccess` and
`GrantAccess` is a step.  `SaveRequest` takes the lock of the row and holds it
until `Commit` or `Rollback`.  A look that fails falls through like one that
found nothing (acl.go:48, 92, 98): `LookForPending` may go on with a request
pending, and `CheckAccess` has an argument for it.  The owner may send any status;
`PENDING` opens a decided request again (`reopened`).  `CheckAccess` is an
operator: it changes nothing, and `AccessIsLastGrant` evaluates it.

### Departments, UsersPage, ProjectsPage, AdminSite

Table, service and page in one module each. A call is `sent`, `done` or `failed`
(or `read`, between two statements) until the page handles its answer; a lost
answer is a call that is done and is handled as failed. The search of the
departments' page filters what it shows: it sends `query` and the gateway reads
`search`, so that the service lists all; the projects' page sends `search`.
Pages keep what they show apart from the table, and show changes before they are
made where the code does. In `Departments` a list is a function from the ids in
it; `Above` is the least set that is closed under parents, so it ends on lists
with a loop as well. A drag looks at the list that is shown, without the
departments whose deletion is under way; `Whole` has them too, and `looped`
records a drop that puts a department below itself in `Whole`. A dialog keeps
the fields it was opened with and which are sent; it is closed by the answer
even if it was left and opened on another row since. `UsersPage` has pages of
`PageSize` users and refuses a sorted list (see 4); its `UpdateUser` is one
step, as every answer to an update asks for the list again and `Accounts` has
the read and the save apart. In `ProjectsPage`, an update is `ReadProject` and
`SaveProject`, which writes all of the row that was read, its place in the order
too, and inserts it if it is gone. What the user chose (`wanted`) is taken from
the form (`Wish`), not from what the service makes of it: a position that was
emptied and members who were all taken away are a choice that is not kept
(`Emptied`). `ProjectsPage` has the panel that picks users, which keeps its
ticks and list while the dialog changes below it. `AdminSite` chooses the page
when the site is opened; its variables are renamed into the pages' by `INSTANCE
... WITH`, and the page that is not open stays as it would be at first
(`Unopened`).

## 3. Runs

| Run | Bounds | Shows |
|---|---|---|
| `publish` | 2 calls at once, 3 operations or restarts | `TypeOK`, `PublishedIsIndexed`, `PublishedHasRevision` |
| `publish_settles` | 2 calls, 2 operations, fairness | `PublishSettles` |
| `table` | 3 documents in any tree, 4 operations | `TypeOK`, `NoOrphanData`, `RestoreRevivesOneDeletion`, `LiveNeverPurged` |
| `signaling` | 3 connections of 2 peers, streams of 2 answers, 2+1 signals, 1 restart | `TypeOK`, `NoStaleStream`, and that `Signaling` implements `SignalRelay` |
| `signal_live` | one sender with 2 signals, streams of 1 answer, fairness | `SignalArrives` |
| `accounts` | 2 tenants, 2 calls, 2 operations of administrators, 3 of the user | `TypeOK`, `CacheIsOfSession`, `PasswordsWereValid`, `MailedMustChange`, `NewRowKept` |
| `chats` | 2 questions, 2 openings at once, pages of 2, 3 other operations, 1 slip of the clock | `TypeOK`, `InputNeverStuck`, `OrphansOnlyByRace`, `ShownIsTail`, `NothingHidden` |
| `departments` | 1 of at most 3 departments at first, 2 calls, 4 operations | `TypeOK`, `PageShowsTable`, `TableIsForest`, `DeletedStaysDeleted` |
| `editor` | 2 commands at once, 2 edits, 3 commands or crashes | `TypeOK`, `WorkIsSafe`, `EditorShowsWork` |
| `access` | 2 users, one of them super, 1 document, 2 calls at once, 5 in all | `TypeOK`, `OnePending`, `ApprovedHasPermission`, `AccessIsLastGrant` |
| `explorer` | 3 documents, 4 groups, 4 operations | `ExplorerTypeOK`, `NothingDisappears`, `ActiveIsVisible`, `RememberedIsShown` |
| `admin_site` | either page, 2 calls at once, 3 operations, pages of 1, at most 3 rows | `SiteTypeOK`, `PagesShowTables`, `ChoicesKept` |

*Why the bounds suffice.* A lost or stale update needs a call and one that
overtakes it: two slots everywhere; a third operation comes before, between or
after. The steps of calls under way are not bounded, only what the user starts.
Three documents of the table give a chain of three levels and siblings, four
operations delete, delete, restore and empty, or a save and an extraction across
a deletion and a purge. Two connections of one peer and one of another give
registration, replacement and deletion of an entry between a `Load` and a
`Send`; two signals of one sender can overtake one another; a window of 2 lets
the queue be full, half full and empty. Two tenants are a cache of the one in a
session of the other; two operations of administrators are a deletion and a
creation, or two resets, around a change of password. Two questions make four
messages, two full pages, which is where paging goes wrong; one slip of the
clock is a message with the date of the last one, or with an earlier one. Three
departments are the shortest drop on something two levels below; one at first
leaves two to be created while others are dropped or deleted, and four
operations are the shortest way to drop a department below itself by way of one
being deleted. Five calls of access control request, decide, request and decide
again. Three documents are a parent and a child that are moved, recycled and
merged, with one that is created. Pages of one user let the last page become
empty.

The symmetry sets permute interchangeable calls, peers and persons, and are used
for safety properties only.  Deadlock is not checked: with the bound on
operations used up and all calls done, the systems stop.

*Fairness.*  `PublishSettles` assumes that a call which waits for nothing but the
lock of the database takes its next step (`WF_vars(LocalStep(s))`): commands are
tasks of an async runtime, and the lock is never held across an await.  A post
has no timeout (`reqwest::Client::new()`, documents.rs:359) and may hang, so it
has no fairness; the property supposes that each post ends (`EveryPostEnds`).
`SignalArrives` assumes that the handlers of the service go on while they can
(`WF_vars(Serve(c))`): they are goroutines that wait for a message or for room in
a stream.  The gateway's goroutine that writes to the WebSocket has no fairness,
for `WriteJSON` has no write deadline and waits for ever for a client that does
not read; the property supposes that answers do not wait for ever
(`AnswersAreRead`).  Without that it is false: one client that does not read
holds up the handlers of all that send to it, and with them what they send to
others.  The user, the clients and restarts are under no fairness.

*The properties.* `PublishedIsIndexed` relates the row to what the index
received, title and tags; its exceptions are collected in `amiss` from the save
that wrote the row: `untagged` (the request had no tags, so the index has none),
`extracted` (extract_info wrote over a Published row without posting it),
`halfWritten` (a statement failed after the upsert), `cutShort` (a crash between
write and answer, or between failure and rollback), `notUndone` (the statement
of the rollback failed). `PublishedHasRevision` follows the revision numbering
through saves without a version, rollbacks below zero and the migration.
`RestoreRevivesOneDeletion` compares the deletion times in the rows with a
history of which operation put each document in the bin. `NoStaleStream` is not
obvious because any handler of a peer deletes the peer's entry, whoever wrote
it. `CacheIsOfSession` holds only because the form deletes the row of the cache
before it logs in with another tenant; `PasswordsWereValid` because an answer is
looked at before the cache is written; both fail after a query for the cached
row that failed (`unread`). `MailedMustChange` excepts a mailed password that
its user chose again (`picked`). `NewRowKept` is about saves that read a row
before it was replaced: GORM's `Save` updates by id and inserts what it does not
find, so it may revive a row but not overwrite another. `OrphansOnlyByRace`
needs `deleteChat` to leave the chat. `ShownIsTail` and `NothingHidden` compare
the panel with the table through pages, errors and answers out of turn; a page
that is read of messages whose dates do not follow their order sets `mixed`.
`PageShowsTable`, `PagesShowTables` and `ChoicesKept` are the convergence of a
user interface that shows first and asks later. `DeletedStaysDeleted` holds
because a reorder updates rows where the change of a level saves one.
`WorkIsSafe` follows one text through five places. `ApprovedHasPermission`
survives repeated decisions because permissions are only added or replaced.
`NothingDisappears` compares the tree with the documents.

## 4. What the code does against its own words, or likely against its intent

The models do what the code does; where that differs from what a comment, a text
of the user interface or plain reading says, it is noted here.

1. "Rollback state to Draft AND revert version" (documents.rs:373): the statement
   subtracts 1 from the present version.  toggleFavorite on a Published document
   writes version 0 and the rollback makes it -1; with an overlapping save the
   rollback hits the other's version.
2. "A Private document cannot be published" (MetadataPanel.tsx:697): the editor's
   `doc.group_type || 2` (SingleTabEditor.tsx:992) turns Department (0) into
   Private (2), so saving a Published Department document makes a Private one
   that is Published.
3. Deletion for ever cannot be undone (RecycleBin.tsx:59): `delete_document` reads
   the BLOB `deleted_at` as text and fails before it deletes anything; the
   document is back at the next full fetch.
4. Emptying the bin cannot be undone (RecycleBin.tsx:73): a save or an extraction
   under way inserts the row again.
5. The documents in a folder are deleted with it (DocumentList.tsx:579): a
   favourite toggle or a new tag sets `parent_id` to NULL in the table while the
   store shows the document where it was.
6. With several devices the last connection is the valid one (service.go:16): the
   end of an older one removes the newer one.
7. "Log in with the temporary password below" (email.go): a reset that is overtaken
   by another, or by a save of a row read before it, mails a password that is not
   in the row.
8. "Ensure content is preserved" (documentStore.ts:577): a rename writes the
   content the store has over one that was saved since.
9. ListUsers sorted by position or department joins a table that has a `tenant_id`
   too and filters by `tenant_id` without saying whose (user.go:28, 60), which
   Postgres refuses as ambiguous; the page keeps the order and is not refreshed
   again until the order is left.
10. The page of access requests sends neither the owner's id nor the reviewer's
    (`admin/access-requests/page.tsx`), so ListAccessRequests lists nothing of
    theirs and GrantAccess refuses.  It is not modelled: nothing can happen.
11. The dialog that creates a user sends `positionId` where the service reads
    `position_id` (CreateUserModal.tsx:273): the position is dropped.
12. In UpdateProject an empty list of members or an empty owner means unchanged
    (project.go:193-211): the last member or the owner cannot be removed.
    UpdateUser does the same with an empty position (user.go:192), which the
    dialog offers (EditUserModal.tsx:437).
13. The page refuses to drop a department below itself (page.tsx:378-416), but looks
    at the list it shows, from which a department is gone as soon as its deletion
    is sent.  Dropping A on what is below the hidden B, itself below A, is let
    through; if the reorder reaches the service before the deletion, or the
    deletion is refused because B has departments or users, the table has a loop
    and `buildTree` shows nothing of it.  `looped` names this case.

14. The comment on the tags that are posted (documents.rs:291-296) takes it that
    the store sends the whole document: toggleFavorite, the rename and the editor
    send no tags, and the index is given the document without any.
15. The rollback's result is not looked at (documents.rs:377), and the post has no
    timeout (359): the row may stay Published without being indexed.
16. get_saved_tenant takes an error for no row (database.rs:518): a session of one
    tenant may run with the row of another kept for offline use, which then opens
    with the password of the wrong tenant.
17. Nothing refuses a new password that is the present one (user.go:679-709,
    ChangePasswordForm): a mailed password may be kept.
18. A list of chats that could not be loaded after a deletion keeps the deleted
    chat (chatStore.ts:59); what is asked there is saved without a chat.
19. Messages of one millisecond at the border of a page are skipped (rag.rs:311).
20. An editor whose draft has an emptied title comes back with the old one
    (SingleTabEditor.tsx:594).
21. The `group_type || 2` of 2 is merged into the list (SingleTabEditor.tsx:1003-1010):
    the document is private with a department's id, in the table too, and in no
    tree.
22. Errors of the database count as nothing found in CheckAccess and RequestAccess
    (acl.go:48, 92), and GrantAccess takes PENDING for a decision (acl.go:142).
23. UpdateProject saves a row it read before (project.go:188-216): an order that was
    committed between is undone, a project that was deleted comes back, and after
    a change of level the page asks for no list.

## 5. Proofs

All theorems are of the form `Spec => []Inv` or `Spec => [][A]_vars`, for every
value of the constants that satisfies the modules' assumptions (the bounds are
natural numbers, `NoPeer` and `NoConnection` are no peer and no connection, in
`Access` there is a user and a document, in `Explorer` the groups differ and no
document is below itself at the start, in `AdminSite` the first tables are
sequences of rows within the bounds).

- `DocumentPublish_proofs`: `TypeCorrect`, with one lemma for the user's
  operations and one for the steps of a call; `PublishedIsIndexedHolds`, from
  `IndexInv`, which adds that what the last call to write the row still posts is
  what the index ought to have of it (`PostsTheRow`).  The argument follows that
  call: while it is `syncing` or `failed` the publication is unsettled, it leaves
  those phases by indexing or by `Rollback`, after which the row is a draft
  whoever wrote it last; a crash and a rollback that failed are in `amiss`.
  `PublishedHasRevisionHolds`: only the section under the lock makes a row
  Published, and it writes the revision in the same step; a rollback and the
  migration change the version of drafts only.
- `DocumentTable_proofs`: `TypeCorrect`; `NoOrphanDataHolds`, inductive with the
  types; `RestoreRevivesOneDeletionHolds`, an action property that follows from
  the invariant `DeletionIsTime`: a document in the bin carries the time of the
  operation that put it there; `LiveNeverPurgedHolds`.
- `Signaling_proofs`: `TypeCorrect`; `NoStaleStreamHolds`, strengthened with
  `HandlerNeedsGateway`: a connection without a gateway has no handler, so the
  owner of a registered stream never changes.
- `Visibility_proofs`, of `Access`: `TypeCorrect` and `ApprovedHasPermissionHolds`, from the
  invariant `IInv`: the tables are functions on `1 .. n`, so a new id is unused;
  what a call has in memory is in the tables, and the request it decides is of its
  pair (`Remembered`), so a permission written for the pair is one for the
  request.  `AccessIsLastGrantHolds` adds `Last`: outside `grantedTwice` one
  transaction of a pair at most is between finding and committing, one that found
  no permission is still right when it commits, and the pair has one permission,
  with the level granted last.  `OnePendingHolds` adds `Asked`, the same argument
  for requests: outside `askedTwice` one call at most has looked and not yet
  created, and what it saw still holds.
- `Visibility_proofs`, of `Explorer`: `ExplorerTypeCorrect`, `NothingDisappearsHolds`,
  `ActiveIsVisibleHolds` and `RememberedIsShownHolds` from one invariant,
  `TreeInv`.  Every set of documents has one whose parent is not in it
  (`Ordered`), so the items above a document that is in the tree end at a group:
  the set of those that do not would have such a member.  A document outside
  `astray` has a group, that of its parent, and is live only below what is live
  (`Filed`), so a tree that is built from the documents lists it.  A tree no drag
  has altered has each item below its parent (`TreeFollows`), so what
  the effect unfolds, which it takes from the store, is what is above the active
  document in the tree.  The three properties are part of the invariant: an
  action that leaves the tree alone keeps them because they held before.
- `Signaling_proofs`, `RelayHolds`: every step of `Signaling` is one of `SignalRelay`
  or a stutter.  The invariant `Relayed` follows a signal: what waits in `up`,
  in `sending` and in each `down` was posted by the owner of its connection, with
  the number it has there (`Requests`, `Carried`, `Waiting`); along these places
  the signals of one sender stand in the order in which they were posted, and what
  arrived comes before what is still on its way (`There`); and no signal is sent
  to two connections (`Once`), so that none arrives again at a later connection
  of its peer.
- `Administration_proofs`, of `Accounts`: `TypeCorrect`, `CacheIsOfSessionHolds`,
  `PasswordsWereValidHolds` and `NewRowKeptHolds` from one invariant, `IInv`: the
  password of every row, of a change that was made but not answered and of a login
  that was answered yes was one of its tenant (`Rows`, `Calls`, `LoggingIn`); a
  form half-way through a login either holds the tenant of the cache or has
  deleted the cache (`LoggingIn`), unless it is `unread`; a change that is
  waited for is of the session's tenant (`Session`).  The two properties are parts of it, because an offline
  login makes a session from the cache.  `MailedMustChangeHolds` needs `Flagged`:
  a password that was mailed *or that a reset under way will mail* has its flag in
  the row and in each copy that an update will save, and a change of a password
  takes one only from what its user was mailed, which `picked` keeps.
- `Administration_proofs`, of `AdminSite`: `SiteTypeCorrect`,
  `PagesShowTablesHolds` and `ChoicesKeptHolds` from one invariant, `SiteGood`,
  which has parts for the users, for the projects and for the page that is open.
  The pages share no variable, so a step of one leaves what is known of the other
  (`UsersStay`, `ProjectsStay`).
  - Types (`UserTypes`, `ProjectTypes`): ids are given before they are used, in
    every list that anything holds, and at most one call is of each dialog.  That
    a page of users, and a list of projects in their order, are sequences without
    repetition needs an argument about cardinality: the number of the rows before
    a row is a bijection (`PlaceIs`, `ListIs`), and a list with another's ids in
    the same order is that list (`OnlyList`).
  - What is shown (`UserKnown`, `ProjectKnown`): a list that was read and is not
    old is what the table holds.  Unless the page strayed, a list is coming or
    will be asked for when an answer comes, or the page shows that slice of the
    users, or the projects as the calls ahead will make them: one new order and
    one level of each project at most is ahead (`AheadOnce`), what is shown has
    these and is the table's otherwise (`Expected`), and without a new order it
    stands in the table's (`ShownAs`).
  - What was chosen (`UserChoices`, `ProjectChoices`): outside `raced` at most one
    call changes a row (`OneUserCall`, `OneAlters`); one that was sent makes the
    row what was chosen (`UserSaves`, `Makes`), a project also from the row that
    was read, whatever the table holds by then; without one it is (`UserSaved`,
    `Made`).  An open dialog shows the row but for what was touched,
    until its own call is made (`ShowsRow`, `ShowsProject`), so that sending all
    fields changes only those that were meant.
- `Chats_proofs`: `TypeCorrect`; `InputNeverStuckHolds`, inductive with the types;
  `OrphansOnlyByRaceHolds`, from `Calls`, `NewIsUnused`, `AskedIsKnown`,
  `ShownIsKnown` and `DeletingIsKnown`: a chat that anything under way will write
  to exists or is in `raced`, and the number a question will open its chat under
  is not used before. `NothingHiddenHolds` adds `Sorted` (messages are stored in
  the order in which they were made, `made`, whatever their dates), that a page
  read of rows whose dates follow that order is the page by `made` (`ByTimeDated`,
  `OlderIsEarlier`), and `Paged`: outside `mixed` one question or opening
  at most is under way and it is about the shown chat (`OneCall`), and every
  stored message is shown, or older than what is shown with `hasMore` set, or in
  the page or the answer that is coming (`Covered`).  `ShownIsTailHolds` adds
  that no message is stored twice, and none that a question under way has yet to
  write is stored already (`StoredOnce`), and that what is shown has the order
  of what is stored and begins no later than any shown message (`ShownFits`):
  a page that is read is a part of the chat in order and older than what is shown, and
  while an answer is awaited its question is the last shown (`Awaits`).  That no
  message is left out after the first comes from `Covered`: one that is not
  shown is older than all that are.
- `Editor_proofs`: `TypeCorrect`; `WorkIsSafeHolds`, from `Work`: outside
  `slipped` the last text is in one of the four places (`Kept`), an editor with
  changes has it (`DirtyIsTyped`), and once a command has written it the row is
  it (`WrittenIsRow`, `ListedIsRow`), without which the end of a save could clear
  the draft while the row still is an older text.  `EditorShowsWorkHolds` adds
  that what an editor would load now, the store's title for an emptied one, is the
  last text (`LoadableIsTyped`).
- `Departments_proofs`: `TypeCorrect`, from `Shapes` (ids are given before they are
  used, in every list that anything holds); `DeletedStaysDeletedHolds`, from the
  same.  `PageShowsTableHolds` uses `Calm`: outside `strayed`, no two requests
  under way disturb each other (`Apart`), a list
  on its way is the table's (`Fresh`), a row that was read is still the table's
  (`ReadHolds`); and, unless a fetch or a failure will replace the list (`Rough`),
  each department is shown as the requests under way will leave it (`Known`),
  and all departments are shown once no creation is unanswered (`Complete`).
  `TableIsForestHolds` uses that the page knows the table: a loop is a non-empty
  set each of whose members has its parent in it, and outside `looped` there is
  none among the rows with any row that was read for a change of level, nor in
  what a reorder under way will make of them (`Forest`).  A drop is safe because
  the set above its target is closed in `Whole`, and a department created
  meanwhile has a parent that is older.  In trying to prove this property it
  turned out that it failed beyond the bounds of the run at that time (see 13 in
  section 4): the run now has that case, and the property names it.

Only model-checked:

- `PublishSettles` and `SignalArrives`: liveness under fairness is out of the
  prover's reach.

What the theorems suppose is in their statements: `OnePending` and
`AccessIsLastGrant` name failed looks, `CacheIsOfSession` and `PasswordsWereValid`
a failed query, `PublishedIsIndexed` a failed rollback, `ShownIsTail` and
`NothingHidden` a clock that stood or went back at a page's border,
`PagesShowTables` a level saved over a newer row, `ChoicesKept` choices the
service ignores, `EditorShowsWork` an emptied title, `NothingDisappears` a document
merged into no tree.

Every invariant and every action property that a run checks is also proved, and so
is the refinement of `SignalRelay`.  The proof of `PagesShowTables` showed that it
needs no exception for a page of users that was sorted: that its list was refused
is one of the ways to stray.

The modules declare no RECURSIVE operator, so each can be proved about.

## 6. Not modelled, and the plan

Not modelled, and why:

- the store's copy of `deleted_at` and whether the store converges to the table
  (`DocumentPublish` has the incremental fetch for one document);
- termination of `HandleWebSocket` when a handler is blocked in `Send`;
- the sidecars: two processes and a flag, nothing else of the code depends on
  the interleaving;
- positions and tenants: a flat list with the operations departments have but
  the tree, and rows that are created by one transaction and never change;
- the index service (single statements), the stateless gateway handlers, the
  visibility approvals (no code creates one), the administrator the seed makes (its
  password is reset at each start of the auth service), the pages of access requests,
  positions, tenants and AI of the web site;
- the text processing of AI answers, encryption, media and configuration (pure
  functions over text and bytes), the editor's toolbar and other presentation.
