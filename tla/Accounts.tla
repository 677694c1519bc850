------------------------------ MODULE Accounts ------------------------------
(***************************************************************************)
(* Passwords: the rows of the auth service's users table, what             *)
(* administrators do to them, and the desktop client that logs in, keeps   *)
(* the last login for offline use, and changes its password.               *)
(*                                                                         *)
(* There is one email address, with at most one row in each tenant.  The   *)
(* service reads a row and writes it back in separate statements; there is *)
(* no transaction around them, and the gateway may give up on a call that  *)
(* the service still completes.  The client's local table has one row for  *)
(* the address, whatever the tenant.  The address is not that of the super *)
(* user whom every start of the service gives the seeded password again.   *)
(***************************************************************************)
EXTENDS Integers

CONSTANTS
    Tenant,     \* the organisations of the installation
    NoTenant,   \* no organisation
    Call,       \* calls of the service that may be under way at once
    NoCall,     \* no call
    MaxAdmin,   \* bound: operations of administrators in a behaviour
    MaxUser     \* bound: logins, password changes and restarts of the client

ASSUME NoTenantAssumption == NoTenant \notin Tenant
ASSUME NoCallAssumption == NoCall \notin Call
ASSUME BoundsAssumption == MaxAdmin \in Nat /\ MaxUser \in Nat

VARIABLES
    account,      \* the row of the address in each tenant
    calls,        \* the calls of the service that take several statements
    lastPassword, \* the passwords handed out so far are 1 .. lastPassword
    cache,        \* the row of the address in the client's table
    session,      \* AuthState, and the current password the client keeps
    view,         \* what App shows
    attempt,      \* the login under way
    changing,     \* the call that changes the password, as the client knows
    adminOps, userOps,
    mailed,       \* history: the temporary passwords mailed to the user
    was,          \* history: the passwords the address has had in a tenant
    picked,       \* history: those the user chose for the row of a tenant
    unread        \* history: a login did not see the row the cache has

server == <<account, calls>>
client == <<cache, session, view, attempt, changing>>
history == <<mailed, was, picked, unread>>
vars == <<server, client, lastPassword, adminOps, userOps, history>>

-----------------------------------------------------------------------------
(* A password is a number, a new one for every reset or creation; 0 is a   *)
(* typing mistake.  The id of a row is the password it was created  *)
(* with, so a row created again has another id.                            *)
Password == Nat
Role == {"user", "admin", "super"}
User == [id : Nat, password : Password, force : BOOLEAN, role : Role]
NoUser == [id |-> 0, password |-> 0, force |-> FALSE, role |-> "user"]
Exists(t) == account[t] # NoUser
New == lastPassword + 1

(* Mutant: no role where none is given.                                    *)
NewUserNoRole(role, force) ==
    [id |-> New, password |-> New, force |-> force,
     role |-> IF role = "user" THEN "" ELSE role]

NewUser(role, force) ==
    [id |-> New, password |-> New, force |-> force, role |-> role]

(* "idle", "sent", "read" (the row is in memory), "written", or the answer *)
(* "done", "refused".                                                      *)
Phase == {"idle", "sent", "read", "written", "done", "refused"}
CallState == [phase : Phase, kind : {"reset", "batch", "update", "change"},
              tenant : Tenant \cup {NoTenant}, row : User, current : Password]
Idle == [phase |-> "idle", kind |-> "reset", tenant |-> NoTenant,
         row |-> NoUser, current |-> 0]

CachedUser == [tenant : Tenant \cup {NoTenant}, password : Password,
               force : BOOLEAN]
NoCache == [tenant |-> NoTenant, password |-> 0, force |-> FALSE]

AuthState == [tenant : Tenant \cup {NoTenant}, online : BOOLEAN, id : Nat,
              currentPassword : Password]
NoSession == [tenant |-> NoTenant, online |-> FALSE, id |-> 0,
              currentPassword |-> 0]

(* Where handleSubmit and handleTenantSelect are: a login with the tenant  *)
(* of the cache, the lookup, a login with the only tenant found, the       *)
(* selector, a login with the tenant chosen there.                         *)
Attempt == [step : {"none", "cached", "lookup", "direct", "select", "chosen"},
            tenant : Tenant \cup {NoTenant}, password : Password,
            answer : {"none", "yes", "no", "lost"}, user : User,
            offers : SUBSET Tenant]
NoAttempt == [step |-> "none", tenant |-> NoTenant, password |-> 0,
              answer |-> "none", user |-> NoUser, offers |-> {}]

Init ==
    /\ account \in [Tenant -> {NoUser} \cup
          {[id |-> 1, password |-> 1, force |-> TRUE, role |-> r] : r \in Role}]
    /\ calls = [c \in Call |-> Idle]
    /\ lastPassword = 1
    /\ cache = NoCache
    /\ session = NoSession
    /\ view = "login"
    /\ attempt = NoAttempt
    /\ changing = NoCall
    /\ adminOps = 0
    /\ userOps = 0
    /\ mailed = {}
    /\ picked = {}
    /\ unread = FALSE
    /\ was = {<<t, 1>> : t \in {u \in Tenant : Exists(u)}}

Administer == adminOps < MaxAdmin /\ adminOps' = adminOps + 1
Use == userOps < MaxUser /\ userOps' = userOps + 1

-----------------------------------------------------------------------------
(* The service.                                                            *)

(* A row appears with a password the administrator knows.  CreateUser and  *)
(* BatchCreateUsers exempt administrators from changing it, in a second    *)
(* statement of CreateUser, which may fail.                                *)
Insert(t, role) ==
    /\ \E force \in IF role = "user" THEN {TRUE} ELSE BOOLEAN :
          account' = [account EXCEPT ![t] = NewUser(role, force)]
    /\ lastPassword' = New
    /\ was' = was \cup {<<t, New>>}

CreateUser(t, role) ==
    /\ Administer
    /\ ~Exists(t)
    /\ Insert(t, role)
    /\ UNCHANGED <<calls, client, userOps, mailed, picked, unread>>

(* BatchCreateUsers is one transaction.  "upsert" keeps the password of a  *)
(* row that is there; "replace" deletes every row of the tenant except     *)
(* that of a super user, and fails on the address of one.                  *)
BatchCreateUsers(t, mode, role) ==
    /\ Administer
    /\ \/ /\ mode = "upsert"
          /\ Exists(t)
          /\ account' = [account EXCEPT ![t].role = role]
          /\ UNCHANGED <<lastPassword, was>>
       \/ /\ mode = "upsert" => ~Exists(t)
          /\ account[t].role # "super"
          /\ Insert(t, role)
    /\ UNCHANGED <<calls, client, userOps, mailed, picked, unread>>

DeleteUser(t) ==
    /\ Administer
    /\ Exists(t)
    /\ account' = [account EXCEPT ![t] = NoUser]
    /\ UNCHANGED <<calls, client, lastPassword, userOps, history>>

Begin(c, call) ==
    /\ calls[c] = Idle
    /\ calls' = [calls EXCEPT ![c] = call]

(* UpdateUser reads the row and sets the fields of the form in its copy.   *)
UpdateUser(c, t, role) ==
    /\ Administer
    /\ Exists(t)
    /\ Begin(c, [phase |-> "read", kind |-> "update", tenant |-> t,
                 row |-> [account[t] EXCEPT !.role = role], current |-> 0])
    /\ UNCHANGED <<account, client, lastPassword, userOps, history>>

(* ResetAndSendPassword and, for users who are not administrators,         *)
(* BatchResetPassword read the row and think of a password.                *)
ResetPassword(c, t, kind) ==
    /\ Administer
    /\ Exists(t)
    /\ kind = "batch" => account[t].role = "user"
    /\ Begin(c, [phase |-> "read", kind |-> kind, tenant |-> t,
                 row |-> [account[t] EXCEPT !.password = New],
                 current |-> 0])
    /\ lastPassword' = New
    /\ UNCHANGED <<account, client, userOps, history>>

(* Mutant: the flag is left as it is.                                      *)
ResetNoForce(row, p) == [row EXCEPT !.password = p]

Reset(row, p) == [row EXCEPT !.password = p, !.force = TRUE]

(* Model(&user).Updates writes two columns of the row with this id; when   *)
(* the row is gone it writes nothing and reports no error.                 *)
WriteReset(c) ==
    LET t == calls[c].tenant
        p == calls[c].row.password
        found == account[t].id = calls[c].row.id
    IN  /\ calls[c].phase = "read"
        /\ calls[c].kind \in {"reset", "batch"}
        /\ account' = IF found
              THEN [account EXCEPT ![t] = Reset(account[t], p)]
              ELSE account
        /\ was' = IF found THEN was \cup {<<t, p>>} ELSE was
        /\ calls' = [calls EXCEPT ![c].phase = "written"]
        /\ UNCHANGED <<client, lastPassword, adminOps, userOps, mailed, picked, unread>>

(* SendPasswordEmail succeeds or fails; the row stays as written.          *)
MailReset(c) ==
    /\ calls[c].phase = "written"
    /\ mailed' \in {mailed, mailed \cup {calls[c].row.password}}
    /\ calls' = [calls EXCEPT ![c] = Idle]
    /\ UNCHANGED <<account, client, lastPassword, adminOps, userOps, was, picked, unread>>

(* Mutant: the conflict on the address overwrites the other row.           *)
SavedAlways(t, row) == TRUE

(* Save writes every column of the copy.  Without a row of this id it      *)
(* inserts one, which fails when the address has a row of another id.      *)
Saved(t, row) == account[t].id \in {0, row.id}
Save(t, row) ==
    /\ account' = IF Saved(t, row) THEN [account EXCEPT ![t] = row] ELSE account
    /\ was' = IF Saved(t, row) THEN was \cup {<<t, row.password>>} ELSE was

WriteUpdate(c) ==
    /\ calls[c].phase = "read"
    /\ calls[c].kind = "update"
    /\ Save(calls[c].tenant, calls[c].row)
    /\ calls' = [calls EXCEPT ![c] = Idle]
    /\ UNCHANGED <<client, lastPassword, adminOps, userOps, mailed, picked, unread>>

(* A call nobody waits for any more ends silently.                         *)
Ended(c, answer) ==
    IF changing = c THEN [calls[c] EXCEPT !.phase = answer] ELSE Idle

(* ChangePassword reads the row by the id in the token and compares the    *)
(* current password; the gateway refuses a token that has expired.         *)
ReadChange(c) ==
    LET t == calls[c].tenant
        row == account[t]
    IN  /\ calls[c].phase = "sent"
        /\ \/ /\ row.id = calls[c].row.id
              /\ row.password = calls[c].current
              /\ calls' = [calls EXCEPT
                    ![c].phase = "read",
                    ![c].row = [row EXCEPT !.password = calls[c].row.password,
                                           !.force = FALSE]]
           \/ calls' = [calls EXCEPT ![c] = Ended(c, "refused")]
        /\ UNCHANGED <<account, client, lastPassword, adminOps, userOps, history>>

WriteChange(c) ==
    LET t == calls[c].tenant
        answer == IF Saved(t, calls[c].row) THEN "done" ELSE "refused"
    IN  /\ calls[c].phase = "read"
        /\ calls[c].kind = "change"
        /\ Save(t, calls[c].row)
        /\ calls' = [calls EXCEPT ![c] = Ended(c, answer)]
        /\ picked' = IF answer = "done"
              THEN picked \cup {<<t, calls[c].row.password>>} ELSE picked
        /\ UNCHANGED <<client, lastPassword, adminOps, userOps, mailed, unread>>

(* The auth service stops: the statements that are left are not executed.  *)
RestartService ==
    /\ Administer
    /\ calls' = [c \in Call |->
          IF calls[c].phase \in {"sent", "read", "written"}
          THEN Ended(c, "refused") ELSE calls[c]]
    /\ UNCHANGED <<account, client, lastPassword, userOps, history>>

-----------------------------------------------------------------------------
(* The client: LoginForm, App.handleLogin and the login command.           *)

(* Mutant: nothing is deleted.                                             *)
KeepSavedTenant == UNCHANGED <<cache, unread>>

ClearSavedTenant == cache' = NoCache /\ unread' = FALSE

(* The form is disabled while an attempt is under way, and covered by the  *)
(* selector.                                                               *)
CanSubmit == view = "login" /\ attempt = NoAttempt

(* handleSubmit: with a row in the cache the login goes to its tenant,     *)
(* otherwise the tenants of the address are looked up.                     *)
Submit(p) ==
    /\ Use
    /\ CanSubmit
    /\ attempt' = IF cache = NoCache
          THEN [NoAttempt EXCEPT !.step = "lookup", !.password = p]
          ELSE [NoAttempt EXCEPT !.step = "cached", !.password = p,
                                 !.tenant = cache.tenant]
    /\ UNCHANGED <<server, cache, session, view, changing, lastPassword,
                   adminOps, history>>

(* get_saved_tenant takes an error of its query for no row: the tenants    *)
(* are looked up while the cache keeps its row.                            *)
SubmitUnread(p) ==
    /\ Use
    /\ CanSubmit
    /\ cache # NoCache
    /\ attempt' = [NoAttempt EXCEPT !.step = "lookup", !.password = p]
    /\ unread' = TRUE
    /\ UNCHANGED <<server, cache, session, view, changing, lastPassword,
                   adminOps, mailed, was, picked>>

(* LookupTenantByEmail and what handleSubmit does with the answer.         *)
LookupTenants ==
    LET found == {t \in Tenant : Exists(t)}
    IN  /\ attempt.step = "lookup"
        /\ \/ attempt' = NoAttempt
           \/ /\ \E t \in Tenant : found = {t}
              /\ attempt' = [attempt EXCEPT !.step = "direct",
                                            !.tenant = CHOOSE t \in found : TRUE]
           \/ /\ \E t, u \in found : t # u
              /\ attempt' = [attempt EXCEPT !.step = "select", !.offers = found]
        /\ UNCHANGED <<server, cache, session, view, changing, lastPassword,
                       adminOps, userOps, history>>

SelectTenant ==
    /\ attempt.step = "select"
    /\ \/ attempt' = NoAttempt
       \/ \E t \in attempt.offers :
             attempt' = [attempt EXCEPT !.step = "chosen", !.tenant = t,
                                        !.offers = {}]
    /\ UNCHANGED <<server, cache, session, view, changing, lastPassword,
                   adminOps, userOps, history>>

(* The service's Login: the row of the tenant, its password, and whether   *)
(* it must be changed, from which administrators are exempt.  A request or *)
(* its answer may be lost.                                                 *)
Login ==
    LET row == account[attempt.tenant]
    IN  /\ attempt.step \in {"cached", "direct", "chosen"}
        /\ attempt.answer = "none"
        /\ \/ attempt' = [attempt EXCEPT !.answer = "lost"]
           \/ /\ row # NoUser /\ row.password = attempt.password
              /\ attempt' = [attempt EXCEPT
                    !.answer = "yes",
                    !.user = [row EXCEPT !.force = @ /\ row.role = "user"]]
           \/ /\ row = NoUser \/ row.password # attempt.password
              /\ attempt' = [attempt EXCEPT !.answer = "no"]
        /\ UNCHANGED <<server, cache, session, view, changing, lastPassword,
                       adminOps, userOps, history>>

(* handleLogin after the command has succeeded.                            *)
Enter(t, online, user) ==
    /\ session' = [tenant |-> t, online |-> online, id |-> user.id,
                   currentPassword |-> attempt.password]
    /\ view' = IF user.force THEN "change_password" ELSE "main"
    /\ attempt' = NoAttempt
    /\ UNCHANGED <<server, changing, lastPassword, adminOps, userOps, mailed,
                   was, picked>>

(* An online login replaces the row of the cache; a failure to do so is    *)
(* only logged.                                                            *)
LoggedIn ==
    /\ attempt.answer = "yes"
    /\ \/ UNCHANGED <<cache, unread>>
       \/ /\ cache' = [tenant |-> attempt.tenant,
                        password |-> attempt.password,
                        force |-> attempt.user.force]
          /\ unread' = FALSE
    /\ Enter(attempt.tenant, TRUE, attempt.user)

(* verify_offline_login compares the password with the row of the address, *)
(* whichever tenant it belongs to.                                         *)
VerifyOffline == cache # NoCache /\ cache.password = attempt.password

(* After a refusal as after a network error.                               *)
OfflineLogin ==
    /\ attempt.answer \in {"no", "lost"}
    /\ VerifyOffline
    /\ UNCHANGED <<cache, unread>>
    /\ Enter(cache.tenant, FALSE, [NoUser EXCEPT !.force = cache.force])

(* Both failed, an error of the query being a failure of the second, or    *)
(* the rest of the answer was lost.  The row of the cache is deleted, and  *)
(* after a login with its tenant the address is looked up; an error of the *)
(* deletion ends the attempt.                                              *)
LoginFails ==
    /\ attempt.answer # "none"
    /\ \/ /\ attempt.step = "cached"
          /\ ClearSavedTenant
          /\ attempt' = [NoAttempt EXCEPT !.step = "lookup",
                                          !.password = attempt.password]
       \/ /\ attempt.step = "chosen"
          /\ ClearSavedTenant
          /\ attempt' = NoAttempt
       \/ /\ UNCHANGED <<cache, unread>>
          /\ attempt' = NoAttempt
    /\ UNCHANGED <<server, session, view, changing, lastPassword, adminOps,
                   userOps, mailed, was, picked>>

(* Both buttons of the form are disabled while a change is under way.      *)
CanChange == view = "change_password" /\ changing = NoCall

(* Neither the form nor the service refuses a password that was used       *)
(* before: a new one, the current one or any that was mailed.              *)
Choices == {New, session.currentPassword} \cup mailed

(* handleChangePassword; without a token the command fails at once.        *)
ChangePassword(c, p) ==
    /\ Use
    /\ CanChange
    /\ session.online
    /\ changing' = c
    /\ Begin(c, [phase |-> "sent", kind |-> "change", tenant |-> session.tenant,
                 row |-> [NoUser EXCEPT !.id = session.id, !.password = p],
                 current |-> session.currentPassword])
    /\ lastPassword' = IF p = New THEN New ELSE lastPassword
    /\ UNCHANGED <<account, cache, session, view, attempt, adminOps, history>>

(* Mutant: the status of the answer is not looked at.                      *)
ChangeAnswered(c) == calls[c].phase \in {"done", "refused"}

ChangeSucceeded(c) == calls[c].phase = "done"

(* The answer: update_cached_password, whose failure is only logged.       *)
PasswordChanged(c) ==
    /\ changing = c
    /\ ChangeSucceeded(c)
    /\ cache' \in {cache, IF cache = NoCache THEN NoCache ELSE
          [cache EXCEPT !.password = calls[c].row.password, !.force = FALSE]}
    /\ view' = "main"
    /\ changing' = NoCall
    /\ calls' = [calls EXCEPT ![c] = Idle]
    /\ UNCHANGED <<account, session, attempt, lastPassword, adminOps, userOps,
                   history>>

(* The client stops waiting; the service goes on.                          *)
Forget ==
    calls' = [c \in Call |->
        IF c = changing /\ calls[c].phase \in {"done", "refused"}
        THEN Idle ELSE calls[c]]

ChangeFails ==
    /\ changing # NoCall
    /\ Forget
    /\ changing' = NoCall
    /\ UNCHANGED <<account, cache, session, view, attempt, lastPassword,
                   adminOps, userOps, history>>

Skip ==
    /\ CanChange
    /\ view' = "main"
    /\ UNCHANGED <<server, cache, session, attempt, changing, lastPassword,
                   adminOps, userOps, history>>

(* The client is closed and started again: only the cache survives.        *)
Restart ==
    /\ Use
    /\ session' = NoSession
    /\ view' = "login"
    /\ attempt' = NoAttempt
    /\ changing' = NoCall
    /\ Forget
    /\ UNCHANGED <<account, cache, lastPassword, adminOps, history>>

-----------------------------------------------------------------------------
Administrator ==
    \/ \E t \in Tenant, r \in Role :
          \/ CreateUser(t, r)
          \/ \E mode \in {"upsert", "replace"} : BatchCreateUsers(t, mode, r)
          \/ \E c \in Call : UpdateUser(c, t, r)
    \/ \E t \in Tenant : DeleteUser(t)
    \/ \E t \in Tenant, c \in Call, kind \in {"reset", "batch"} :
          ResetPassword(c, t, kind)

Service ==
    \/ \E c \in Call :
          \/ WriteReset(c) \/ MailReset(c) \/ WriteUpdate(c)
          \/ ReadChange(c) \/ WriteChange(c)
    \/ Login
    \/ RestartService

Client ==
    \/ \E p \in 0 .. lastPassword : Submit(p) \/ SubmitUnread(p)
    \/ LookupTenants \/ SelectTenant
    \/ LoggedIn \/ OfflineLogin \/ LoginFails
    \/ \E c \in Call :
          \/ \E p \in Choices : ChangePassword(c, p)
          \/ PasswordChanged(c)
    \/ ChangeFails \/ Skip \/ Restart

Next == Administrator \/ Service \/ Client

Spec == Init /\ [][Next]_vars

-----------------------------------------------------------------------------
(* Every row, call, cached row and attempt has its shape: in particular a  *)
(* row always has a role, and no history holds what is not a password.     *)
TypeOK ==
    /\ account \in [Tenant -> User]
    /\ calls \in [Call -> CallState]
    /\ lastPassword \in Nat \ {0}
    /\ cache \in CachedUser
    /\ session \in AuthState
    /\ view \in {"login", "change_password", "main"}
    /\ attempt \in Attempt
    /\ changing \in Call \cup {NoCall}
    /\ adminOps \in 0 .. MaxAdmin
    /\ userOps \in 0 .. MaxUser
    /\ mailed \subseteq Nat
    /\ was \subseteq Tenant \X Nat
    /\ picked \subseteq Tenant \X Nat
    /\ unread \in BOOLEAN

(* What the client keeps for offline use belongs to the tenant of the      *)
(* session, although the table has one row for the address, an offline     *)
(* login asks for no tenant, and saving the row may fail: the row of       *)
(* another tenant is deleted before a login with this one (LoginForm).     *)
(* Except for a row that a login passed over, when the query for it failed *)
(* (get_saved_tenant), until the row is replaced or deleted.               *)
CacheIsOfSession ==
    session # NoSession /\ cache # NoCache /\ ~unread => cache.tenant = session.tenant

(* Whatever happened to the answers of logins and changes, and however     *)
(* stale the row of the cache is, the password the client accepts offline  *)
(* was once the password of that tenant's row, and nobody entered with one *)
(* the tenant of the session never had (login, try_offline_login,          *)
(* save_user, update_cached_password).  The exception is the same: a row   *)
(* that a login with another tenant passed over is given the password that *)
(* is changed there.                                                       *)
PasswordsWereValid ==
    \/ unread
    \/ /\ cache # NoCache => <<cache.tenant, cache.password>> \in was
       /\ session # NoSession =>
             <<session.tenant, session.currentPassword>> \in was

(* A temporary password sent by mail must be changed as long as it is the  *)
(* password: however calls that save whole rows cross a reset, the flag    *)
(* and the password go together (ResetAndSendPassword, UpdateUser,         *)
(* ChangePassword).  Except when the user chose the mailed password as the *)
(* new one, which nothing refuses.                                         *)
MailedMustChange ==
    \A t \in Tenant :
        Exists(t) /\ account[t].password \in mailed =>
            account[t].force \/ <<t, account[t].password>> \in picked

(* A save that read a row before it was replaced under a new id does not   *)
(* write over the new one: an id changes only to one just created (Save,   *)
(* BatchCreateUsers).                                                      *)
NewRowKept ==
    [][\A t \in Tenant :
        Exists(t) /\ account'[t].id \notin {0, account[t].id}
            => account'[t].id = New]_vars

=============================================================================
