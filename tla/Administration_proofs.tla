------------------------ MODULE Administration_proofs ------------------------
(***************************************************************************)
(* Proofs about Accounts and AdminSite, for any organisations, calls at    *)
(* once, tables and bounds.                                                *)
(***************************************************************************)
EXTENDS Accounts, AdminSite, FiniteSetTheorems, SequenceTheorems, TLAPS


-----------------------------------------------------------------------------
(* The parts of the inductive invariant.  A row has an id, and a password  *)
(* it has had.                                                             *)
Rows ==
    \A t \in Tenant : Exists(t) => /\ account[t].id # 0
                                   /\ <<t, account[t].password>> \in was

(* A call under way is about a row that was there, and nobody waits for    *)
(* but a change of the password; one that is done made the password.       *)
Calls ==
    \A c \in Call :
        /\ calls[c].phase # "idle" => /\ calls[c].tenant \in Tenant
                                      /\ calls[c].row.id # 0
        /\ calls[c].phase \in {"sent", "done", "refused"} => calls[c].kind = "change"
        /\ calls[c].phase = "written" => calls[c].kind \in {"reset", "batch"}
        /\ calls[c].phase = "done" =>
              <<calls[c].tenant, calls[c].row.password>> \in was

(* A login holds the tenant of the cache, or there is no cache any more or *)
(* its row was passed over; what the service answered yes to is a password *)
(* of the row.                                                             *)
LoggingIn ==
    /\ attempt # NoAttempt => view = "login"
    /\ attempt.step = "none" => attempt = NoAttempt
    /\ attempt.step = "cached" => cache # NoCache /\ attempt.tenant = cache.tenant
    /\ attempt.step \in {"lookup", "direct", "select", "chosen"} =>
          cache = NoCache \/ unread
    /\ attempt.step \in {"direct", "chosen"} => attempt.tenant \in Tenant
    /\ attempt.answer # "none" => attempt.step \in {"cached", "direct", "chosen"}
    /\ attempt.answer = "yes" => /\ attempt.user.id # 0
                                 /\ <<attempt.tenant, attempt.password>> \in was

(* A session with a token has a row; a change that is waited for is the    *)
(* session's.                                                              *)
Session ==
    /\ session.online => session # NoSession /\ session.id # 0
    /\ changing # NoCall =>
          /\ view = "change_password"
          /\ session.online
          /\ calls[changing].kind = "change"
          /\ calls[changing].phase \in {"sent", "read", "done", "refused"}
          /\ calls[changing].tenant = session.tenant

(* A cached row and a session are of an organisation; who is asked to log  *)
(* in has no session.                                                      *)
Known ==
    /\ cache # NoCache => cache.tenant \in Tenant
    /\ session # NoSession => session.tenant \in Tenant
    /\ view = "login" => session = NoSession

IInv == TypeOK /\ Rows /\ Calls /\ LoggingIn /\ Session /\ Known /\ CacheIsOfSession
               /\ PasswordsWereValid

(* A temporary password is one that was mailed or that a reset is about to *)
(* write or to mail.  No password is used before it is handed out, and a   *)
(* row or a copy of one that has a temporary password has the flag, or the *)
(* user chose the password for that row.                                   *)
Resetting(c) == /\ calls[c].kind \in {"reset", "batch"}
                /\ calls[c].phase \in {"read", "written"}
Temporary == mailed \cup {calls[c].row.password : c \in {x \in Call : Resetting(x)}}

FlagOK(t, row) ==
    row.password \in Temporary => row.force \/ <<t, row.password>> \in picked
RowOK(t) ==
    /\ Exists(t) => FlagOK(t, account[t])
    /\ account[t].password <= lastPassword
CopyOK(c) ==
    /\ calls[c].kind = "update" => FlagOK(calls[c].tenant, calls[c].row)
    /\ calls[c].row.password <= lastPassword

Flags ==
    /\ \A t \in Tenant : RowOK(t)
    /\ \A c \in Call : CopyOK(c)
HandedOut ==
    /\ \A p \in mailed : p <= lastPassword
    /\ attempt.password <= lastPassword
    /\ session.currentPassword <= lastPassword

Flagged == Flags /\ HandedOut

-----------------------------------------------------------------------------
LEMMA Constants ==
    /\ NoUser \in User /\ Idle \in CallState /\ NoCache \in CachedUser
    /\ NoSession \in AuthState /\ NoAttempt \in Attempt
BY DEF NoUser, User, Role, Password, Idle, CallState, Phase, NoCache, CachedUser, NoSession,
       AuthState, NoAttempt, Attempt

LEMMA OpsType ==
    /\ TypeOK /\ Administer => adminOps' \in 0 .. MaxAdmin
    /\ TypeOK /\ Use => userOps' \in 0 .. MaxUser
BY BoundsAssumption DEF TypeOK, Administer, Use

LEMMA CallType ==
    ASSUME NEW phase \in Phase, NEW kind \in {"reset", "batch", "update", "change"},
           NEW t \in Tenant \cup {NoTenant}, NEW row \in User, NEW current \in Nat
    PROVE  [phase |-> phase, kind |-> kind, tenant |-> t, row |-> row,
            current |-> current] \in CallState
BY DEF CallState, Password

LEMMA NewPassword == TypeOK => New \in Nat \ {0} /\ New > lastPassword
BY DEF TypeOK, New

LEMMA NewUserType ==
    ASSUME TypeOK, NEW role \in Role, NEW force \in BOOLEAN
    PROVE  NewUser(role, force) \in User
BY NewPassword DEF NewUser, User, Password

LEMMA InitTypes == Init => TypeOK
<1> SUFFICES ASSUME Init PROVE TypeOK
  OBVIOUS
<1>1. \A r \in Role : [id |-> 1, password |-> 1, force |-> TRUE, role |-> r] \in User
  BY DEF User, Password
<1>2. account \in [Tenant -> User]
  BY <1>1, Constants DEF Init
<1>3. was \subseteq Tenant \X Nat
  BY DEF Init
<1>4. picked \subseteq Tenant \X Nat /\ unread \in BOOLEAN
  BY DEF Init
<1> QED BY <1>2, <1>3, <1>4, Constants, BoundsAssumption DEF Init, TypeOK

(* A row is inserted or saved with the shape of a row.                     *)
LEMMA InsertType ==
    ASSUME TypeOK, NEW t \in Tenant, NEW role \in Role, Insert(t, role)
    PROVE  /\ account' \in [Tenant -> User] /\ lastPassword' \in Nat \ {0}
           /\ was' \subseteq Tenant \X Nat
<1>1. PICK force \in BOOLEAN : account' = [account EXCEPT ![t] = NewUser(role, force)]
  BY DEF Insert
<1> QED BY <1>1, NewUserType, NewPassword DEF Insert, TypeOK

LEMMA SaveType ==
    ASSUME TypeOK, NEW t \in Tenant, NEW row \in User, Save(t, row)
    PROVE  account' \in [Tenant -> User] /\ was' \subseteq Tenant \X Nat
BY DEF Save, TypeOK, User, Password

LEMMA AdministratorType == ASSUME TypeOK, Administrator PROVE TypeOK'
<1> USE DEF server, client, history
<1>1. ASSUME NEW t \in Tenant, NEW r \in Role, CreateUser(t, r) PROVE TypeOK'
  BY <1>1, InsertType, OpsType DEF CreateUser, TypeOK
<1>2. ASSUME NEW t \in Tenant, NEW r \in Role, NEW mode \in {"upsert", "replace"},
             BatchCreateUsers(t, mode, r)
      PROVE  TypeOK'
  <2>1. CASE Insert(t, r)
    BY <1>2, <2>1, InsertType, OpsType DEF BatchCreateUsers, TypeOK
  <2>2. CASE account' = [account EXCEPT ![t].role = r] /\ UNCHANGED <<lastPassword, was>>
    <3>1. [account[t] EXCEPT !.role = r] \in User
      BY DEF TypeOK, User
    <3>2. account' \in [Tenant -> User]
      BY <2>2, <3>1 DEF TypeOK
    <3> QED BY <1>2, <2>2, <3>2, OpsType DEF BatchCreateUsers, TypeOK
  <2> QED BY <1>2, <2>1, <2>2 DEF BatchCreateUsers
<1>3. ASSUME NEW t \in Tenant, NEW r \in Role, NEW c \in Call, UpdateUser(c, t, r)
      PROVE  TypeOK'
  <2>1. [account[t] EXCEPT !.role = r] \in User
    BY DEF TypeOK, User
  <2>2. calls' \in [Call -> CallState]
    <3>1. calls' = [calls EXCEPT ![c] =
              [phase |-> "read", kind |-> "update", tenant |-> t,
               row |-> [account[t] EXCEPT !.role = r], current |-> 0]]
      BY <1>3 DEF UpdateUser, Begin
    <3>2. [phase |-> "read", kind |-> "update", tenant |-> t,
           row |-> [account[t] EXCEPT !.role = r], current |-> 0] \in CallState
      BY <2>1, CallType DEF Phase
    <3> QED BY <3>1, <3>2 DEF TypeOK
  <2> QED BY <1>3, <2>2, OpsType DEF UpdateUser, TypeOK
<1>4. ASSUME NEW t \in Tenant, DeleteUser(t) PROVE TypeOK'
  BY <1>4, Constants, OpsType DEF DeleteUser, TypeOK
<1>5. ASSUME NEW t \in Tenant, NEW c \in Call, NEW kind \in {"reset", "batch"},
             ResetPassword(c, t, kind)
      PROVE  TypeOK'
  <2>1. [account[t] EXCEPT !.password = New] \in User
    BY NewPassword DEF TypeOK, User, Password
  <2>2. calls' \in [Call -> CallState]
    <3>1. calls' = [calls EXCEPT ![c] =
              [phase |-> "read", kind |-> kind, tenant |-> t,
               row |-> [account[t] EXCEPT !.password = New], current |-> 0]]
      BY <1>5 DEF ResetPassword, Begin
    <3>2. [phase |-> "read", kind |-> kind, tenant |-> t,
           row |-> [account[t] EXCEPT !.password = New], current |-> 0] \in CallState
      BY <2>1, CallType DEF Phase
    <3> QED BY <3>1, <3>2 DEF TypeOK
  <2> QED BY <1>5, <2>2, NewPassword, OpsType DEF ResetPassword, TypeOK
<1> QED BY <1>1, <1>2, <1>3, <1>4, <1>5 DEF Administrator

(* The tenant of a call that is under way.                                 *)
LEMMA CallTenant ==
    ASSUME TypeOK, Calls, NEW c \in Call, calls[c].phase # "idle"
    PROVE  calls[c].tenant \in Tenant /\ calls[c].row \in User
BY DEF TypeOK, Calls, CallState

LEMMA EndedType ==
    ASSUME TypeOK, NEW c \in Call, NEW answer \in {"done", "refused"}
    PROVE  Ended(c, answer) \in CallState
BY Constants DEF Ended, TypeOK, CallState, Phase

(* The tenant of a login that the service answers.                         *)
LEMMA AttemptTenant ==
    ASSUME IInv, attempt.step \in {"cached", "direct", "chosen"}
    PROVE  attempt.tenant \in Tenant
<1>1. CASE attempt.step = "cached"
  BY <1>1 DEF IInv, LoggingIn, Known
<1>2. CASE attempt.step # "cached"
  BY <1>2 DEF IInv, LoggingIn
<1> QED BY <1>1, <1>2

LEMMA ServiceType == ASSUME IInv, Service PROVE TypeOK'
<1>0. TypeOK /\ Calls
  BY DEF IInv
<1> USE <1>0 DEF server, client, history
<1>1. ASSUME NEW c \in Call, WriteReset(c) PROVE TypeOK'
  <2> DEFINE t == calls[c].tenant
             p == calls[c].row.password
  <2>1. t \in Tenant /\ p \in Nat
    BY <1>1, CallTenant DEF WriteReset, User, Password
  <2>2. Reset(account[t], p) \in User
    BY <2>1 DEF Reset, User, Password, TypeOK
  <2>3. account' \in [Tenant -> User]
    BY <1>1, <2>1, <2>2 DEF WriteReset, TypeOK
  <2>4. was' \subseteq Tenant \X Nat
    BY <1>1, <2>1 DEF WriteReset, TypeOK
  <2>5. calls' \in [Call -> CallState]
    BY <1>1 DEF WriteReset, TypeOK, CallState, Phase
  <2> QED BY <1>1, <2>3, <2>4, <2>5 DEF WriteReset, TypeOK
<1>2. ASSUME NEW c \in Call, MailReset(c) PROVE TypeOK'
  <2>1. calls[c].row.password \in Nat
    BY DEF TypeOK, CallState, User, Password
  <2>2. mailed' \subseteq Nat /\ calls' \in [Call -> CallState]
    BY <1>2, <2>1, Constants DEF MailReset, TypeOK
  <2> QED BY <1>2, <2>2 DEF MailReset, TypeOK
<1>3. ASSUME NEW c \in Call, WriteUpdate(c) PROVE TypeOK'
  <2>1. calls' \in [Call -> CallState]
    BY <1>3, Constants DEF WriteUpdate, TypeOK
  <2>2. account' \in [Tenant -> User] /\ was' \subseteq Tenant \X Nat
    BY <1>3, CallTenant, SaveType DEF WriteUpdate
  <2> QED BY <1>3, <2>1, <2>2 DEF WriteUpdate, TypeOK
<1>4. ASSUME NEW c \in Call, ReadChange(c) PROVE TypeOK'
  <2> DEFINE row == [account[calls[c].tenant] EXCEPT !.password = calls[c].row.password,
                                                     !.force = FALSE]
  <2>1. calls[c].tenant \in Tenant /\ calls[c].row \in User
    BY <1>4, CallTenant DEF ReadChange
  <2>2. row \in User
    BY <2>1 DEF TypeOK, User
  <2>3. \/ calls' = [calls EXCEPT ![c].phase = "read", ![c].row = row]
        \/ calls' = [calls EXCEPT ![c] = Ended(c, "refused")]
    BY <1>4 DEF ReadChange
  <2> HIDE DEF row
  <2>4. calls' \in [Call -> CallState]
    <3>1. [calls[c] EXCEPT !.phase = "read", !.row = row] \in CallState
      BY <2>2 DEF TypeOK, CallState, Phase
    <3>2. Ended(c, "refused") \in CallState
      BY EndedType
    <3> QED BY <2>3, <3>1, <3>2 DEF TypeOK
  <2> QED BY <1>4, <2>4 DEF ReadChange, TypeOK
<1>5. ASSUME NEW c \in Call, WriteChange(c) PROVE TypeOK'
  <2>1. calls' \in [Call -> CallState]
    BY <1>5, EndedType DEF WriteChange, TypeOK
  <2>2. account' \in [Tenant -> User] /\ was' \subseteq Tenant \X Nat
    BY <1>5, CallTenant, SaveType DEF WriteChange
  <2>3. calls[c].tenant \in Tenant /\ calls[c].row.password \in Nat
    BY <1>5, CallTenant DEF WriteChange, User, Password
  <2>4. picked' \subseteq Tenant \X Nat
    BY <1>5, <2>3 DEF WriteChange, TypeOK
  <2> QED BY <1>5, <2>1, <2>2, <2>4 DEF WriteChange, TypeOK
<1>6. CASE Login
  <2> DEFINE row == account[attempt.tenant]
             user == [row EXCEPT !.force = @ /\ row.role = "user"]
  <2>1. row \in User
    BY <1>6, AttemptTenant DEF Login, TypeOK
  <2>2. user \in User
    BY <2>1 DEF User
  <2>3. \/ attempt' = [attempt EXCEPT !.answer = "lost"]
        \/ attempt' = [attempt EXCEPT !.answer = "no"]
        \/ attempt' = [attempt EXCEPT !.answer = "yes", !.user = user]
    BY <1>6 DEF Login
  <2> HIDE DEF user
  <2>4. attempt' \in Attempt
    BY <2>2, <2>3 DEF TypeOK, Attempt
  <2> QED BY <1>6, <2>4 DEF Login, TypeOK
<1>7. CASE RestartService
  <2>1. calls' \in [Call -> CallState]
    <3>1. \A c \in Call : Ended(c, "refused") \in CallState
      BY EndedType
    <3> QED BY <1>7, <3>1 DEF RestartService, TypeOK
  <2> QED BY <1>7, <2>1, OpsType DEF RestartService, TypeOK
<1> QED BY <1>1, <1>2, <1>3, <1>4, <1>5, <1>6, <1>7 DEF Service

LEMMA LoginType ==
    ASSUME IInv,
           \/ \E p \in 0 .. lastPassword : Submit(p) \/ SubmitUnread(p)
           \/ LookupTenants \/ SelectTenant \/ LoggedIn \/ OfflineLogin \/ LoginFails
    PROVE  TypeOK'
<1>0. TypeOK
  BY DEF IInv
<1> USE <1>0, Constants DEF server, client, history
<1>1. ASSUME NEW p \in 0 .. lastPassword, Submit(p) \/ SubmitUnread(p) PROVE TypeOK'
  <2>1. p \in Nat /\ cache.tenant \in Tenant \cup {NoTenant}
    BY DEF TypeOK, CachedUser
  <2>2. \/ attempt' = [NoAttempt EXCEPT !.step = "lookup", !.password = p]
        \/ attempt' = [NoAttempt EXCEPT !.step = "cached", !.password = p,
                                        !.tenant = cache.tenant]
    BY <1>1 DEF Submit, SubmitUnread
  <2>3. attempt' \in Attempt
    BY <2>1, <2>2 DEF Attempt, Password
  <2> QED BY <1>1, <2>3, OpsType DEF Submit, SubmitUnread, TypeOK
<1>2. CASE LookupTenants
  <2> DEFINE found == {t \in Tenant : Exists(t)}
  <2>1. \/ attempt' = NoAttempt
        \/ \E t \in found : attempt' = [attempt EXCEPT !.step = "direct", !.tenant = t]
        \/ attempt' = [attempt EXCEPT !.step = "select", !.offers = found]
    BY <1>2 DEF LookupTenants
  <2>2. found \in SUBSET Tenant
    OBVIOUS
  <2> HIDE DEF found
  <2>3. attempt' \in Attempt
    BY ZenonT(60), <2>1, <2>2 DEF TypeOK, Attempt
  <2> QED BY <1>2, <2>3 DEF LookupTenants, TypeOK
<1>3. CASE SelectTenant
  <2>1. attempt' \in Attempt
    BY <1>3 DEF SelectTenant, TypeOK, Attempt
  <2> QED BY <1>3, <2>1 DEF SelectTenant, TypeOK
<1>4. ASSUME NEW t \in Tenant \cup {NoTenant}, NEW online \in BOOLEAN, NEW user \in User,
             Enter(t, online, user)
      PROVE  /\ session' \in AuthState /\ attempt' \in Attempt
             /\ view' \in {"login", "change_password", "main"}
  BY <1>4 DEF Enter, TypeOK, AuthState, Attempt, User
<1>5. CASE LoggedIn
  <2>1. attempt.tenant \in Tenant \cup {NoTenant} /\ attempt.user \in User
        /\ attempt.password \in Nat
    BY DEF TypeOK, Attempt, Password
  <2>2. attempt.user.force \in BOOLEAN
    BY <2>1 DEF User
  <2>3. cache' \in CachedUser
    BY <1>5, <2>1, <2>2 DEF LoggedIn, TypeOK, CachedUser, Password
  <2> QED BY <1>4, <1>5, <2>1, <2>3 DEF LoggedIn, Enter, TypeOK
<1>6. CASE OfflineLogin
  <2>1. cache.tenant \in Tenant \cup {NoTenant} /\ [NoUser EXCEPT !.force = cache.force] \in User
    BY DEF TypeOK, CachedUser, User
  <2> QED BY <1>4, <1>6, <2>1 DEF OfflineLogin, Enter, TypeOK
<1>7. CASE LoginFails
  <2>1. attempt' \in Attempt /\ cache' \in CachedUser
    BY <1>7 DEF LoginFails, ClearSavedTenant, TypeOK, Attempt
  <2> QED BY <1>7, <2>1 DEF LoginFails, ClearSavedTenant, TypeOK
<1> QED BY <1>1, <1>2, <1>3, <1>5, <1>6, <1>7

(* What the user may choose is a password.                                 *)
LEMMA ChoiceType ==
    ASSUME TypeOK, NEW p \in Choices
    PROVE  p \in Nat
BY NewPassword DEF Choices, TypeOK, AuthState, Password

LEMMA ChangeType ==
    ASSUME IInv,
           \/ \E c \in Call : \/ \E p \in Choices : ChangePassword(c, p)
                              \/ PasswordChanged(c)
           \/ ChangeFails \/ Skip \/ Restart
    PROVE  TypeOK'
<1>0. TypeOK
  BY DEF IInv
<1> USE <1>0, Constants DEF server, client, history
<1>1. ASSUME NEW c \in Call, NEW p \in Choices, ChangePassword(c, p) PROVE TypeOK'
  <2> DEFINE row == [NoUser EXCEPT !.id = session.id, !.password = p]
  <2>1. /\ session.id \in Nat /\ session.tenant \in Tenant \cup {NoTenant}
        /\ session.currentPassword \in Nat
    BY DEF TypeOK, AuthState, Password
  <2>2. row \in User
    BY <2>1, ChoiceType DEF User, Password
  <2>3. calls' = [calls EXCEPT ![c] =
            [phase |-> "sent", kind |-> "change", tenant |-> session.tenant,
             row |-> row, current |-> session.currentPassword]]
    BY <1>1 DEF ChangePassword, Begin
  <2> HIDE DEF row
  <2>4. [phase |-> "sent", kind |-> "change", tenant |-> session.tenant,
         row |-> row, current |-> session.currentPassword] \in CallState
    BY <2>1, <2>2, CallType DEF Phase
  <2>5. calls' \in [Call -> CallState]
    BY <2>3, <2>4 DEF TypeOK
  <2> QED BY <1>1, <2>5, NewPassword, OpsType DEF ChangePassword, TypeOK
<1>2. ASSUME NEW c \in Call, PasswordChanged(c) PROVE TypeOK'
  <2>1. calls[c].row.password \in Nat
    BY DEF TypeOK, CallState, User, Password
  <2>2. cache' \in {cache, NoCache,
                    [cache EXCEPT !.password = calls[c].row.password, !.force = FALSE]}
    BY <1>2 DEF PasswordChanged
  <2>3. cache' \in CachedUser
    BY <2>1, <2>2 DEF TypeOK, CachedUser, Password
  <2> QED BY <1>2, <2>3 DEF PasswordChanged, TypeOK
<1>3. CASE ChangeFails
  BY <1>3 DEF ChangeFails, Forget, TypeOK
<1>4. CASE Skip
  BY <1>4 DEF Skip, TypeOK
<1>5. CASE Restart
  BY <1>5, OpsType DEF Restart, Forget, TypeOK
<1> QED BY <1>1, <1>2, <1>3, <1>4, <1>5

LEMMA NextTypes == ASSUME IInv, [Next]_vars PROVE TypeOK'
<1>0. TypeOK
  BY DEF IInv
<1>1. CASE UNCHANGED vars
  BY <1>0, <1>1 DEF vars, server, client, history, TypeOK
<1>2. CASE Next
  BY <1>0, <1>2, AdministratorType, ServiceType, LoginType, ChangeType DEF Next, Client
<1> QED BY <1>1, <1>2

-----------------------------------------------------------------------------
LEMMA InitSafe ==
    Init => Rows /\ Calls /\ LoggingIn /\ Session /\ Known /\ CacheIsOfSession
            /\ PasswordsWereValid
<1> SUFFICES ASSUME Init
             PROVE  Rows /\ Calls /\ LoggingIn /\ Session /\ Known /\ CacheIsOfSession
                    /\ PasswordsWereValid
  OBVIOUS
<1>1. Rows
  BY DEF Init, Rows, Exists
<1>2. Calls
  BY DEF Init, Calls, Idle
<1>3. LoggingIn /\ Session /\ Known /\ CacheIsOfSession /\ PasswordsWereValid
  BY DEF Init, LoggingIn, Session, Known, CacheIsOfSession, PasswordsWereValid, NoAttempt,
         NoSession
<1> QED BY <1>1, <1>2, <1>3

(* What the service and the administrators do reaches the client only by   *)
(* answers.                                                                *)
LEMMA ServerKeeps ==
    ASSUME IInv, UNCHANGED <<cache, session, view, attempt, unread>>, was \subseteq was'
    PROVE  LoggingIn' /\ Known' /\ CacheIsOfSession' /\ PasswordsWereValid'
BY DEF IInv, LoggingIn, Known, CacheIsOfSession, PasswordsWereValid

LEMMA ClientKeeps ==
    ASSUME IInv, UNCHANGED <<account, was>>
    PROVE  Rows'
BY DEF IInv, Rows, Exists

(* What is known of the calls and of the one that is waited for, for one   *)
(* call that changes.                                                      *)
CallOK(c) ==
    /\ calls[c].phase # "idle" => /\ calls[c].tenant \in Tenant
                                  /\ calls[c].row.id # 0
    /\ calls[c].phase \in {"sent", "done", "refused"} => calls[c].kind = "change"
    /\ calls[c].phase = "written" => calls[c].kind \in {"reset", "batch"}
    /\ calls[c].phase = "done" =>
          <<calls[c].tenant, calls[c].row.password>> \in was
WaitedFor(c) ==
    /\ calls[c].kind = "change"
    /\ calls[c].phase \in {"sent", "read", "done", "refused"}
    /\ calls[c].tenant = session.tenant

LEMMA OneCall ==
    ASSUME IInv, NEW c \in Call, NEW call, was \subseteq was',
           calls' = [calls EXCEPT ![c] = call], CallOK(c)',
           UNCHANGED <<session, view, changing>>,
           changing = c => WaitedFor(c)'
    PROVE  Calls' /\ Session'
<1>1. \A x \in Call \ {c} : calls'[x] = calls[x]
  OBVIOUS
<1>2. Calls'
  BY <1>1 DEF IInv, Calls, CallOK
<1>3. Session'
  BY <1>1 DEF IInv, TypeOK, Session, WaitedFor
<1> QED BY <1>2, <1>3

LEMMA IdleCall ==
    /\ Idle.phase = "idle" /\ Idle.kind = "reset"
    /\ NoUser.id = 0 /\ NoSession.online = FALSE
    /\ NoAttempt.step = "none" /\ NoAttempt.answer = "none" /\ NoAttempt.tenant = NoTenant
BY DEF Idle, NoUser, NoSession, NoAttempt

(* A row is inserted with an id and a password it has from then on.        *)
LEMMA InsertSafe ==
    ASSUME IInv, NEW t \in Tenant, NEW r \in Role, Insert(t, r)
    PROVE  Rows' /\ was \subseteq was'
<1>1. PICK force \in BOOLEAN : account' = [account EXCEPT ![t] = NewUser(r, force)]
  BY DEF Insert
<1>2. account'[t].id = New /\ account'[t].password = New /\ New # 0
  BY <1>1, NewPassword DEF NewUser, IInv, TypeOK
<1>3. \A u \in Tenant \ {t} : account'[u] = account[u]
  BY <1>1
<1>4. was' = was \cup {<<t, New>>}
  BY DEF Insert
<1> QED BY <1>2, <1>3, <1>4 DEF IInv, Rows, Exists

(* A save writes only over the row it read, and never a row without an id. *)
LEMMA SaveSafe ==
    ASSUME IInv, NEW t \in Tenant, NEW row, row.id # 0, Save(t, row)
    PROVE  Rows' /\ was \subseteq was'
<1>1. CASE Saved(t, row)
  <2>1. /\ account'[t] = row /\ \A u \in Tenant \ {t} : account'[u] = account[u]
        /\ was' = was \cup {<<t, row.password>>}
    BY <1>1 DEF Save, IInv, TypeOK
  <2> QED BY <2>1 DEF IInv, Rows, Exists
<1>2. CASE ~Saved(t, row)
  BY <1>2 DEF Save, IInv, Rows, Exists
<1> QED BY <1>1, <1>2

(* The calls, and the one waited for, when no call changes.                *)
LEMMA NoCallChanges ==
    ASSUME IInv, was \subseteq was', UNCHANGED <<calls, session, view, changing>>
    PROVE  Calls' /\ Session'
BY DEF IInv, Calls, Session

LEMMA AdministratorSafe ==
    ASSUME IInv, Administrator
    PROVE  Rows' /\ Calls' /\ Session' /\ was \subseteq was'
<1> USE DEF server, client, history
<1> DEFINE Goal == Rows' /\ Calls' /\ Session' /\ was \subseteq was'
<1>0. TypeOK /\ Rows /\ Calls /\ Session
  BY DEF IInv
<1>1. ASSUME NEW t \in Tenant, NEW r \in Role, CreateUser(t, r) PROVE Goal
  BY <1>1, InsertSafe, NoCallChanges DEF CreateUser
<1>2. ASSUME NEW t \in Tenant, NEW r \in Role, NEW mode \in {"upsert", "replace"},
             BatchCreateUsers(t, mode, r)
      PROVE  Goal
  <2>1. CASE Insert(t, r)
    BY <1>2, <2>1, InsertSafe, NoCallChanges DEF BatchCreateUsers
  <2>2. CASE Exists(t) /\ account' = [account EXCEPT ![t].role = r] /\ UNCHANGED was
    <3>1. \A u \in Tenant : /\ account'[u].id = account[u].id
                            /\ account'[u].password = account[u].password
                            /\ u # t => account'[u] = account[u]
      BY <1>0, <2>2 DEF TypeOK, User
    <3>2. Rows'
      BY <1>0, <2>2, <3>1 DEF Rows, Exists
    <3> QED BY <1>2, <2>2, <3>2, NoCallChanges DEF BatchCreateUsers
  <2> QED BY <1>2, <2>1, <2>2 DEF BatchCreateUsers
<1>3. ASSUME NEW t \in Tenant, DeleteUser(t) PROVE Goal
  <2>1. \A u \in Tenant : account'[u] = account[u] \/ account'[u] = NoUser
    BY <1>0, <1>3 DEF DeleteUser, TypeOK
  <2>2. Rows'
    BY <1>0, <1>3, <2>1 DEF DeleteUser, Rows, Exists
  <2> QED BY <1>3, <2>2, NoCallChanges DEF DeleteUser
<1>4. ASSUME NEW t \in Tenant, NEW c \in Call, NEW kind \in {"reset", "batch", "update"},
             NEW row \in User, Exists(t), row.id = account[t].id,
             Begin(c, [phase |-> "read", kind |-> kind, tenant |-> t, row |-> row,
                       current |-> 0]),
             UNCHANGED <<account, client, history>>
      PROVE  Goal
  <2> DEFINE call == [phase |-> "read", kind |-> kind, tenant |-> t, row |-> row,
                      current |-> 0]
  <2>1. calls[c] = Idle /\ calls' = [calls EXCEPT ![c] = call]
    BY <1>4 DEF Begin
  <2>2. calls'[c] = call
    BY <1>0, <2>1 DEF TypeOK
  <2>3. CallOK(c)'
    <3>1. /\ calls'[c].phase = "read" /\ calls'[c].tenant = t /\ calls'[c].row = row
      BY <2>2
    <3>2. row.id # 0
      BY <1>0, <1>4 DEF Rows
    <3> QED BY <3>1, <3>2 DEF CallOK
  <2>4. changing # c
    BY <1>0, <2>1, IdleCall, NoCallAssumption DEF Session
  <2> HIDE DEF call
  <2>5. Calls' /\ Session'
    BY <1>4, <2>1, <2>3, <2>4, OneCall
  <2> QED BY <1>4, <2>5, ClientKeeps
<1>5. ASSUME NEW t \in Tenant, NEW r \in Role, NEW c \in Call, UpdateUser(c, t, r)
      PROVE  Goal
  <2>1. /\ [account[t] EXCEPT !.role = r] \in User
        /\ [account[t] EXCEPT !.role = r].id = account[t].id
    BY <1>0 DEF TypeOK, User
  <2> QED BY <1>4, <1>5, <2>1 DEF UpdateUser
<1>6. ASSUME NEW t \in Tenant, NEW c \in Call, NEW kind \in {"reset", "batch"},
             ResetPassword(c, t, kind)
      PROVE  Goal
  <2>1. /\ [account[t] EXCEPT !.password = New] \in User
        /\ [account[t] EXCEPT !.password = New].id = account[t].id
    BY <1>0, NewPassword DEF TypeOK, User, Password
  <2> QED BY <1>4, <1>6, <2>1 DEF ResetPassword
<1> QED BY <1>1, <1>2, <1>3, <1>5, <1>6 DEF Administrator

LEMMA ServiceSafe ==
    ASSUME IInv, NEW c \in Call,
           WriteReset(c) \/ MailReset(c) \/ WriteUpdate(c) \/ ReadChange(c) \/ WriteChange(c)
    PROVE  Rows' /\ Calls' /\ Session' /\ was \subseteq was'
<1> USE DEF server, client, history
<1> DEFINE Goal == Rows' /\ Calls' /\ Session' /\ was \subseteq was'
<1>0. TypeOK /\ Rows /\ Calls /\ Session /\ CallOK(c)
  BY DEF IInv, Calls, CallOK
<1>1. changing = c => WaitedFor(c)
  BY <1>0, NoCallAssumption DEF Session, WaitedFor
<1>2. calls[c] \in CallState /\ calls' \in [Call -> CallState]
  BY <1>0, ServiceType DEF TypeOK, Service
<1>3. CASE WriteReset(c)
  <2> DEFINE t == calls[c].tenant
  <2>1. /\ t \in Tenant /\ calls[c].row.id # 0
        /\ calls[c].phase = "read" /\ calls[c].kind \in {"reset", "batch"}
    BY <1>0, <1>3 DEF WriteReset, CallOK
  <2>2. calls' = [calls EXCEPT ![c] = [calls[c] EXCEPT !.phase = "written"]]
    BY <1>3 DEF WriteReset
  <2>3. CallOK(c)'
    BY <1>0, <1>2, <2>1, <2>2 DEF CallOK, CallState, TypeOK
  <2>4. changing # c
    BY <1>1, <2>1 DEF WaitedFor
  <2>5. was \subseteq was'
    BY <1>3 DEF WriteReset
  <2>6. Calls' /\ Session'
    BY <1>3, <2>2, <2>3, <2>4, <2>5, OneCall DEF WriteReset
  <2>7. Rows'
    <3>1. CASE account[t].id = calls[c].row.id
      <4> DEFINE row == Reset(account[t], calls[c].row.password)
      <4>1. /\ account' = [account EXCEPT ![t] = row]
            /\ was' = was \cup {<<t, calls[c].row.password>>}
        BY <1>3, <3>1 DEF WriteReset
      <4>2. row.id = account[t].id /\ row.password = calls[c].row.password
        BY <1>0, <2>1 DEF Reset, TypeOK, User
      <4> HIDE DEF row
      <4>3. /\ account'[t] = row
            /\ \A u \in Tenant \ {t} : account'[u] = account[u]
        BY <1>0, <2>1, <4>1 DEF TypeOK
      <4> QED BY <1>0, <2>1, <3>1, <4>1, <4>2, <4>3 DEF Rows, Exists
    <3>2. CASE account[t].id # calls[c].row.id
      BY <1>0, <1>3, <3>2 DEF WriteReset, Rows, Exists
    <3> QED BY <3>1, <3>2
  <2> QED BY <2>5, <2>6, <2>7
<1>4. CASE MailReset(c)
  <2>1. calls' = [calls EXCEPT ![c] = Idle] /\ CallOK(c)' /\ changing # c
    BY <1>0, <1>1, <1>4, IdleCall DEF MailReset, CallOK, WaitedFor, TypeOK
  <2> QED BY <1>4, <2>1, OneCall, ClientKeeps DEF MailReset
<1>5. CASE WriteUpdate(c)
  <2>1. calls' = [calls EXCEPT ![c] = Idle] /\ CallOK(c)' /\ changing # c
    BY <1>0, <1>1, <1>5, IdleCall DEF WriteUpdate, CallOK, WaitedFor, TypeOK
  <2>2. Rows' /\ was \subseteq was'
    BY <1>0, <1>5, SaveSafe DEF WriteUpdate, CallOK
  <2> QED BY <1>5, <2>1, <2>2, OneCall DEF WriteUpdate
<1>6. ASSUME NEW answer \in {"done", "refused"}, calls[c].kind = "change",
             calls[c].phase # "idle",
             answer = "done" => <<calls[c].tenant, calls[c].row.password>> \in was',
             calls' = [calls EXCEPT ![c] = Ended(c, answer)],
             was \subseteq was', UNCHANGED client
      PROVE  Calls' /\ Session'
  <2>1. calls'[c] = Ended(c, answer)
    BY <1>0, <1>6 DEF TypeOK
  <2>2. CASE changing = c
    <3>1. /\ calls'[c].phase = answer /\ calls'[c].kind = calls[c].kind
          /\ calls'[c].tenant = calls[c].tenant /\ calls'[c].row = calls[c].row
      BY <1>2, <2>1, <2>2 DEF Ended, CallState
    <3>2. CallOK(c)' /\ WaitedFor(c)'
      BY <1>0, <1>1, <1>6, <2>2, <3>1 DEF CallOK, WaitedFor
    <3> QED BY <1>6, <3>2, OneCall
  <2>3. CASE changing # c
    <3>1. CallOK(c)'
      BY <2>1, <2>3, IdleCall DEF Ended, CallOK
    <3> QED BY <1>6, <2>3, <3>1, OneCall
  <2> QED BY <2>2, <2>3
<1>7. CASE ReadChange(c)
  <2> DEFINE row == [account[calls[c].tenant] EXCEPT !.password = calls[c].row.password,
                                                     !.force = FALSE]
  <2>1. calls[c].phase = "sent" /\ calls[c].kind = "change"
    BY <1>0, <1>7 DEF ReadChange, CallOK
  <2>2. CASE calls' = [calls EXCEPT ![c] = Ended(c, "refused")]
    BY <1>6, <1>7, <2>1, <2>2, ClientKeeps DEF ReadChange
  <2>3. CASE /\ account[calls[c].tenant].id = calls[c].row.id
             /\ calls' = [calls EXCEPT ![c] = [calls[c] EXCEPT !.phase = "read", !.row = row]]
    <3>1. row.id = calls[c].row.id
      BY <1>0, <2>1, <2>3 DEF CallOK, TypeOK, User
    <3> HIDE DEF row
    <3>2. /\ calls'[c].phase = "read" /\ calls'[c].kind = calls[c].kind
          /\ calls'[c].tenant = calls[c].tenant /\ calls'[c].row = row
      BY <1>0, <2>3 DEF TypeOK, CallState
    <3>3. CallOK(c)' /\ (changing = c => WaitedFor(c)')
      BY <1>0, <1>1, <1>7, <2>1, <3>1, <3>2 DEF ReadChange, CallOK, WaitedFor
    <3> QED BY <1>7, <2>3, <3>3, OneCall, ClientKeeps DEF ReadChange
  <2> QED BY <1>7, <2>2, <2>3 DEF ReadChange
<1>8. CASE WriteChange(c)
  <2> DEFINE t == calls[c].tenant
  <2>1. /\ calls[c].phase = "read" /\ calls[c].kind = "change" /\ t \in Tenant
        /\ calls[c].row.id # 0 /\ Save(t, calls[c].row)
    BY <1>0, <1>8 DEF WriteChange, CallOK
  <2>2. Rows' /\ was \subseteq was'
    BY <2>1, SaveSafe
  <2>3. Saved(t, calls[c].row) => <<t, calls[c].row.password>> \in was'
    BY <2>1 DEF Save
  <2>4. PICK answer \in {"done", "refused"} :
            /\ answer = "done" => Saved(t, calls[c].row)
            /\ calls' = [calls EXCEPT ![c] = Ended(c, answer)]
    BY <1>8 DEF WriteChange
  <2> QED BY <1>6, <1>8, <2>1, <2>2, <2>3, <2>4 DEF WriteChange
<1> QED BY <1>3, <1>4, <1>5, <1>7, <1>8

LEMMA RestartServiceSafe ==
    ASSUME IInv, RestartService
    PROVE  Rows' /\ Calls' /\ Session'
<1> USE DEF server, client, history
<1>0. TypeOK /\ Calls /\ Session
  BY DEF IInv
<1>1. UNCHANGED <<account, was, session, view, changing>>
  BY DEF RestartService
<1>2. ASSUME NEW c \in Call
      PROVE  /\ CallOK(c)'
             /\ changing = c => WaitedFor(c)'
  <2>1. CallOK(c) /\ calls[c] \in CallState
    BY <1>0 DEF Calls, CallOK, TypeOK
  <2>2. changing = c => WaitedFor(c)
    BY <1>0, NoCallAssumption DEF Session, WaitedFor
  <2>3. \/ calls'[c] = calls[c]
        \/ calls[c].phase # "idle" /\ calls'[c] = Ended(c, "refused")
    BY DEF RestartService
  <2>4. CASE calls'[c] = calls[c]
    BY <1>1, <2>1, <2>2, <2>4 DEF CallOK, WaitedFor
  <2>5. CASE calls[c].phase # "idle" /\ calls'[c] = Ended(c, "refused") /\ changing = c
    <3>1. /\ calls'[c].phase = "refused" /\ calls'[c].kind = calls[c].kind
          /\ calls'[c].tenant = calls[c].tenant /\ calls'[c].row = calls[c].row
      BY <2>1, <2>5 DEF Ended, CallState
    <3> QED BY <1>1, <2>1, <2>2, <2>5, <3>1 DEF CallOK, WaitedFor
  <2>6. CASE calls'[c] = Ended(c, "refused") /\ changing # c
    BY <1>1, <2>6, IdleCall DEF Ended, CallOK
  <2> QED BY <2>3, <2>4, <2>5, <2>6
<1>3. Rows'
  BY <1>1, ClientKeeps
<1>4. Calls'
  BY <1>2 DEF Calls, CallOK
<1>5. Session'
  BY <1>0, <1>1, <1>2 DEF TypeOK, Session, WaitedFor
<1> QED BY <1>3, <1>4, <1>5

(* The answer to a login is about the row as it is then.                   *)
LEMMA LoginSafe == ASSUME IInv, Login PROVE LoggingIn'
<1>1. /\ attempt.step \in {"cached", "direct", "chosen"} /\ attempt \in Attempt
      /\ UNCHANGED <<account, cache, view, was, unread>>
  BY DEF Login, server, history, IInv, TypeOK
<1>2. attempt.tenant \in Tenant
  BY <1>1, AttemptTenant
<1> DEFINE row == account[attempt.tenant]
           user == [row EXCEPT !.force = @ /\ row.role = "user"]
<1>3. \/ attempt' = [attempt EXCEPT !.answer = "lost"]
      \/ attempt' = [attempt EXCEPT !.answer = "no"]
      \/ /\ Exists(attempt.tenant) /\ row.password = attempt.password
         /\ attempt' = [attempt EXCEPT !.answer = "yes", !.user = user]
  BY DEF Login, Exists
<1>4. user.id = row.id
  BY <1>2 DEF IInv, TypeOK, User
<1>5. Exists(attempt.tenant) => row.id # 0 /\ <<attempt.tenant, row.password>> \in was
  BY <1>2 DEF IInv, Rows
<1> HIDE DEF row, user
<1>6. /\ attempt'.step = attempt.step /\ attempt'.tenant = attempt.tenant
      /\ attempt'.password = attempt.password
      /\ attempt'.answer = "yes" => /\ attempt'.user = user /\ Exists(attempt.tenant)
                                    /\ row.password = attempt.password
  BY <1>1, <1>3 DEF Attempt
<1>7. attempt # NoAttempt
  BY <1>1, IdleCall
<1> QED BY <1>1, <1>4, <1>5, <1>6, <1>7 DEF IInv, LoggingIn

(* A login changes the tenant of the cache only with that of the session.  *)
LEMMA LoginFormSafe ==
    ASSUME IInv,
           \/ \E p \in 0 .. lastPassword : Submit(p) \/ SubmitUnread(p)
           \/ LookupTenants \/ SelectTenant \/ LoggedIn \/ OfflineLogin \/ LoginFails
    PROVE  Calls' /\ LoggingIn' /\ Session' /\ Known' /\ CacheIsOfSession'
           /\ PasswordsWereValid'
<1> USE DEF server, client, history
<1> DEFINE Goal == Calls' /\ LoggingIn' /\ Session' /\ Known' /\ CacheIsOfSession'
                   /\ PasswordsWereValid'
<1>0. TypeOK /\ Calls /\ LoggingIn /\ Session /\ Known /\ CacheIsOfSession
      /\ PasswordsWereValid
  BY DEF IInv
<1>1. ASSUME UNCHANGED <<calls, cache, session, view, changing, was>>, LoggingIn',
             unread => unread'
      PROVE  Goal
  BY <1>0, <1>1 DEF Calls, Session, Known, CacheIsOfSession, PasswordsWereValid
<1>2. ASSUME NEW p \in 0 .. lastPassword, Submit(p) \/ SubmitUnread(p) PROVE Goal
  <2>1. /\ view = "login" /\ UNCHANGED <<calls, cache, session, view, changing, was>>
    BY <1>2 DEF Submit, SubmitUnread, CanSubmit
  <2>0. unread => unread'
    BY Zenon, <1>2 DEF Submit, SubmitUnread
  <2>2. /\ attempt'.answer = "none"
        /\ \/ (cache = NoCache \/ unread') /\ attempt'.step = "lookup"
           \/ /\ cache # NoCache /\ attempt'.step = "cached"
              /\ attempt'.tenant = cache.tenant
    BY <1>2, Constants, IdleCall DEF Submit, SubmitUnread, Attempt
  <2>3. LoggingIn'
    BY <2>1, <2>2 DEF LoggingIn
  <2> QED BY <1>1, <2>0, <2>1, <2>3
<1>3. CASE LookupTenants \/ SelectTenant
  <2>1. /\ attempt.step \in {"lookup", "select"}
        /\ UNCHANGED <<calls, cache, session, view, changing, was, unread>>
    BY <1>3 DEF LookupTenants, SelectTenant
  <2>2. /\ attempt \in Attempt /\ attempt # NoAttempt /\ view = "login"
        /\ cache = NoCache \/ unread
        /\ attempt.answer = "none"
    BY <1>0, <2>1, IdleCall DEF TypeOK, LoggingIn
  <2>3. \/ attempt' = NoAttempt
        \/ \E t \in Tenant : attempt' = [attempt EXCEPT !.step = "direct", !.tenant = t]
        \/ attempt' = [attempt EXCEPT !.step = "select",
                                      !.offers = {t \in Tenant : Exists(t)}]
        \/ \E t \in Tenant : attempt' = [attempt EXCEPT !.step = "chosen", !.tenant = t,
                                                        !.offers = {}]
    BY <1>3, <2>2 DEF LookupTenants, SelectTenant, Attempt
  <2>4. \/ attempt' = NoAttempt
        \/ attempt'.answer = "none" /\ attempt'.step = "select"
        \/ /\ attempt'.answer = "none" /\ attempt'.step \in {"direct", "chosen"}
           /\ attempt'.tenant \in Tenant
    BY <2>2, <2>3 DEF Attempt
  <2>5. LoggingIn'
    BY <2>1, <2>2, <2>4, IdleCall DEF LoggingIn
  <2> QED BY <1>1, <2>1, <2>5
<1>4. ASSUME attempt.answer # "none"
      PROVE  attempt # NoAttempt /\ view = "login" /\ changing = NoCall
             /\ attempt.step \in {"cached", "direct", "chosen"}
  BY <1>0, <1>4, IdleCall DEF LoggingIn, Session
<1>5. ASSUME NEW t \in Tenant, NEW online \in BOOLEAN, NEW user,
             attempt.answer # "none", Enter(t, online, user), online => user.id # 0,
             cache' # NoCache => cache'.tenant \in Tenant,
             cache' # NoCache /\ ~unread' =>
                 cache'.tenant = t /\ <<t, cache'.password>> \in was,
             ~unread' => <<t, attempt.password>> \in was
      PROVE  Goal
  <2>1. /\ session'.tenant = t /\ session'.online = online /\ session'.id = user.id
        /\ session'.currentPassword = attempt.password
        /\ UNCHANGED <<calls, changing, was>> /\ attempt' = NoAttempt
        /\ view' # "login"
    BY <1>5 DEF Enter
  <2>2. LoggingIn'
    BY <2>1, IdleCall DEF LoggingIn
  <2>3. session'.online => session' # NoSession
    BY IdleCall
  <2>4. Session'
    BY <1>4, <1>5, <2>1, <2>3 DEF Session
  <2> QED BY <1>0, <1>5, <2>1, <2>2, <2>4
          DEF Calls, Known, CacheIsOfSession, PasswordsWereValid
<1>6. CASE LoggedIn
  <2> DEFINE new == [tenant |-> attempt.tenant, password |-> attempt.password,
                     force |-> attempt.user.force]
  <2>1. /\ attempt.answer = "yes"
        /\ \/ cache' = cache /\ unread' = unread
           \/ cache' = new
        /\ Enter(attempt.tenant, TRUE, attempt.user)
    BY <1>6 DEF LoggedIn
  <2>2. attempt.step \in {"cached", "direct", "chosen"} /\ attempt.tenant \in Tenant
    BY <1>4, <2>1, AttemptTenant
  <2>3. <<attempt.tenant, attempt.password>> \in was /\ attempt.user.id # 0
    BY <1>0, <2>1 DEF LoggingIn
  <2>4. cache # NoCache /\ ~unread => /\ cache.tenant = attempt.tenant
                                      /\ <<cache.tenant, cache.password>> \in was
    BY <1>0, <2>2 DEF LoggingIn, PasswordsWereValid
  <2>5. cache' # NoCache /\ ~unread' => /\ cache'.tenant = attempt.tenant
                                        /\ <<attempt.tenant, cache'.password>> \in was
    BY <2>1, <2>3, <2>4
  <2>6. cache' # NoCache => cache'.tenant \in Tenant
    BY <1>0, <2>1, <2>2 DEF Known
  <2> QED BY <1>5, <2>1, <2>2, <2>3, <2>5, <2>6
<1>7. CASE OfflineLogin
  <2>1. /\ attempt.answer # "none" /\ cache # NoCache /\ cache.password = attempt.password
        /\ cache' = cache /\ unread' = unread
        /\ Enter(cache.tenant, FALSE, [NoUser EXCEPT !.force = cache.force])
    BY <1>7 DEF OfflineLogin, VerifyOffline
  <2>2. (~unread => <<cache.tenant, cache.password>> \in was) /\ cache.tenant \in Tenant
    BY <1>0, <2>1 DEF PasswordsWereValid, Known
  <2> QED BY <1>5, <2>1, <2>2
<1>8. CASE LoginFails
  <2>1. /\ attempt.answer # "none" /\ UNCHANGED <<calls, session, view, changing, was>>
        /\ \/ cache' = cache /\ unread' = unread
           \/ cache' = NoCache
        /\ \/ attempt' = NoAttempt
           \/ /\ cache' = NoCache
              /\ attempt' = [NoAttempt EXCEPT !.step = "lookup",
                                              !.password = attempt.password]
    BY <1>8 DEF LoginFails, ClearSavedTenant
  <2>2. \/ attempt' = NoAttempt
        \/ cache' = NoCache /\ attempt'.step = "lookup" /\ attempt'.answer = "none"
    BY <2>1, Constants, IdleCall DEF Attempt
  <2>3. LoggingIn'
    BY <1>4, <2>1, <2>2, IdleCall DEF LoggingIn
  <2>4. session = NoSession
    BY <1>0, <1>4, <2>1 DEF Known
  <2> QED BY <1>0, <2>1, <2>3, <2>4
          DEF Calls, Session, Known, CacheIsOfSession, PasswordsWereValid
<1> QED BY <1>2, <1>3, <1>6, <1>7, <1>8

LEMMA SessionTenant ==
    ASSUME IInv, session.online
    PROVE  session # NoSession /\ session.id # 0 /\ session.tenant \in Tenant
BY DEF IInv, Session, Known

LEMMA ChangeSafe ==
    ASSUME IInv,
           \/ \E c \in Call : \/ \E p \in Choices : ChangePassword(c, p)
                              \/ PasswordChanged(c)
           \/ ChangeFails \/ Skip \/ Restart
    PROVE  Calls' /\ LoggingIn' /\ Session' /\ Known' /\ CacheIsOfSession'
           /\ PasswordsWereValid'
<1> USE DEF server, client, history
<1> DEFINE Goal == Calls' /\ LoggingIn' /\ Session' /\ Known' /\ CacheIsOfSession'
                   /\ PasswordsWereValid'
<1>0. TypeOK /\ Calls /\ LoggingIn /\ Session /\ Known /\ CacheIsOfSession
      /\ PasswordsWereValid
  BY DEF IInv
<1>1. view = "change_password" => attempt = NoAttempt
  BY <1>0 DEF LoggingIn
<1>2. ASSUME NEW c \in Call, NEW p \in Choices, ChangePassword(c, p) PROVE Goal
  <2> DEFINE row == [NoUser EXCEPT !.id = session.id, !.password = p]
             call == [phase |-> "sent", kind |-> "change", tenant |-> session.tenant,
                      row |-> row, current |-> session.currentPassword]
  <2>1. /\ session.online /\ view = "change_password" /\ changing' = c
        /\ calls' = [calls EXCEPT ![c] = call]
        /\ UNCHANGED <<cache, session, view, attempt, was, unread>>
    BY <1>2 DEF ChangePassword, CanChange, Begin
  <2>2. calls'[c] = call /\ \A x \in Call \ {c} : calls'[x] = calls[x]
    BY <1>0, <2>1 DEF TypeOK
  <2>3. row.id = session.id
    BY Constants DEF User
  <2> HIDE DEF row
  <2>4. /\ calls'[c].phase = "sent" /\ calls'[c].kind = "change"
        /\ calls'[c].tenant = session.tenant /\ calls'[c].row.id = session.id
    BY <2>2, <2>3
  <2> HIDE DEF call
  <2>5. session # NoSession /\ session.id # 0 /\ session.tenant \in Tenant
    BY <2>1, SessionTenant
  <2>6. Calls'
    BY <1>0, <2>1, <2>2, <2>4, <2>5 DEF Calls
  <2>7. Session'
    BY <2>1, <2>4, <2>5 DEF Session
  <2> QED BY <1>0, <2>1, <2>6, <2>7
          DEF LoggingIn, Known, CacheIsOfSession, PasswordsWereValid
<1>3. ASSUME NEW c \in Call, PasswordChanged(c) PROVE Goal
  <2> DEFINE p == calls[c].row.password
  <2>1. /\ changing = c /\ calls[c].phase = "done" /\ changing' = NoCall
        /\ calls' = [calls EXCEPT ![c] = Idle] /\ view' = "main"
        /\ cache' \in {cache, IF cache = NoCache THEN NoCache ELSE
               [cache EXCEPT !.password = p, !.force = FALSE]}
        /\ UNCHANGED <<session, attempt, was, unread>>
    BY <1>3 DEF PasswordChanged, ChangeSucceeded
  <2>2. /\ session.online /\ view = "change_password" /\ calls[c].tenant = session.tenant
        /\ <<session.tenant, p>> \in was
    BY <1>0, <2>1, NoCallAssumption DEF Session, Calls
  <2>3. session # NoSession /\ session.online
    BY <2>2, SessionTenant
  <2>4. cache' # NoCache =>
            /\ cache # NoCache /\ cache'.tenant = cache.tenant
            /\ cache'.password \in {cache.password, p}
    BY <1>0, <2>1 DEF TypeOK, CachedUser
  <2>5. Known' /\ CacheIsOfSession' /\ PasswordsWereValid'
    BY <1>0, <2>1, <2>2, <2>3, <2>4 DEF Known, CacheIsOfSession, PasswordsWereValid
  <2>6. Calls'
    BY <1>0, <2>1, IdleCall DEF TypeOK, Calls
  <2>7. Session' /\ LoggingIn'
    BY <1>0, <1>1, <2>1, <2>2, <2>3, IdleCall DEF Session, LoggingIn
  <2> QED BY <2>5, <2>6, <2>7
<1>4. ASSUME Forget, UNCHANGED was PROVE Calls'
  BY <1>0, <1>4, IdleCall DEF Forget, Calls
<1>5. CASE ChangeFails
  <2>1. Session'
    BY <1>0, <1>5 DEF ChangeFails, Session
  <2> QED BY <1>0, <1>4, <1>5, <2>1
          DEF ChangeFails, LoggingIn, Known, CacheIsOfSession, PasswordsWereValid
<1>6. CASE Skip
  <2>1. attempt = NoAttempt /\ changing = NoCall
    BY <1>1, <1>6 DEF Skip, CanChange
  <2> QED BY <1>0, <1>6, <2>1, IdleCall
          DEF Skip, Calls, Session, LoggingIn, Known, CacheIsOfSession, PasswordsWereValid
<1>7. CASE Restart
  <2>1. Session' /\ LoggingIn'
    BY <1>7, IdleCall DEF Restart, Session, LoggingIn
  <2> QED BY <1>0, <1>4, <1>7, <2>1
          DEF Restart, Known, CacheIsOfSession, PasswordsWereValid
<1> QED BY <1>2, <1>3, <1>5, <1>6, <1>7

LEMMA NextIInv == IInv /\ [Next]_vars => IInv'
<1> SUFFICES ASSUME IInv, [Next]_vars PROVE IInv'
  OBVIOUS
<1>0. TypeOK'
  BY NextTypes
<1> USE DEF server, client, history
<1>1. CASE UNCHANGED vars
  <2>1. was \subseteq was' /\ UNCHANGED <<calls, session, view, changing>>
    BY <1>1 DEF vars
  <2> QED BY <1>0, <1>1, <2>1, ServerKeeps, ClientKeeps, NoCallChanges DEF vars, IInv
<1>2. CASE Administrator
  <2>1. UNCHANGED <<cache, session, view, attempt, unread>>
    BY <1>2 DEF Administrator, CreateUser, BatchCreateUsers, UpdateUser, DeleteUser,
                ResetPassword
  <2> QED BY <1>0, <1>2, <2>1, AdministratorSafe, ServerKeeps DEF IInv
<1>3. ASSUME NEW c \in Call,
             WriteReset(c) \/ MailReset(c) \/ WriteUpdate(c) \/ ReadChange(c)
             \/ WriteChange(c)
      PROVE  IInv'
  <2>1. UNCHANGED <<cache, session, view, attempt, unread>>
    BY <1>3 DEF WriteReset, MailReset, WriteUpdate, ReadChange, WriteChange
  <2> QED BY <1>0, <1>3, <2>1, ServiceSafe, ServerKeeps DEF IInv
<1>4. CASE Login
  <2>1. UNCHANGED <<account, calls, cache, session, view, changing, was, unread>>
    BY <1>4 DEF Login
  <2>2. Rows' /\ Calls' /\ Session'
    BY <2>1, ClientKeeps, NoCallChanges
  <2>3. Known' /\ CacheIsOfSession' /\ PasswordsWereValid'
    BY <2>1 DEF IInv, Known, CacheIsOfSession, PasswordsWereValid
  <2> QED BY <1>0, <1>4, <2>2, <2>3, LoginSafe DEF IInv
<1>5. CASE RestartService
  <2>1. UNCHANGED <<cache, session, view, attempt, was, unread>>
    BY <1>5 DEF RestartService
  <2> QED BY <1>0, <1>5, <2>1, RestartServiceSafe, ServerKeeps DEF IInv
<1>6. CASE Client
  <2>1. UNCHANGED <<account, was>>
    BY <1>6 DEF Client, Submit, SubmitUnread, LookupTenants, SelectTenant, LoggedIn, OfflineLogin,
                LoginFails, Enter, ChangePassword, PasswordChanged, ChangeFails, Skip,
                Restart
  <2> QED BY <1>0, <1>6, <2>1, ClientKeeps, LoginFormSafe, ChangeSafe DEF Client, IInv
<1> QED BY <1>1, <1>2, <1>3, <1>4, <1>5, <1>6 DEF Next, Service

LEMMA Invariant == Spec => []IInv
<1>1. Init => IInv
  BY InitTypes, InitSafe DEF IInv
<1> QED BY <1>1, NextIInv, PTL DEF Spec

(* Every row, call, cached row and attempt keeps its shape.                *)
THEOREM TypeCorrect == Spec => []TypeOK
<1>1. IInv => TypeOK
  BY DEF IInv
<1> QED BY <1>1, Invariant, PTL

(* Nobody enters with a password the tenant of the session never had, with *)
(* the service's answer or without it, and the client keeps only such      *)
(* passwords for offline use (login, try_offline_login, save_user,         *)
(* update_cached_password), except by way of a row whose query had failed. *)
THEOREM PasswordsWereValidHolds == Spec => []PasswordsWereValid
<1>1. IInv => PasswordsWereValid
  BY DEF IInv
<1> QED BY <1>1, Invariant, PTL

(* The row kept for offline use is of the tenant of the session, whatever  *)
(* logins with other tenants came before it (LoginForm, save_user), except *)
(* for a row that a login passed over because the query for it failed.     *)
THEOREM CacheIsOfSessionHolds == Spec => []CacheIsOfSession
<1>1. IInv => CacheIsOfSession
  BY DEF IInv
<1> QED BY <1>1, Invariant, PTL

(* A save that read a row never writes over one created since: the id of a *)
(* row that is there changes only to one just handed out (UpdateUser,      *)
(* ChangePassword, BatchCreateUsers).                                      *)
THEOREM NewRowKeptHolds == Spec => NewRowKept
<1> DEFINE Kept == \A t \in Tenant :
                       Exists(t) /\ account'[t].id \notin {0, account[t].id}
                           => account'[t].id = New
<1>1. ASSUME IInv, [Next]_vars PROVE Kept
  <2> USE DEF server, client, history
  <2>0. TypeOK /\ Rows
    BY <1>1 DEF IInv
  <2>1. SUFFICES ASSUME NEW t \in Tenant, Exists(t), account'[t].id # 0,
                        account'[t].id # account[t].id
                 PROVE  account'[t].id = New
    OBVIOUS
  <2>2. ASSUME NEW u \in Tenant, NEW r \in Role, Insert(u, r) PROVE account'[t].id = New
    <3>1. PICK force \in BOOLEAN : account' = [account EXCEPT ![u] = NewUser(r, force)]
      BY <2>2 DEF Insert
    <3>2. account'[t] = account[t] \/ account'[t] = NewUser(r, force)
      BY <2>0, <3>1 DEF TypeOK
    <3> QED BY <2>1, <3>2 DEF NewUser
  <2>3. ASSUME NEW u \in Tenant, NEW r \in Role,
               account' = [account EXCEPT ![u].role = r]
        PROVE  FALSE
    <3>1. account'[t].id = account[t].id
      BY <2>0, <2>3 DEF TypeOK, User
    <3> QED BY <2>1, <3>1
  <2>4. ASSUME NEW u \in Tenant, account' = [account EXCEPT ![u] = NoUser] PROVE FALSE
    <3>1. account'[t] \in {account[t], NoUser}
      BY <2>0, <2>4 DEF TypeOK
    <3> QED BY <2>1, <3>1, IdleCall
  <2>5. ASSUME NEW c \in Call, WriteReset(c) PROVE FALSE
    <3> DEFINE u == calls[c].tenant
               row == Reset(account[u], calls[c].row.password)
    <3>1. account' \in {account, [account EXCEPT ![u] = row]} /\ u \in Tenant
      BY <1>1, <2>5 DEF WriteReset, IInv, Calls
    <3>2. row.id = account[u].id
      BY <2>0, <3>1 DEF Reset, TypeOK, User
    <3> HIDE DEF row
    <3>3. account'[t] = account[t] \/ (t = u /\ account'[t] = row)
      BY <2>0, <3>1 DEF TypeOK
    <3> QED BY <2>1, <3>2, <3>3
  <2>6. ASSUME NEW u \in Tenant, NEW row, Save(u, row) PROVE FALSE
    <3>1. account[t].id # 0
      BY <2>0, <2>1 DEF Rows
    <3>2. \/ account'[t] = account[t]
          \/ t = u /\ account'[t] = row /\ account[u].id \in {0, row.id}
      BY <2>0, <2>6 DEF Save, Saved, TypeOK
    <3> QED BY <2>1, <3>1, <3>2
  <2>7. ASSUME NEW c \in Call, WriteUpdate(c) \/ WriteChange(c) PROVE FALSE
    <3>1. calls[c].tenant \in Tenant
      BY <1>1, <2>7 DEF WriteUpdate, WriteChange, IInv, Calls
    <3> QED BY <2>6, <2>7, <3>1 DEF WriteUpdate, WriteChange
  <2>8. CASE UNCHANGED account
    BY <2>1, <2>8
  <2>9. CASE Administrator
    BY <2>2, <2>3, <2>4, <2>8, <2>9
    DEF Administrator, CreateUser, BatchCreateUsers, UpdateUser, DeleteUser,
        ResetPassword
  <2>10. CASE Service
    BY <2>5, <2>7, <2>8, <2>10
    DEF Service, MailReset, ReadChange, Login, RestartService
  <2>11. CASE Client \/ UNCHANGED vars
    <3>1. UNCHANGED account
      BY <2>11 DEF Client, Submit, SubmitUnread, LookupTenants, SelectTenant, LoggedIn,
                   OfflineLogin, LoginFails, Enter, ChangePassword, PasswordChanged,
                   ChangeFails, Skip, Restart, vars
    <3> QED BY <2>8, <3>1
  <2> QED BY <1>1, <2>9, <2>10, <2>11 DEF Next
<1>2. IInv /\ [Next]_vars => [Kept]_vars
  BY <1>1
<1> QED BY <1>2, Invariant, PTL DEF Spec, NewRowKept

-----------------------------------------------------------------------------
LEMMA Numbers ==
    ASSUME IInv
    PROVE  /\ lastPassword \in Nat /\ New \in Nat /\ New > lastPassword /\ mailed \subseteq Nat
           /\ \A t \in Tenant : account[t] \in User /\ account[t].password \in Nat
           /\ \A c \in Call : /\ calls[c] \in CallState /\ calls[c].row \in User
                              /\ calls[c].row.password \in Nat
<1>1. TypeOK
  BY DEF IInv
<1> QED BY <1>1, NewPassword DEF TypeOK, CallState, User, Password

LEMMA TemporaryIsOld ==
    ASSUME IInv, Flagged
    PROVE  New \notin Temporary /\ \A p \in Temporary : p <= lastPassword
<1>1. \A p \in Temporary : p <= lastPassword
  BY DEF Temporary, Flagged, Flags, HandedOut, CopyOK
<1> QED BY <1>1, Numbers

(* What a call or a mail makes of the temporary passwords.                 *)
LEMMA NoMoreTemporary ==
    ASSUME mailed' \subseteq Temporary,
           \A c \in Call : Resetting(c)' => Resetting(c) /\ calls'[c].row.password = calls[c].row.password
    PROVE  Temporary' \subseteq Temporary
BY DEF Temporary

(* Rows and copies that stay are flagged as before: a password handed out  *)
(* now is not theirs.                                                      *)
LEMMA RestKept ==
    ASSUME IInv, Flagged, Temporary' \subseteq Temporary \cup {New},
           lastPassword' \in {lastPassword, New}, picked \subseteq picked'
    PROVE  /\ \A t \in Tenant : account'[t] = account[t] => RowOK(t)'
           /\ \A c \in Call :
                  /\ calls'[c].kind = calls[c].kind
                  /\ calls'[c].row = calls[c].row
                  /\ calls'[c].tenant = calls[c].tenant
                 => CopyOK(c)'
<1>1. \A p \in Nat : p <= lastPassword => p # New /\ p <= lastPassword'
  BY Numbers
<1>2. ASSUME NEW t \in Tenant, account'[t] = account[t] PROVE RowOK(t)'
  <2>1. account[t].password # New /\ account[t].password <= lastPassword'
    BY <1>1, Numbers DEF Flagged, Flags, RowOK
  <2> QED BY <1>2, <2>1 DEF Flagged, Flags, RowOK, FlagOK, Exists
<1>3. ASSUME NEW c \in Call, calls'[c].kind = calls[c].kind, calls'[c].row = calls[c].row,
             calls'[c].tenant = calls[c].tenant
      PROVE  CopyOK(c)'
  <2>1. calls[c].row.password # New /\ calls[c].row.password <= lastPassword'
    BY <1>1, Numbers DEF Flagged, Flags, CopyOK
  <2> QED BY <1>3, <2>1 DEF Flagged, Flags, CopyOK, FlagOK
<1> QED BY <1>2, <1>3

LEMMA IdleCopy ==
    ASSUME IInv, NEW c \in Call, calls'[c] = Idle, lastPassword' \in {lastPassword, New}
    PROVE  CopyOK(c)'
BY Numbers DEF CopyOK, Idle, NoUser

LEMMA InitFlagged == Init => Flagged
<1> SUFFICES ASSUME Init PROVE Flagged
  OBVIOUS
<1>1. Temporary = {}
  BY IdleCall DEF Init, Temporary, Resetting
<1>2. \A t \in Tenant : account[t].password \in {0, 1}
  BY DEF Init, NoUser
<1>3. \A c \in Call : calls[c].kind = "reset" /\ calls[c].row.password = 0
  BY DEF Init, Idle, NoUser
<1>4. mailed = {} /\ attempt.password = 0 /\ session.currentPassword = 0
  BY DEF Init, NoAttempt, NoSession
<1> QED BY <1>1, <1>2, <1>3, <1>4
        DEF Init, Flagged, Flags, HandedOut, RowOK, CopyOK, FlagOK

(* Calls that end, and no other change.                                    *)
LEMMA CallsEnd ==
    ASSUME IInv, Flagged, UNCHANGED <<account, lastPassword, mailed>>,
           picked \subseteq picked',
           \A c \in Call :
               \/ calls'[c] = calls[c]
               \/ calls'[c] = Idle
               \/ /\ calls'[c].phase \notin {"read", "written"}
                  /\ calls'[c].kind = calls[c].kind /\ calls'[c].row = calls[c].row
                  /\ calls'[c].tenant = calls[c].tenant
    PROVE  Flags'
<1>1. Temporary' \subseteq Temporary
  <2>1. mailed' \subseteq Temporary
    BY DEF Temporary
  <2>2. ASSUME NEW c \in Call, Resetting(c)'
        PROVE  Resetting(c) /\ calls'[c].row.password = calls[c].row.password
    <3>1. calls'[c] = calls[c]
      BY <2>2, IdleCall DEF Resetting
    <3> QED BY <2>2, <3>1 DEF Resetting
  <2> QED BY <2>1, <2>2, NoMoreTemporary
<1>2. \A c \in Call : CopyOK(c)'
  BY <1>1, RestKept, IdleCopy
<1>3. \A t \in Tenant : RowOK(t)'
  BY <1>1, RestKept
<1> QED BY <1>2, <1>3 DEF Flags

LEMMA InsertFlagged ==
    ASSUME IInv, Flagged, NEW t \in Tenant, NEW r \in Role, Insert(t, r),
           UNCHANGED <<calls, mailed>>, picked \subseteq picked'
    PROVE  Flags'
<1>1. PICK force \in BOOLEAN : account' = [account EXCEPT ![t] = NewUser(r, force)]
  BY DEF Insert
<1>2. Temporary' = Temporary /\ lastPassword' = New
  BY DEF Insert, Temporary, Resetting
<1>3. account'[t].password = New /\ \A u \in Tenant \ {t} : account'[u] = account[u]
  BY <1>1 DEF NewUser, IInv, TypeOK
<1>4. RowOK(t)'
  BY <1>2, <1>3, TemporaryIsOld, Numbers DEF RowOK, FlagOK
<1> QED BY <1>2, <1>3, <1>4, RestKept DEF Flags

(* A copy of a row has the flag of the row.                                *)
LEMMA BeginFlagged ==
    ASSUME IInv, Flagged, NEW c \in Call, NEW call, calls' = [calls EXCEPT ![c] = call],
           UNCHANGED <<account, mailed>>, lastPassword' \in {lastPassword, New},
           Temporary' \subseteq Temporary \cup {New}, CopyOK(c)',
           picked \subseteq picked'
    PROVE  Flags'
<1>1. \A x \in Call \ {c} : calls'[x] = calls[x]
  OBVIOUS
<1> QED BY <1>1, RestKept DEF Flags

LEMMA AdministratorFlagged ==
    ASSUME IInv, Flagged, Administrator, picked \subseteq picked'
    PROVE  Flags'
<1> USE DEF server, client, history
<1>1. ASSUME NEW t \in Tenant, NEW r \in Role, CreateUser(t, r) PROVE Flags'
  BY <1>1, InsertFlagged DEF CreateUser
<1>2. ASSUME NEW t \in Tenant, NEW r \in Role, NEW mode \in {"upsert", "replace"},
             BatchCreateUsers(t, mode, r)
      PROVE  Flags'
  <2>1. CASE Insert(t, r)
    BY <1>2, <2>1, InsertFlagged DEF BatchCreateUsers
  <2>2. CASE /\ Exists(t) /\ account' = [account EXCEPT ![t].role = r]
             /\ UNCHANGED lastPassword
    <3>1. /\ account'[t].password = account[t].password
          /\ account'[t].force = account[t].force
          /\ \A u \in Tenant \ {t} : account'[u] = account[u]
      BY <2>2, Numbers DEF IInv, TypeOK, User
    <3>2. Temporary' = Temporary /\ UNCHANGED <<calls, mailed>>
      BY <1>2 DEF BatchCreateUsers, Temporary, Resetting
    <3>3. RowOK(t)'
      BY <2>2, <3>1, <3>2 DEF Flagged, Flags, RowOK, FlagOK
    <3> QED BY <2>2, <3>1, <3>2, <3>3, RestKept DEF Flags
  <2> QED BY <1>2, <2>1, <2>2 DEF BatchCreateUsers
<1>3. ASSUME NEW t \in Tenant, DeleteUser(t) PROVE Flags'
  <2>1. /\ account'[t] = NoUser /\ \A u \in Tenant \ {t} : account'[u] = account[u]
        /\ UNCHANGED <<calls, mailed, lastPassword>>
    BY <1>3 DEF DeleteUser, IInv, TypeOK
  <2>2. Temporary' = Temporary
    BY <2>1 DEF Temporary, Resetting
  <2>3. RowOK(t)'
    BY <2>1, Numbers DEF RowOK, FlagOK, Exists, NoUser
  <2> QED BY <2>1, <2>2, <2>3, RestKept DEF Flags
<1>4. ASSUME NEW t \in Tenant, NEW r \in Role, NEW c \in Call, UpdateUser(c, t, r)
      PROVE  Flags'
  <2> DEFINE row == [account[t] EXCEPT !.role = r]
             call == [phase |-> "read", kind |-> "update", tenant |-> t, row |-> row,
                      current |-> 0]
  <2>1. /\ Exists(t) /\ calls' = [calls EXCEPT ![c] = call]
        /\ UNCHANGED <<account, mailed, lastPassword>>
    BY <1>4 DEF UpdateUser, Begin
  <2>2. row.password = account[t].password /\ row.force = account[t].force
    BY Numbers DEF User
  <2>3. calls'[c] = call /\ \A x \in Call \ {c} : calls'[x] = calls[x]
    BY <2>1 DEF IInv, TypeOK
  <2> HIDE DEF row
  <2>4. /\ calls'[c].kind = "update" /\ calls'[c].row.password = account[t].password
        /\ calls'[c].row.force = account[t].force /\ calls'[c].tenant = t
    BY <2>2, <2>3
  <2> HIDE DEF call
  <2>5. \A x \in Call : Resetting(x)' => Resetting(x) /\ calls'[x] = calls[x]
    BY <2>3, <2>4 DEF Resetting
  <2>6. Temporary' \subseteq Temporary
    BY <2>1, <2>5, NoMoreTemporary DEF Temporary
  <2>7. CopyOK(c)'
    BY <2>1, <2>4, <2>6 DEF Flagged, Flags, RowOK, CopyOK, FlagOK
  <2> QED BY <2>1, <2>6, <2>7, BeginFlagged
<1>5. ASSUME NEW t \in Tenant, NEW c \in Call, NEW kind \in {"reset", "batch"},
             ResetPassword(c, t, kind)
      PROVE  Flags'
  <2> DEFINE row == [account[t] EXCEPT !.password = New]
             call == [phase |-> "read", kind |-> kind, tenant |-> t, row |-> row,
                      current |-> 0]
  <2>1. /\ calls' = [calls EXCEPT ![c] = call] /\ lastPassword' = New
        /\ UNCHANGED <<account, mailed>>
    BY <1>5 DEF ResetPassword, Begin
  <2>2. row.password = New
    BY Numbers DEF User
  <2>3. calls'[c] = call /\ \A x \in Call \ {c} : calls'[x] = calls[x]
    BY <2>1 DEF IInv, TypeOK
  <2> HIDE DEF row
  <2>4. calls'[c].kind \in {"reset", "batch"} /\ calls'[c].row.password = New
    BY <2>2, <2>3
  <2> HIDE DEF call
  <2>5. Temporary' \subseteq Temporary \cup {New}
    BY <2>1, <2>3, <2>4 DEF Temporary, Resetting
  <2>6. CopyOK(c)'
    BY <2>1, <2>4, Numbers DEF CopyOK, FlagOK
  <2> QED BY <2>1, <2>5, <2>6, BeginFlagged
<1> QED BY <1>1, <1>2, <1>3, <1>4, <1>5 DEF Administrator

(* What is saved is flagged if its password is a temporary one, unless the *)
(* user chose it.                                                          *)
LEMMA SaveFlagged ==
    ASSUME IInv, Flagged, NEW t \in Tenant, NEW row, Save(t, row),
           Saved(t, row) /\ row.password \in Temporary =>
               row.force \/ <<t, row.password>> \in picked',
           row.password <= lastPassword, picked \subseteq picked',
           Temporary' \subseteq Temporary, UNCHANGED <<lastPassword, mailed>>
    PROVE  \A u \in Tenant : RowOK(u)'
<1>1. \A u \in Tenant :
          \/ account'[u] = account[u]
          \/ u = t /\ account'[u] = row /\ Saved(t, row)
  <2>1. CASE Saved(t, row)
    BY <2>1 DEF Save, IInv, TypeOK
  <2>2. CASE ~Saved(t, row)
    BY <2>2 DEF Save
  <2> QED BY <2>1, <2>2
<1>2. account'[t] = row /\ Saved(t, row) => RowOK(t)'
  BY DEF RowOK, FlagOK
<1> QED BY <1>1, <1>2, RestKept

LEMMA ServiceFlagged ==
    ASSUME IInv, Flagged, NEW c \in Call,
           WriteReset(c) \/ MailReset(c) \/ WriteUpdate(c) \/ ReadChange(c) \/ WriteChange(c),
           picked \subseteq picked'
    PROVE  Flags'
<1> USE DEF server, client, history
<1>0. TypeOK /\ calls[c] \in CallState /\ CopyOK(c)
  BY DEF IInv, TypeOK, Flagged, Flags
<1>1. CASE WriteReset(c)
  <2> DEFINE t == calls[c].tenant
             p == calls[c].row.password
             row == Reset(account[t], p)
  <2>1. /\ calls[c].phase = "read" /\ calls[c].kind \in {"reset", "batch"} /\ t \in Tenant
        /\ account' \in {account, [account EXCEPT ![t] = row]}
        /\ calls' = [calls EXCEPT ![c].phase = "written"]
        /\ UNCHANGED <<lastPassword, mailed>>
    BY <1>1 DEF WriteReset, IInv, Calls
  <2>2. row.password = p /\ row.force = TRUE
    BY <2>1, Numbers DEF Reset, User
  <2> HIDE DEF row
  <2>3. \A x \in Call : /\ calls'[x].kind = calls[x].kind /\ calls'[x].row = calls[x].row
                        /\ calls'[x].tenant = calls[x].tenant
                        /\ x # c => calls'[x] = calls[x]
    BY <1>0, <2>1 DEF TypeOK, CallState
  <2>4. Temporary' \subseteq Temporary
    <3>1. \A x \in Call : Resetting(x)' => Resetting(x)
      BY <2>1, <2>3 DEF Resetting
    <3> QED BY <2>1, <2>3, <3>1, NoMoreTemporary DEF Temporary
  <2>5. \A u \in Tenant : account'[u] \in {account[u], row}
    BY <1>0, <2>1 DEF TypeOK
  <2>6. \A u \in Tenant : account'[u] = row => RowOK(u)'
    BY <1>0, <2>1, <2>2 DEF RowOK, CopyOK, FlagOK
  <2> QED BY <2>1, <2>3, <2>4, <2>5, <2>6, RestKept DEF Flags
<1>2. CASE MailReset(c)
  <2> DEFINE p == calls[c].row.password
  <2>1. /\ calls[c].phase = "written" /\ mailed' \subseteq mailed \cup {p}
        /\ calls' = [calls EXCEPT ![c] = Idle]
        /\ UNCHANGED <<account, lastPassword>>
    BY <1>2 DEF MailReset
  <2>2. calls'[c] = Idle /\ \A x \in Call \ {c} : calls'[x] = calls[x]
    BY <1>0, <2>1 DEF TypeOK
  <2>3. p \in Temporary
    BY <2>1 DEF Temporary, Resetting, IInv, Calls
  <2>4. Temporary' \subseteq Temporary
    <3>1. \A x \in Call : Resetting(x)' => Resetting(x) /\ calls'[x] = calls[x]
      BY <2>2, IdleCall DEF Resetting
    <3>2. mailed' \subseteq Temporary
      BY <2>1, <2>3 DEF Temporary
    <3> QED BY <3>1, <3>2, NoMoreTemporary
  <2>6. \A x \in Call : CopyOK(x)'
    BY <2>1, <2>2, <2>4, RestKept, IdleCopy
  <2> QED BY <2>1, <2>4, <2>6, RestKept DEF Flags
<1>3. ASSUME calls[c].phase = "read", calls[c].kind \in {"update", "change"},
             Save(calls[c].tenant, calls[c].row), UNCHANGED <<lastPassword, mailed>>,
             NEW call, calls' = [calls EXCEPT ![c] = call],
             \/ call = Idle
             \/ /\ call.phase \in {"done", "refused"} /\ call.kind = calls[c].kind
                /\ call.row = calls[c].row /\ call.tenant = calls[c].tenant,
             calls[c].kind = "change" /\ Saved(calls[c].tenant, calls[c].row) =>
                 <<calls[c].tenant, calls[c].row.password>> \in picked'
      PROVE  Flags'
  <2>1. calls'[c] = call /\ \A x \in Call \ {c} : calls'[x] = calls[x]
    BY <1>0, <1>3 DEF TypeOK
  <2>2. Temporary' \subseteq Temporary
    <3>1. \A x \in Call : Resetting(x)' => Resetting(x) /\ calls'[x] = calls[x]
      BY <1>3, <2>1, IdleCall DEF Resetting
    <3> QED BY <1>3, <3>1, NoMoreTemporary DEF Temporary
  <2>3. calls[c].tenant \in Tenant
    BY <1>3 DEF IInv, Calls
  <2>4. \A u \in Tenant : RowOK(u)'
    BY <1>0, <1>3, <2>2, <2>3, SaveFlagged DEF CopyOK, FlagOK
  <2>5. \A x \in Call : CopyOK(x)'
    BY <1>3, <2>1, <2>2, RestKept, IdleCopy
  <2> QED BY <1>3, <2>4, <2>5 DEF Flags
<1>4. CASE WriteUpdate(c)
  BY <1>3, <1>4 DEF WriteUpdate
<1>5. ASSUME NEW answer \in {"done", "refused"}
      PROVE  \/ Ended(c, answer) = Idle
             \/ /\ Ended(c, answer).phase = answer /\ Ended(c, answer).kind = calls[c].kind
                /\ Ended(c, answer).row = calls[c].row
                /\ Ended(c, answer).tenant = calls[c].tenant
  BY <1>0 DEF Ended, CallState
<1>6. CASE WriteChange(c)
  <2>1. PICK answer \in {"done", "refused"} :
            /\ calls' = [calls EXCEPT ![c] = Ended(c, answer)]
            /\ Saved(calls[c].tenant, calls[c].row) =>
                   <<calls[c].tenant, calls[c].row.password>> \in picked'
    BY <1>6 DEF WriteChange
  <2> QED BY <1>3, <1>5, <1>6, <2>1 DEF WriteChange
<1>7. CASE ReadChange(c)
  <2>1. calls[c].phase = "sent" /\ calls[c].kind = "change"
    BY <1>7 DEF ReadChange, IInv, Calls
  <2>2. CASE calls' = [calls EXCEPT ![c] = Ended(c, "refused")]
    <3>1. \/ Ended(c, "refused") = Idle
          \/ /\ Ended(c, "refused").phase = "refused"
             /\ Ended(c, "refused").kind = calls[c].kind
             /\ Ended(c, "refused").row = calls[c].row
             /\ Ended(c, "refused").tenant = calls[c].tenant
      BY <1>5
    <3>2. calls'[c] = Ended(c, "refused") /\ \A x \in Call \ {c} : calls'[x] = calls[x]
      BY <1>0, <2>2 DEF TypeOK
    <3> QED BY <1>7, <3>1, <3>2, CallsEnd DEF ReadChange
  <2> DEFINE row == [account[calls[c].tenant] EXCEPT !.password = calls[c].row.password,
                                                     !.force = FALSE]
  <2>3. CASE calls' = [calls EXCEPT ![c] = [calls[c] EXCEPT !.phase = "read", !.row = row]]
    <3>1. row.password = calls[c].row.password
      BY <2>1, Numbers DEF IInv, Calls, User
    <3> HIDE DEF row
    <3>2. /\ calls'[c].kind = "change" /\ calls'[c].row = row
          /\ \A x \in Call \ {c} : calls'[x] = calls[x]
      BY <1>0, <2>1, <2>3 DEF TypeOK, CallState
    <3>3. UNCHANGED <<account, mailed, lastPassword>>
      BY <1>7 DEF ReadChange
    <3>4. Temporary' \subseteq Temporary
      <4>1. \A x \in Call : Resetting(x)' => Resetting(x) /\ calls'[x] = calls[x]
        BY <3>2 DEF Resetting
      <4> QED BY <3>3, <4>1, NoMoreTemporary DEF Temporary
    <3>5. CopyOK(c)'
      BY <1>0, <2>1, <3>1, <3>2, <3>3, <3>4 DEF CopyOK
    <3> QED BY <2>3, <3>3, <3>4, <3>5, BeginFlagged
  <2> QED BY <1>7, <2>2, <2>3 DEF ReadChange
<1> QED BY <1>1, <1>2, <1>4, <1>6, <1>7

LEMMA ClientFlagged ==
    ASSUME IInv, Flagged, Client, picked \subseteq picked'
    PROVE  Flags'
<1> USE DEF server, client, history
<1>1. ASSUME UNCHANGED <<account, calls, lastPassword, mailed>> PROVE Flags'
  BY <1>1, CallsEnd
<1>2. ASSUME NEW c \in Call, NEW p \in Choices, ChangePassword(c, p) PROVE Flags'
  <2> DEFINE row == [NoUser EXCEPT !.id = session.id, !.password = p]
             call == [phase |-> "sent", kind |-> "change", tenant |-> session.tenant,
                      row |-> row, current |-> session.currentPassword]
  <2>1. /\ calls' = [calls EXCEPT ![c] = call]
        /\ lastPassword' = IF p = New THEN New ELSE lastPassword
        /\ UNCHANGED <<account, mailed>>
    BY <1>2 DEF ChangePassword, Begin
  <2>2. row.password = p
    BY Constants DEF User
  <2>3. calls'[c] = call /\ \A x \in Call \ {c} : calls'[x] = calls[x]
    BY <2>1 DEF IInv, TypeOK
  <2> HIDE DEF row
  <2>4. calls'[c].kind = "change" /\ calls'[c].row.password = p
    BY <2>2, <2>3
  <2> HIDE DEF call
  <2>5. Temporary' \subseteq Temporary
    <3>1. \A x \in Call : Resetting(x)' => Resetting(x) /\ calls'[x] = calls[x]
      BY <2>3, <2>4 DEF Resetting
    <3> QED BY <2>1, <3>1, NoMoreTemporary DEF Temporary
  <2>6. CopyOK(c)'
    <3>1. p = New \/ p <= lastPassword
      BY DEF Choices, Flagged, HandedOut
    <3>2. p <= lastPassword'
      BY <2>1, <3>1, Numbers
    <3> QED BY <2>4, <3>2 DEF CopyOK
  <2> QED BY <2>1, <2>5, <2>6, BeginFlagged
<1>3. ASSUME NEW c \in Call, PasswordChanged(c) PROVE Flags'
  <2>1. \A x \in Call : calls'[x] \in {calls[x], Idle}
    BY <1>3 DEF PasswordChanged, IInv, TypeOK
  <2> QED BY <1>3, <2>1, CallsEnd DEF PasswordChanged
<1>4. CASE ChangeFails \/ Restart
  <2>1. \A x \in Call : calls'[x] \in {calls[x], Idle}
    BY <1>4 DEF ChangeFails, Restart, Forget
  <2>2. UNCHANGED <<account, lastPassword, mailed>>
    BY <1>4 DEF ChangeFails, Restart
  <2> QED BY <2>1, <2>2, CallsEnd
<1>5. CASE LookupTenants \/ SelectTenant \/ LoggedIn \/ OfflineLogin \/ LoginFails \/ Skip
  BY <1>1, <1>5 DEF LookupTenants, SelectTenant, LoggedIn, OfflineLogin, LoginFails, Enter,
                    Skip
<1>6. ASSUME NEW p \in 0 .. lastPassword, Submit(p) \/ SubmitUnread(p) PROVE Flags'
  BY <1>1, <1>6 DEF Submit, SubmitUnread
<1> QED BY <1>2, <1>3, <1>4, <1>5, <1>6 DEF Client

(* Every password a mail, a login or a session holds was handed out.       *)
LEMMA HandedOutKept == ASSUME IInv, Flagged, [Next]_vars PROVE HandedOut'
<1> USE DEF server, client, history
<1>0. /\ lastPassword \in Nat /\ New > lastPassword /\ New \in Nat
      /\ TypeOK /\ HandedOut /\ attempt \in Attempt /\ session \in AuthState
  BY Numbers DEF IInv, TypeOK, Flagged
<1>1. ASSUME lastPassword' \in {lastPassword, New},
             attempt'.password <= lastPassword, session'.currentPassword <= lastPassword,
             attempt'.password \in Nat, session'.currentPassword \in Nat,
             mailed' = mailed
      PROVE  HandedOut'
  BY <1>0, <1>1 DEF HandedOut, TypeOK
<1>2. /\ attempt.password \in Nat /\ session.currentPassword \in Nat
      /\ attempt.password <= lastPassword /\ session.currentPassword <= lastPassword
  BY <1>0 DEF Attempt, AuthState, Password, HandedOut
<1>3. NoAttempt.password = 0 /\ NoSession.currentPassword = 0
  BY DEF NoAttempt, NoSession
<1>4. CASE UNCHANGED vars
  BY <1>0, <1>1, <1>2, <1>4 DEF vars
<1>5. CASE Administrator
  BY <1>0, <1>1, <1>2, <1>5
  DEF Administrator, CreateUser, BatchCreateUsers, Insert, UpdateUser, DeleteUser,
      ResetPassword
<1>6. ASSUME NEW c \in Call, MailReset(c) PROVE HandedOut'
  <2>1. calls[c].row.password <= lastPassword
    BY DEF Flagged, Flags, CopyOK
  <2>2. UNCHANGED <<lastPassword, attempt, session>>
        /\ mailed' \subseteq mailed \cup {calls[c].row.password}
    BY <1>6 DEF MailReset
  <2> QED BY <1>0, <2>1, <2>2 DEF HandedOut
<1>7. CASE Login
  <2>1. attempt'.password = attempt.password
    BY <1>0, <1>7 DEF Login, Attempt
  <2> QED BY <1>0, <1>1, <1>2, <1>7, <2>1 DEF Login
<1>8. CASE Service
  BY <1>0, <1>1, <1>2, <1>6, <1>7, <1>8
  DEF Service, WriteReset, WriteUpdate, ReadChange, WriteChange, RestartService
<1>9. ASSUME NEW p \in 0 .. lastPassword, Submit(p) \/ SubmitUnread(p) PROVE HandedOut'
  <2>1. attempt'.password = p
    BY <1>9, Constants DEF Submit, SubmitUnread, Attempt
  <2> QED BY <1>0, <1>1, <1>2, <1>9, <2>1 DEF Submit, SubmitUnread
<1>10. CASE LookupTenants \/ SelectTenant \/ LoginFails
  <2>1. attempt'.password \in {0, attempt.password}
    BY <1>0, <1>3, <1>10, Constants DEF LookupTenants, SelectTenant, LoginFails, Attempt
  <2>2. UNCHANGED <<lastPassword, session, mailed>>
    BY <1>10 DEF LookupTenants, SelectTenant, LoginFails
  <2> QED BY <1>0, <1>1, <1>2, <2>1, <2>2
<1>11. CASE LoggedIn \/ OfflineLogin
  <2>1. session'.currentPassword = attempt.password /\ attempt' = NoAttempt
    BY <1>11 DEF LoggedIn, OfflineLogin, Enter
  <2> QED BY <1>0, <1>1, <1>2, <1>3, <1>11, <2>1 DEF LoggedIn, OfflineLogin, Enter
<1>12. CASE ChangeFails \/ Skip \/ Restart
  BY <1>0, <1>1, <1>2, <1>3, <1>12 DEF ChangeFails, Skip, Restart
<1>13. ASSUME NEW c \in Call,
              (\E p \in Choices : ChangePassword(c, p)) \/ PasswordChanged(c)
       PROVE  HandedOut'
  BY <1>0, <1>1, <1>2, <1>13 DEF ChangePassword, PasswordChanged
<1> QED BY <1>4, <1>5, <1>8, <1>9, <1>10, <1>11, <1>12, <1>13 DEF Next, Client

LEMMA NextFlagged == ASSUME IInv, Flagged, [Next]_vars PROVE Flagged'
<1> USE DEF server, client, history
<1>0. HandedOut' /\ picked \subseteq picked'
  <2>1. picked \subseteq picked'
    BY DEF Next, Administrator, CreateUser, BatchCreateUsers, UpdateUser, DeleteUser,
           ResetPassword, Service, WriteReset, MailReset, WriteUpdate, ReadChange,
           WriteChange, Login, RestartService, Client, Submit, SubmitUnread,
           LookupTenants, SelectTenant, LoggedIn, OfflineLogin, LoginFails, Enter,
           ChangePassword, PasswordChanged, ChangeFails, Skip, Restart, vars
  <2> QED BY <2>1, HandedOutKept
<1>1. CASE UNCHANGED vars
  BY <1>0, <1>1, CallsEnd DEF vars, Flagged
<1>2. CASE Login
  BY <1>0, <1>2, CallsEnd DEF Login, Flagged
<1>3. CASE RestartService
  <2>1. ASSUME NEW c \in Call
        PROVE  \/ calls'[c] = calls[c]
               \/ calls'[c] = Idle
               \/ /\ calls'[c].phase \notin {"read", "written"}
                  /\ calls'[c].kind = calls[c].kind /\ calls'[c].row = calls[c].row
                  /\ calls'[c].tenant = calls[c].tenant
    BY <1>3, Numbers DEF RestartService, Ended, CallState
  <2> QED BY <1>0, <1>3, <2>1, CallsEnd DEF RestartService, Flagged
<1> QED BY <1>0, <1>1, <1>2, <1>3, AdministratorFlagged, ServiceFlagged, ClientFlagged
        DEF Next, Service, Flagged

(* A temporary password that was mailed has to be changed as long as it is *)
(* the password of a row: no save of a row read before, of a form or of a  *)
(* password changed meanwhile, brings the password back without its flag   *)
(* or takes the flag from it (ResetAndSendPassword, BatchResetPassword,    *)
(* UpdateUser, ChangePassword), unless the user chose it as the new one.   *)
THEOREM MailedMustChangeHolds == Spec => []MailedMustChange
<1>1. Flagged => MailedMustChange
  BY DEF Flagged, Flags, RowOK, FlagOK, Temporary, MailedMustChange
<1> QED BY <1>1, InitFlagged, NextFlagged, Invariant, PTL DEF Spec

-----------------------------------------------------------------------------
(* The pages count by the definition of FiniteSets, which is theirs.       *)
LEMMA UserCardinality ==
    ASSUME NEW S
    PROVE  Users!Cardinality(S) = Cardinality(S)
BY DEF Users!Cardinality, Cardinality

LEMMA ProjectCardinality ==
    ASSUME NEW S
    PROVE  Projects!Cardinality(S) = Cardinality(S)
BY DEF Projects!Cardinality, Cardinality

-----------------------------------------------------------------------------
(* Counting.                                                               *)

(* If the elements of a finite set have different ranks below their        *)
(* number, every rank below it is that of an element.                      *)
LEMMA EachRank ==
    ASSUME NEW S, IsFiniteSet(S), NEW rank \in [S -> 0 .. Cardinality(S) - 1],
           \A x, y \in S : rank[x] = rank[y] => x = y,
           NEW k \in 0 .. Cardinality(S) - 1
    PROVE  \E x \in S : rank[x] = k
<1> DEFINE n == Cardinality(S)
           T == 0 .. n - 1
<1>1. n \in Nat
  BY FS_CardinalityType
<1>2. IsFiniteSet(T) /\ Cardinality(T) = n
  <2> HIDE DEF n
  <2>1. n - 1 \in Int /\ 0 \in Int
    BY <1>1
  <2>2. /\ IsFiniteSet(0 .. n - 1)
        /\ Cardinality(0 .. n - 1) = IF 0 > n - 1 THEN 0 ELSE n - 1 - 0 + 1
    BY <2>1, FS_Interval
  <2> QED BY <1>1, <2>2
<1>3. rank \in Injection(S, T)
  BY DEF Injection, IsInjective
<1>4. rank \in Surjection(S, T)
  BY <1>2, <1>3, FS_Injection
<1> QED BY <1>4 DEF Surjection

LEMMA Within ==
    ASSUME NEW n \in Nat, NEW D \in SUBSET (1 .. n)
    PROVE  IsFiniteSet(D) /\ Cardinality(D) \in 0 .. n
<1>1. IsFiniteSet(1 .. n) /\ Cardinality(1 .. n) = n
  <2>1. IsFiniteSet(1 .. n) /\ Cardinality(1 .. n) = IF 1 > n THEN 0 ELSE n - 1 + 1
    BY FS_Interval
  <2> QED BY <2>1
<1>2. IsFiniteSet(D) /\ Cardinality(D) <= n
  BY <1>1, FS_Subset
<1> QED BY <1>2, FS_CardinalityType

LEMMA FewerWithout ==
    ASSUME NEW S, IsFiniteSet(S), NEW x \in S, NEW T \in SUBSET (S \ {x})
    PROVE  Cardinality(T) \in Nat /\ Cardinality(T) < Cardinality(S)
<1>1. IsFiniteSet(S \ {x}) /\ Cardinality(S \ {x}) = Cardinality(S) - 1
  BY FS_RemoveElement
<1>2. IsFiniteSet(T) /\ Cardinality(T) <= Cardinality(S \ {x})
  BY <1>1, FS_Subset
<1> QED BY <1>1, <1>2, FS_CardinalityType

LEMMA MakeSeq ==
    ASSUME NEW S, NEW n \in Int, NEW f \in [1 .. n -> S]
    PROVE  f \in Seq(S) /\ DOMAIN f = 1 .. Len(f) /\ Len(f) = IF n < 0 THEN 0 ELSE n
<1>1. f \in [1 .. (IF n < 0 THEN 0 ELSE n) -> S]
  <2>1. 1 .. (IF n < 0 THEN 0 ELSE n) = 1 .. n
    OBVIOUS
  <2> QED BY <2>1
<1>2. (IF n < 0 THEN 0 ELSE n) \in Nat
  OBVIOUS
<1>3. f \in Seq(S)
  BY <1>1, <1>2, SeqDef
<1>4. DOMAIN f = 1 .. (IF n < 0 THEN 0 ELSE n) /\ DOMAIN f = 1 .. Len(f) /\ Len(f) \in Nat
  BY <1>1, <1>3, LenProperties
<1> QED BY <1>2, <1>3, <1>4

-----------------------------------------------------------------------------
(* The users: what a list that is shown, or on its way, looks like.        *)
UserList(list, n) ==
    /\ list \in Seq(Users!Shown) /\ Len(list) <= PageSize
    /\ \A i, j \in DOMAIN list : i # j => list[i].id # list[j].id
    /\ \A i \in DOMAIN list : list[i].id <= n

UserTable ==
    /\ DOMAIN uRows \subseteq 1 .. uBorn /\ uBorn \in 0 .. MaxUsers
    /\ uRows \in [DOMAIN uRows -> Users!Row]
    /\ uWanted \in [1 .. uBorn -> Users!Wish]
    /\ uRaced \subseteq 1 .. uBorn

LEMMA UserBounds ==
    /\ MaxUsers \in Nat /\ MaxOps \in Nat /\ PageSize \in Nat /\ PageSize >= 1
BY BoundAssumption, PageSizeAssumption

LEMMA SliceIs ==
    ASSUME UserTable, NEW p \in 1 .. MaxUsers + 1
    PROVE  /\ UserList(Users!Slice(p), uBorn)
           /\ IsFiniteSet(DOMAIN uRows) /\ Cardinality(DOMAIN uRows) \in 0 .. MaxUsers
<1> DEFINE D == DOMAIN uRows
           n == Cardinality(D)
           before(u) == Cardinality({v \in D : v > u})
           first == (p - 1) * PageSize
           len == Users!Least(PageSize, n - first)
           ch(i) == CHOOSE v \in D : before(v) = first + i - 1
           rank == [u \in D |-> before(u)]
<1>1. /\ uBorn \in Nat /\ D \subseteq 1 .. uBorn /\ uBorn <= MaxUsers /\ p \in Nat /\ p >= 1
      /\ PageSize \in Nat /\ MaxUsers \in Nat
  BY UserBounds DEF UserTable
<1>2. IsFiniteSet(D) /\ n \in Nat /\ n <= MaxUsers
  BY <1>1, Within
<1>3. ASSUME NEW u \in D
      PROVE  IsFiniteSet({v \in D : v > u}) /\ before(u) \in 0 .. n - 1
  <2>1. {v \in D : v > u} \in SUBSET (D \ {u})
    BY <1>1
  <2>2. before(u) \in Nat /\ before(u) < n
    BY <1>2, <2>1, FewerWithout
  <2>3. IsFiniteSet({v \in D : v > u})
    BY <1>2, FS_Subset
  <2> QED BY <1>2, <2>2, <2>3
<1>4. ASSUME NEW u \in D, NEW w \in D, u < w
      PROVE  before(w) < before(u)
  <2>1. /\ w \in {v \in D : v > u}
        /\ {v \in D : v > w} \in SUBSET ({v \in D : v > u} \ {w})
    BY <1>1, <1>4
  <2> HIDE DEF D
  <2> QED BY <1>3, <2>1, FewerWithout
<1>5. ASSUME NEW u \in D, NEW w \in D, before(u) = before(w)
      PROVE  u = w
  <2>1. u \in Nat /\ w \in Nat
    BY <1>1
  <2>2. before(u) \in 0 .. n - 1 /\ before(w) \in 0 .. n - 1
    BY <1>3
  <2> HIDE DEF before, n, D
  <2>3. ~(u < w) /\ ~(w < u)
    BY <1>4, <1>5, <2>2
  <2> QED BY <2>1, <2>3
<1>6. ASSUME NEW k \in 0 .. n - 1
      PROVE  \E v \in D : before(v) = k
  <2>1. rank \in [D -> 0 .. n - 1] /\ \A u \in D : rank[u] = before(u)
    BY <1>3
  <2>2. \A u, w \in D : rank[u] = rank[w] => u = w
    BY <1>5, <2>1
  <2> HIDE DEF rank, before, D
  <2>3. \E v \in D : rank[v] = k
    BY <1>2, <1>6, <2>1, <2>2, EachRank
  <2> QED BY <2>1, <2>3
<1>7. first \in Nat /\ len \in Int /\ len <= PageSize /\ len <= n - first
  <2>1. first \in Nat
    BY <1>1
  <2> HIDE DEF first
  <2> QED BY <1>1, <1>2, <2>1 DEF Users!Least
<1>8. ASSUME NEW i \in 1 .. len
      PROVE  ch(i) \in D /\ before(ch(i)) = first + i - 1
  <2> HIDE DEF before, first, len
  <2>1. first + i - 1 \in 0 .. n - 1
    BY <1>2, <1>7
  <2>2. \E v \in D : before(v) = first + i - 1
    BY <1>6, <2>1
  <2> QED BY <2>2
<1> DEFINE s == [i \in 1 .. len |-> [id |-> ch(i), row |-> uRows[ch(i)]]]
<1>9. Users!Slice(p) = s
  BY UserCardinality DEF Users!Slice
<1> HIDE DEF ch, len, first, before
<1>10. \A i \in 1 .. len : s[i].id = ch(i) /\ s[i] \in Users!Shown
  <2> SUFFICES ASSUME NEW i \in 1 .. len
               PROVE  s[i].id = ch(i) /\ s[i] \in Users!Shown
    OBVIOUS
  <2>1. ch(i) \in D /\ ch(i) \in 1 .. MaxUsers
    BY <1>1, <1>8
  <2>2. uRows[ch(i)] \in Users!Row
    BY <2>1 DEF UserTable
  <2> QED BY <2>1, <2>2 DEF Users!Shown, Users!User
<1>11. s \in [1 .. len -> Users!Shown]
  BY <1>10
<1> HIDE DEF s
<1>12. /\ s \in Seq(Users!Shown) /\ DOMAIN s = 1 .. len
       /\ Len(s) = IF len < 0 THEN 0 ELSE len
  BY <1>7, <1>11, MakeSeq
<1>13. Len(s) <= PageSize
  BY <1>1, <1>7, <1>12
<1>14. \A i, j \in DOMAIN s : i # j => s[i].id # s[j].id
  <2> SUFFICES ASSUME NEW i \in 1 .. len, NEW j \in 1 .. len, ch(i) = ch(j)
               PROVE  i = j
    BY <1>10, <1>12
  <2>1. first + i - 1 = first + j - 1
    BY <1>8
  <2> QED BY <1>7, <2>1
<1>15. \A i \in DOMAIN s : s[i].id <= uBorn
  BY <1>1, <1>8, <1>10, <1>12
<1> QED BY <1>1, <1>2, <1>9, <1>12, <1>13, <1>14, <1>15 DEF UserList

-----------------------------------------------------------------------------
(* The users: the types.  A call that was sent bears ids that were given,  *)
(* and the dialog that waits for it waits for no other.                    *)
Carried(r, n) ==
    /\ r \in Users!CallState /\ r.user <= n
    /\ r.kind \in {"create", "batch"} => r.patch \in Users!Row
    /\ r.kind = "update" => r.user # Users!Nobody
    /\ r.kind = "batch" => r.dialog = "create"
    /\ r.kind \in {"none", "list"} => r.dialog = "none"
    /\ UserList(r.answer, n)

UserCalls ==
    /\ uCalls = [c \in PageCall |-> uCalls[c]]
    /\ \A c \in PageCall : Carried(uCalls[c], uBorn)
    /\ \A c, d \in PageCall : uCalls[c].dialog = uCalls[d].dialog => uCalls[c].dialog = "none" \/ c = d

Waits(dialog, r) == r.busy <=> \E c \in PageCall : uCalls[c].dialog = dialog
Filled(r) == "dept" \in r.touched => r.form.dept # Unset

UserDialogs ==
    /\ uEditing \in Users!Form /\ uCreating \in Users!Form /\ uEditing.user <= uBorn
    /\ Filled(uEditing)
    /\ Waits("edit", uEditing) /\ Waits("create", uCreating)

UserShown ==
    /\ UserList(users, uBorn) /\ totalCount \in 0 .. MaxUsers
    /\ page \in 1 .. MaxUsers + 1 /\ sort \in Users!Column /\ uLoading \in BOOLEAN

UserTypes ==
    /\ UserTable /\ UserCalls /\ UserDialogs /\ UserShown
    /\ uOps \in 0 .. MaxOps /\ uStrayed \in BOOLEAN

LEMMA UserTypesAreTypes == UserTypes => Users!TypeOK
<1> SUFFICES ASSUME UserTypes PROVE Users!TypeOK
  OBVIOUS
<1>1. uCalls \in [PageCall -> Users!CallState]
  BY DEF UserTypes, UserCalls, Carried
<1> QED BY <1>1 DEF UserTypes, UserTable, UserDialogs, UserShown, UserList, Waits, Users!TypeOK

LEMMA MoreUsers ==
    ASSUME NEW n \in Int, NEW m \in Int, n <= m
    PROVE  /\ \A list : UserList(list, n) => UserList(list, m)
           /\ \A r : Carried(r, n) => Carried(r, m)
<1>1. ASSUME NEW list, UserList(list, n)
      PROVE  UserList(list, m)
  <2>1. \A i \in DOMAIN list : list[i].id \in Nat /\ list[i].id <= n
    <3> SUFFICES ASSUME NEW i \in DOMAIN list
                 PROVE  list[i].id \in Nat /\ list[i].id <= n
      OBVIOUS
    <3>1. list[i] \in Users!Shown
      BY <1>1 DEF UserList
    <3> QED BY <1>1, <3>1 DEF UserList, Users!Shown, Users!User
  <2>2. \A i \in DOMAIN list : list[i].id <= m
    BY <2>1
  <2> QED BY <1>1, <2>2 DEF UserList
<1>2. ASSUME NEW r, Carried(r, n)
      PROVE  Carried(r, m)
  <2>1. r.user \in Nat
    BY <1>2 DEF Carried, Users!CallState, Users!User, Users!Nobody
  <2>2. r.user <= m
    BY <1>2, <2>1 DEF Carried
  <2> QED BY <1>1, <1>2, <2>2 DEF Carried
<1> QED BY <1>1, <1>2

LEMMA NoUsers ==
    ASSUME NEW n
    PROVE  UserList(<<>>, n)
BY UserBounds DEF UserList

LEMMA RowsArePatches == Users!Row \subseteq Users!Patch /\ Users!NoPatch \in Users!Patch
    /\ Users!Blank \in Users!Row /\ Users!Row \subseteq Users!Wish
BY DEF Users!Row, Users!Patch, Users!NoPatch, Users!Role, Users!Blank, Users!Wish

LEMMA PatchedIs ==
    ASSUME NEW row \in Users!Row, NEW patch \in Users!Patch
    PROVE  Users!Patched(row, patch) \in Users!Row
BY DEF Users!Patched, Users!Row, Users!Patch

LEMMA IdleIs ==
    /\ Users!Idle \in Users!CallState /\ Users!Idle.dialog = "none" /\ Users!Idle.kind = "none"
    /\ Users!Idle.user = Users!Nobody /\ Users!Idle.answer = <<>> /\ Users!Idle.phase = "sent"
    /\ Users!Idle.total = 0 /\ Users!Idle.old = FALSE /\ Users!Idle.patch = Users!NoPatch
<1>1. <<>> \in Seq(Users!Shown) /\ 0 \in 0 .. MaxUsers /\ 1 \in 1 .. MaxUsers + 1
  BY UserBounds
<1> QED BY <1>1, RowsArePatches DEF Users!Idle, Users!CallState, Users!Column

LEMMA IdleCarried ==
    ASSUME uBorn \in Nat
    PROVE  Carried(Users!Idle, uBorn)
BY IdleIs, NoUsers DEF Carried, Users!Nobody

-----------------------------------------------------------------------------
(* The users: a call is sent.                                              *)
UserWaitedFor(dialog) == \E c \in PageCall : uCalls[c].dialog = dialog

LEMMA SentCall ==
    ASSUME UserTypes, NEW c \in PageCall, NEW r, Users!Send(c, r), Carried(r, uBorn),
           uBorn' = uBorn,
           r.dialog # "none" => ~UserWaitedFor(r.dialog)
    PROVE  /\ UserCalls' /\ uOps' \in 0 .. MaxOps
           /\ \A d \in PageCall : uCalls'[d] = IF d = c THEN r ELSE uCalls[d]
           /\ uCalls[c].dialog = "none"
           /\ UserWaitedFor("edit")' <=> (UserWaitedFor("edit") \/ r.dialog = "edit")
           /\ UserWaitedFor("create")' <=> (UserWaitedFor("create") \/ r.dialog = "create")
<1>1. /\ uCalls' = [d \in PageCall |-> IF d = c THEN r ELSE uCalls[d]]
      /\ uCalls[c] = Users!Idle
  BY DEF Users!Send, UserTypes, UserCalls
<1>2. uOps' \in 0 .. MaxOps
  BY UserBounds DEF Users!Send, Users!Operate, UserTypes
<1>3. \A d \in PageCall : uCalls'[d] = IF d = c THEN r ELSE uCalls[d]
  BY <1>1
<1>4. uCalls[c].dialog = "none"
  BY <1>1 DEF Users!Idle
<1>5. \A d \in PageCall : Carried(uCalls'[d], uBorn)
  BY <1>3 DEF UserTypes, UserCalls
<1>6. ASSUME NEW x \in PageCall, NEW y \in PageCall, uCalls'[x].dialog = uCalls'[y].dialog
      PROVE  uCalls'[x].dialog = "none" \/ x = y
  BY <1>3, <1>6 DEF UserTypes, UserCalls, UserWaitedFor
<1>7. UserCalls'
  <2>1. uCalls' = [d \in PageCall |-> uCalls'[d]]
    BY <1>1
  <2>2. \A d \in PageCall : Carried(uCalls[d], uBorn)'
    BY <1>5 DEF Carried, UserList
  <2> QED BY <1>6, <2>1, <2>2 DEF UserCalls
<1>8. UserWaitedFor("edit")' <=> (UserWaitedFor("edit") \/ r.dialog = "edit")
  BY <1>3, <1>4 DEF UserWaitedFor
<1>9. UserWaitedFor("create")' <=> (UserWaitedFor("create") \/ r.dialog = "create")
  BY <1>3, <1>4 DEF UserWaitedFor
<1> QED BY <1>2, <1>3, <1>4, <1>7, <1>8, <1>9

LEMMA PlainSend ==
    ASSUME UserTypes, NEW c \in PageCall, NEW r, Users!Send(c, r), Carried(r, uBorn),
           r.dialog = "none",
           UNCHANGED <<uRows, uBorn, users, totalCount, page, uLoading, Users!dialogs, uStrayed>>,
           sort' \in Users!Column, uWanted' \in [1 .. uBorn -> Users!Wish], uRaced' \subseteq 1 .. uBorn
    PROVE  UserTypes'
<1>1. /\ UserCalls' /\ uOps' \in 0 .. MaxOps
      /\ UserWaitedFor("edit")' <=> UserWaitedFor("edit")
      /\ UserWaitedFor("create")' <=> UserWaitedFor("create")
  BY SentCall
<1>2. UserTable'
  BY DEF UserTypes, UserTable
<1>3. UserShown'
  BY DEF UserTypes, UserShown, UserList
<1>4. uEditing' = uEditing /\ uCreating' = uCreating
  BY DEF Users!dialogs
<1>5. UserDialogs'
  BY <1>1, <1>4 DEF UserTypes, UserDialogs, Waits, UserWaitedFor
<1> QED BY <1>1, <1>2, <1>3, <1>5 DEF UserTypes

LEMMA UserFacts ==
    ASSUME UserTypes
    PROVE  /\ uBorn \in Nat /\ Users!Nobody \in 0 .. uBorn /\ Users!NoPatch \in Users!Patch
           /\ \A i \in DOMAIN users : users[i].id \in 1 .. uBorn /\ users[i].row \in Users!Row
           /\ page \in Nat /\ totalCount \in Nat /\ MaxUsers \in Nat /\ PageSize \in Nat
           /\ uWanted \in [1 .. uBorn -> Users!Wish] /\ uRaced \subseteq 1 .. uBorn
           /\ sort \in Users!Column
           /\ page \in 1 .. MaxUsers + 1 /\ DOMAIN uWanted = 1 .. uBorn
           /\ uEditing.user \in 0 .. uBorn /\ uEditing.form \in Users!Row
           /\ uCreating.form \in Users!Row
           /\ DOMAIN uRows \subseteq 1 .. uBorn
<1>1. ASSUME NEW i \in DOMAIN users
      PROVE  users[i].id \in 1 .. uBorn /\ users[i].row \in Users!Row
  <2>1. users[i] \in Users!Shown /\ users[i].id <= uBorn
    BY DEF UserTypes, UserShown, UserList
  <2> QED BY <2>1, UserBounds DEF UserTypes, UserTable, Users!Shown, Users!User
<1>2. uEditing.user \in 0 .. uBorn
  BY UserBounds DEF UserTypes, UserDialogs, UserTable, Users!Form, Users!User, Users!Nobody
<1>3. uBorn \in Nat /\ Users!Nobody \in 0 .. uBorn
  BY DEF UserTypes, UserTable, Users!Nobody
<1>4. uEditing.form \in Users!Row /\ uCreating.form \in Users!Row
  BY DEF UserTypes, UserDialogs, Users!Form
<1> QED BY <1>1, <1>2, <1>3, <1>4, UserBounds, RowsArePatches
        DEF UserTypes, UserTable, UserShown

LEMMA HandleSortTypes ==
    ASSUME UserTypes, NEW c \in PageCall, NEW column \in {"position", "department"},
           Users!HandleSort(c, column)
    PROVE  UserTypes'
<1> DEFINE r == [Users!Idle EXCEPT !.kind = "list", !.sort = column]
<1>1. Users!Send(c, r)
  BY DEF Users!HandleSort
<1>2. /\ r \in Users!CallState /\ r.kind = "list" /\ r.dialog = Users!Idle.dialog
      /\ r.answer = Users!Idle.answer /\ r.user = Users!Idle.user
  BY IdleIs DEF Users!CallState, Users!Column
<1>3. column \in Users!Column
  BY DEF Users!Column
<1> HIDE DEF r
<1>4. Carried(r, uBorn) /\ r.dialog = "none"
  BY <1>2, IdleIs, NoUsers, UserFacts DEF Carried, Users!Nobody
<1> QED BY <1>1, <1>3, <1>4, PlainSend, UserFacts DEF Users!HandleSort, Users!table, Users!history

LEMMA TurnPageTypes ==
    ASSUME UserTypes, NEW c \in PageCall, NEW p \in {page - 1, page + 1}, Users!TurnPage(c, p)
    PROVE  UserTypes'
<1> DEFINE r == [Users!Ask("list") EXCEPT !.page = p]
<1>1. Users!Send(c, r)
  BY DEF Users!TurnPage
<1>2. p \in 1 .. MaxUsers + 1
  <2>1. page \in 1 .. MaxUsers + 1 /\ totalCount \in 0 .. MaxUsers
    BY DEF UserTypes, UserShown
  <2>2. CASE p = page - 1 /\ page # 1
    BY <2>1, <2>2, UserBounds
  <2>3. CASE p = page + 1 /\ page * PageSize < totalCount
    <3>1. page \in Nat /\ page >= 1 /\ PageSize \in Nat /\ PageSize >= 1
      BY <2>1, UserBounds
    <3>2. page * PageSize >= page
      BY <3>1
    <3>3. page * PageSize \in Nat
      BY <3>1
    <3> HIDE <3>1
    <3> QED BY <2>1, <2>3, <3>2, <3>3, UserBounds
  <2> QED BY <2>2, <2>3 DEF Users!TurnPage
<1>3. /\ r \in Users!CallState /\ r.kind = "list" /\ r.dialog = Users!Idle.dialog
      /\ r.answer = Users!Idle.answer /\ r.user = Users!Idle.user
  BY <1>2, IdleIs, UserFacts DEF Users!CallState, Users!Ask
<1> HIDE DEF r
<1>4. Carried(r, uBorn) /\ r.dialog = "none"
  BY <1>3, IdleIs, NoUsers, UserFacts DEF Carried, Users!Nobody
<1> QED BY <1>1, <1>4, PlainSend, UserFacts
           DEF Users!TurnPage, Users!table, Users!shown, Users!history

(* What was last chosen for a user, field by field.                        *)
LEMMA ChooseIs ==
    ASSUME UserTypes, NEW u \in 1 .. uBorn, NEW choice \in Users!Patch,
           NEW fields \in SUBSET {"dept", "position", "role"},
           "role" \in fields => choice.role \in Users!Role,
           Users!Choose(u, choice, fields)
    PROVE  /\ uWanted' \in [1 .. uBorn -> Users!Wish] /\ uRaced' \subseteq 1 .. uBorn
           /\ \A v \in 1 .. uBorn : v # u => uWanted'[v] = uWanted[v]
           /\ uWanted'[u].dept = IF "dept" \in fields THEN choice.dept ELSE uWanted[u].dept
           /\ uWanted'[u].role = IF "role" \in fields THEN choice.role ELSE uWanted[u].role
           /\ uWanted'[u].position = IF "position" \notin fields THEN uWanted[u].position
                                     ELSE IF choice.position = Unset THEN Users!Emptied
                                     ELSE choice.position
<1>1. uWanted \in [1 .. uBorn -> Users!Wish] /\ uRaced \subseteq 1 .. uBorn
  BY UserFacts
<1>2. PICK w \in Users!Wish : w = uWanted[u]
  BY <1>1
<1> DEFINE new == [dept |-> IF "dept" \in fields THEN choice.dept ELSE w.dept,
                   position |-> IF "position" \notin fields THEN w.position
                                ELSE IF choice.position = Unset THEN Users!Emptied
                                ELSE choice.position,
                   role |-> IF "role" \in fields THEN choice.role ELSE w.role]
<1>3. new \in Users!Wish
  BY <1>2 DEF Users!Patch, Users!Wish
<1>4. /\ new.dept = IF "dept" \in fields THEN choice.dept ELSE w.dept
      /\ new.role = IF "role" \in fields THEN choice.role ELSE w.role
      /\ new.position = IF "position" \notin fields THEN w.position
                        ELSE IF choice.position = Unset THEN Users!Emptied ELSE choice.position
  OBVIOUS
<1>5. uWanted' = [uWanted EXCEPT ![u] = new]
  BY <1>1, <1>2 DEF Users!Choose
<1> HIDE DEF new
<1>6. uRaced' \subseteq 1 .. uBorn
  BY <1>1 DEF Users!Choose
<1> QED BY <1>1, <1>2, <1>3, <1>4, <1>5, <1>6

LEMMA HandleUpdateTypes ==
    ASSUME UserTypes, NEW c \in PageCall, NEW i \in DOMAIN users, NEW patch \in Users!Patches,
           Users!HandleUpdate(c, i, patch)
    PROVE  UserTypes'
<1> DEFINE u == users[i].id
           r == [Users!Ask("update") EXCEPT !.user = u, !.patch = patch]
<1>1. /\ Users!Send(c, r)
      /\ Users!Choose(u, patch, IF patch.dept = Unset THEN {"position"} ELSE {"dept"})
  BY DEF Users!HandleUpdate
<1>2. patch \in Users!Patch /\ u \in 1 .. uBorn /\ u \in Users!User \cup {Users!Nobody} /\ u # Users!Nobody
  <2>1. patch \in Users!Patch
    BY RowsArePatches DEF Users!Patches, Users!Patch, Users!NoPatch
  <2>2. u \in 1 .. uBorn
    BY UserFacts
  <2> QED BY <2>1, <2>2, UserFacts DEF UserTypes, UserTable, Users!User, Users!Nobody
<1>3. /\ r \in Users!CallState /\ r.kind = "update" /\ r.dialog = Users!Idle.dialog
      /\ r.answer = Users!Idle.answer /\ r.user = u
  BY <1>2, IdleIs, UserFacts DEF Users!CallState, Users!Ask
<1> HIDE DEF r
<1>4. Carried(r, uBorn) /\ r.dialog = "none"
  BY <1>2, <1>3, IdleIs, NoUsers, UserFacts DEF Carried
<1>5. uWanted' \in [1 .. uBorn -> Users!Wish] /\ uRaced' \subseteq 1 .. uBorn
  BY <1>1, <1>2, ChooseIs
<1> QED BY <1>1, <1>4, <1>5, PlainSend, UserFacts DEF Users!HandleUpdate, Users!table, Users!shown

LEMMA HandleDeleteTypes ==
    ASSUME UserTypes, NEW c \in PageCall, NEW i \in DOMAIN users, Users!HandleDeleteUser(c, i)
    PROVE  UserTypes'
<1> DEFINE u == users[i].id
           r == [Users!Ask("delete") EXCEPT !.user = u]
<1>1. Users!Send(c, r)
  BY DEF Users!HandleDeleteUser
<1>2. u \in 1 .. uBorn /\ u \in Users!User \cup {Users!Nobody}
  <2>1. u \in 1 .. uBorn
    BY UserFacts
  <2> QED BY <2>1, UserFacts DEF UserTypes, UserTable, Users!User
<1>3. /\ r \in Users!CallState /\ r.kind = "delete" /\ r.dialog = Users!Idle.dialog
      /\ r.answer = Users!Idle.answer /\ r.user = u
  BY <1>2, IdleIs, UserFacts DEF Users!CallState, Users!Ask
<1> HIDE DEF r
<1>4. Carried(r, uBorn) /\ r.dialog = "none"
  BY <1>2, <1>3, IdleIs, NoUsers, UserFacts DEF Carried
<1> QED BY <1>1, <1>4, PlainSend, UserFacts
           DEF Users!HandleDeleteUser, Users!table, Users!shown, Users!history

LEMMA HandleBatchResetTypes ==
    ASSUME UserTypes, NEW c \in PageCall, Users!HandleBatchReset(c)
    PROVE  UserTypes'
<1> DEFINE r == Users!Ask("reset")
<1>1. Users!Send(c, r)
  BY DEF Users!HandleBatchReset
<1>2. /\ r \in Users!CallState /\ r.kind = "reset" /\ r.dialog = Users!Idle.dialog
      /\ r.answer = Users!Idle.answer /\ r.user = Users!Idle.user
  BY IdleIs, UserFacts DEF Users!CallState, Users!Ask
<1> HIDE DEF r
<1>3. Carried(r, uBorn) /\ r.dialog = "none"
  BY <1>2, IdleIs, NoUsers, UserFacts DEF Carried, Users!Nobody
<1> QED BY <1>1, <1>3, PlainSend, UserFacts
           DEF Users!HandleBatchReset, Users!table, Users!shown, Users!history

-----------------------------------------------------------------------------
(* The users: the dialogs.                                                 *)

LEMMA HandleSubmitTypes ==
    ASSUME UserTypes, NEW c \in PageCall, Users!HandleSubmit(c)
    PROVE  UserTypes'
<1> DEFINE u == uEditing.user
           r == [Users!Ask("update") EXCEPT !.dialog = "edit", !.user = u, !.patch = uEditing.form]
<1>1. Users!Send(c, r) /\ Users!Choose(u, uEditing.form, uEditing.touched) /\ u \in 1 .. uBorn
  BY UserFacts DEF Users!HandleSubmit
<1>2. uEditing.form \in Users!Patch /\ u \in Users!User \cup {Users!Nobody} /\ u # Users!Nobody
  BY <1>1, UserFacts, RowsArePatches DEF UserTypes, UserTable, Users!User, Users!Nobody
<1>3. /\ r \in Users!CallState /\ r.kind = "update" /\ r.dialog = "edit"
      /\ r.answer = Users!Idle.answer /\ r.user = u
  BY <1>2, IdleIs, UserFacts DEF Users!CallState, Users!Ask
<1> HIDE DEF r
<1>4. Carried(r, uBorn)
  BY <1>1, <1>2, <1>3, IdleIs, NoUsers, UserFacts DEF Carried
<1>5. ~UserWaitedFor("edit")
  BY DEF Users!HandleSubmit, UserTypes, UserDialogs, Waits, UserWaitedFor
<1>6. uBorn' = uBorn /\ uRows' = uRows /\ uEditing' = [uEditing EXCEPT !.busy = TRUE]
      /\ uCreating' = uCreating /\ UNCHANGED <<Users!shown, uStrayed>>
  BY DEF Users!HandleSubmit, Users!table
<1>7. /\ UserCalls' /\ uOps' \in 0 .. MaxOps
      /\ UserWaitedFor("edit")' /\ (UserWaitedFor("create")' <=> UserWaitedFor("create"))
  BY <1>1, <1>3, <1>4, <1>5, <1>6, SentCall
<1>8. uEditing.form.role \in Users!Role /\ uEditing.touched \in SUBSET {"dept", "position", "role"}
  BY DEF UserTypes, UserDialogs, Users!Form, Users!Row
<1>9. uWanted' \in [1 .. uBorn -> Users!Wish] /\ uRaced' \subseteq 1 .. uBorn
  BY <1>1, <1>2, <1>8, ChooseIs
<1>10. UserTable'
  BY <1>6, <1>9 DEF UserTypes, UserTable
<1>11. UserShown'
  BY <1>6 DEF UserTypes, UserShown, UserList, Users!shown
<1>12. /\ uEditing' \in Users!Form /\ uEditing'.busy = TRUE /\ uEditing'.user = u
       /\ Filled(uEditing')
  BY <1>6 DEF UserTypes, UserDialogs, Users!Form, Filled
<1>13. UserDialogs'
  BY <1>6, <1>7, <1>12 DEF UserTypes, UserDialogs, Waits, UserWaitedFor
<1> QED BY <1>6, <1>7, <1>10, <1>11, <1>13 DEF UserTypes

(* CreateUserModal sends a call.                                           *)
LEMMA CreatingSends ==
    ASSUME UserTypes, NEW c \in PageCall, NEW r, Users!Send(c, r), Carried(r, uBorn),
           r.dialog = "create", ~uCreating.busy,
           uCreating' = [uCreating EXCEPT !.busy = TRUE],
           UNCHANGED <<uRows, uBorn, users, totalCount, page, sort, uLoading, uEditing,
                       uWanted, uStrayed>>,
           uRaced' \subseteq 1 .. uBorn
    PROVE  UserTypes'
<1>1. ~UserWaitedFor("create")
  BY DEF UserTypes, UserDialogs, Waits, UserWaitedFor
<1>2. /\ UserCalls' /\ uOps' \in 0 .. MaxOps
      /\ UserWaitedFor("create")' /\ (UserWaitedFor("edit")' <=> UserWaitedFor("edit"))
  BY <1>1, SentCall
<1>3. UserTable'
  BY DEF UserTypes, UserTable
<1>4. UserShown'
  BY DEF UserTypes, UserShown, UserList
<1>5. uCreating' \in Users!Form /\ uCreating'.busy = TRUE
  BY DEF UserTypes, UserDialogs, Users!Form
<1>6. UserDialogs'
  BY <1>2, <1>5 DEF UserTypes, UserDialogs, Waits, UserWaitedFor
<1> QED BY <1>2, <1>3, <1>4, <1>6 DEF UserTypes

LEMMA HandleSingleSubmitTypes ==
    ASSUME UserTypes, NEW c \in PageCall, Users!HandleSingleSubmit(c)
    PROVE  UserTypes'
<1> DEFINE r == [Users!Ask("create") EXCEPT !.dialog = "create", !.patch = uCreating.form]
<1>1. Users!Send(c, r)
  BY DEF Users!HandleSingleSubmit
<1>2. uCreating.form \in Users!Patch /\ uCreating.form \in Users!Row
  BY UserFacts, RowsArePatches
<1>3. /\ r \in Users!CallState /\ r.kind = "create" /\ r.dialog = "create"
      /\ r.answer = Users!Idle.answer /\ r.user = Users!Idle.user /\ r.patch = uCreating.form
  BY <1>2, IdleIs, UserFacts DEF Users!CallState, Users!Ask
<1> HIDE DEF r
<1>4. Carried(r, uBorn)
  BY <1>2, <1>3, IdleIs, NoUsers, UserFacts DEF Carried, Users!Nobody
<1> QED BY <1>1, <1>3, <1>4, CreatingSends, UserFacts
        DEF Users!HandleSingleSubmit, Users!table, Users!shown, Users!history

LEMMA HandleBulkSubmitTypes ==
    ASSUME UserTypes, NEW c \in PageCall, NEW u \in DOMAIN uRows \cup {Users!Nobody},
           NEW v \in Name \cup {Unset}, NEW replace \in BOOLEAN,
           Users!HandleBulkSubmit(c, u, [Users!Blank EXCEPT !.dept = v], replace)
    PROVE  UserTypes'
<1> DEFINE row == [Users!Blank EXCEPT !.dept = v]
           r == [Users!Ask("batch") EXCEPT !.dialog = "create", !.user = u,
                                     !.patch = row, !.replace = replace]
<1>1. Users!Send(c, r)
  BY DEF Users!HandleBulkSubmit
<1>2. row \in Users!Row
  BY DEF Users!Blank, Users!Row, Users!Role
<1> HIDE DEF row
<1>3. row \in Users!Patch /\ u \in 0 .. uBorn /\ u \in Users!User \cup {Users!Nobody}
  BY <1>2, UserFacts, RowsArePatches DEF Users!User, Users!Nobody, UserTypes, UserTable
<1>4. /\ r \in Users!CallState /\ r.kind = "batch" /\ r.dialog = "create"
      /\ r.answer = Users!Idle.answer /\ r.user = u /\ r.patch = row
  BY <1>3, IdleIs, UserFacts DEF Users!CallState, Users!Ask
<1> HIDE DEF r
<1>5. Carried(r, uBorn)
  BY <1>2, <1>3, <1>4, IdleIs, NoUsers, UserFacts DEF Carried
<1>6. ASSUME Users!Updating(Users!Nobody) PROVE FALSE
  <2>1. PICK d \in PageCall : uCalls[d].kind \in {"update", "batch"} /\ uCalls[d].user = Users!Nobody
    BY <1>6 DEF Users!Updating, Users!Underway
  <2>2. uCalls[d].dialog = "create"
    BY <2>1 DEF UserTypes, UserCalls, Carried
  <2> QED BY <2>2 DEF Users!HandleBulkSubmit, UserTypes, UserDialogs, Waits
<1>7. uRaced' \subseteq 1 .. uBorn
  BY <1>3, <1>6, UserFacts DEF Users!HandleBulkSubmit, Users!Nobody
<1> QED BY <1>1, <1>4, <1>5, <1>7, CreatingSends
           DEF Users!HandleBulkSubmit, Users!table, Users!shown

LEMMA DialogsOnly ==
    ASSUME UserTypes, UNCHANGED <<Users!table, uCalls, Users!shown, uWanted, uStrayed>>,
           uEditing' \in Users!Form, uEditing'.busy = uEditing.busy,
           uEditing'.user \in 0 .. uBorn, Filled(uEditing'),
           uCreating' \in Users!Form, uCreating'.busy = uCreating.busy,
           uRaced' \subseteq 1 .. uBorn, uOps' \in 0 .. MaxOps
    PROVE  UserTypes'
<1>1. UserTable'
  BY DEF UserTypes, UserTable, Users!table
<1>2. UserCalls'
  <2>1. \A c \in PageCall : Carried(uCalls[c], uBorn)'
    BY DEF UserTypes, UserCalls, Carried, UserList, Users!table
  <2> QED BY <2>1 DEF UserTypes, UserCalls
<1>3. UserShown'
  BY DEF UserTypes, UserShown, UserList, Users!table, Users!shown
<1>4. UserDialogs'
  BY UserFacts DEF UserTypes, UserDialogs, Waits, Users!table
<1> QED BY <1>1, <1>2, <1>3, <1>4 DEF UserTypes

LEMMA DialogTypes ==
    ASSUME UserTypes,
           \/ \E i \in DOMAIN users : Users!HandleEditClick(i)
           \/ Users!EditForm \/ Users!CancelEdit \/ Users!OpenCreate \/ Users!FillForm \/ Users!CloseCreate
    PROVE  UserTypes'
<1>0. /\ uEditing \in Users!Form /\ uCreating \in Users!Form /\ uRaced \subseteq 1 .. uBorn
      /\ Filled(uEditing) /\ uEditing.user \in 0 .. uBorn /\ uOps \in 0 .. MaxOps
      /\ Users!Operate => uOps' \in 0 .. MaxOps
  BY UserFacts, UserBounds DEF UserTypes, UserDialogs, Users!Operate
<1>1. CASE \E i \in DOMAIN users : Users!HandleEditClick(i)
  <2>1. PICK i \in DOMAIN users : Users!HandleEditClick(i)
    BY <1>1
  <2>2. users[i].id \in 1 .. uBorn /\ users[i].row \in Users!Row
    BY UserFacts
  <2>3. users[i].id \in Users!User
    BY <2>2, UserBounds DEF Users!User, UserTypes, UserTable
  <2>4. /\ uEditing' \in Users!Form /\ uEditing'.busy = uEditing.busy
        /\ uEditing'.user = users[i].id /\ Filled(uEditing')
    BY <1>0, <2>1, <2>2, <2>3 DEF Users!HandleEditClick, Users!Prefilled, Users!Form, Filled
  <2>5. uRaced' \subseteq 1 .. uBorn
    BY <1>0, <2>1, <2>2 DEF Users!HandleEditClick
  <2>6. uEditing'.user \in 0 .. uBorn
    BY <2>2, <2>4, UserFacts
  <2> QED BY <1>0, <2>1, <2>4, <2>5, <2>6, DialogsOnly DEF Users!HandleEditClick
<1>2. CASE Users!EditForm
  <2> DEFINE changed(f, g) == [uEditing EXCEPT !.form = f, !.touched = @ \cup {g}]
  <2>0. ASSUME NEW f \in Users!Row, NEW g \in {"dept", "position", "role"},
               f.dept # Unset \/ (f.dept = uEditing.form.dept /\ g # "dept")
        PROVE  /\ changed(f, g) \in Users!Form /\ changed(f, g).busy = uEditing.busy
               /\ changed(f, g).user = uEditing.user /\ Filled(changed(f, g))
    <3>1. /\ changed(f, g) \in Users!Form /\ changed(f, g).busy = uEditing.busy
          /\ changed(f, g).user = uEditing.user /\ changed(f, g).form = f
          /\ changed(f, g).touched = uEditing.touched \cup {g}
      BY <1>0 DEF Users!Form
    <3> HIDE DEF changed
    <3>2. Filled(changed(f, g))
      BY <1>0, <2>0, <3>1 DEF Filled
    <3> QED BY <3>1, <3>2
  <2>a. uEditing.form \in Users!Row /\ Unset \notin Name
    BY UserFacts, NameAssumption
  <2>b. \E f \in Users!Row, g \in {"dept", "position", "role"} :
            /\ uEditing' = changed(f, g)
            /\ f.dept # Unset \/ (f.dept = uEditing.form.dept /\ g # "dept")
    <3>1. CASE \E v \in Name : uEditing' = [uEditing EXCEPT !.form.dept = v, !.touched = @ \cup {"dept"}]
      <4>1. PICK v \in Name : uEditing' = [uEditing EXCEPT !.form.dept = v, !.touched = @ \cup {"dept"}]
        BY <3>1
      <4>2. /\ [uEditing.form EXCEPT !.dept = v] \in Users!Row
            /\ [uEditing.form EXCEPT !.dept = v].dept # Unset
        BY <2>a DEF Users!Row
      <4>3. uEditing' = changed([uEditing.form EXCEPT !.dept = v], "dept")
        BY <4>1
      <4> HIDE DEF changed
      <4>4. PICK f : f = [uEditing.form EXCEPT !.dept = v]
        OBVIOUS
      <4>5. f \in Users!Row /\ f.dept # Unset /\ uEditing' = changed(f, "dept")
        BY <4>2, <4>3, <4>4
      <4>6. "dept" \in {"dept", "position", "role"}
        OBVIOUS
      <4> QED BY <4>5, <4>6, Zenon
    <3>2. CASE \E v \in Name \cup {Unset} :
                   uEditing' = [uEditing EXCEPT !.form.position = v, !.touched = @ \cup {"position"}]
      BY <2>a, <3>2 DEF Users!Row
    <3>3. CASE \E v \in Users!Role \ {uEditing.form.role} :
                   uEditing' = [uEditing EXCEPT !.form.role = v, !.touched = @ \cup {"role"}]
      BY <2>a, <3>3 DEF Users!Row
    <3> QED BY <1>2, <3>1, <3>2, <3>3 DEF Users!EditForm
  <2>1. /\ uEditing' \in Users!Form /\ uEditing'.busy = uEditing.busy
        /\ uEditing'.user = uEditing.user /\ Filled(uEditing')
    <3> HIDE DEF changed
    <3>1. PICK f \in Users!Row, g \in {"dept", "position", "role"} :
              /\ uEditing' = changed(f, g)
              /\ f.dept # Unset \/ (f.dept = uEditing.form.dept /\ g # "dept")
      BY <2>b
    <3> QED BY <2>0, <3>1
  <2> QED BY <1>0, <1>2, <2>1, DialogsOnly DEF Users!EditForm, Users!history
<1>3. CASE Users!CancelEdit
  <2>1. /\ uEditing' \in Users!Form /\ uEditing'.busy = uEditing.busy
        /\ uEditing'.user = Users!Nobody /\ Filled(uEditing')
    BY <1>0, <1>3, RowsArePatches
       DEF Users!CancelEdit, Users!CloseEdit, Users!Form, Users!Closed, Filled
  <2> QED BY <1>0, <1>3, <2>1, DialogsOnly, UserFacts DEF Users!CancelEdit, Users!history
<1>4. CASE Users!OpenCreate
  <2>1. uCreating' \in Users!Form /\ uCreating'.busy = uCreating.busy
    BY <1>0, <1>4 DEF Users!OpenCreate, Users!Form
  <2> QED BY <1>0, <1>4, <2>1, DialogsOnly DEF Users!OpenCreate, Users!history
<1>5. CASE Users!FillForm
  <2>1. uCreating' \in Users!Form /\ uCreating'.busy = uCreating.busy
    BY <1>0, <1>5 DEF Users!FillForm, Users!Form, Users!Row
  <2> QED BY <1>0, <1>5, <2>1, DialogsOnly DEF Users!FillForm, Users!history
<1>6. CASE Users!CloseCreate
  <2>1. uCreating' \in Users!Form /\ uCreating'.busy = uCreating.busy
    BY <1>0, <1>6, RowsArePatches DEF Users!CloseCreate, Users!Form, Users!Closed
  <2> QED BY <1>0, <1>6, <2>1, DialogsOnly DEF Users!CloseCreate, Users!history
<1> QED BY <1>1, <1>2, <1>3, <1>4, <1>5, <1>6

-----------------------------------------------------------------------------
(* The users: the service.                                                 *)

LEMMA CallKept ==
    ASSUME NEW n, NEW r, Carried(r, n)
    PROVE  /\ \A r2 \in {[r EXCEPT !.phase = "done"], [r EXCEPT !.old = TRUE]} :
                 /\ Carried(r2, n) /\ r2.dialog = r.dialog /\ r2.kind = r.kind
                 /\ r2.user = r.user /\ r2.patch = r.patch /\ r2.answer = r.answer
                 /\ r2.total = r.total /\ r2.page = r.page /\ r2.sort = r.sort
           /\ [r EXCEPT !.phase = "done"].phase = "done"
           /\ [r EXCEPT !.phase = "done"].old = r.old
           /\ [r EXCEPT !.old = TRUE].phase = r.phase
           /\ [r EXCEPT !.old = TRUE].old = TRUE
<1>1. r \in Users!CallState
  BY DEF Carried
<1>2. ASSUME NEW r2 \in {[r EXCEPT !.phase = "done"], [r EXCEPT !.old = TRUE]}
      PROVE  /\ r2 \in Users!CallState /\ r2.dialog = r.dialog /\ r2.kind = r.kind
             /\ r2.user = r.user /\ r2.patch = r.patch /\ r2.answer = r.answer
             /\ r2.total = r.total /\ r2.page = r.page /\ r2.sort = r.sort
  BY <1>1, <1>2 DEF Users!CallState
<1>3. ASSUME NEW r2 \in {[r EXCEPT !.phase = "done"], [r EXCEPT !.old = TRUE]}
      PROVE  Carried(r2, n)
  BY <1>2, <1>3 DEF Carried
<1>4. /\ [r EXCEPT !.phase = "done"].phase = "done"
      /\ [r EXCEPT !.phase = "done"].old = r.old
      /\ [r EXCEPT !.old = TRUE].phase = r.phase
      /\ [r EXCEPT !.old = TRUE].old = TRUE
  BY <1>1 DEF Users!CallState
<1> QED BY <1>2, <1>3, <1>4

(* What stays of the calls when the service has done one.                  *)
LEMMA DoneCalls ==
    ASSUME UserTypes, NEW c \in PageCall, Users!Done(c), uBorn' \in Int, uBorn <= uBorn'
    PROVE  /\ UserCalls'
           /\ \A d \in PageCall :
                 /\ uCalls'[d].dialog = uCalls[d].dialog /\ uCalls'[d].kind = uCalls[d].kind
                 /\ uCalls'[d].user = uCalls[d].user /\ uCalls'[d].patch = uCalls[d].patch
                 /\ uCalls'[d].answer = uCalls[d].answer /\ uCalls'[d].total = uCalls[d].total
                 /\ uCalls'[d].page = uCalls[d].page /\ uCalls'[d].sort = uCalls[d].sort
                 /\ uCalls'[d].phase = IF d = c THEN "done" ELSE uCalls[d].phase
                 /\ uCalls'[d].old = IF d # c /\ uCalls[d].kind = "list" /\ uCalls[d].phase = "done"
                                    THEN TRUE ELSE uCalls[d].old
<1>1. \A d \in PageCall : Carried(uCalls[d], uBorn)
  BY DEF UserTypes, UserCalls
<1>2. uCalls' = [d \in PageCall |-> uCalls'[d]]
  BY DEF Users!Done
<1>3. ASSUME NEW d \in PageCall
      PROVE  /\ Carried(uCalls'[d], uBorn)
             /\ uCalls'[d].dialog = uCalls[d].dialog /\ uCalls'[d].kind = uCalls[d].kind
             /\ uCalls'[d].user = uCalls[d].user /\ uCalls'[d].patch = uCalls[d].patch
             /\ uCalls'[d].answer = uCalls[d].answer /\ uCalls'[d].total = uCalls[d].total
             /\ uCalls'[d].page = uCalls[d].page /\ uCalls'[d].sort = uCalls[d].sort
             /\ uCalls'[d].phase = IF d = c THEN "done" ELSE uCalls[d].phase
             /\ uCalls'[d].old = IF d # c /\ uCalls[d].kind = "list" /\ uCalls[d].phase = "done"
                                THEN TRUE ELSE uCalls[d].old
  <2>1. /\ \A r2 \in {[uCalls[d] EXCEPT !.phase = "done"], [uCalls[d] EXCEPT !.old = TRUE]} :
              /\ Carried(r2, uBorn) /\ r2.dialog = uCalls[d].dialog /\ r2.kind = uCalls[d].kind
              /\ r2.user = uCalls[d].user /\ r2.patch = uCalls[d].patch
              /\ r2.answer = uCalls[d].answer /\ r2.total = uCalls[d].total
              /\ r2.page = uCalls[d].page /\ r2.sort = uCalls[d].sort
        /\ [uCalls[d] EXCEPT !.phase = "done"].phase = "done"
        /\ [uCalls[d] EXCEPT !.phase = "done"].old = uCalls[d].old
        /\ [uCalls[d] EXCEPT !.old = TRUE].phase = uCalls[d].phase
        /\ [uCalls[d] EXCEPT !.old = TRUE].old = TRUE
    BY <1>1, CallKept
  <2>2. CASE d = c
    <3>1. uCalls'[d] = [uCalls[d] EXCEPT !.phase = "done"]
      BY <2>2 DEF Users!Done
    <3> QED BY <2>1, <2>2, <3>1
  <2>3. CASE d # c /\ uCalls[d].kind = "list" /\ uCalls[d].phase = "done"
    <3>1. uCalls'[d] = [uCalls[d] EXCEPT !.old = TRUE]
      BY <2>3 DEF Users!Done
    <3> QED BY <2>1, <2>3, <3>1
  <2>4. CASE d # c /\ ~(uCalls[d].kind = "list" /\ uCalls[d].phase = "done")
    <3>1. uCalls'[d] = uCalls[d]
      BY <2>4 DEF Users!Done
    <3> QED BY <1>1, <2>4, <3>1
  <2> QED BY <2>2, <2>3, <2>4
<1>4. \A d \in PageCall : Carried(uCalls'[d], uBorn')
  <2>1. \A d \in PageCall : Carried(uCalls'[d], uBorn)
    BY <1>3
  <2>2. \A r : Carried(r, uBorn) => Carried(r, uBorn')
    BY MoreUsers, UserFacts
  <2> QED BY <2>1, <2>2
<1>5. \A d \in PageCall : Carried(uCalls[d], uBorn)'
  BY <1>4 DEF Carried, UserList
<1>6. \A x, y \in PageCall : uCalls'[x].dialog = uCalls'[y].dialog => uCalls'[x].dialog = "none" \/ x = y
  <2>1. \A d \in PageCall : uCalls'[d].dialog = uCalls[d].dialog
    BY <1>3
  <2>2. \A x, y \in PageCall : uCalls[x].dialog = uCalls[y].dialog => uCalls[x].dialog = "none" \/ x = y
    BY DEF UserTypes, UserCalls
  <2> QED BY <2>1, <2>2
<1> QED BY <1>2, <1>3, <1>5, <1>6 DEF UserCalls

LEMMA ServedTypes ==
    ASSUME UserTypes, NEW c \in PageCall, Users!Done(c), UserTable', uBorn <= uBorn',
           UNCHANGED <<Users!shown, Users!dialogs, uOps, uStrayed>>
    PROVE  UserTypes'
<1>1. uBorn' \in Int
  BY DEF UserTable
<1>2. /\ UserCalls'
      /\ \A d \in PageCall : uCalls'[d].dialog = uCalls[d].dialog
  BY <1>1, DoneCalls
<1>3. UserShown'
  <2>1. UserList(users, uBorn')
    BY <1>1, MoreUsers, UserFacts DEF UserTypes, UserShown
  <2>2. UserList(users, uBorn)'
    BY <2>1 DEF UserList, Users!shown
  <2> QED BY <2>2 DEF UserTypes, UserShown, Users!shown
<1>4. UserDialogs'
  <2>1. uEditing' = uEditing /\ uCreating' = uCreating
    BY DEF Users!dialogs
  <2>2. uEditing.user <= uBorn'
    BY <1>1, UserFacts
  <2> QED BY <1>2, <2>1, <2>2 DEF UserTypes, UserDialogs, Waits
<1> QED BY <1>2, <1>3, <1>4 DEF UserTypes

LEMMA ListUsersTypes ==
    ASSUME UserTypes, NEW c \in PageCall, Users!ListUsers(c)
    PROVE  UserTypes'
<1> DEFINE r == [uCalls[c] EXCEPT !.phase = "done", !.answer = Users!Slice(uCalls[c].page),
                                 !.total = Cardinality(DOMAIN uRows)]
<1>1. uCalls[c] \in Users!CallState /\ Carried(uCalls[c], uBorn) /\ uCalls[c].page \in 1 .. MaxUsers + 1
  BY DEF UserTypes, UserCalls, Carried, Users!CallState
<1>2. UserList(Users!Slice(uCalls[c].page), uBorn) /\ Cardinality(DOMAIN uRows) \in 0 .. MaxUsers
  BY <1>1, SliceIs DEF UserTypes
<1>3. Users!Slice(uCalls[c].page) \in Seq(Users!Shown)
  BY <1>2 DEF UserList
<1>4. /\ r \in Users!CallState /\ r.kind = uCalls[c].kind /\ r.dialog = uCalls[c].dialog
      /\ r.user = uCalls[c].user /\ r.patch = uCalls[c].patch
      /\ r.answer = Users!Slice(uCalls[c].page)
  BY <1>1, <1>2, <1>3 DEF Users!CallState
<1>5. uCalls' = [d \in PageCall |-> IF d = c THEN r ELSE uCalls[d]]
  BY UserCardinality DEF Users!ListUsers, UserTypes, UserCalls
<1> HIDE DEF r
<1>6. Carried(r, uBorn)
  BY <1>1, <1>2, <1>4 DEF Carried
<1>7. \A d \in PageCall : Carried(uCalls'[d], uBorn) /\ uCalls'[d].dialog = uCalls[d].dialog
  BY <1>4, <1>5, <1>6 DEF UserTypes, UserCalls
<1>8. UNCHANGED <<uRows, uBorn, users, totalCount, page, sort, uLoading, uEditing, uCreating,
                  uOps, uWanted, uRaced, uStrayed>>
  BY DEF Users!ListUsers, Users!table, Users!shown, Users!dialogs, Users!history
<1>9. UserCalls'
  <2>1. \A d \in PageCall : Carried(uCalls[d], uBorn)'
    BY <1>7, <1>8 DEF Carried, UserList
  <2>2. uCalls' = [d \in PageCall |-> uCalls'[d]]
    BY <1>5
  <2> QED BY <1>7, <2>1, <2>2 DEF UserTypes, UserCalls
<1>10. UserTable' /\ UserShown'
  BY <1>8 DEF UserTypes, UserTable, UserShown, UserList
<1>11. UserDialogs'
  BY <1>7, <1>8 DEF UserTypes, UserDialogs, Waits
<1> QED BY <1>8, <1>9, <1>10, <1>11 DEF UserTypes

LEMMA CreatedIs ==
    ASSUME UserTypes, uBorn < MaxUsers, NEW S, NEW row \in S,
           NEW kept, kept \in [DOMAIN kept -> S], DOMAIN kept \subseteq 1 .. uBorn
    PROVE  /\ uBorn + 1 \in Nat /\ uBorn + 1 <= MaxUsers
           /\ Users!Created(kept, row) \in [DOMAIN kept \cup {uBorn + 1} -> S]
           /\ DOMAIN kept \cup {uBorn + 1} \subseteq 1 .. uBorn + 1
           /\ \A u \in DOMAIN kept : Users!Created(kept, row)[u] = kept[u]
           /\ Users!Created(kept, row)[uBorn + 1] = row
<1>1. uBorn \in Nat /\ MaxUsers \in Nat
  BY UserFacts
<1>2. \A u \in DOMAIN kept : u # uBorn + 1
  BY <1>1
<1> QED BY <1>1, <1>2 DEF Users!Created

LEMMA CreatedTypes ==
    ASSUME UserTypes, uBorn < MaxUsers, NEW row \in Users!Row, NEW kept \in {uRows, <<>>},
           uRows' = Users!Created(kept, row), uWanted' = Users!Created(uWanted, row),
           uBorn' = uBorn + 1, uRaced' = uRaced
    PROVE  UserTable' /\ uBorn <= uBorn'
<1>1. /\ uBorn \in Nat /\ uRows \in [DOMAIN uRows -> Users!Row]
      /\ DOMAIN uRows \subseteq 1 .. uBorn
      /\ uWanted \in [1 .. uBorn -> Users!Wish] /\ uRaced \subseteq 1 .. uBorn
  BY DEF UserTypes, UserTable
<1>2. kept \in [DOMAIN kept -> Users!Row] /\ DOMAIN kept \subseteq 1 .. uBorn
  <2>1. <<>> \in [{} -> Users!Row] /\ DOMAIN <<>> = {}
    OBVIOUS
  <2> QED BY <1>1, <2>1
<1>3. /\ uBorn + 1 \in Nat /\ uBorn + 1 <= MaxUsers
      /\ Users!Created(kept, row) \in [DOMAIN kept \cup {uBorn + 1} -> Users!Row]
      /\ DOMAIN kept \cup {uBorn + 1} \subseteq 1 .. uBorn + 1
  BY <1>2, CreatedIs
<1>4. Users!Created(uWanted, row) \in [1 .. uBorn + 1 -> Users!Wish]
  <2>1. /\ DOMAIN uWanted = 1 .. uBorn
        /\ uWanted \in [DOMAIN uWanted -> Users!Wish]
        /\ row \in Users!Wish
    BY <1>1, RowsArePatches
  <2>2. Users!Created(uWanted, row) \in [DOMAIN uWanted \cup {uBorn + 1} -> Users!Wish]
    BY <2>1, CreatedIs
  <2>3. 1 .. uBorn \cup {uBorn + 1} = 1 .. uBorn + 1
    BY <1>1
  <2> QED BY <2>1, <2>2, <2>3
<1>5. DOMAIN uRows' = DOMAIN kept \cup {uBorn + 1}
  BY <1>3
<1>6. uRaced' \subseteq 1 .. uBorn'
  BY <1>1
<1>7. MaxUsers \in Nat
  BY UserFacts
<1> QED BY <1>1, <1>3, <1>4, <1>5, <1>6, <1>7 DEF UserTable

LEMMA ServiceTypes ==
    ASSUME UserTypes, NEW c \in PageCall, Users!Service(c)
    PROVE  UserTypes'
<1> DEFINE call == uCalls[c]
<1>0. /\ call \in Users!CallState /\ Carried(call, uBorn)
      /\ uRows \in [DOMAIN uRows -> Users!Row] /\ DOMAIN uRows \subseteq 1 .. uBorn
      /\ uWanted \in [1 .. uBorn -> Users!Wish] /\ uRaced \subseteq 1 .. uBorn
      /\ uBorn \in 0 .. MaxUsers /\ call.patch \in Users!Patch
  BY DEF UserTypes, UserTable, UserCalls, Carried, Users!CallState
<1>1. CASE Users!ListUsers(c)
  BY <1>1, ListUsersTypes
<1>2. CASE Users!UpdateUser(c)
  <2>1. Users!Patched(uRows[call.user], call.patch) \in Users!Row
    BY <1>0, <1>2, PatchedIs DEF Users!UpdateUser
  <2>2. UserTable'
    BY <1>0, <1>2, <2>1 DEF Users!UpdateUser, UserTable, Users!history
  <2> QED BY <1>0, <1>2, <2>2, ServedTypes DEF Users!UpdateUser, Users!history
<1>3. CASE Users!DeleteUser(c)
  <2>1. uRows' = [u \in DOMAIN uRows \ {call.user} |-> uRows[u]]
    BY <1>3 DEF Users!DeleteUser, Users!Restrict
  <2>2. UserTable'
    BY <1>0, <1>3, <2>1 DEF Users!DeleteUser, UserTable, Users!history
  <2> QED BY <1>0, <1>3, <2>2, ServedTypes DEF Users!DeleteUser, Users!history
<1>4. CASE Users!CreateUser(c)
  <2>1. call.patch \in Users!Row
    BY <1>0, <1>4 DEF Carried, Users!CreateUser
  <2>2. UserTable' /\ uBorn <= uBorn'
    BY <1>4, <2>1, CreatedTypes DEF Users!CreateUser
  <2> QED BY <1>4, <2>2, ServedTypes DEF Users!CreateUser
<1>5. CASE Users!BatchCreateUsers(c)
  <2>1. call.patch \in Users!Row
    BY <1>0, <1>5 DEF Carried, Users!BatchCreateUsers
  <2>2. UserTable' /\ uBorn <= uBorn'
    <3>1. CASE /\ call.user \in DOMAIN uRows
               /\ uRows' = [uRows EXCEPT ![call.user] = call.patch]
               /\ uWanted' = [uWanted EXCEPT ![call.user] = call.patch]
               /\ UNCHANGED uBorn
      BY <1>0, <1>5, <2>1, <3>1, RowsArePatches DEF Users!BatchCreateUsers, UserTable
    <3>2. CASE /\ uBorn < MaxUsers
               /\ uRows' = Users!Created(IF call.replace THEN <<>> ELSE uRows, call.patch)
               /\ uWanted' = Users!Created(uWanted, call.patch)
               /\ uBorn' = uBorn + 1
      BY <1>5, <2>1, <3>2, CreatedTypes DEF Users!BatchCreateUsers
    <3> QED BY <1>5, <3>1, <3>2 DEF Users!BatchCreateUsers
  <2> QED BY <1>5, <2>2, ServedTypes DEF Users!BatchCreateUsers
<1>6. CASE Users!BatchResetPassword(c)
  <2>1. \A d \in PageCall : Carried(uCalls[d], uBorn)
    BY DEF UserTypes, UserCalls
  <2>2. /\ Carried([uCalls[c] EXCEPT !.phase = "done"], uBorn)
        /\ [uCalls[c] EXCEPT !.phase = "done"].dialog = uCalls[c].dialog
    BY <2>1, CallKept
  <2>3. uCalls' = [d \in PageCall |-> IF d = c THEN [uCalls[c] EXCEPT !.phase = "done"] ELSE uCalls[d]]
    BY <1>6 DEF Users!BatchResetPassword, UserTypes, UserCalls
  <2>4. \A d \in PageCall : Carried(uCalls'[d], uBorn) /\ uCalls'[d].dialog = uCalls[d].dialog
    BY <2>1, <2>2, <2>3
  <2>5. UNCHANGED <<uRows, uBorn, users, totalCount, page, sort, uLoading, uEditing, uCreating,
                    uOps, uWanted, uRaced, uStrayed>>
    BY <1>6 DEF Users!BatchResetPassword, Users!table, Users!shown, Users!dialogs,
       Users!history
  <2>6. UserCalls'
    <3>1. \A d \in PageCall : Carried(uCalls[d], uBorn)'
      BY <2>4, <2>5 DEF Carried, UserList
    <3>2. uCalls' = [d \in PageCall |-> uCalls'[d]]
      BY <2>3
    <3> QED BY <2>4, <3>1, <3>2 DEF UserTypes, UserCalls
  <2>7. UserTable' /\ UserShown'
    BY <2>5 DEF UserTypes, UserTable, UserShown, UserList
  <2>8. UserDialogs'
    BY <2>4, <2>5 DEF UserTypes, UserDialogs, Waits
  <2> QED BY <2>5, <2>6, <2>7, <2>8 DEF UserTypes
<1> QED BY <1>1, <1>2, <1>3, <1>4, <1>5, <1>6 DEF Users!Service

-----------------------------------------------------------------------------
(* The users: the answers.                                                 *)

LEMMA AnsweredCalls ==
    ASSUME UserTypes, NEW c \in PageCall, NEW r, Carried(r, uBorn), r.dialog = "none",
           uCalls' = [uCalls EXCEPT ![c] = r], uBorn' = uBorn
    PROVE  /\ UserCalls'
           /\ UserWaitedFor("edit")' <=> (UserWaitedFor("edit") /\ uCalls[c].dialog # "edit")
           /\ UserWaitedFor("create")' <=> (UserWaitedFor("create") /\ uCalls[c].dialog # "create")
<1>1. uCalls' = [d \in PageCall |-> IF d = c THEN r ELSE uCalls[d]]
  BY DEF UserTypes, UserCalls
<1>2. \A d \in PageCall : uCalls'[d] = IF d = c THEN r ELSE uCalls[d]
  BY <1>1
<1>3. \A d \in PageCall : Carried(uCalls'[d], uBorn)
  BY <1>2 DEF UserTypes, UserCalls
<1>4. UserCalls'
  <2>1. \A d \in PageCall : Carried(uCalls[d], uBorn)'
    BY <1>3 DEF Carried, UserList
  <2>2. uCalls' = [d \in PageCall |-> uCalls'[d]]
    BY <1>1
  <2>3. \A x, y \in PageCall : uCalls'[x].dialog = uCalls'[y].dialog =>
            uCalls'[x].dialog = "none" \/ x = y
    BY <1>2 DEF UserTypes, UserCalls
  <2> QED BY <2>1, <2>2, <2>3 DEF UserCalls
<1>5. \A d \in PageCall : uCalls[d].dialog = uCalls[c].dialog => uCalls[d].dialog = "none" \/ d = c
  BY DEF UserTypes, UserCalls
<1>6. UserWaitedFor("edit")' <=> (UserWaitedFor("edit") /\ uCalls[c].dialog # "edit")
  BY <1>2, <1>5 DEF UserWaitedFor
<1>7. UserWaitedFor("create")' <=> (UserWaitedFor("create") /\ uCalls[c].dialog # "create")
  BY <1>2, <1>5 DEF UserWaitedFor
<1> QED BY <1>4, <1>6, <1>7

LEMMA AnsweredTypes ==
    ASSUME UserTypes, NEW c \in PageCall, Users!ShowUsers(c) \/ Users!Succeed(c) \/ Users!Fail(c)
    PROVE  UserTypes'
<1> DEFINE call == uCalls[c]
<1>0. /\ call \in Users!CallState /\ Carried(call, uBorn) /\ uBorn \in Nat
      /\ uRaced \subseteq 1 .. uBorn /\ uEditing \in Users!Form /\ uCreating \in Users!Form
      /\ uEditing.user <= uBorn /\ uLoading \in BOOLEAN /\ uStrayed \in BOOLEAN
  BY UserFacts DEF UserTypes, UserCalls, UserDialogs, UserShown, Carried
<1>1. CASE Users!ShowUsers(c)
  <2>1. Carried(Users!Idle, uBorn) /\ Users!Idle.dialog = "none"
    BY <1>0, IdleCarried, IdleIs
  <2>2. UNCHANGED <<uRows, uBorn, sort, uEditing, uCreating, uOps, uWanted, uRaced>>
    BY <1>1 DEF Users!ShowUsers, Users!table, Users!dialogs
  <2>3. /\ UserCalls'
        /\ UserWaitedFor("edit")' <=> (UserWaitedFor("edit") /\ uCalls[c].dialog # "edit")
        /\ UserWaitedFor("create")' <=> (UserWaitedFor("create") /\ uCalls[c].dialog # "create")
    BY <1>1, <2>1, <2>2, AnsweredCalls DEF Users!ShowUsers
  <2>4. uCalls[c].dialog = "none"
    BY <1>0, <1>1 DEF Users!ShowUsers, Carried
  <2>5. UserTable'
    BY <2>2 DEF UserTypes, UserTable
  <2>6. UserDialogs'
    BY <2>2, <2>3, <2>4 DEF UserTypes, UserDialogs, Waits, UserWaitedFor
  <2>7. UserShown' /\ uStrayed' \in BOOLEAN
    <3>1. /\ UserList(call.answer, uBorn) /\ call.total \in 0 .. MaxUsers
          /\ call.page \in 1 .. MaxUsers + 1 /\ call.old \in BOOLEAN
      BY <1>0 DEF Carried, Users!CallState
    <3>2. /\ users' = call.answer /\ totalCount' = call.total /\ page' = call.page
          /\ uLoading' = FALSE /\ uStrayed' = call.old /\ uBorn' = uBorn /\ sort' = sort
      BY <1>1, <2>2 DEF Users!ShowUsers
    <3>3. UserList(users, uBorn)'
      BY <3>1, <3>2 DEF UserList
    <3> QED BY <3>1, <3>2, <3>3 DEF UserTypes, UserShown
  <2> QED BY <2>2, <2>3, <2>5, <2>6, <2>7 DEF UserTypes
<1>2. CASE Users!Succeed(c)
  <2> DEFINE r == Users!Refetched(call)
  <2>1. /\ r \in Users!CallState /\ r.kind = "list" /\ r.dialog = Users!Idle.dialog
        /\ r.answer = Users!Idle.answer /\ r.user = Users!Idle.user
    BY <1>0, IdleIs DEF Users!Refetched, Users!CallState
  <2> HIDE DEF r
  <2>2. Carried(r, uBorn) /\ r.dialog = "none"
    BY <1>0, <2>1, IdleIs, NoUsers DEF Carried, Users!Nobody
  <2>3. UNCHANGED <<uRows, uBorn, users, totalCount, page, sort, uLoading, uOps,
                    uWanted, uRaced, uStrayed>>
    BY <1>2 DEF Users!Succeed, Users!table, Users!shown, Users!history
  <2>4. /\ UserCalls'
        /\ UserWaitedFor("edit")' <=> (UserWaitedFor("edit") /\ uCalls[c].dialog # "edit")
        /\ UserWaitedFor("create")' <=> (UserWaitedFor("create") /\ uCalls[c].dialog # "create")
    BY <1>2, <2>2, <2>3, AnsweredCalls DEF Users!Succeed, r
  <2>5. UserTable' /\ UserShown'
    BY <2>3 DEF UserTypes, UserTable, UserShown, UserList
  <2>6. /\ Users!Closed \in Users!Form /\ Users!Closed.busy = FALSE /\ Users!Closed.user = 0
        /\ Filled(Users!Closed)
    BY RowsArePatches DEF Users!Closed, Users!Form, Users!Nobody, Filled
  <2>7. /\ uEditing' = IF uCalls[c].dialog = "edit" THEN Users!Closed ELSE uEditing
        /\ uCreating' = IF uCalls[c].dialog = "create" THEN Users!Closed ELSE uCreating
    BY <1>2 DEF Users!Succeed
  <2>8. /\ uEditing' \in Users!Form /\ uEditing'.user <= uBorn' /\ uCreating' \in Users!Form
        /\ Filled(uEditing')
        /\ uEditing'.busy = IF uCalls[c].dialog = "edit" THEN FALSE ELSE uEditing.busy
        /\ uCreating'.busy = IF uCalls[c].dialog = "create" THEN FALSE ELSE uCreating.busy
    <3>1. Users!Closed.user <= uBorn /\ uBorn' = uBorn
      BY <1>0, <2>3, <2>6
    <3>2. /\ uEditing' \in Users!Form /\ uEditing'.user <= uBorn' /\ Filled(uEditing')
          /\ uEditing'.busy = IF uCalls[c].dialog = "edit" THEN FALSE ELSE uEditing.busy
      BY <1>0, <2>6, <2>7, <3>1 DEF UserTypes, UserDialogs
    <3>3. /\ uCreating' \in Users!Form
          /\ uCreating'.busy = IF uCalls[c].dialog = "create" THEN FALSE ELSE uCreating.busy
      BY <1>0, <2>6, <2>7
    <3> QED BY <3>2, <3>3
  <2>9. UserDialogs'
    BY <2>4, <2>8 DEF UserTypes, UserDialogs, Waits, UserWaitedFor
  <2> QED BY <2>3, <2>4, <2>5, <2>9 DEF UserTypes
<1>3. CASE Users!Fail(c)
  <2>1. Carried(Users!Idle, uBorn) /\ Users!Idle.dialog = "none"
    BY <1>0, IdleCarried, IdleIs
  <2>2. /\ UNCHANGED <<uRows, uBorn, users, totalCount, page, sort, uOps, uWanted>>
        /\ uLoading' \in BOOLEAN /\ uStrayed' \in BOOLEAN
    BY <1>0, <1>3 DEF Users!Fail, Users!table
  <2>3. /\ UserCalls'
        /\ UserWaitedFor("edit")' <=> (UserWaitedFor("edit") /\ uCalls[c].dialog # "edit")
        /\ UserWaitedFor("create")' <=> (UserWaitedFor("create") /\ uCalls[c].dialog # "create")
    BY <1>3, <2>1, <2>2, AnsweredCalls DEF Users!Fail
  <2>4. uRaced' \subseteq 1 .. uBorn
    <3>1. call.kind = "update" => call.user \in 1 .. uBorn
      BY <1>0 DEF Carried, Users!CallState, Users!User, Users!Nobody
    <3> QED BY <1>0, <1>3, <3>1 DEF Users!Fail
  <2>5. UserTable' /\ UserShown'
    BY <2>2, <2>4 DEF UserTypes, UserTable, UserShown, UserList
  <2>6. /\ uEditing' = [uEditing EXCEPT !.busy = uEditing.busy /\ uCalls[c].dialog # "edit"]
        /\ uCreating' = [uCreating EXCEPT !.busy = uCreating.busy /\ uCalls[c].dialog # "create"]
    BY <1>3 DEF Users!Fail
  <2>7. /\ uEditing' \in Users!Form /\ uEditing'.user <= uBorn' /\ uCreating' \in Users!Form
        /\ Filled(uEditing')
        /\ uEditing'.busy = (uEditing.busy /\ uCalls[c].dialog # "edit")
        /\ uCreating'.busy = (uCreating.busy /\ uCalls[c].dialog # "create")
    BY <1>0, <2>2, <2>6 DEF Users!Form, UserTypes, UserDialogs, Filled
  <2>8. UserDialogs'
    BY <2>3, <2>7 DEF UserTypes, UserDialogs, Waits, UserWaitedFor
  <2> QED BY <2>2, <2>3, <2>5, <2>8 DEF UserTypes
<1> QED BY <1>1, <1>2, <1>3

LEMMA UserFreshTypes ==
    ASSUME Users!Fresh, NEW kind \in {"none", "list"}, NEW c \in PageCall,
           uCalls = [x \in PageCall |-> IF x = c THEN [Users!Idle EXCEPT !.kind = kind] ELSE Users!Idle]
    PROVE  UserTypes
<1>1. /\ uBorn \in 0 .. MaxUsers /\ uRows \in [1 .. uBorn -> Users!Row]
      /\ DOMAIN uRows = 1 .. uBorn
  BY FirstUsersAssumption, UserBounds DEF Users!Fresh
<1>2. UserTable
  BY <1>1, RowsArePatches DEF Users!Fresh, UserTable
<1> DEFINE r == [Users!Idle EXCEPT !.kind = kind]
<1>3. /\ r \in Users!CallState /\ r.kind = kind /\ r.dialog = Users!Idle.dialog
      /\ r.answer = Users!Idle.answer /\ r.user = Users!Idle.user
  BY IdleIs DEF Users!CallState
<1> HIDE DEF r
<1>4. Carried(r, uBorn) /\ r.dialog = "none"
  BY <1>1, <1>3, IdleIs, NoUsers DEF Carried, Users!Nobody
<1>5. Carried(Users!Idle, uBorn) /\ Users!Idle.dialog = "none"
  BY <1>1, IdleIs, IdleCarried
<1>6. \A d \in PageCall : uCalls[d] = IF d = c THEN r ELSE Users!Idle
  BY DEF r
<1>7. UserCalls /\ \A d \in PageCall : uCalls[d].dialog = "none"
  BY <1>4, <1>5, <1>6 DEF UserCalls
<1>8. /\ Users!Closed \in Users!Form /\ Users!Closed.busy = FALSE /\ Users!Closed.user = 0
      /\ Filled(Users!Closed)
  BY RowsArePatches DEF Users!Closed, Users!Form, Users!Nobody, Filled
<1>9. UserDialogs
  BY <1>1, <1>7, <1>8 DEF Users!Fresh, UserDialogs, Waits
<1>10. UserShown
  <2>1. UserList(users, uBorn)
    BY NoUsers DEF Users!Fresh
  <2>2. /\ totalCount \in 0 .. MaxUsers /\ page \in 1 .. MaxUsers + 1 /\ sort \in Users!Column
        /\ uLoading = TRUE
    BY UserBounds DEF Users!Fresh, Users!Column
  <2> QED BY <2>1, <2>2 DEF UserShown
<1>11. uOps \in 0 .. MaxOps
  <2>1. uOps = 0
    BY DEF Users!Fresh
  <2> QED BY <2>1, UserBounds
<1>12. uStrayed \in BOOLEAN
  BY Zenon DEF Users!Fresh
<1> QED BY <1>2, <1>7, <1>9, <1>10, <1>11, <1>12 DEF UserTypes

LEMMA UserTypesKept ==
    ASSUME UserTypes, [Users!Next]_(Users!vars)
    PROVE  UserTypes'
<1>1. CASE UNCHANGED Users!vars
  <2>1. UNCHANGED <<uRows, uBorn, uCalls, users, totalCount, page, sort, uLoading,
                    uEditing, uCreating, uOps, uWanted, uRaced, uStrayed>>
    BY <1>1 DEF Users!vars, Users!table, Users!shown, Users!dialogs, Users!history
  <2>2. UserTable' /\ UserShown'
    BY <2>1 DEF UserTypes, UserTable, UserShown, UserList
  <2>3. UserCalls'
    <3>1. \A d \in PageCall : Carried(uCalls[d], uBorn)'
      BY <2>1 DEF UserTypes, UserCalls, Carried, UserList
    <3> QED BY <2>1, <3>1 DEF UserTypes, UserCalls
  <2>4. UserDialogs'
    BY <2>1 DEF UserTypes, UserDialogs, Waits
  <2> QED BY <2>1, <2>2, <2>3, <2>4 DEF UserTypes
<1>2. CASE Users!Administrator
  BY <1>2, HandleSortTypes, TurnPageTypes, HandleUpdateTypes, HandleDeleteTypes,
     HandleBatchResetTypes, HandleSubmitTypes, HandleSingleSubmitTypes,
     HandleBulkSubmitTypes, DialogTypes DEF Users!Administrator
<1>3. CASE \E c \in PageCall : Users!Service(c) \/ Users!ShowUsers(c) \/ Users!Succeed(c) \/ Users!Fail(c)
  BY <1>3, ServiceTypes, AnsweredTypes
<1> QED BY <1>1, <1>2, <1>3 DEF Users!Next

-----------------------------------------------------------------------------
(* The users: what is shown.  A list that was read and is not old is what  *)
(* the table holds; unless the page strayed it shows what the table holds, *)
(* or a list comes, or is asked for when what the service did arrives.     *)
SliceFrom(t, p) ==
    LET before(u) == Cardinality({v \in DOMAIN t : v > u})
        first == (p - 1) * PageSize
    IN  [i \in 1 .. Users!Least(PageSize, Cardinality(DOMAIN t) - first) |->
            LET u == CHOOSE v \in DOMAIN t : before(v) = first + i - 1
            IN  [id |-> u, row |-> t[u]]]

Read(r) == r.kind = "list" /\ r.phase = "done" /\ ~r.old
Coming(r) == r.kind # "none" /\ (r.kind = "list" \/ r.phase = "done")

UserKnown ==
    /\ \A c \in PageCall :
          Read(uCalls[c]) => /\ uCalls[c].answer = SliceFrom(uRows, uCalls[c].page)
                             /\ uCalls[c].total = Cardinality(DOMAIN uRows)
    /\ \/ uStrayed \/ \E c \in PageCall : Coming(uCalls[c])
       \/ users = SliceFrom(uRows, page) /\ totalCount = Cardinality(DOMAIN uRows)

LEMMA SliceFromRows ==
    ASSUME NEW p
    PROVE  Users!Slice(p) = SliceFrom(uRows, p)
BY UserCardinality DEF Users!Slice, SliceFrom

LEMMA UserKnownShows == UserKnown => Users!PageShowsSlice
<1> SUFFICES ASSUME UserKnown, Users!Underway = {}, ~uStrayed
             PROVE  totalCount = Cardinality(DOMAIN uRows) /\ users = Users!Slice(page)
  BY UserCardinality DEF Users!PageShowsSlice
<1>1. \A c \in PageCall : ~Coming(uCalls[c])
  BY DEF Users!Underway, Coming
<1>2. users = SliceFrom(uRows, page) /\ totalCount = Cardinality(DOMAIN uRows)
  BY <1>1 DEF UserKnown
<1> QED BY <1>2, SliceFromRows

LEMMA KnownFrom ==
    ASSUME \A c \in PageCall :
              Read(uCalls'[c]) => /\ uCalls'[c].answer = SliceFrom(uRows', uCalls'[c].page)
                                  /\ uCalls'[c].total = Cardinality(DOMAIN uRows'),
           \/ uStrayed' \/ \E c \in PageCall : Coming(uCalls'[c])
           \/ users' = SliceFrom(uRows', page') /\ totalCount' = Cardinality(DOMAIN uRows')
    PROVE  UserKnown'
<1>1. ASSUME NEW c
      PROVE  /\ SliceFrom(uRows, uCalls[c].page)' = SliceFrom(uRows', uCalls'[c].page)
             /\ Read(uCalls[c])' <=> Read(uCalls'[c])
             /\ Coming(uCalls[c])' <=> Coming(uCalls'[c])
  <2>1. SliceFrom(uRows, uCalls[c].page)' = SliceFrom(uRows', uCalls'[c].page)
    BY DEF SliceFrom
  <2>2. /\ Read(uCalls[c])' <=> Read(uCalls'[c])
        /\ Coming(uCalls[c])' <=> Coming(uCalls'[c])
    BY DEF Read, Coming
  <2> QED BY <2>1, <2>2
<1>2. SliceFrom(uRows, page)' = SliceFrom(uRows', page')
  BY DEF SliceFrom
<1>3. \A c \in PageCall :
          Read(uCalls[c])' => /\ uCalls'[c].answer = SliceFrom(uRows, uCalls[c].page)'
                              /\ uCalls'[c].total = Cardinality(DOMAIN uRows')
  BY <1>1
<1>4. \/ uStrayed' \/ \E c \in PageCall : Coming(uCalls[c])'
      \/ users' = SliceFrom(uRows, page)' /\ totalCount' = Cardinality(DOMAIN uRows')
  BY <1>1, <1>2
<1> QED BY <1>3, <1>4 DEF UserKnown

(* What is known stays known when the calls that matter do.                *)
LEMMA KnownKept ==
    ASSUME UserKnown, UNCHANGED <<uRows, users, page, totalCount>>, uStrayed' = uStrayed,
           \A d \in PageCall :
              \/ uCalls'[d] = uCalls[d]
              \/ ~Read(uCalls'[d]) /\ (Coming(uCalls[d]) => Coming(uCalls'[d]))
    PROVE  UserKnown'
<1>1. \A c \in PageCall :
          Read(uCalls'[c]) => /\ uCalls'[c].answer = SliceFrom(uRows, uCalls'[c].page)
                              /\ uCalls'[c].total = Cardinality(DOMAIN uRows)
  BY DEF UserKnown
<1>2. \/ uStrayed' \/ \E c \in PageCall : Coming(uCalls'[c])
      \/ users = SliceFrom(uRows, page) /\ totalCount = Cardinality(DOMAIN uRows)
  BY DEF UserKnown
<1> QED BY <1>1, <1>2, KnownFrom

LEMMA ServiceKnown ==
    ASSUME UserTypes, UserKnown, NEW c \in PageCall, Users!Service(c)
    PROVE  UserKnown'
<1>0. uCalls[c] \in Users!CallState /\ uCalls = [d \in PageCall |-> uCalls[d]]
  BY DEF UserTypes, UserCalls, Carried
<1>1. CASE Users!ListUsers(c)
  <2> DEFINE r == [uCalls[c] EXCEPT !.phase = "done", !.answer = Users!Slice(uCalls[c].page),
                                   !.total = Cardinality(DOMAIN uRows)]
  <2>1. /\ r.kind = "list" /\ r.phase = "done" /\ r.page = uCalls[c].page
        /\ r.answer = Users!Slice(uCalls[c].page) /\ r.total = Cardinality(DOMAIN uRows)
    BY <1>0, <1>1, UserCardinality DEF Users!ListUsers, Users!CallState
  <2>2. \A d \in PageCall : uCalls'[d] = IF d = c THEN r ELSE uCalls[d]
    BY <1>0, <1>1, UserCardinality DEF Users!ListUsers
  <2> HIDE DEF r
  <2>3. uRows' = uRows
    BY <1>1 DEF Users!ListUsers, Users!table
  <2>4. \A d \in PageCall :
           Read(uCalls'[d]) => /\ uCalls'[d].answer = SliceFrom(uRows, uCalls'[d].page)
                               /\ uCalls'[d].total = Cardinality(DOMAIN uRows)
    BY <2>1, <2>2, SliceFromRows DEF UserKnown
  <2>5. Coming(uCalls'[c])
    BY <2>1, <2>2 DEF Coming
  <2> QED BY <2>3, <2>4, <2>5, KnownFrom
<1>2. CASE Users!Done(c) /\ uCalls[c].kind \notin {"none", "list"}
  <2>1. ASSUME NEW d \in PageCall
        PROVE  ~Read(uCalls'[d])
    <3>1. CASE d = c
      BY <1>0, <1>2, <3>1 DEF Users!Done, Read, Users!CallState
    <3>2. CASE d # c /\ uCalls[d].kind = "list" /\ uCalls[d].phase = "done"
      <4>1. uCalls'[d] = [uCalls[d] EXCEPT !.old = TRUE] /\ uCalls[d] \in Users!CallState
        BY <1>2, <3>2 DEF Users!Done, UserTypes, UserCalls, Carried
      <4> QED BY <4>1 DEF Read, Users!CallState
    <3>3. CASE d # c /\ ~(uCalls[d].kind = "list" /\ uCalls[d].phase = "done")
      BY <1>2, <3>3 DEF Users!Done, Read
    <3> QED BY <3>1, <3>2, <3>3
  <2>2. uCalls'[c] = [uCalls[c] EXCEPT !.phase = "done"]
    BY <1>2 DEF Users!Done
  <2>3. Coming(uCalls'[c])
    BY <1>0, <1>2, <2>2 DEF Coming, Users!CallState
  <2> QED BY <2>1, <2>3, KnownFrom
<1>3. CASE Users!BatchResetPassword(c)
  <2>1. \A d \in PageCall : uCalls'[d] = IF d = c THEN [uCalls[c] EXCEPT !.phase = "done"] ELSE uCalls[d]
    BY <1>0, <1>3 DEF Users!BatchResetPassword
  <2>2. uCalls'[c].kind = "reset" /\ uCalls'[c].phase = "done"
    BY <1>0, <1>3, <2>1 DEF Users!BatchResetPassword, Users!CallState
  <2>3. ~Read(uCalls'[c]) /\ Coming(uCalls'[c])
    BY <2>2 DEF Read, Coming
  <2> QED BY <1>3, <2>1, <2>3, KnownKept
             DEF Users!BatchResetPassword, Users!table, Users!shown, Users!history
<1> QED BY <1>1, <1>2, <1>3 DEF Users!Service, Users!UpdateUser, Users!DeleteUser,
           Users!CreateUser, Users!BatchCreateUsers

(* What the administrator does asks for a call, or for none.               *)
LEMMA SendKnown ==
    ASSUME UserKnown, UserTypes, NEW c \in PageCall, NEW r, Users!Send(c, r), r.phase = "sent",
           UNCHANGED <<uRows, users, page, totalCount, uStrayed>>
    PROVE  UserKnown'
<1>1. \A d \in PageCall : uCalls'[d] = IF d = c THEN r ELSE uCalls[d]
  BY DEF Users!Send, UserTypes, UserCalls
<1>2. uCalls[c].kind = "none"
  BY IdleIs DEF Users!Send
<1>3. ~Read(r) /\ ~Coming(uCalls[c])
  BY <1>2 DEF Read, Coming
<1> QED BY <1>1, <1>3, KnownKept

LEMMA AdministratorKnown ==
    ASSUME UserTypes, UserKnown, Users!Administrator
    PROVE  UserKnown'
<1>1. Users!Idle.phase = "sent" /\ \A kind : Users!Ask(kind).phase = "sent"
  BY DEF Users!Idle, Users!Ask
<1>2. CASE UNCHANGED <<Users!table, uCalls, Users!shown, uStrayed>>
  BY <1>2, KnownKept DEF Users!table, Users!shown
<1>3. ASSUME NEW c \in PageCall, NEW column, Users!HandleSort(c, column)
      PROVE  UserKnown'
  <2>1. [Users!Idle EXCEPT !.kind = "list", !.sort = column].phase = "sent"
    BY DEF Users!Idle
  <2> QED BY <1>3, <2>1, SendKnown DEF Users!HandleSort, Users!table, Users!history
<1>4. ASSUME NEW c \in PageCall, NEW p, Users!TurnPage(c, p)
      PROVE  UserKnown'
  <2>1. [Users!Ask("list") EXCEPT !.page = p].phase = "sent"
    BY DEF Users!Ask, Users!Idle
  <2> QED BY <1>4, <2>1, SendKnown DEF Users!TurnPage, Users!table, Users!shown, Users!history
<1>5. ASSUME NEW c \in PageCall, NEW i, NEW patch, Users!HandleUpdate(c, i, patch)
      PROVE  UserKnown'
  <2>1. [Users!Ask("update") EXCEPT !.user = users[i].id, !.patch = patch].phase = "sent"
    BY DEF Users!Ask, Users!Idle
  <2> QED BY <1>5, <2>1, SendKnown DEF Users!HandleUpdate, Users!table, Users!shown
<1>6. ASSUME NEW c \in PageCall, NEW i, Users!HandleDeleteUser(c, i)
      PROVE  UserKnown'
  <2>1. [Users!Ask("delete") EXCEPT !.user = users[i].id].phase = "sent"
    BY DEF Users!Ask, Users!Idle
  <2> QED BY <1>6, <2>1, SendKnown
             DEF Users!HandleDeleteUser, Users!table, Users!shown, Users!history
<1>7. ASSUME NEW c \in PageCall, Users!HandleBatchReset(c)
      PROVE  UserKnown'
  BY <1>1, <1>7, SendKnown DEF Users!HandleBatchReset, Users!table, Users!shown, Users!history
<1>8. ASSUME NEW c \in PageCall, Users!HandleSubmit(c)
      PROVE  UserKnown'
  <2>1. [Users!Ask("update") EXCEPT !.dialog = "edit", !.user = uEditing.user,
                              !.patch = uEditing.form].phase = "sent"
    BY DEF Users!Ask, Users!Idle
  <2> QED BY <1>8, <2>1, SendKnown DEF Users!HandleSubmit, Users!table, Users!shown
<1>9. ASSUME NEW c \in PageCall, Users!HandleSingleSubmit(c)
      PROVE  UserKnown'
  <2>1. [Users!Ask("create") EXCEPT !.dialog = "create", !.patch = uCreating.form].phase = "sent"
    BY DEF Users!Ask, Users!Idle
  <2> QED BY <1>9, <2>1, SendKnown
             DEF Users!HandleSingleSubmit, Users!table, Users!shown, Users!history
<1>10. ASSUME NEW c \in PageCall, NEW u, NEW row, NEW replace,
              Users!HandleBulkSubmit(c, u, row, replace)
       PROVE  UserKnown'
  <2>1. [Users!Ask("batch") EXCEPT !.dialog = "create", !.user = u,
                             !.patch = row, !.replace = replace].phase = "sent"
    BY DEF Users!Ask, Users!Idle
  <2> QED BY <1>10, <2>1, SendKnown DEF Users!HandleBulkSubmit, Users!table, Users!shown
<1>11. CASE \/ \E i \in DOMAIN users : Users!HandleEditClick(i)
            \/ Users!EditForm \/ Users!CancelEdit \/ Users!OpenCreate \/ Users!FillForm \/ Users!CloseCreate
  BY <1>2, <1>11 DEF Users!HandleEditClick, Users!EditForm, Users!CancelEdit, Users!OpenCreate,
     Users!FillForm, Users!CloseCreate,
                     Users!history
<1> QED BY <1>3, <1>4, <1>5, <1>6, <1>7, <1>8, <1>9, <1>10, <1>11 DEF Users!Administrator

LEMMA AnsweredKnown ==
    ASSUME UserTypes, UserKnown, NEW c \in PageCall,
           Users!ShowUsers(c) \/ Users!Succeed(c) \/ Users!Fail(c)
    PROVE  UserKnown'
<1>0. /\ uCalls[c] \in Users!CallState /\ uCalls = [d \in PageCall |-> uCalls[d]]
      /\ Users!Idle.kind = "none" /\ ~Read(Users!Idle) /\ ~Coming(Users!Idle)
  BY IdleIs DEF UserTypes, UserCalls, Carried, Read, Coming
<1>1. CASE Users!ShowUsers(c)
  <2>1. /\ uRows' = uRows /\ users' = uCalls[c].answer /\ totalCount' = uCalls[c].total
        /\ page' = uCalls[c].page /\ uStrayed' = uCalls[c].old
        /\ uCalls[c].kind = "list" /\ uCalls[c].phase = "done"
        /\ \A d \in PageCall : uCalls'[d] = IF d = c THEN Users!Idle ELSE uCalls[d]
    BY <1>0, <1>1 DEF Users!ShowUsers, Users!table
  <2>2. uStrayed' \/ (users' = SliceFrom(uRows, page') /\ totalCount' = Cardinality(DOMAIN uRows))
    BY <2>1 DEF UserKnown, Read
  <2>3. \A d \in PageCall :
           Read(uCalls'[d]) => /\ uCalls'[d].answer = SliceFrom(uRows, uCalls'[d].page)
                               /\ uCalls'[d].total = Cardinality(DOMAIN uRows)
    BY <1>0, <2>1 DEF UserKnown
  <2> QED BY <2>1, <2>2, <2>3, KnownFrom
<1>2. CASE Users!Succeed(c)
  <2>1. \A d \in PageCall : uCalls'[d] = IF d = c THEN Users!Refetched(uCalls[c]) ELSE uCalls[d]
    BY <1>0, <1>2 DEF Users!Succeed
  <2>2. Users!Refetched(uCalls[c]).kind = "list" /\ Users!Refetched(uCalls[c]).phase = "sent"
    BY DEF Users!Refetched, Users!Idle
  <2>3. ~Read(Users!Refetched(uCalls[c])) /\ Coming(Users!Refetched(uCalls[c]))
    BY <2>2 DEF Read, Coming
  <2> QED BY <1>2, <2>1, <2>3, KnownKept
             DEF Users!Succeed, Users!table, Users!shown, Users!history
<1>3. CASE Users!Fail(c)
  <2>1. /\ \A d \in PageCall : uCalls'[d] = IF d = c THEN Users!Idle ELSE uCalls[d]
        /\ UNCHANGED <<uRows, users, page, totalCount>>
        /\ uStrayed' = (uStrayed \/ uCalls[c].kind = "list" \/ uCalls[c].phase = "done")
    BY <1>0, <1>3 DEF Users!Fail, Users!table
  <2>2. \A d \in PageCall :
           Read(uCalls'[d]) => /\ uCalls'[d].answer = SliceFrom(uRows, uCalls'[d].page)
                               /\ uCalls'[d].total = Cardinality(DOMAIN uRows)
    BY <1>0, <2>1 DEF UserKnown
  <2>3. \/ uStrayed' \/ \E d \in PageCall : Coming(uCalls'[d])
        \/ users = SliceFrom(uRows, page) /\ totalCount = Cardinality(DOMAIN uRows)
    BY <2>1 DEF UserKnown, Coming
  <2> QED BY <2>1, <2>2, <2>3, KnownFrom
<1> QED BY <1>1, <1>2, <1>3

LEMMA UserKnownKept ==
    ASSUME UserTypes, UserKnown, Users!Next
    PROVE  UserKnown'
BY ServiceKnown, AdministratorKnown, AnsweredKnown DEF Users!Next

-----------------------------------------------------------------------------
(* The users: what was chosen.  Of a user of whom no choice raced at most  *)
(* one call makes a change: a call that was sent makes the row what was    *)
(* chosen, and without one it is.  A dialog that is open shows the row but *)
(* for what was touched, until its own call is made.                       *)
On(r, u) == r.kind \in {"update", "batch"} /\ r.user = u
Unsaved(r, u) == r.kind = "update" /\ r.user = u /\ r.phase = "sent"

Faithful(row) ==
    /\ "dept" \in uEditing.touched \/ uEditing.form.dept = row.dept
    /\ "position" \in uEditing.touched \/ uEditing.form.position = row.position
    /\ "role" \in uEditing.touched \/ uEditing.form.role = row.role

OneUserCall(u) == \A c, d \in PageCall : On(uCalls[c], u) /\ On(uCalls[d], u) => c = d
UserSaved(u) == Users!Kept(uRows[u], uWanted[u]) \/ \E c \in PageCall : Unsaved(uCalls[c], u)
UserSaves(u) == \A c \in PageCall : Unsaved(uCalls[c], u) =>
                    Users!Kept(Users!Patched(uRows[u], uCalls[c].patch), uWanted[u])
ShowsRow(u) ==
    uEditing.open /\ uEditing.user = u =>
        /\ \A c \in PageCall : On(uCalls[c], u) => uCalls[c].dialog = "edit"
        /\ (\A c \in PageCall : ~On(uCalls[c], u)) => Faithful(uRows[u])

KeptFor(u) == OneUserCall(u) /\ UserSaved(u) /\ UserSaves(u) /\ ShowsRow(u)
UserChoices ==
    /\ ~(uEditing.open /\ uCreating.open)
    /\ \A u \in DOMAIN uRows \ uRaced : KeptFor(u)

LEMMA UpdatingIs ==
    ASSUME NEW u
    PROVE  Users!Updating(u) <=> \E c \in PageCall : On(uCalls[c], u)
BY DEF Users!Updating, Users!Underway, On

LEMMA UserChoicesKeep == UserChoices => Users!LastChoiceKept
<1> SUFFICES ASSUME UserChoices, NEW u \in DOMAIN uRows \ uRaced, ~Users!Updating(u)
             PROVE  Users!Kept(uRows[u], uWanted[u])
  BY DEF Users!LastChoiceKept
<1>1. \A c \in PageCall : ~Unsaved(uCalls[c], u)
  BY UpdatingIs DEF On, Unsaved
<1> QED BY <1>1 DEF UserChoices, KeptFor, UserSaved

(* A step that changes neither the row nor what was chosen, nor a call for *)
(* it, nor the dialog but by closing it.                                   *)
SameFor(u) ==
    /\ \A d \in PageCall : \/ uCalls'[d] = uCalls[d]
                           \/ ~On(uCalls[d], u) /\ ~On(uCalls'[d], u)
    /\ uRows'[u] = uRows[u] /\ uWanted'[u] = uWanted[u]
    /\ uEditing' = uEditing \/ ~(uEditing'.open /\ uEditing'.user = u)

LEMMA SameKept ==
    ASSUME NEW u, KeptFor(u), SameFor(u)
    PROVE  KeptFor(u)'
<1>1. \A d \in PageCall : /\ On(uCalls'[d], u) <=> On(uCalls[d], u)
                          /\ On(uCalls'[d], u) => uCalls'[d] = uCalls[d]
                          /\ Unsaved(uCalls'[d], u) <=> Unsaved(uCalls[d], u)
                          /\ Unsaved(uCalls'[d], u) => uCalls'[d] = uCalls[d]
  BY DEF SameFor, On, Unsaved
<1>2. OneUserCall(u)'
  BY <1>1 DEF KeptFor, OneUserCall, On
<1>3. UserSaved(u)'
  BY <1>1 DEF KeptFor, UserSaved, SameFor, Unsaved, Users!Kept
<1>4. UserSaves(u)'
  <2>1. SUFFICES ASSUME NEW c \in PageCall, Unsaved(uCalls'[c], u)
                 PROVE  Users!Kept(Users!Patched(uRows'[u], uCalls'[c].patch), uWanted'[u])
    BY DEF UserSaves, Unsaved, Users!Patched, Users!Kept
  <2>2. Unsaved(uCalls[c], u) /\ uCalls'[c] = uCalls[c]
    BY <1>1, <2>1
  <2> QED BY <2>2 DEF KeptFor, UserSaves, SameFor
<1>5. ShowsRow(u)'
  BY <1>1 DEF KeptFor, ShowsRow, SameFor, On, Faithful
<1> QED BY <1>2, <1>3, <1>4, <1>5 DEF KeptFor

(* The steps that touch no choice.                                         *)
LEMMA OthersKept ==
    ASSUME UserChoices, uRows' = uRows, uWanted' = uWanted, uRaced \subseteq uRaced',
           \A d \in PageCall : \/ uCalls'[d] = uCalls[d]
                               \/ /\ uCalls[d].kind \notin {"update", "batch"}
                                  /\ uCalls'[d].kind \notin {"update", "batch"},
           uEditing' = uEditing \/ ~uEditing'.open,
           ~(uEditing'.open /\ uCreating'.open)
    PROVE  UserChoices'
<1>1. ASSUME NEW u \in DOMAIN uRows \ uRaced
      PROVE  KeptFor(u)'
  <2>1. SameFor(u)
    BY DEF SameFor, On
  <2> QED BY <2>1, SameKept DEF UserChoices
<1> QED BY <1>1 DEF UserChoices

LEMMA SentIs ==
    ASSUME UserTypes, NEW c \in PageCall, NEW r, Users!Send(c, r)
    PROVE  /\ uCalls'[c] = r /\ \A d \in PageCall : d # c => uCalls'[d] = uCalls[d]
           /\ uCalls[c].kind = "none" /\ \A u : ~On(uCalls[c], u)
<1>1. uCalls[c].kind = "none"
  BY IdleIs DEF Users!Send
<1> QED BY <1>1 DEF Users!Send, UserTypes, UserCalls, On

(* A call that sets what was chosen and leaves the rest as it is ends with *)
(* what is wanted.                                                         *)
LEMMA PatchKept ==
    ASSUME NEW row \in Users!Row, NEW choice \in Users!Patch, NEW fields, NEW w, NEW v,
           Users!Kept(row, w),
           IF "dept" \in fields THEN choice.dept # Unset ELSE choice.dept \in {Unset, row.dept},
           "position" \notin fields => choice.position \in {Unset, row.position},
           IF "role" \in fields THEN choice.role # "none" ELSE choice.role \in {"none", row.role},
           v.dept = IF "dept" \in fields THEN choice.dept ELSE w.dept,
           v.role = IF "role" \in fields THEN choice.role ELSE w.role,
           v.position = IF "position" \notin fields THEN w.position
                        ELSE IF choice.position = Unset THEN Users!Emptied ELSE choice.position
    PROVE  Users!Kept(Users!Patched(row, choice), v)
<1>1. PICK new : new = Users!Patched(row, choice)
  OBVIOUS
<1>2. /\ new.dept = IF choice.dept = Unset THEN row.dept ELSE choice.dept
      /\ new.position = IF choice.position = Unset THEN row.position ELSE choice.position
      /\ new.role = IF choice.role = "none" THEN row.role ELSE choice.role
  BY <1>1 DEF Users!Patched
<1>3. /\ row.dept = w.dept /\ row.role = w.role
      /\ row.position = w.position \/ w.position = Users!Emptied
  BY DEF Users!Kept
<1>4. new.dept = v.dept
  BY <1>2, <1>3
<1>5. new.role = v.role
  BY <1>2, <1>3
<1>6. new.position = v.position \/ v.position = Users!Emptied
  BY <1>2, <1>3
<1> QED BY <1>1, <1>4, <1>5, <1>6 DEF Users!Kept

LEMMA HandleUpdateChoices ==
    ASSUME UserTypes, UserChoices, NEW c \in PageCall, NEW i \in DOMAIN users,
           NEW patch \in Users!Patches,
           Users!HandleUpdate(c, i, patch)
    PROVE  UserChoices'
<1> DEFINE u0 == users[i].id
           r == [Users!Ask("update") EXCEPT !.user = u0, !.patch = patch]
           fields == IF patch.dept = Unset THEN {"position"} ELSE {"dept"}
<1>1. /\ r.kind = "update" /\ r.user = u0 /\ r.patch = patch /\ r.phase = "sent"
  BY DEF Users!Ask, Users!Idle
<1>2. /\ uCalls'[c] = r /\ \A d \in PageCall : d # c => uCalls'[d] = uCalls[d]
      /\ \A u : ~On(uCalls[c], u)
  BY SentIs DEF Users!HandleUpdate
<1> HIDE DEF r
<1>3. /\ uRows' = uRows /\ uEditing' = uEditing /\ uCreating' = uCreating
      /\ ~uEditing.open /\ ~uCreating.open /\ Users!Choose(u0, patch, fields)
  BY DEF Users!HandleUpdate, Users!table, Users!dialogs, Users!OnPage
<1>4. /\ patch \in Users!Patch /\ u0 \in 1 .. uBorn
      /\ patch.role = "none" /\ (patch.dept = Unset \/ patch.position = Unset)
  BY UserFacts, RowsArePatches DEF Users!Patches, Users!Patch, Users!NoPatch
<1>a. fields \in SUBSET {"dept", "position", "role"} /\ "role" \notin fields
  OBVIOUS
<1>b. /\ \A v \in 1 .. uBorn : v # u0 => uWanted'[v] = uWanted[v]
      /\ uWanted'[u0].dept = IF "dept" \in fields THEN patch.dept ELSE uWanted[u0].dept
      /\ uWanted'[u0].role = IF "role" \in fields THEN patch.role ELSE uWanted[u0].role
      /\ uWanted'[u0].position = IF "position" \notin fields THEN uWanted[u0].position
                                 ELSE IF patch.position = Unset THEN Users!Emptied
                                 ELSE patch.position
  <2> HIDE DEF fields, u0
  <2> QED BY <1>3, <1>4, <1>a, ChooseIs
<1>5. ASSUME NEW u \in DOMAIN uRows \ uRaced'
      PROVE  KeptFor(u)'
  <2>1. KeptFor(u) /\ u \notin uRaced
    BY <1>3, <1>5 DEF UserChoices, Users!Choose
  <2>2. CASE u # u0
    <3>1. ~On(r, u) /\ uWanted'[u] = uWanted[u]
      BY <1>1, <1>5, <1>b, <2>2, UserFacts DEF On
    <3>2. SameFor(u)
      BY <1>2, <1>3, <3>1 DEF SameFor
    <3> QED BY <2>1, <3>2, SameKept
  <2>3. CASE u = u0
    <3>1. \A d \in PageCall : ~On(uCalls[d], u)
      BY <1>3, <1>5, <2>3, UpdatingIs DEF Users!Choose
    <3>2. \A d \in PageCall : On(uCalls'[d], u) <=> d = c
      BY <1>1, <1>2, <2>3, <3>1 DEF On
    <3>3. Users!Kept(uRows[u], uWanted[u])
      BY <2>1, <3>1 DEF KeptFor, UserSaved, On, Unsaved
    <3>4. OneUserCall(u)'
      BY <3>2 DEF OneUserCall, On
    <3>5. Unsaved(uCalls'[c], u)
      BY <1>1, <1>2, <2>3 DEF Unsaved
    <3>6. Users!Kept(Users!Patched(uRows[u], patch), uWanted'[u])
      <4>1. uRows[u] \in Users!Row
        BY <1>5 DEF UserTypes, UserTable
      <4>2. \/ patch.dept = Unset /\ fields = {"position"}
            \/ patch.dept # Unset /\ fields = {"dept"} /\ patch.position = Unset
        BY <1>4
      <4> HIDE DEF fields
      <4>3. /\ IF "dept" \in fields THEN patch.dept # Unset ELSE patch.dept \in {Unset, uRows[u].dept}
            /\ "position" \notin fields => patch.position \in {Unset, uRows[u].position}
        BY <4>2
      <4> QED BY <1>4, <1>a, <1>b, <2>3, <3>3, <4>1, <4>3, PatchKept
    <3>7. UserSaved(u)'
      BY <3>5 DEF UserSaved, Unsaved
    <3>8. UserSaves(u)'
      <4>1. \A d \in PageCall : Unsaved(uCalls'[d], u) => d = c
        BY <3>2 DEF On, Unsaved
      <4>2. Users!Kept(Users!Patched(uRows'[u], uCalls'[c].patch), uWanted'[u])
        BY <1>1, <1>2, <1>3, <3>6
      <4> QED BY <4>1, <4>2 DEF UserSaves, Unsaved, Users!Patched, Users!Kept
    <3>9. ShowsRow(u)'
      BY <1>3 DEF ShowsRow
    <3> QED BY <3>4, <3>7, <3>8, <3>9 DEF KeptFor
  <2> QED BY <2>2, <2>3
<1> QED BY <1>3, <1>5 DEF UserChoices

LEMMA HandleSubmitChoices ==
    ASSUME UserTypes, UserChoices, NEW c \in PageCall, Users!HandleSubmit(c)
    PROVE  UserChoices'
<1> DEFINE u0 == uEditing.user
           r == [Users!Ask("update") EXCEPT !.dialog = "edit", !.user = u0, !.patch = uEditing.form]
<1>1. /\ r.kind = "update" /\ r.user = u0 /\ r.patch = uEditing.form /\ r.phase = "sent"
      /\ r.dialog = "edit"
  BY DEF Users!Ask, Users!Idle
<1>2. /\ uCalls'[c] = r /\ \A d \in PageCall : d # c => uCalls'[d] = uCalls[d]
      /\ \A u : ~On(uCalls[c], u)
  BY SentIs DEF Users!HandleSubmit
<1> HIDE DEF r
<1>3. /\ uRows' = uRows /\ uCreating' = uCreating /\ uEditing.open
      /\ Users!Choose(u0, uEditing.form, uEditing.touched)
      /\ uEditing \in Users!Form /\ u0 \in 1 .. uBorn /\ Filled(uEditing)
  BY UserFacts DEF Users!HandleSubmit, Users!table, UserTypes, UserDialogs
<1>a. /\ uEditing.form \in Users!Patch /\ uEditing.form.role \in Users!Role
      /\ uEditing.touched \in SUBSET {"dept", "position", "role"}
  BY <1>3, UserFacts, RowsArePatches DEF Users!Form, Users!Row
<1>b. /\ \A v \in 1 .. uBorn : v # u0 => uWanted'[v] = uWanted[v]
      /\ uWanted'[u0].dept = IF "dept" \in uEditing.touched THEN uEditing.form.dept
                             ELSE uWanted[u0].dept
      /\ uWanted'[u0].role = IF "role" \in uEditing.touched THEN uEditing.form.role
                             ELSE uWanted[u0].role
      /\ uWanted'[u0].position = IF "position" \notin uEditing.touched THEN uWanted[u0].position
                                 ELSE IF uEditing.form.position = Unset THEN Users!Emptied
                                 ELSE uEditing.form.position
  BY <1>3, <1>a, ChooseIs
<1>4. /\ uEditing'.open = uEditing.open /\ uEditing'.user = u0
      /\ uEditing'.touched = uEditing.touched /\ uEditing'.form = uEditing.form
  BY <1>3 DEF Users!HandleSubmit, Users!Form
<1>5. ASSUME NEW u \in DOMAIN uRows \ uRaced'
      PROVE  KeptFor(u)'
  <2>1. KeptFor(u) /\ u \notin uRaced
    BY <1>3, <1>5 DEF UserChoices, Users!Choose
  <2>2. CASE u # u0
    <3>1. ~On(r, u) /\ uWanted'[u] = uWanted[u]
      BY <1>1, <1>5, <1>b, <2>2, UserFacts DEF On
    <3>2. SameFor(u)
      BY <1>2, <1>3, <1>4, <2>2, <3>1 DEF SameFor
    <3> QED BY <2>1, <3>2, SameKept
  <2>3. CASE u = u0
    <3>1. \A d \in PageCall : ~On(uCalls[d], u)
      BY <1>3, <1>5, <2>3, UpdatingIs DEF Users!Choose
    <3>2. \A d \in PageCall : On(uCalls'[d], u) <=> d = c
      BY <1>1, <1>2, <2>3, <3>1 DEF On
    <3>3. Users!Kept(uRows[u], uWanted[u])
      BY <2>1, <3>1 DEF KeptFor, UserSaved, On, Unsaved
    <3>4. OneUserCall(u)'
      BY <3>2 DEF OneUserCall, On
    <3>5. Unsaved(uCalls'[c], u)
      BY <1>1, <1>2, <2>3 DEF Unsaved
    <3>6. Users!Kept(Users!Patched(uRows[u], uEditing.form), uWanted'[u])
      <4>1. uRows[u] \in Users!Row
        BY <1>5 DEF UserTypes, UserTable
      <4>2. Faithful(uRows[u])
        BY <1>3, <2>1, <2>3, <3>1 DEF KeptFor, ShowsRow
      <4>3. uEditing.form.role # "none"
        BY <1>a DEF Users!Role
      <4>4. PICK row \in Users!Row, form \in Users!Patch : row = uRows[u] /\ form = uEditing.form
        BY <1>a, <4>1
      <4>a. PICK fields, w, v :
                fields = uEditing.touched /\ w = uWanted[u] /\ v = uWanted'[u]
        OBVIOUS
      <4>5. /\ IF "dept" \in fields THEN form.dept # Unset ELSE form.dept \in {Unset, row.dept}
            /\ "position" \notin fields => form.position \in {Unset, row.position}
            /\ IF "role" \in fields THEN form.role # "none" ELSE form.role \in {"none", row.role}
        BY <1>3, <4>2, <4>3, <4>4, <4>a DEF Faithful, Filled
      <4>6. /\ v.dept = IF "dept" \in fields THEN form.dept ELSE w.dept
            /\ v.role = IF "role" \in fields THEN form.role ELSE w.role
            /\ v.position = IF "position" \notin fields THEN w.position
                            ELSE IF form.position = Unset THEN Users!Emptied ELSE form.position
        BY <1>b, <2>3, <4>4, <4>a
      <4>7. Users!Kept(row, w)
        BY <3>3, <4>4, <4>a
      <4>8. Users!Kept(Users!Patched(row, form), v)
        BY <4>5, <4>6, <4>7, PatchKept
      <4> QED BY <4>4, <4>a, <4>8
    <3>7. UserSaved(u)'
      BY <3>5 DEF UserSaved, Unsaved
    <3>8. UserSaves(u)'
      <4>1. \A d \in PageCall : Unsaved(uCalls'[d], u) => d = c
        BY <3>2 DEF On, Unsaved
      <4>2. Users!Kept(Users!Patched(uRows'[u], uCalls'[c].patch), uWanted'[u])
        BY <1>1, <1>2, <1>3, <3>6
      <4> QED BY <4>1, <4>2 DEF UserSaves, Unsaved, Users!Patched, Users!Kept
    <3>9. ShowsRow(u)'
      <4>1. uCalls'[c].dialog = "edit"
        BY <1>1, <1>2
      <4> QED BY <3>2, <4>1 DEF ShowsRow, On
    <3> QED BY <3>4, <3>7, <3>8, <3>9 DEF KeptFor
  <2> QED BY <2>2, <2>3
<1> QED BY <1>3, <1>4, <1>5 DEF UserChoices

LEMMA HandleBulkSubmitChoices ==
    ASSUME UserTypes, UserChoices, NEW c \in PageCall, NEW u0, NEW row, NEW replace,
           Users!HandleBulkSubmit(c, u0, row, replace)
    PROVE  UserChoices'
<1> DEFINE r == [Users!Ask("batch") EXCEPT !.dialog = "create", !.user = u0,
                                     !.patch = row, !.replace = replace]
<1>1. r.kind = "batch" /\ r.user = u0
  BY DEF Users!Ask, Users!Idle
<1>2. /\ uCalls'[c] = r /\ \A d \in PageCall : d # c => uCalls'[d] = uCalls[d]
      /\ \A u : ~On(uCalls[c], u)
  BY SentIs DEF Users!HandleBulkSubmit
<1> HIDE DEF r
<1>3. /\ uRows' = uRows /\ uEditing' = uEditing /\ uWanted' = uWanted /\ uCreating.open
      /\ uRaced' = IF Users!Updating(u0) THEN uRaced \cup {u0} ELSE uRaced
  BY DEF Users!HandleBulkSubmit, Users!table
<1>4. ~uEditing.open
  BY <1>3 DEF UserChoices
<1>5. ASSUME NEW u \in DOMAIN uRows \ uRaced'
      PROVE  KeptFor(u)'
  <2>1. KeptFor(u) /\ u \notin uRaced
    BY <1>3, <1>5 DEF UserChoices
  <2>2. CASE u # u0
    <3>1. ~On(r, u)
      BY <1>1, <2>2 DEF On
    <3>2. SameFor(u)
      BY <1>2, <1>3, <3>1 DEF SameFor
    <3> QED BY <2>1, <3>2, SameKept
  <2>3. CASE u = u0
    <3>1. \A d \in PageCall : ~On(uCalls[d], u)
      BY <1>3, <1>5, <2>3, UpdatingIs
    <3>2. \A d \in PageCall : On(uCalls'[d], u) <=> d = c
      BY <1>1, <1>2, <2>3, <3>1 DEF On
    <3>3. Users!Kept(uRows[u], uWanted[u])
      BY <2>1, <3>1 DEF KeptFor, UserSaved, On, Unsaved
    <3>4. OneUserCall(u)'
      BY <3>2 DEF OneUserCall, On
    <3>5. \A d \in PageCall : ~Unsaved(uCalls'[d], u)
      BY <1>1, <1>2, <3>2 DEF On, Unsaved
    <3>6. UserSaved(u)'
      BY <1>3, <3>3 DEF UserSaved
    <3>7. UserSaves(u)'
      BY <3>5 DEF UserSaves, Unsaved
    <3>8. ShowsRow(u)'
      BY <1>3, <1>4 DEF ShowsRow
    <3> QED BY <3>4, <3>6, <3>7, <3>8 DEF KeptFor
  <2> QED BY <2>2, <2>3
<1> QED BY <1>3, <1>4, <1>5 DEF UserChoices

LEMMA HandleEditClickChoices ==
    ASSUME UserTypes, UserChoices, NEW i \in DOMAIN users, Users!HandleEditClick(i)
    PROVE  UserChoices'
<1> DEFINE u0 == users[i].id
<1>1. /\ uRows' = uRows /\ uWanted' = uWanted /\ uCalls' = uCalls /\ uCreating' = uCreating
      /\ ~uCreating.open /\ uRaced \subseteq uRaced'
      /\ u0 \notin uRaced' => uRows[u0] = users[i].row /\ ~Users!Updating(u0)
  BY DEF Users!HandleEditClick, Users!table, Users!OnPage
<1>2. uEditing'.user = u0 /\ uEditing'.form = users[i].row
  BY DEF Users!HandleEditClick, Users!Prefilled, UserTypes, UserDialogs, Users!Form
<1>3. ASSUME NEW u \in DOMAIN uRows \ uRaced'
      PROVE  KeptFor(u)'
  <2>1. KeptFor(u)
    BY <1>1, <1>3 DEF UserChoices
  <2>2. CASE u # u0
    <3>1. SameFor(u)
      BY <1>1, <1>2, <2>2 DEF SameFor
    <3> QED BY <2>1, <3>1, SameKept
  <2>3. CASE u = u0
    <3>1. \A d \in PageCall : ~On(uCalls[d], u)
      BY <1>1, <1>3, <2>3, UpdatingIs
    <3>2. OneUserCall(u)' /\ UserSaved(u)' /\ UserSaves(u)'
      BY <1>1, <2>1 DEF KeptFor, OneUserCall, UserSaved, UserSaves, On, Unsaved,
         Users!Patched
    <3>3. ShowsRow(u)'
      BY <1>1, <1>2, <1>3, <2>3, <3>1 DEF ShowsRow, On, Faithful
    <3> QED BY <3>2, <3>3 DEF KeptFor
  <2> QED BY <2>2, <2>3
<1> QED BY <1>1, <1>3 DEF UserChoices

LEMMA EditFormChoices ==
    ASSUME UserTypes, UserChoices, Users!EditForm
    PROVE  UserChoices'
<1>1. /\ uRows' = uRows /\ uWanted' = uWanted /\ uCalls' = uCalls /\ uCreating' = uCreating
      /\ uRaced' = uRaced /\ uEditing.open /\ ~uCreating.open
  BY DEF Users!EditForm, Users!table, Users!history, UserChoices
<1>2. /\ uEditing'.user = uEditing.user
      /\ uEditing.touched \subseteq uEditing'.touched
      /\ "dept" \in uEditing'.touched \/ uEditing'.form.dept = uEditing.form.dept
      /\ "position" \in uEditing'.touched \/ uEditing'.form.position = uEditing.form.position
      /\ "role" \in uEditing'.touched \/ uEditing'.form.role = uEditing.form.role
  <2>1. uEditing \in Users!Form /\ uEditing.form \in Users!Row
    BY UserFacts DEF UserTypes, UserDialogs
  <2>2. CASE \E v \in Name : uEditing' = [uEditing EXCEPT !.form.dept = v, !.touched = @ \cup {"dept"}]
    BY <2>1, <2>2 DEF Users!Form, Users!Row
  <2>3. CASE \E v \in Name \cup {Unset} :
                uEditing' = [uEditing EXCEPT !.form.position = v, !.touched = @ \cup {"position"}]
    BY <2>1, <2>3 DEF Users!Form, Users!Row
  <2>4. CASE \E v \in Users!Role \ {uEditing.form.role} :
                uEditing' = [uEditing EXCEPT !.form.role = v, !.touched = @ \cup {"role"}]
    BY <2>1, <2>4 DEF Users!Form, Users!Row
  <2> QED BY <2>2, <2>3, <2>4 DEF Users!EditForm
<1>3. ASSUME NEW u \in DOMAIN uRows \ uRaced
      PROVE  KeptFor(u)'
  <2>1. KeptFor(u)
    BY <1>3 DEF UserChoices
  <2>2. OneUserCall(u)' /\ UserSaved(u)' /\ UserSaves(u)'
    BY <1>1, <2>1 DEF KeptFor, OneUserCall, UserSaved, UserSaves, On, Unsaved, Users!Patched
  <2>3. ShowsRow(u)'
    BY <1>1, <1>2, <2>1 DEF KeptFor, ShowsRow, On, Faithful
  <2> QED BY <2>2, <2>3 DEF KeptFor
<1> QED BY <1>1, <1>3 DEF UserChoices

LEMMA PlainChoices ==
    ASSUME UserTypes, UserChoices, NEW c \in PageCall, NEW r, Users!Send(c, r),
           r.kind \notin {"update", "batch"},
           uRows' = uRows, uWanted' = uWanted, uRaced' = uRaced, uEditing' = uEditing,
           uCreating'.open = uCreating.open
    PROVE  UserChoices'
<1>1. /\ uCalls'[c] = r /\ uCalls[c].kind = "none"
      /\ \A d \in PageCall : d # c => uCalls'[d] = uCalls[d]
  BY SentIs
<1>2. ~(uEditing'.open /\ uCreating'.open)
  BY DEF UserChoices
<1> QED BY <1>1, <1>2, OthersKept

LEMMA AdministratorChoices ==
    ASSUME UserTypes, UserChoices, Users!Administrator
    PROVE  UserChoices'
<1>1. ASSUME NEW c \in PageCall, NEW column, Users!HandleSort(c, column)
      PROVE  UserChoices'
  <2>1. [Users!Idle EXCEPT !.kind = "list", !.sort = column].kind = "list"
    BY DEF Users!Idle
  <2> QED BY <1>1, <2>1, PlainChoices
             DEF Users!HandleSort, Users!table, Users!dialogs, Users!history
<1>2. ASSUME NEW c \in PageCall, NEW p, Users!TurnPage(c, p)
      PROVE  UserChoices'
  <2>1. [Users!Ask("list") EXCEPT !.page = p].kind = "list"
    BY DEF Users!Ask, Users!Idle
  <2> QED BY <1>2, <2>1, PlainChoices
             DEF Users!TurnPage, Users!table, Users!dialogs, Users!history
<1>3. ASSUME NEW c \in PageCall, NEW i, Users!HandleDeleteUser(c, i)
      PROVE  UserChoices'
  <2>1. [Users!Ask("delete") EXCEPT !.user = users[i].id].kind = "delete"
    BY DEF Users!Ask, Users!Idle
  <2> QED BY <1>3, <2>1, PlainChoices
             DEF Users!HandleDeleteUser, Users!table, Users!dialogs, Users!history
<1>4. ASSUME NEW c \in PageCall, Users!HandleBatchReset(c)
      PROVE  UserChoices'
  <2>1. Users!Ask("reset").kind = "reset"
    BY DEF Users!Ask, Users!Idle
  <2> QED BY <1>4, <2>1, PlainChoices
             DEF Users!HandleBatchReset, Users!table, Users!dialogs, Users!history
<1>5. ASSUME NEW c \in PageCall, Users!HandleSingleSubmit(c)
      PROVE  UserChoices'
  <2>1. [Users!Ask("create") EXCEPT !.dialog = "create", !.patch = uCreating.form].kind = "create"
    BY DEF Users!Ask, Users!Idle
  <2>2. uCreating'.open = uCreating.open
    BY <1>5 DEF Users!HandleSingleSubmit, UserTypes, UserDialogs, Users!Form
  <2> QED BY <1>5, <2>1, <2>2, PlainChoices
             DEF Users!HandleSingleSubmit, Users!table, Users!history
<1>6. CASE Users!CancelEdit
  <2>1. ~uEditing'.open
    BY <1>6 DEF Users!CancelEdit, Users!CloseEdit, Users!Closed
  <2> QED BY <1>6, <2>1, OthersKept DEF Users!CancelEdit, Users!table, Users!history
<1>7. CASE Users!OpenCreate \/ Users!FillForm \/ Users!CloseCreate
  <2>1. ~(uEditing'.open /\ uCreating'.open)
    BY <1>7 DEF Users!OpenCreate, Users!FillForm, Users!CloseCreate, Users!OnPage, UserChoices
  <2> QED BY <1>7, <2>1, OthersKept
             DEF Users!OpenCreate, Users!FillForm, Users!CloseCreate, Users!table, Users!history
<1> QED BY <1>1, <1>2, <1>3, <1>4, <1>5, <1>6, <1>7, HandleUpdateChoices, HandleSubmitChoices,
           HandleBulkSubmitChoices, HandleEditClickChoices, EditFormChoices DEF Users!Administrator

(* The service has done a call, for one user, for a new one or for none.   *)
LEMMA DoneFor ==
    ASSUME UserTypes, NEW c \in PageCall, Users!Done(c), uBorn' \in Int, uBorn <= uBorn', NEW u,
           ~On(uCalls[c], u)
    PROVE  /\ \A d \in PageCall : /\ On(uCalls'[d], u) <=> On(uCalls[d], u)
                                  /\ Unsaved(uCalls'[d], u) <=> Unsaved(uCalls[d], u)
                                  /\ On(uCalls'[d], u) => uCalls'[d] = uCalls[d]
<1>1. ASSUME NEW d \in PageCall
      PROVE  /\ uCalls'[d].kind = uCalls[d].kind /\ uCalls'[d].user = uCalls[d].user
             /\ uCalls'[d].phase = IF d = c THEN "done" ELSE uCalls[d].phase
             /\ d # c /\ uCalls[d].kind # "list" => uCalls'[d] = uCalls[d]
  <2>1. /\ uCalls'[d].kind = uCalls[d].kind /\ uCalls'[d].user = uCalls[d].user
        /\ uCalls'[d].phase = IF d = c THEN "done" ELSE uCalls[d].phase
    BY DoneCalls
  <2>2. d # c /\ uCalls[d].kind # "list" => uCalls'[d] = uCalls[d]
    BY DEF Users!Done
  <2> QED BY <2>1, <2>2
<1> QED BY <1>1 DEF On, Unsaved

LEMMA UntouchedFor ==
    ASSUME UserTypes, UserChoices, NEW c \in PageCall, Users!Done(c), uBorn' \in Int,
           uBorn <= uBorn',
           UNCHANGED <<Users!dialogs, uRaced>>,
           NEW u \in DOMAIN uRows \ uRaced, ~On(uCalls[c], u),
           uRows'[u] = uRows[u], uWanted'[u] = uWanted[u]
    PROVE  KeptFor(u)'
<1>1. \A d \in PageCall : \/ uCalls'[d] = uCalls[d]
                          \/ ~On(uCalls[d], u) /\ ~On(uCalls'[d], u)
  BY DoneFor
<1>2. SameFor(u) /\ KeptFor(u)
  BY <1>1 DEF SameFor, Users!dialogs, UserChoices
<1> QED BY <1>2, SameKept

(* A user who has just been created is what was chosen.                    *)
LEMMA NewFor ==
    ASSUME UserTypes, NEW c \in PageCall, Users!Done(c), uBorn' = uBorn + 1,
           UNCHANGED Users!dialogs,
           NEW u, u = uBorn + 1, Users!Kept(uRows'[u], uWanted'[u])
    PROVE  KeptFor(u)'
<1>0. uBorn' \in Int /\ uBorn <= uBorn'
  BY UserFacts
<1>1. \A d \in PageCall : uCalls'[d].user = uCalls[d].user
  BY <1>0, DoneCalls
<1>2. \A d \in PageCall : uCalls[d].user <= uBorn /\ uCalls[d].user \in Nat
  BY DEF UserTypes, UserCalls, Carried, Users!CallState, Users!User, Users!Nobody
<1>3. \A d \in PageCall : ~On(uCalls'[d], u) /\ ~Unsaved(uCalls'[d], u)
  BY <1>1, <1>2, UserFacts DEF On, Unsaved
<1>4. uEditing' = uEditing /\ uEditing.user # u
  BY UserFacts DEF Users!dialogs
<1>5. OneUserCall(u)' /\ UserSaves(u)' /\ ShowsRow(u)'
  BY <1>3, <1>4 DEF OneUserCall, UserSaves, ShowsRow, On, Unsaved
<1>6. UserSaved(u)'
  BY DEF UserSaved
<1> QED BY <1>5, <1>6 DEF KeptFor

LEMMA CreatedChoices ==
    ASSUME UserTypes, UserChoices, NEW c \in PageCall, Users!Done(c),
           UNCHANGED <<Users!dialogs, uRaced>>,
           NEW row \in Users!Row, NEW kept \in {uRows, <<>>}, uBorn < MaxUsers,
           kept = uRows => \A u \in DOMAIN uRows : ~On(uCalls[c], u),
           uRows' = Users!Created(kept, row), uWanted' = Users!Created(uWanted, row), uBorn' = uBorn + 1
    PROVE  UserChoices'
<1>1. /\ uBorn \in Nat /\ uRows \in [DOMAIN uRows -> Users!Row]
      /\ DOMAIN uRows \subseteq 1 .. uBorn
      /\ uWanted \in [1 .. uBorn -> Users!Wish] /\ DOMAIN uWanted = 1 .. uBorn
  BY UserFacts DEF UserTypes, UserTable
<1>2. <<>> \in [{} -> Users!Row] /\ DOMAIN <<>> = {}
  OBVIOUS
<1>3. kept \in [DOMAIN kept -> Users!Row] /\ DOMAIN kept \subseteq 1 .. uBorn
  BY <1>1, <1>2
<1>4. /\ DOMAIN uRows' = DOMAIN kept \cup {uBorn + 1}
      /\ \A u \in DOMAIN kept : uRows'[u] = kept[u]
      /\ uRows'[uBorn + 1] = row
  <2>1. /\ Users!Created(kept, row) \in [DOMAIN kept \cup {uBorn + 1} -> Users!Row]
        /\ \A u \in DOMAIN kept : Users!Created(kept, row)[u] = kept[u]
        /\ Users!Created(kept, row)[uBorn + 1] = row
    BY <1>1, <1>3 DEF Users!Created
  <2> QED BY <2>1
<1>5. /\ \A u \in DOMAIN uWanted : uWanted'[u] = uWanted[u]
      /\ uWanted'[uBorn + 1] = row
  <2>1. /\ \A u \in DOMAIN uWanted : Users!Created(uWanted, row)[u] = uWanted[u]
        /\ Users!Created(uWanted, row)[uBorn + 1] = row
    BY <1>1 DEF Users!Created
  <2> QED BY <2>1
<1>6. ASSUME NEW u \in DOMAIN uRows' \ uRaced'
      PROVE  KeptFor(u)'
  <2>1. CASE u = uBorn + 1
    <3>1. Users!Kept(uRows'[u], uWanted'[u])
      BY <1>4, <1>5, <2>1 DEF Users!Kept
    <3> QED BY <2>1, <3>1, NewFor
  <2>2. CASE u # uBorn + 1
    <3>1. u \in DOMAIN kept /\ kept = uRows
      BY <1>2, <1>4, <1>6, <2>2
    <3>2. u \in DOMAIN uRows \ uRaced /\ u \in DOMAIN uWanted /\ ~On(uCalls[c], u)
      BY <1>1, <1>6, <3>1
    <3>3. uRows'[u] = uRows[u] /\ uWanted'[u] = uWanted[u]
      BY <1>4, <1>5, <3>1, <3>2
    <3> QED BY <1>1, <3>2, <3>3, UntouchedFor
  <2> QED BY <2>1, <2>2
<1>7. ~(uEditing'.open /\ uCreating'.open)
  BY DEF UserChoices, Users!dialogs
<1> QED BY <1>6, <1>7 DEF UserChoices

LEMMA DoneUpdate ==
    ASSUME UserTypes, UserChoices, NEW c \in PageCall, Users!Done(c),
           UNCHANGED <<uBorn, Users!dialogs, uRaced>>,
           NEW u \in DOMAIN uRows \ uRaced, On(uCalls[c], u), Users!Kept(uRows'[u], uWanted'[u])
    PROVE  KeptFor(u)'
<1>1. KeptFor(u)
  BY DEF UserChoices
<1>2. \A d \in PageCall : On(uCalls[d], u) => d = c
  BY <1>1 DEF KeptFor, OneUserCall
<1>3. uBorn' \in Int /\ uBorn <= uBorn'
  BY UserFacts
<1>4. ASSUME NEW d \in PageCall
      PROVE  /\ uCalls'[d].kind = uCalls[d].kind /\ uCalls'[d].user = uCalls[d].user
             /\ uCalls'[d].dialog = uCalls[d].dialog
             /\ uCalls'[d].phase = IF d = c THEN "done" ELSE uCalls[d].phase
  BY <1>3, DoneCalls
<1>5. \A d \in PageCall : (On(uCalls'[d], u) <=> d = c) /\ ~Unsaved(uCalls'[d], u)
  BY <1>2, <1>4 DEF On, Unsaved
<1>6. OneUserCall(u)'
  BY <1>5 DEF OneUserCall, On
<1>7. UserSaved(u)' /\ UserSaves(u)'
  BY <1>5 DEF UserSaved, UserSaves, Unsaved
<1>8. ShowsRow(u)'
  BY <1>1, <1>4, <1>5 DEF KeptFor, ShowsRow, On, Users!dialogs
<1> QED BY <1>6, <1>7, <1>8 DEF KeptFor

LEMMA ServiceChoices ==
    ASSUME UserTypes, UserChoices, NEW c \in PageCall, Users!Service(c)
    PROVE  UserChoices'
<1> DEFINE call == uCalls[c]
<1>0. /\ call \in Users!CallState /\ Carried(call, uBorn)
      /\ uCalls = [d \in PageCall |-> uCalls[d]]
      /\ uRows \in [DOMAIN uRows -> Users!Row] /\ DOMAIN uRows \subseteq 1 .. uBorn
      /\ uBorn \in Nat
      /\ uWanted \in [1 .. uBorn -> Users!Wish] /\ DOMAIN uWanted = 1 .. uBorn
      /\ ~(uEditing.open /\ uCreating.open)
  BY UserFacts DEF UserTypes, UserTable, UserCalls, Carried, UserChoices
<1>1. CASE Users!ListUsers(c) \/ Users!BatchResetPassword(c)
  <2>1. \A d \in PageCall : d # c => uCalls'[d] = uCalls[d]
    BY <1>0, <1>1 DEF Users!ListUsers, Users!BatchResetPassword
  <2>2. uCalls[c].kind \in {"list", "reset"} /\ uCalls'[c].kind = uCalls[c].kind
    BY <1>0, <1>1 DEF Users!ListUsers, Users!BatchResetPassword, Users!CallState
  <2>3. \A d \in PageCall : \/ uCalls'[d] = uCalls[d]
                            \/ /\ uCalls[d].kind \notin {"update", "batch"}
                               /\ uCalls'[d].kind \notin {"update", "batch"}
    BY <2>1, <2>2
  <2> QED BY <1>0, <1>1, <2>3, OthersKept
          DEF Users!ListUsers, Users!BatchResetPassword, Users!table, Users!dialogs, Users!history
<1>2. CASE Users!UpdateUser(c)
  <2>1. /\ Users!Done(c) /\ UNCHANGED <<uBorn, Users!dialogs, uRaced>> /\ uWanted' = uWanted
        /\ call.kind = "update" /\ call.phase = "sent" /\ call.user \in DOMAIN uRows
        /\ uRows' = [uRows EXCEPT ![call.user] = Users!Patched(uRows[call.user], call.patch)]
    BY <1>2 DEF Users!UpdateUser, Users!history
  <2>2. ASSUME NEW u \in DOMAIN uRows \ uRaced
        PROVE  KeptFor(u)'
    <3>1. CASE u # call.user
      <4>1. ~On(uCalls[c], u) /\ uRows'[u] = uRows[u]
        BY <2>1, <3>1 DEF On
      <4> QED BY <1>0, <2>1, <4>1, UntouchedFor
    <3>2. CASE u = call.user
      <4>1. On(uCalls[c], u) /\ Unsaved(uCalls[c], u)
        BY <2>1, <3>2 DEF On, Unsaved
      <4>2. Users!Kept(Users!Patched(uRows[u], call.patch), uWanted[u])
        BY <4>1 DEF UserChoices, KeptFor, UserSaves
      <4>3. Users!Kept(uRows'[u], uWanted'[u])
        BY <2>1, <3>2, <4>2
      <4> QED BY <2>1, <4>1, <4>3, DoneUpdate
    <3> QED BY <3>1, <3>2
  <2>3. DOMAIN uRows' = DOMAIN uRows
    BY <1>0, <2>1
  <2> QED BY <1>0, <2>1, <2>2, <2>3 DEF UserChoices, Users!dialogs
<1>3. CASE Users!DeleteUser(c)
  <2>1. /\ Users!Done(c) /\ UNCHANGED <<uBorn, Users!dialogs, uRaced>> /\ uWanted' = uWanted
        /\ call.kind = "delete"
        /\ uRows' = [u \in DOMAIN uRows \ {call.user} |-> uRows[u]]
    BY <1>3 DEF Users!DeleteUser, Users!Restrict, Users!history
  <2>2. ASSUME NEW u \in DOMAIN uRows' \ uRaced'
        PROVE  KeptFor(u)'
    <3>1. u \in DOMAIN uRows \ uRaced /\ uRows'[u] = uRows[u] /\ ~On(uCalls[c], u)
      BY <2>1, <2>2 DEF On
    <3>2. /\ Users!Done(c) /\ UNCHANGED <<Users!dialogs, uRaced>> /\ uWanted'[u] = uWanted[u]
          /\ uBorn' \in Int /\ uBorn <= uBorn'
      BY <1>0, <2>1
    <3> QED BY <3>1, <3>2, UntouchedFor
  <2> QED BY <1>0, <2>1, <2>2 DEF UserChoices, Users!dialogs
<1>4. CASE Users!CreateUser(c)
  <2>1. call.patch \in Users!Row /\ \A u \in DOMAIN uRows : ~On(uCalls[c], u)
    BY <1>0, <1>4 DEF Carried, Users!CreateUser, On
  <2> QED BY <1>4, <2>1, CreatedChoices DEF Users!CreateUser
<1>5. CASE Users!BatchCreateUsers(c)
  <2>1. call.patch \in Users!Row /\ call.kind = "batch" /\ Users!Done(c)
            /\ UNCHANGED <<Users!dialogs, uRaced>>
    BY <1>0, <1>5 DEF Carried, Users!BatchCreateUsers
  <2>2. CASE /\ call.user \in DOMAIN uRows
             /\ uRows' = [uRows EXCEPT ![call.user] = call.patch]
             /\ uWanted' = [uWanted EXCEPT ![call.user] = call.patch]
             /\ UNCHANGED uBorn
    <3>1. ASSUME NEW u \in DOMAIN uRows \ uRaced
          PROVE  KeptFor(u)'
      <4>1. CASE u # call.user
        <5>1. ~On(uCalls[c], u) /\ uRows'[u] = uRows[u] /\ uWanted'[u] = uWanted[u]
          BY <1>0, <2>2, <4>1 DEF On
        <5> QED BY <1>0, <2>1, <2>2, <5>1, UntouchedFor
      <4>2. CASE u = call.user
        <5>1. On(uCalls[c], u) /\ Users!Kept(uRows'[u], uWanted'[u])
          BY <1>0, <2>1, <2>2, <4>2 DEF On, Users!Kept
        <5> QED BY <2>1, <2>2, <5>1, DoneUpdate
      <4> QED BY <4>1, <4>2
    <3>2. DOMAIN uRows' = DOMAIN uRows
      BY <1>0, <2>2
    <3> QED BY <1>0, <2>1, <3>1, <3>2 DEF UserChoices, Users!dialogs
  <2>3. CASE /\ call.user \notin DOMAIN uRows \/ call.replace
             /\ uBorn < MaxUsers
             /\ uRows' = Users!Created(IF call.replace THEN <<>> ELSE uRows, call.patch)
             /\ uWanted' = Users!Created(uWanted, call.patch)
             /\ uBorn' = uBorn + 1
    <3> DEFINE kept == IF call.replace THEN <<>> ELSE uRows
    <3>1. kept \in {uRows, <<>>}
      OBVIOUS
    <3>2. DOMAIN <<>> = {}
      OBVIOUS
    <3>3. kept = uRows => \A u \in DOMAIN uRows : ~On(uCalls[c], u)
      BY <2>3, <3>2 DEF On
    <3> HIDE DEF kept
    <3>4. uRows' = Users!Created(kept, call.patch)
      BY <2>3 DEF kept
    <3> QED BY <2>1, <2>3, <3>1, <3>3, <3>4, CreatedChoices
  <2> QED BY <1>5, <2>2, <2>3 DEF Users!BatchCreateUsers
<1> QED BY <1>1, <1>2, <1>3, <1>4, <1>5 DEF Users!Service

LEMMA AnsweredChoices ==
    ASSUME UserTypes, UserChoices, NEW c \in PageCall,
           Users!ShowUsers(c) \/ Users!Succeed(c) \/ Users!Fail(c)
    PROVE  UserChoices'
<1> DEFINE call == uCalls[c]
<1>0. /\ call \in Users!CallState /\ uCalls = [d \in PageCall |-> uCalls[d]]
      /\ Users!Idle.kind = "none" /\ ~(uEditing.open /\ uCreating.open)
      /\ uEditing \in Users!Form /\ uCreating \in Users!Form /\ Carried(call, uBorn)
  BY IdleIs DEF UserTypes, UserCalls, UserDialogs, Carried, UserChoices
<1>1. CASE Users!ShowUsers(c)
  <2>1. /\ \A d \in PageCall : d # c => uCalls'[d] = uCalls[d]
        /\ uCalls[c].kind = "list" /\ uCalls'[c].kind = "none"
    BY <1>0, <1>1 DEF Users!ShowUsers
  <2> QED BY <1>0, <1>1, <2>1, OthersKept DEF Users!ShowUsers, Users!table, Users!dialogs
<1>2. CASE Users!Succeed(c)
  <2>1. /\ \A d \in PageCall : d # c => uCalls'[d] = uCalls[d]
        /\ uCalls'[c].kind = "list" /\ uCalls[c].phase = "done" /\ uCalls[c].kind # "list"
        /\ uRows' = uRows /\ uWanted' = uWanted /\ uRaced' = uRaced
        /\ uEditing' = IF call.dialog = "edit" THEN Users!Closed ELSE uEditing
        /\ uCreating' = IF call.dialog = "create" THEN Users!Closed ELSE uCreating
    BY <1>0, <1>2 DEF Users!Succeed, Users!table, Users!history, Users!Refetched, Users!Idle
  <2>2. ~Users!Closed.open
    BY DEF Users!Closed
  <2>3. ASSUME NEW u \in DOMAIN uRows \ uRaced
        PROVE  KeptFor(u)'
    <3>0. KeptFor(u) /\ ~On(uCalls'[c], u)
      BY <2>1, <2>3 DEF UserChoices, On
    <3>1. CASE ~On(uCalls[c], u)
      <4>1. SameFor(u)
        BY <2>1, <2>2, <3>0, <3>1 DEF SameFor
      <4> QED BY <3>0, <4>1, SameKept
    <3>2. CASE On(uCalls[c], u)
      <4>1. \A d \in PageCall : ~On(uCalls'[d], u)
        BY <2>1, <3>0, <3>2 DEF KeptFor, OneUserCall
      <4>2. \A d \in PageCall : ~Unsaved(uCalls'[d], u)
        BY <4>1 DEF On, Unsaved
      <4>3. Users!Kept(uRows[u], uWanted[u])
        BY <2>1, <3>0, <3>2 DEF KeptFor, OneUserCall, UserSaved, On, Unsaved
      <4>4. OneUserCall(u)' /\ UserSaved(u)' /\ UserSaves(u)'
        BY <2>1, <4>1, <4>2, <4>3 DEF OneUserCall, UserSaved, UserSaves, On, Unsaved
      <4>5. uEditing.open /\ uEditing.user = u => call.dialog = "edit"
        BY <3>0, <3>2 DEF KeptFor, ShowsRow
      <4>6. ShowsRow(u)'
        BY <2>1, <2>2, <4>5 DEF ShowsRow
      <4> QED BY <4>4, <4>6 DEF KeptFor
    <3> QED BY <3>1, <3>2
  <2> QED BY <1>0, <2>1, <2>2, <2>3 DEF UserChoices
<1>3. CASE Users!Fail(c)
  <2>1. /\ \A d \in PageCall : d # c => uCalls'[d] = uCalls[d]
        /\ uCalls'[c] = Users!Idle
        /\ uRows' = uRows /\ uWanted' = uWanted
        /\ uRaced' = IF call.kind = "update" THEN uRaced \cup {call.user} ELSE uRaced
    BY <1>0, <1>3 DEF Users!Fail, Users!table
  <2>2. /\ uEditing'.open = uEditing.open /\ uEditing'.user = uEditing.user
        /\ uEditing'.form = uEditing.form /\ uEditing'.touched = uEditing.touched
        /\ uCreating'.open = uCreating.open
    BY <1>0, <1>3 DEF Users!Fail, Users!Form
  <2>3. ASSUME NEW u \in DOMAIN uRows \ uRaced'
        PROVE  KeptFor(u)'
    <3>0. KeptFor(u) /\ ~On(uCalls'[c], u) /\ ~Unsaved(uCalls'[c], u) /\ ~Unsaved(uCalls[c], u)
      BY <1>0, <2>1, <2>3 DEF UserChoices, On, Unsaved
    <3>1. \A d \in PageCall : Unsaved(uCalls'[d], u) <=> Unsaved(uCalls[d], u)
      BY <2>1, <3>0
    <3>2. OneUserCall(u)'
      BY <2>1, <3>0 DEF KeptFor, OneUserCall, On
    <3>3. UserSaved(u)'
      BY <2>1, <3>0, <3>1 DEF KeptFor, UserSaved, Unsaved
    <3>4. UserSaves(u)'
      <4>1. ASSUME NEW d \in PageCall, Unsaved(uCalls'[d], u)
            PROVE  Users!Kept(Users!Patched(uRows'[u], uCalls'[d].patch), uWanted'[u])
        BY <2>1, <3>0, <4>1 DEF KeptFor, UserSaves
      <4> QED BY <4>1 DEF UserSaves, Unsaved, Users!Patched, Users!Kept
    <3>5. ShowsRow(u)'
      <4>1. SUFFICES ASSUME uEditing.open, uEditing.user = u
                     PROVE  /\ \A d \in PageCall : On(uCalls'[d], u) => uCalls'[d].dialog = "edit"
                            /\ (\A d \in PageCall : ~On(uCalls'[d], u)) => Faithful(uRows[u])
        BY <2>1, <2>2 DEF ShowsRow, On, Faithful
      <4>2. \A d \in PageCall : On(uCalls[d], u) => uCalls[d].dialog = "edit"
        BY <3>0, <4>1 DEF KeptFor, ShowsRow
      <4>3. ~On(uCalls[c], u)
        <5>1. uCalls[c].kind = "batch" => uCalls[c].dialog = "create"
          BY <1>0 DEF Carried
        <5>2. uCalls[c].kind = "update" => uCalls[c].user # u
          BY <2>1, <2>3
        <5> QED BY <4>2, <5>1, <5>2 DEF On
      <4> QED BY <2>1, <3>0, <4>1, <4>2, <4>3 DEF KeptFor, ShowsRow
    <3> QED BY <3>2, <3>3, <3>4, <3>5 DEF KeptFor
  <2> QED BY <1>0, <2>1, <2>2, <2>3 DEF UserChoices
<1> QED BY <1>1, <1>2, <1>3

-----------------------------------------------------------------------------
(* The users: all of it.                                                   *)
UsersGood == UserTypes /\ UserChoices

LEMMA UsersFreshGood ==
    ASSUME Users!Fresh, NEW kind \in {"none", "list"}, NEW c \in PageCall,
           uCalls = [x \in PageCall |-> IF x = c THEN [Users!Idle EXCEPT !.kind = kind] ELSE Users!Idle]
    PROVE  UsersGood /\ (kind = "list" => UserKnown)
<1>1. UserTypes
  BY UserFreshTypes
<1>2. /\ [Users!Idle EXCEPT !.kind = kind].kind = kind
      /\ [Users!Idle EXCEPT !.kind = kind].phase = "sent"
      /\ Users!Idle.kind = "none" /\ Users!Idle.phase = "sent"
  BY DEF Users!Idle
<1>3. \A d \in PageCall : uCalls[d].kind \in {"none", "list"} /\ uCalls[d].phase = "sent"
  BY <1>2
<1>4. ~uEditing.open /\ uRows = uWanted
  BY DEF Users!Fresh, Users!Closed
<1>5. UserChoices
  BY <1>3, <1>4 DEF UserChoices, KeptFor, OneUserCall, UserSaved, UserSaves, ShowsRow, On,
     Unsaved, Users!Kept
<1>6. kind = "list" => Coming(uCalls[c])
  BY <1>2 DEF Coming
<1>7. kind = "list" => UserKnown
  BY <1>3, <1>6 DEF UserKnown, Read
<1> QED BY <1>1, <1>5, <1>7 DEF UsersGood

LEMMA UsersStart ==
    ASSUME Users!Init
    PROVE  UsersGood /\ UserKnown
<1>1. PICK c \in PageCall :
          uCalls = [x \in PageCall |-> IF x = c THEN [Users!Idle EXCEPT !.kind = "list"] ELSE Users!Idle]
  BY DEF Users!Init
<1> QED BY <1>1, UsersFreshGood DEF Users!Init

LEMMA UsersUnopened ==
    ASSUME Users!Unopened, NEW c \in PageCall
    PROVE  UsersGood
<1>1. [Users!Idle EXCEPT !.kind = "none"] = Users!Idle
  <2>1. [Users!Idle EXCEPT !.kind = Users!Idle.kind] = Users!Idle
    BY IdleIs DEF Users!CallState
  <2> QED BY <2>1, IdleIs
<1>2. uCalls = [x \in PageCall |-> IF x = c THEN [Users!Idle EXCEPT !.kind = "none"] ELSE Users!Idle]
  BY <1>1 DEF Users!Unopened
<1> QED BY <1>2, UsersFreshGood DEF Users!Unopened

LEMMA UsersGoodKept ==
    ASSUME UsersGood, Users!Next
    PROVE  UsersGood'
BY UserTypesKept, AdministratorChoices, ServiceChoices, AnsweredChoices DEF UsersGood, Users!Next

-----------------------------------------------------------------------------
(* The projects: a list, in an order.                                      *)
ProjectList(list, n) ==
    /\ list \in Seq(Projects!Shown) /\ Len(list) <= MaxProjects
    /\ \A i, j \in DOMAIN list : i # j => list[i].id # list[j].id
    /\ \A i \in DOMAIN list : list[i].id <= n

ProjectTable ==
    /\ DOMAIN pRows \subseteq 1 .. pBorn /\ pBorn \in 0 .. MaxProjects
    /\ pRows \in [DOMAIN pRows -> Projects!Row]
    /\ pWanted \in [1 .. pBorn -> Projects!Wish]
    /\ pRaced \subseteq 1 .. pBorn

Found(t, search) == IF search THEN DOMAIN t \cap Matching ELSE DOMAIN t
BeforeIn(t, p, q) == t[p].order < t[q].order \/ (t[p].order = t[q].order /\ p > q)
Place(t, search, p) == 1 + Cardinality({q \in Found(t, search) : BeforeIn(t, q, p)})
ListFrom(t, search) ==
    [i \in 1 .. Cardinality(Found(t, search)) |->
        LET p == CHOOSE q \in Found(t, search) : Place(t, search, q) = i
        IN  [id |-> p, row |-> t[p]]]

(* A list of what is found, in order.                                      *)
Lists(t, search, list) ==
    /\ \A i \in DOMAIN list : list[i].id \in Found(t, search) /\ list[i].row = t[list[i].id]
    /\ \A p \in Found(t, search) : \E i \in DOMAIN list : list[i].id = p
    /\ \A i, j \in DOMAIN list : i < j => BeforeIn(t, list[i].id, list[j].id)

LEMMA ListFromRows ==
    ASSUME NEW search
    PROVE  Projects!List(search) = ListFrom(pRows, search)
BY ProjectCardinality DEF Projects!List, ListFrom, Place, Found, BeforeIn, Projects!Before

LEMMA ProjectBounds ==
    /\ MaxProjects \in Nat /\ MaxOps \in Nat /\ MaxPicks \in Nat
BY BoundAssumption

(* A table of projects, at any time.                                       *)
Tabular(t, n) == n \in 0 .. MaxProjects /\ DOMAIN t \subseteq 1 .. n /\ t \in [DOMAIN t -> Projects!Row]

LEMMA FoundIs ==
    ASSUME NEW t, NEW n, Tabular(t, n), NEW search
    PROVE  /\ Found(t, search) \subseteq DOMAIN t /\ Found(t, search) \subseteq 1 .. n
           /\ IsFiniteSet(Found(t, search))
           /\ Cardinality(Found(t, search)) \in 0 .. MaxProjects
           /\ \A p \in Found(t, search) : t[p].order \in Nat /\ p \in Nat /\ t[p] \in Projects!Row
<1>1. Found(t, search) \subseteq DOMAIN t
  BY DEF Found
<1>2. Found(t, search) \subseteq 1 .. n /\ n \in Nat /\ n <= MaxProjects
  BY <1>1, ProjectBounds DEF Tabular
<1>3. IsFiniteSet(Found(t, search)) /\ Cardinality(Found(t, search)) \in 0 .. n
  BY <1>2, Within
<1>4. \A p \in Found(t, search) : t[p] \in Projects!Row
  BY <1>1 DEF Tabular
<1>5. \A p \in Found(t, search) : t[p].order \in Nat /\ p \in Nat
  BY <1>2, <1>4, ProjectBounds DEF Projects!Row
<1> QED BY <1>1, <1>2, <1>3, <1>4, <1>5, ProjectBounds

LEMMA PlaceIs ==
    ASSUME NEW t, NEW n, Tabular(t, n), NEW search
    PROVE  /\ \A p \in Found(t, search) : Place(t, search, p) \in 1 .. Cardinality(Found(t, search))
           /\ \A p, q \in Found(t, search) :
                 BeforeIn(t, p, q) => Place(t, search, p) < Place(t, search, q)
           /\ \A p, q \in Found(t, search) :
                 Place(t, search, p) = Place(t, search, q) => p = q
           /\ \A p, q \in Found(t, search) :
                 Place(t, search, p) < Place(t, search, q) => BeforeIn(t, p, q)
           /\ \A k \in 1 .. Cardinality(Found(t, search)) :
                 \E p \in Found(t, search) : Place(t, search, p) = k
<1> DEFINE F == Found(t, search)
           N == Cardinality(F)
           first(p) == {q \in F : BeforeIn(t, q, p)}
           rank == [p \in F |-> Cardinality(first(p))]
<1>1. /\ IsFiniteSet(F) /\ N \in Nat
      /\ \A p \in F : t[p].order \in Nat /\ p \in Nat
  BY FoundIs
<1>2. \A p \in F : Place(t, search, p) = 1 + Cardinality(first(p))
  BY DEF Place
<1> HIDE DEF F
<1>3. ASSUME NEW p \in F
      PROVE  Cardinality(first(p)) \in 0 .. N - 1 /\ IsFiniteSet(first(p))
  <2>1. first(p) \in SUBSET (F \ {p})
    BY <1>1 DEF BeforeIn
  <2>2. Cardinality(first(p)) \in Nat /\ Cardinality(first(p)) < N
    BY <1>1, <2>1, FewerWithout
  <2>3. IsFiniteSet(first(p))
    BY <1>1, FS_Subset
  <2> QED BY <1>1, <2>2, <2>3
<1>4. ASSUME NEW p \in F, NEW q \in F, BeforeIn(t, p, q)
      PROVE  Cardinality(first(p)) < Cardinality(first(q))
  <2>1. p \in first(q)
    BY <1>4
  <2>2. \A x \in first(p) : x \in F /\ BeforeIn(t, x, q) /\ x # p
    BY <1>1, <1>4 DEF BeforeIn
  <2>3. first(p) \in SUBSET (first(q) \ {p})
    BY <2>2
  <2> HIDE DEF first
  <2> QED BY <1>3, <2>1, <2>3, FewerWithout
<1>5. \A p, q \in F : p = q \/ BeforeIn(t, p, q) \/ BeforeIn(t, q, p)
  BY <1>1 DEF BeforeIn
<1> HIDE DEF first
<1>6. \A p, q \in F : BeforeIn(t, p, q) => Place(t, search, p) < Place(t, search, q)
  BY <1>2, <1>3, <1>4
<1>7. \A p \in F : Place(t, search, p) \in 1 .. N
  BY <1>1, <1>2, <1>3
<1>8. \A p, q \in F : Place(t, search, p) = Place(t, search, q) => p = q
  BY <1>5, <1>6, <1>7
<1>9. \A p, q \in F : Place(t, search, p) < Place(t, search, q) => BeforeIn(t, p, q)
  BY <1>5, <1>6, <1>7
<1>10. ASSUME NEW k \in 1 .. N
       PROVE  \E p \in F : Place(t, search, p) = k
  <2>1. rank \in [F -> 0 .. Cardinality(F) - 1]
    BY <1>3
  <2>2. ASSUME NEW p \in F, NEW q \in F, rank[p] = rank[q]
        PROVE  p = q
    BY <1>2, <1>8, <2>2
  <2>3. k - 1 \in 0 .. Cardinality(F) - 1
    BY <1>1
  <2>4. \A p \in F : rank[p] = Cardinality(first(p))
    OBVIOUS
  <2> HIDE DEF rank
  <2>5. \E p \in F : rank[p] = k - 1
    BY <1>1, <2>1, <2>2, <2>3, EachRank
  <2>6. PICK p \in F : Cardinality(first(p)) = k - 1
    BY <2>4, <2>5
  <2> QED BY <1>1, <1>2, <2>6
<1> QED BY <1>6, <1>7, <1>8, <1>9, <1>10 DEF F

LEMMA ListIs ==
    ASSUME NEW t, NEW n, Tabular(t, n), NEW search
    PROVE  /\ ProjectList(ListFrom(t, search), n)
           /\ Lists(t, search, ListFrom(t, search))
<1> DEFINE F == Found(t, search)
           N == Cardinality(F)
           place(p) == Place(t, search, p)
           ch(i) == CHOOSE q \in F : place(q) = i
           s == [i \in 1 .. N |-> [id |-> ch(i), row |-> t[ch(i)]]]
<1>1. /\ F \subseteq DOMAIN t /\ F \subseteq 1 .. n /\ N \in 0 .. MaxProjects
      /\ \A p \in F : t[p] \in Projects!Row
  BY FoundIs
<1>2. /\ \A p \in F : place(p) \in 1 .. N
      /\ \A p, q \in F : place(p) = place(q) => p = q
      /\ \A p, q \in F : place(p) < place(q) => BeforeIn(t, p, q)
      /\ \A k \in 1 .. N : \E p \in F : place(p) = k
  BY PlaceIs
<1>3. ListFrom(t, search) = s
  BY DEF ListFrom
<1> HIDE DEF place
<1>4. \A i \in 1 .. N : ch(i) \in F /\ place(ch(i)) = i
  BY <1>2
<1> HIDE DEF ch, F
<1>5. n \in Nat /\ n <= MaxProjects /\ MaxProjects \in Nat
  BY ProjectBounds DEF Tabular
<1>6. \A i \in 1 .. N : s[i].id = ch(i) /\ s[i].row = t[ch(i)] /\ s[i] \in Projects!Shown
  <2> SUFFICES ASSUME NEW i \in 1 .. N
               PROVE  s[i].id = ch(i) /\ s[i].row = t[ch(i)] /\ s[i] \in Projects!Shown
    OBVIOUS
  <2>1. ch(i) \in F /\ ch(i) \in 1 .. MaxProjects
    BY <1>1, <1>4, <1>5
  <2>2. t[ch(i)] \in Projects!Row
    BY <1>1, <2>1
  <2> QED BY <2>1, <2>2 DEF Projects!Shown, Projects!Project
<1>7. s \in [1 .. N -> Projects!Shown] /\ N \in Int
  BY <1>1, <1>6
<1> HIDE DEF s
<1>8. s \in Seq(Projects!Shown) /\ DOMAIN s = 1 .. N /\ Len(s) = N
  <2>1. s \in Seq(Projects!Shown) /\ DOMAIN s = 1 .. Len(s) /\ Len(s) = IF N < 0 THEN 0 ELSE N
    BY <1>7, MakeSeq
  <2> QED BY <1>1, <2>1
<1>9. \A i, j \in DOMAIN s : i # j => s[i].id # s[j].id
  BY <1>4, <1>6, <1>8
<1>10. \A i \in DOMAIN s : s[i].id <= n
  BY <1>1, <1>4, <1>5, <1>6, <1>8
<1>11. ProjectList(s, n)
  BY <1>1, <1>8, <1>9, <1>10 DEF ProjectList
<1>12. \A i \in DOMAIN s : s[i].id \in F /\ s[i].row = t[s[i].id]
  BY <1>4, <1>6, <1>8
<1>13. \A p \in F : \E i \in DOMAIN s : s[i].id = p
  <2> SUFFICES ASSUME NEW p \in F PROVE \E i \in DOMAIN s : s[i].id = p
    OBVIOUS
  <2>1. place(p) \in 1 .. N
    BY <1>2
  <2>2. ch(place(p)) = p
    BY <1>2, <1>4, <2>1
  <2> QED BY <1>6, <1>8, <2>1, <2>2
<1>14. \A i, j \in DOMAIN s : i < j => BeforeIn(t, s[i].id, s[j].id)
  BY <1>2, <1>4, <1>6, <1>8
<1>15. Lists(t, search, s)
  BY <1>12, <1>13, <1>14 DEF Lists, F
<1> QED BY <1>3, <1>11, <1>15

LEMMA UpTo ==
    ASSUME NEW n \in Nat
    PROVE  IsFiniteSet(1 .. n) /\ Cardinality(1 .. n) = n
<1>1. IsFiniteSet(1 .. n) /\ Cardinality(1 .. n) = IF 1 > n THEN 0 ELSE n - 1 + 1
  BY FS_Interval
<1> QED BY <1>1

LEMMA SameSize ==
    ASSUME NEW S, NEW T, IsFiniteSet(S), NEW f \in [S -> T],
           \A x, y \in S : f[x] = f[y] => x = y,
           \A y \in T : \E x \in S : f[x] = y
    PROVE  Cardinality(T) = Cardinality(S)
<1>1. f \in Bijection(S, T)
  BY DEF Bijection, Injection, Surjection, IsInjective
<1>2. ExistsBijection(S, T)
  BY <1>1 DEF ExistsBijection
<1> QED BY <1>2, FS_Bijection

(* There is no other.                                                      *)
LEMMA OnlyList ==
    ASSUME NEW t, NEW n, Tabular(t, n), NEW search,
           NEW list, ProjectList(list, n), Lists(t, search, list)
    PROVE  list = ListFrom(t, search)
<1> DEFINE F == Found(t, search)
           N == Cardinality(F)
           len == Len(list)
           place(p) == Place(t, search, p)
<1>1. /\ list \in Seq(Projects!Shown) /\ len \in Nat /\ DOMAIN list = 1 .. len
      /\ \A i, j \in 1 .. len : i # j => list[i].id # list[j].id
      /\ \A i \in 1 .. len : list[i].id \in F /\ list[i].row = t[list[i].id]
      /\ \A p \in F : \E i \in 1 .. len : list[i].id = p
      /\ \A i, j \in 1 .. len : i < j => BeforeIn(t, list[i].id, list[j].id)
  BY LenProperties DEF ProjectList, Lists
<1>2. \A p, q \in F : BeforeIn(t, p, q) => p # q /\ ~BeforeIn(t, q, p)
  <2>1. \A p \in F : t[p].order \in Nat /\ p \in Nat
    BY FoundIs
  <2> QED BY <2>1 DEF BeforeIn
<1>3. ASSUME NEW i \in 1 .. len
      PROVE  place(list[i].id) = i
  <2> DEFINE B == {q \in F : BeforeIn(t, q, list[i].id)}
             f == [j \in 1 .. i - 1 |-> list[j].id]
  <2>1. i - 1 \in Nat /\ IsFiniteSet(1 .. i - 1) /\ Cardinality(1 .. i - 1) = i - 1
    <3>1. i - 1 \in Nat
      BY <1>1
    <3> QED BY <3>1, UpTo
  <2>2. \A j \in 1 .. i - 1 : j \in 1 .. len /\ j < i
    BY <1>1
  <2>3. f \in [1 .. i - 1 -> B]
    BY <1>1, <2>2
  <2>4. \A j, k \in 1 .. i - 1 : f[j] = f[k] => j = k
    BY <1>1, <2>2
  <2>5. \A q \in B : \E j \in 1 .. i - 1 : f[j] = q
    <3> SUFFICES ASSUME NEW q \in B PROVE \E j \in 1 .. i - 1 : f[j] = q
      OBVIOUS
    <3>1. PICK j \in 1 .. len : list[j].id = q
      BY <1>1
    <3>2. j # i /\ ~(i < j)
      BY <1>1, <1>2, <3>1
    <3>3. j \in 1 .. i - 1
      BY <1>1, <3>2
    <3> QED BY <3>1, <3>3
  <2> HIDE DEF f, B
  <2>7. Cardinality(B) = i - 1
    BY <2>1, <2>3, <2>4, <2>5, SameSize
  <2> QED BY <1>1, <2>7 DEF Place, B
<1>4. len = N
  <2> DEFINE f == [j \in 1 .. len |-> list[j].id]
  <2>1. IsFiniteSet(1 .. len) /\ Cardinality(1 .. len) = len
    BY <1>1, UpTo
  <2>2. f \in [1 .. len -> F] /\ \A j \in 1 .. len : f[j] = list[j].id
    BY <1>1
  <2> HIDE DEF f, F
  <2>3. /\ \A x, y \in 1 .. len : f[x] = f[y] => x = y
        /\ \A y \in F : \E x \in 1 .. len : f[x] = y
    BY <1>1, <2>2
  <2> QED BY <2>1, <2>2, <2>3, SameSize
<1>5. ASSUME NEW i \in 1 .. len
      PROVE  list[i] = [id |-> CHOOSE q \in F : place(q) = i,
                        row |-> t[CHOOSE q \in F : place(q) = i]]
  <2>1. \A q \in F : place(q) = i => q = list[i].id
    <3> SUFFICES ASSUME NEW q \in F, place(q) = i PROVE q = list[i].id
      OBVIOUS
    <3>1. PICK j \in 1 .. len : list[j].id = q
      BY <1>1
    <3> HIDE DEF place
    <3> QED BY <1>3, <3>1
  <2>2. list[i].id \in F /\ place(list[i].id) = i
    BY <1>1, <1>3
  <2> HIDE DEF place, F
  <2>3. (CHOOSE q \in F : place(q) = i) = list[i].id
    BY <2>1, <2>2
  <2>4. list[i] \in Projects!Shown
    BY <1>1
  <2>5. list[i] = [id |-> list[i].id, row |-> list[i].row]
    BY <2>4 DEF Projects!Shown
  <2> QED BY <1>1, <2>3, <2>5
<1>6. list = [i \in 1 .. N |-> [id |-> CHOOSE q \in F : place(q) = i,
                                row |-> t[CHOOSE q \in F : place(q) = i]]]
  <2>1. list = [i \in 1 .. len |-> list[i]]
    BY <1>1
  <2> HIDE DEF F, place
  <2> QED BY <1>4, <1>5, <2>1
<1> QED BY <1>6 DEF ListFrom

(* What is at a place when one has been moved.                             *)
Origin(from, to, i) ==
    IF i = to THEN from
    ELSE IF i < to THEN (IF i < from THEN i ELSE i + 1)
    ELSE (IF i - 1 < from THEN i - 1 ELSE i)

LEMMA OriginIs ==
    ASSUME NEW n \in Nat, NEW from \in 1 .. n, NEW to \in 1 .. n
    PROVE  /\ \A i \in 1 .. n : Origin(from, to, i) \in 1 .. n
           /\ \A i, j \in 1 .. n : Origin(from, to, i) = Origin(from, to, j) => i = j
           /\ \A j \in 1 .. n : \E i \in 1 .. n : Origin(from, to, i) = j
<1>1. \A i \in 1 .. n : Origin(from, to, i) \in 1 .. n
  BY DEF Origin
<1>2. \A i, j \in 1 .. n : Origin(from, to, i) = Origin(from, to, j) => i = j
  BY DEF Origin
<1>3. ASSUME NEW j \in 1 .. n
      PROVE  \E i \in 1 .. n : Origin(from, to, i) = j
  <2>1. CASE j = from
    BY <2>1 DEF Origin
  <2>2. CASE j < from /\ j < to
    BY <2>2 DEF Origin
  <2>3. CASE j < from /\ ~(j < to)
    <3>1. j + 1 \in 1 .. n /\ Origin(from, to, j + 1) = j
      BY <2>3 DEF Origin
    <3> QED BY <3>1
  <2>4. CASE j > from /\ j > to
    BY <2>4 DEF Origin
  <2>5. CASE j > from /\ ~(j > to)
    <3>1. j - 1 \in 1 .. n /\ Origin(from, to, j - 1) = j
      BY <2>5 DEF Origin
    <3> QED BY <3>1
  <2> QED BY <2>1, <2>2, <2>3, <2>4, <2>5
<1> QED BY <1>1, <1>2, <1>3

LEMMA MovedIs ==
    ASSUME NEW S, NEW list \in Seq(S), NEW from \in DOMAIN list, NEW to \in DOMAIN list
    PROVE  /\ Projects!Moved(list, from, to) \in Seq(S)
           /\ Len(Projects!Moved(list, from, to)) = Len(list)
           /\ \A i \in 1 .. Len(list) :
                 Projects!Moved(list, from, to)[i] = list[Origin(from, to, i)]
<1> DEFINE n == Len(list)
           rest == [i \in 1 .. Len(list) - 1 |-> IF i < from THEN list[i] ELSE list[i + 1]]
           a == SubSeq(rest, 1, to - 1)
           b == <<list[from]>>
           d == SubSeq(rest, to, Len(rest))
<1>1. n \in Nat /\ DOMAIN list = 1 .. n /\ from \in 1 .. n /\ to \in 1 .. n
      /\ \A i \in 1 .. n : list[i] \in S
  BY LenProperties, ElementOfSeq
<1>2. rest \in [1 .. n - 1 -> S] /\ \A i \in 1 .. n - 1 : rest[i] =
          IF i < from THEN list[i] ELSE list[i + 1]
  BY <1>1
<1>3. rest \in Seq(S) /\ Len(rest) = n - 1
  <2>1. n - 1 \in Int
    BY <1>1
  <2>2. rest \in Seq(S) /\ Len(rest) = IF n - 1 < 0 THEN 0 ELSE n - 1
    BY <1>2, <2>1, MakeSeq
  <2> QED BY <1>1, <2>2
<1>4. Projects!Moved(list, from, to) = (a \o b) \o d
  BY DEF Projects!Moved
<1> HIDE DEF rest, n
<1>0. n \in Nat /\ from \in 1 .. n /\ to \in 1 .. n /\ to \in Int /\ n \in Int
  BY <1>1
<1>5. a \in Seq(S) /\ Len(a) = to - 1 /\ \A i \in 1 .. to - 1 : a[i] = rest[i]
  BY <1>1, <1>3
<1>6. d \in Seq(S) /\ Len(d) = n - to /\ \A i \in 1 .. n - to : d[i] = rest[to + i - 1]
  BY <1>1, <1>3
<1>7. b \in Seq(S) /\ Len(b) = 1 /\ b[1] = list[from]
  BY <1>1
<1> HIDE DEF a, b, d
<1>8. /\ a \o b \in Seq(S) /\ Len(a \o b) = to
      /\ \A i \in 1 .. to : (a \o b)[i] = IF i < to THEN rest[i] ELSE list[from]
  <2>1. /\ a \o b \in Seq(S) /\ Len(a \o b) = Len(a) + Len(b)
        /\ \A i \in 1 .. Len(a) + Len(b) :
              (a \o b)[i] = IF i <= Len(a) THEN a[i] ELSE b[i - Len(a)]
    BY <1>5, <1>7, ConcatProperties
  <2>2. Len(a) + Len(b) = to
    BY <1>1, <1>5, <1>7
  <2>3. ASSUME NEW i \in 1 .. to
        PROVE  (a \o b)[i] = IF i < to THEN rest[i] ELSE list[from]
    <3>1. CASE i < to
      BY <1>1, <1>5, <2>1, <2>2, <3>1
    <3>2. CASE i = to
      <4>1. Len(a) = to - 1 /\ ~(i <= Len(a)) /\ i - Len(a) = 1
        BY <1>0, <1>5, <3>2
      <4>2. (a \o b)[i] = b[1]
        BY <2>1, <2>2, <4>1
      <4> QED BY <1>0, <1>7, <3>2, <4>2
    <3>3. i < to \/ i = to
      BY <1>0
    <3> QED BY <3>1, <3>2, <3>3
  <2> QED BY <2>1, <2>2, <2>3
<1>9. /\ (a \o b) \o d \in Seq(S) /\ Len((a \o b) \o d) = n
      /\ \A i \in 1 .. n : ((a \o b) \o d)[i] =
            IF i < to THEN rest[i] ELSE IF i = to THEN list[from] ELSE rest[i - 1]
  <2> DEFINE ab == a \o b
  <2>1. /\ ab \in Seq(S) /\ Len(ab) = to
        /\ \A i \in 1 .. to : ab[i] = IF i < to THEN rest[i] ELSE list[from]
    BY <1>8
  <2> HIDE DEF ab
  <2>2. /\ ab \o d \in Seq(S) /\ Len(ab \o d) = Len(ab) + Len(d)
        /\ \A i \in 1 .. Len(ab) + Len(d) :
              (ab \o d)[i] = IF i <= Len(ab) THEN ab[i] ELSE d[i - Len(ab)]
    BY <1>6, <2>1, ConcatProperties
  <2>3. Len(ab) + Len(d) = n
    BY <1>1, <1>6, <2>1
  <2>4. ASSUME NEW i \in 1 .. n
        PROVE  (ab \o d)[i] =
                  IF i < to THEN rest[i] ELSE IF i = to THEN list[from] ELSE rest[i - 1]
    <3>1. CASE i <= to
      BY <1>1, <2>1, <2>2, <2>3, <3>1
    <3>2. CASE i > to
      <4>1. i - to \in 1 .. n - to /\ to + (i - to) - 1 = i - 1
        BY <1>1, <3>2
      <4>2. d[i - to] = rest[i - 1]
        BY <1>6, <4>1
      <4> QED BY <1>1, <2>1, <2>2, <2>3, <3>2, <4>2
    <3>3. i <= to \/ i > to
      BY <1>0
    <3> QED BY <3>1, <3>2, <3>3
  <2> QED BY <2>2, <2>3, <2>4, <2>1 DEF ab
<1>10. ASSUME NEW i \in 1 .. n
       PROVE  ((a \o b) \o d)[i] = list[Origin(from, to, i)]
  <2>1. CASE i < to
    <3>1. i \in 1 .. n - 1
      BY <1>1, <2>1
    <3> QED BY <1>1, <1>2, <1>9, <2>1, <3>1 DEF Origin
  <2>2. CASE i = to
    BY <1>1, <1>9, <2>2 DEF Origin
  <2>3. CASE i > to
    <3>1. i - 1 \in 1 .. n - 1 /\ i - 1 + 1 = i
      BY <1>1, <2>3
    <3> QED BY <1>1, <1>2, <1>9, <2>3, <3>1 DEF Origin
  <2>4. i < to \/ i = to \/ i > to
    BY <1>1
  <2> QED BY <2>1, <2>2, <2>3, <2>4
<1> QED BY <1>4, <1>9, <1>10 DEF n

-----------------------------------------------------------------------------
(* The projects: the types.  A call that was sent bears ids that were      *)
(* given, and the dialog that waits for it waits for no other.             *)
ProjectCarried(r, n) ==
    /\ r \in Projects!CallState /\ r.project <= n
    /\ r.kind \in {"create", "batch"} => r.choice.level \in Projects!Level
    /\ r.kind \in {"update", "level"} => r.project # Projects!Nothing
    /\ r.kind = "level" => r.choice.owner = None /\ r.choice.members = {}
    /\ ProjectList(r.items, n)

Creates(r) == r.kind \in {"create", "batch"}
Updates(r) == r.kind = "update"

ProjectCalls ==
    /\ pCalls = [c \in PageCall |-> pCalls[c]]
    /\ \A c \in PageCall : ProjectCarried(pCalls[c], pBorn)
    /\ \A c, d \in PageCall : Updates(pCalls[c]) /\ Updates(pCalls[d]) => c = d
    /\ \A c, d \in PageCall : Creates(pCalls[c]) /\ Creates(pCalls[d]) => c = d

(* A dialog bears a level, and an owner when one was picked.               *)
Full(d) ==
    d.choice.level \in Projects!Level /\ ("owner" \in d.touched => d.choice.owner # None)

ProjectDialogs ==
    /\ pEditing \in Projects!Form /\ pCreating \in Projects!Form
    /\ ~(pEditing.open /\ pCreating.open)
    /\ pEditing.project <= pBorn
    /\ pEditing.open => pEditing.project # Projects!Nothing
    /\ Full(pEditing) /\ Full(pCreating)
    /\ pEditing.busy <=> \E c \in PageCall : Updates(pCalls[c])
    /\ pCreating.busy <=> \E c \in PageCall : Creates(pCalls[c])

ProjectShown ==
    /\ ProjectList(projects, pBorn) /\ pLoading \in BOOLEAN /\ searching \in BOOLEAN

ProjectTypes ==
    /\ ProjectTable /\ ProjectCalls /\ ProjectDialogs /\ ProjectShown
    /\ pOps \in 0 .. MaxOps /\ picks \in 0 .. MaxPicks /\ pStrayed \in BOOLEAN

LEMMA ProjectTypesAreTypes == ProjectTypes => Projects!TypeOK
<1> SUFFICES ASSUME ProjectTypes PROVE Projects!TypeOK
  OBVIOUS
<1>1. pCalls \in [PageCall -> Projects!CallState]
  BY DEF ProjectTypes, ProjectCalls, ProjectCarried
<1> QED BY <1>1 DEF ProjectTypes, ProjectTable, ProjectDialogs, ProjectShown, ProjectList,
                    Updates, Creates, Projects!TypeOK

LEMMA MoreProjects ==
    ASSUME NEW n \in Int, NEW m \in Int, n <= m
    PROVE  /\ \A list : ProjectList(list, n) => ProjectList(list, m)
           /\ \A r : ProjectCarried(r, n) => ProjectCarried(r, m)
<1>1. ASSUME NEW list, ProjectList(list, n)
      PROVE  ProjectList(list, m)
  <2>1. \A i \in DOMAIN list : list[i].id \in Nat /\ list[i].id <= n
    <3> SUFFICES ASSUME NEW i \in DOMAIN list
                 PROVE  list[i].id \in Nat /\ list[i].id <= n
      OBVIOUS
    <3>1. list[i] \in Projects!Shown
      BY <1>1 DEF ProjectList
    <3> QED BY <1>1, <3>1 DEF ProjectList, Projects!Shown, Projects!Project
  <2>2. \A i \in DOMAIN list : list[i].id <= m
    BY <2>1
  <2> QED BY <1>1, <2>2 DEF ProjectList
<1>2. ASSUME NEW r, ProjectCarried(r, n)
      PROVE  ProjectCarried(r, m)
  <2>1. r.project \in Nat
    BY <1>2 DEF ProjectCarried, Projects!CallState, Projects!Project, Projects!Nothing
  <2>2. r.project <= m
    BY <1>2, <2>1 DEF ProjectCarried
  <2> QED BY <1>1, <1>2, <2>2 DEF ProjectCarried
<1> QED BY <1>1, <1>2

LEMMA NoProjects ==
    ASSUME NEW n
    PROVE  ProjectList(<<>>, n)
BY ProjectBounds DEF ProjectList

LEMMA ChoicesAre ==
    /\ Projects!NoChoice \in Projects!Choice /\ Projects!NewChoice \in Projects!Choice
    /\ Projects!NewChoice.level = 1 /\ 1 \in Projects!Level
    /\ Projects!NoChoice.owner = None /\ Projects!NoChoice.members = {}
    /\ Projects!NoChoice.level = 0
    /\ \A row \in Projects!Row :
          /\ Projects!Chosen(row) \in Projects!Choice /\ Projects!Chosen(row) \in Projects!Wish
          /\ Projects!Chosen(row).level \in Projects!Level
    /\ \A choice \in Projects!Choice :
          choice.level \in Projects!Level => choice \in Projects!Wish
BY DEF Projects!NoChoice, Projects!NewChoice, Projects!Choice, Projects!Level, Projects!Row,
   Projects!Chosen, Projects!Wish

LEMMA NothingAsked ==
    /\ Projects!Idle \in Projects!CallState /\ Projects!Idle.kind = "none"
    /\ Projects!Idle.project = Projects!Nothing
    /\ Projects!Idle.items = <<>> /\ Projects!Idle.phase = "sent" /\ Projects!Idle.old = FALSE
    /\ Projects!Idle.choice = Projects!NoChoice
<1>1. <<>> \in Seq(Projects!Shown)
  OBVIOUS
<1>2. Projects!NoRow \in Projects!Row
  BY ProjectBounds DEF Projects!NoRow, Projects!Row, Projects!Level
<1> QED BY <1>1, <1>2, ChoicesAre DEF Projects!Idle, Projects!CallState

LEMMA NothingCarried ==
    ASSUME pBorn \in Nat
    PROVE  ProjectCarried(Projects!Idle, pBorn)
BY NothingAsked, NoProjects DEF ProjectCarried, Projects!Nothing

LEMMA PatchedProject ==
    ASSUME NEW choice \in Projects!Choice
    PROVE  /\ \A row \in Projects!Row :
                 /\ Projects!Patched(row, choice) \in Projects!Row
                 /\ Projects!Patched(row, choice).owner =
                        IF choice.owner = None THEN row.owner ELSE choice.owner
                 /\ Projects!Patched(row, choice).members =
                        IF choice.members = {} THEN row.members ELSE choice.members
                 /\ Projects!Patched(row, choice).level =
                        IF choice.level = 0 THEN row.level ELSE choice.level
                 /\ Projects!Patched(row, choice).order = row.order
           /\ \A row \in Projects!Choice :
                 /\ Projects!Patched(row, choice) \in Projects!Choice
                 /\ Projects!Patched(row, choice).owner =
                        IF choice.owner = None THEN row.owner ELSE choice.owner
                 /\ Projects!Patched(row, choice).members =
                        IF choice.members = {} THEN row.members ELSE choice.members
                 /\ Projects!Patched(row, choice).level =
                        IF choice.level = 0 THEN row.level ELSE choice.level
<1>1. ASSUME NEW row \in Projects!Row
      PROVE  /\ Projects!Patched(row, choice) \in Projects!Row
             /\ Projects!Patched(row, choice).owner =
                    IF choice.owner = None THEN row.owner ELSE choice.owner
             /\ Projects!Patched(row, choice).members =
                    IF choice.members = {} THEN row.members ELSE choice.members
             /\ Projects!Patched(row, choice).level = IF choice.level = 0 THEN row.level ELSE choice.level
             /\ Projects!Patched(row, choice).order = row.order
  BY DEF Projects!Patched, Projects!Row, Projects!Choice
<1>2. ASSUME NEW row \in Projects!Choice
      PROVE  /\ Projects!Patched(row, choice) \in Projects!Choice
             /\ Projects!Patched(row, choice).owner =
                    IF choice.owner = None THEN row.owner ELSE choice.owner
             /\ Projects!Patched(row, choice).members =
                    IF choice.members = {} THEN row.members ELSE choice.members
             /\ Projects!Patched(row, choice).level = IF choice.level = 0 THEN row.level ELSE choice.level
  BY DEF Projects!Patched, Projects!Choice
<1> QED BY <1>1, <1>2

-----------------------------------------------------------------------------
(* The projects: what a step leaves of the calls.                          *)
Alike(r2, r) ==
    /\ r2 \in Projects!CallState /\ r2.kind = r.kind /\ r2.search = r.search
    /\ r2.project = r.project
    /\ r2.choice = r.choice /\ r2.items = r.items /\ r2.replace = r.replace
    /\ r.phase = "read" /\ r2.phase = "read" => r2.row = r.row

LEMMA CarriedAlike ==
    ASSUME NEW n, NEW r, ProjectCarried(r, n), NEW r2, Alike(r2, r)
    PROVE  ProjectCarried(r2, n) /\ (Updates(r2) <=> Updates(r)) /\ (Creates(r2) <=> Creates(r))
BY DEF ProjectCarried, Alike, Updates, Creates

LEMMA AlikeItself ==
    ASSUME NEW r \in Projects!CallState
    PROVE  Alike(r, r)
BY DEF Alike

LEMMA OldIs ==
    ASSUME NEW r \in Projects!CallState, NEW b \in BOOLEAN
    PROVE  /\ Alike([r EXCEPT !.old = b], r)
           /\ [r EXCEPT !.old = b].phase = r.phase /\ [r EXCEPT !.old = b].old = b
BY DEF Alike, Projects!CallState

LEMMA DoneIs ==
    ASSUME NEW r \in Projects!CallState
    PROVE  /\ Alike([r EXCEPT !.phase = "done", !.row = Projects!NoRow], r)
           /\ [r EXCEPT !.phase = "done", !.row = Projects!NoRow].phase = "done"
           /\ [r EXCEPT !.phase = "done", !.row = Projects!NoRow].old = r.old
<1>1. Projects!NoRow \in Projects!Row
  BY ProjectBounds DEF Projects!NoRow, Projects!Row, Projects!Level
<1> QED BY <1>1 DEF Alike, Projects!CallState

LEMMA ReadIs ==
    ASSUME NEW r \in Projects!CallState, r.phase = "sent", NEW row \in Projects!Row
    PROVE  /\ Alike([r EXCEPT !.phase = "read", !.row = row], r)
           /\ [r EXCEPT !.phase = "read", !.row = row].phase = "read"
           /\ [r EXCEPT !.phase = "read", !.row = row].row = row
           /\ [r EXCEPT !.phase = "read", !.row = row].old = r.old
BY DEF Alike, Projects!CallState

LEMMA ProjectCallFacts ==
    ASSUME ProjectTypes
    PROVE  /\ \A c \in PageCall : pCalls[c] \in Projects!CallState /\ ProjectCarried(pCalls[c], pBorn)
           /\ \A c \in PageCall : pCalls[c].old \in BOOLEAN /\ pCalls[c].search \in BOOLEAN
           /\ \A c \in PageCall : pCalls[c].project \in 0 .. pBorn
           /\ pCalls = [c \in PageCall |-> pCalls[c]]
           /\ pBorn \in Nat
<1>1. \A c \in PageCall : pCalls[c] \in Projects!CallState /\ ProjectCarried(pCalls[c], pBorn)
  BY DEF ProjectTypes, ProjectCalls, ProjectCarried
<1>2. pBorn \in Nat
  BY ProjectBounds DEF ProjectTypes, ProjectTable
<1>3. \A c \in PageCall : pCalls[c].old \in BOOLEAN /\ pCalls[c].search \in BOOLEAN
  BY <1>1 DEF Projects!CallState
<1>4. \A c \in PageCall : pCalls[c].project \in 0 .. pBorn
  BY <1>1, <1>2 DEF ProjectCarried, Projects!CallState, Projects!Project, Projects!Nothing
<1> QED BY <1>1, <1>2, <1>3, <1>4 DEF ProjectTypes, ProjectCalls

LEMMA AgedIs ==
    ASSUME ProjectTypes, NEW x \in PageCall
    PROVE  /\ Alike(Projects!Aged(x), pCalls[x]) /\ Projects!Aged(x).phase = pCalls[x].phase
           /\ Projects!Aged(x).old <=> pCalls[x].old
                  \/ (pCalls[x].kind = "list" /\ pCalls[x].phase = "done")
<1> DEFINE b == pCalls[x].old \/ (pCalls[x].kind = "list" /\ pCalls[x].phase = "done")
<1>1. pCalls[x] \in Projects!CallState /\ b \in BOOLEAN
  BY ProjectCallFacts
<1>2. Projects!Aged(x) = [pCalls[x] EXCEPT !.old = b]
  BY DEF Projects!Aged
<1> HIDE DEF b
<1>3. /\ Alike([pCalls[x] EXCEPT !.old = b], pCalls[x])
      /\ [pCalls[x] EXCEPT !.old = b].phase = pCalls[x].phase
      /\ [pCalls[x] EXCEPT !.old = b].old = b
  BY <1>1, OldIs
<1>4. Projects!Aged(x).old <=> b
  BY <1>2, <1>3
<1> QED BY <1>2, <1>3, <1>4 DEF b

UpdateSent == \E c \in PageCall : Updates(pCalls[c])
CreateSent == \E c \in PageCall : Creates(pCalls[c])

LEMMA SameCalls ==
    ASSUME ProjectTypes, pBorn' \in Int, pBorn <= pBorn',
           pCalls' = [c \in PageCall |-> pCalls'[c]],
           \A c \in PageCall : Alike(pCalls'[c], pCalls[c])
    PROVE  /\ ProjectCalls'
           /\ UpdateSent' <=> UpdateSent
           /\ CreateSent' <=> CreateSent
<1>1. \A c \in PageCall : ProjectCarried(pCalls[c], pBorn)
  BY ProjectCallFacts
<1>2. \A c \in PageCall : /\ ProjectCarried(pCalls'[c], pBorn)
                          /\ Updates(pCalls'[c]) <=> Updates(pCalls[c])
                          /\ Creates(pCalls'[c]) <=> Creates(pCalls[c])
  BY <1>1, CarriedAlike
<1>3. \A r : ProjectCarried(r, pBorn) => ProjectCarried(r, pBorn')
  BY MoreProjects, ProjectCallFacts
<1>4. \A c \in PageCall : ProjectCarried(pCalls[c], pBorn)'
  <2>1. \A c \in PageCall : ProjectCarried(pCalls'[c], pBorn')
    BY <1>2, <1>3
  <2> QED BY <2>1 DEF ProjectCarried, ProjectList
<1>5. /\ \A c \in PageCall : Updates(pCalls[c])' <=> Updates(pCalls[c])
      /\ \A c \in PageCall : Creates(pCalls[c])' <=> Creates(pCalls[c])
  BY <1>2 DEF Updates, Creates
<1>6. ProjectCalls'
  BY <1>4, <1>5 DEF ProjectTypes, ProjectCalls
<1> QED BY <1>5, <1>6 DEF UpdateSent, CreateSent

LEMMA SentProject ==
    ASSUME ProjectTypes, NEW c \in PageCall, NEW r, ProjectCarried(r, pBorn), pBorn' = pBorn,
           pCalls[c] = Projects!Idle, pCalls' = [x \in PageCall |-> pCalls'[x]], pCalls'[c] = r,
           \A x \in PageCall : x # c => Alike(pCalls'[x], pCalls[x]),
           Updates(r) => ~UpdateSent, Creates(r) => ~CreateSent
    PROVE  /\ ProjectCalls'
           /\ UpdateSent' <=> UpdateSent \/ Updates(r)
           /\ CreateSent' <=> CreateSent \/ Creates(r)
<1>1. \A x \in PageCall : ProjectCarried(pCalls[x], pBorn)
  BY ProjectCallFacts
<1>2. ~Updates(pCalls[c]) /\ ~Creates(pCalls[c])
  BY NothingAsked DEF Updates, Creates
<1>3. ASSUME NEW x \in PageCall
      PROVE  /\ ProjectCarried(pCalls'[x], pBorn)
             /\ Updates(pCalls'[x]) <=> IF x = c THEN Updates(r) ELSE Updates(pCalls[x])
             /\ Creates(pCalls'[x]) <=> IF x = c THEN Creates(r) ELSE Creates(pCalls[x])
  BY <1>1, CarriedAlike
<1>4. \A x \in PageCall : ProjectCarried(pCalls[x], pBorn)'
  BY <1>3 DEF ProjectCarried, ProjectList
<1>5. /\ \A x \in PageCall : Updates(pCalls[x])' <=> IF x = c THEN Updates(r) ELSE Updates(pCalls[x])
      /\ \A x \in PageCall : Creates(pCalls[x])' <=> IF x = c THEN Creates(r) ELSE Creates(pCalls[x])
  BY <1>3 DEF Updates, Creates
<1>6. ProjectCalls'
  BY <1>4, <1>5 DEF ProjectTypes, ProjectCalls, UpdateSent, CreateSent
<1> QED BY <1>2, <1>5, <1>6 DEF UpdateSent, CreateSent

LEMMA AnsweredProject ==
    ASSUME ProjectTypes, NEW c \in PageCall, NEW r, ProjectCarried(r, pBorn), pBorn' = pBorn,
           pCalls' = [pCalls EXCEPT ![c] = r], r.kind \in {"none", "list"}
    PROVE  /\ ProjectCalls'
           /\ UpdateSent' <=> UpdateSent /\ ~Updates(pCalls[c])
           /\ CreateSent' <=> CreateSent /\ ~Creates(pCalls[c])
           /\ \A x \in PageCall : pCalls'[x] = IF x = c THEN r ELSE pCalls[x]
<1>1. pCalls' = [x \in PageCall |-> IF x = c THEN r ELSE pCalls[x]]
  BY ProjectCallFacts
<1>2. \A x \in PageCall : pCalls'[x] = IF x = c THEN r ELSE pCalls[x]
  BY <1>1
<1>3. ~Updates(r) /\ ~Creates(r)
  BY DEF Updates, Creates
<1>4. \A x \in PageCall : ProjectCarried(pCalls'[x], pBorn)
  BY <1>2, ProjectCallFacts
<1>5. \A x \in PageCall : ProjectCarried(pCalls[x], pBorn)'
  BY <1>4 DEF ProjectCarried, ProjectList
<1>6. /\ \A x \in PageCall : Updates(pCalls[x])' <=> IF x = c THEN FALSE ELSE Updates(pCalls[x])
      /\ \A x \in PageCall : Creates(pCalls[x])' <=> IF x = c THEN FALSE ELSE Creates(pCalls[x])
  BY <1>2, <1>3 DEF Updates, Creates
<1>7. ProjectCalls'
  <2>1. pCalls' = [x \in PageCall |-> pCalls'[x]]
    BY <1>1
  <2> QED BY <1>5, <1>6, <2>1 DEF ProjectTypes, ProjectCalls
<1>8. (UpdateSent' <=> UpdateSent /\ ~Updates(pCalls[c]))
          /\ (CreateSent' <=> CreateSent /\ ~Creates(pCalls[c]))
  BY <1>6 DEF UpdateSent, CreateSent, ProjectTypes, ProjectCalls
<1> QED BY <1>2, <1>7, <1>8

LEMMA ProjectFacts ==
    ASSUME ProjectTypes
    PROVE  /\ pBorn \in Nat /\ MaxProjects \in Nat /\ pBorn <= MaxProjects
           /\ \A i \in DOMAIN projects :
                 projects[i].id \in 1 .. pBorn /\ projects[i].row \in Projects!Row
                     /\ projects[i] \in Projects!Shown
           /\ pWanted \in [1 .. pBorn -> Projects!Wish] /\ pRaced \subseteq 1 .. pBorn
           /\ DOMAIN pWanted = 1 .. pBorn
           /\ pRows \in [DOMAIN pRows -> Projects!Row] /\ DOMAIN pRows \subseteq 1 .. pBorn
           /\ Tabular(pRows, pBorn)
           /\ pEditing \in Projects!Form /\ pCreating \in Projects!Form
           /\ pEditing.project \in 0 .. pBorn
           /\ pEditing.choice \in Projects!Choice /\ pCreating.choice \in Projects!Choice
           /\ searching \in BOOLEAN /\ pLoading \in BOOLEAN /\ pStrayed \in BOOLEAN
<1>1. ASSUME NEW i \in DOMAIN projects
      PROVE  projects[i].id \in 1 .. pBorn /\ projects[i].row \in Projects!Row
                 /\ projects[i] \in Projects!Shown
  <2>1. projects[i] \in Projects!Shown /\ projects[i].id <= pBorn
    BY DEF ProjectTypes, ProjectShown, ProjectList
  <2> QED BY <2>1, ProjectBounds
             DEF ProjectTypes, ProjectTable, Projects!Shown, Projects!Project
<1>2. pEditing \in Projects!Form /\ pCreating \in Projects!Form /\ pEditing.project <= pBorn
  BY DEF ProjectTypes, ProjectDialogs
<1>3. pBorn \in Nat /\ pBorn <= MaxProjects
  BY ProjectBounds DEF ProjectTypes, ProjectTable
<1>4. pEditing.project \in 0 .. pBorn /\ pEditing.choice \in Projects!Choice
          /\ pCreating.choice \in Projects!Choice
  BY <1>2, <1>3 DEF Projects!Form, Projects!Project, Projects!Nothing
<1> QED BY <1>1, <1>2, <1>3, <1>4, ProjectBounds
        DEF ProjectTypes, ProjectTable, ProjectShown, Tabular

LEMMA ChooseProjectIs ==
    ASSUME ProjectTypes, NEW p \in 1 .. pBorn, NEW choice \in Projects!Choice,
           NEW fields \in SUBSET {"owner", "members", "level"},
           "level" \in fields => choice.level \in Projects!Level,
           Projects!Choose(p, choice, fields)
    PROVE  /\ pWanted' \in [1 .. pBorn -> Projects!Wish] /\ pRaced' \subseteq 1 .. pBorn
           /\ \A q \in 1 .. pBorn : q # p => pWanted'[q] = pWanted[q]
           /\ pWanted'[p].owner = IF "owner" \in fields THEN choice.owner ELSE pWanted[p].owner
           /\ pWanted'[p].level = IF "level" \in fields THEN choice.level ELSE pWanted[p].level
           /\ pWanted'[p].members = IF "members" \notin fields THEN pWanted[p].members
                                    ELSE IF choice.members = {} THEN Projects!Emptied
                                    ELSE choice.members
<1>1. pWanted \in [1 .. pBorn -> Projects!Wish] /\ pRaced \subseteq 1 .. pBorn
  BY ProjectFacts
<1>2. PICK w \in Projects!Wish : w = pWanted[p]
  BY <1>1
<1> DEFINE new == [owner |-> IF "owner" \in fields THEN choice.owner ELSE w.owner,
                   members |-> IF "members" \notin fields THEN w.members
                               ELSE IF choice.members = {} THEN Projects!Emptied
                               ELSE choice.members,
                   level |-> IF "level" \in fields THEN choice.level ELSE w.level]
<1>3. new \in Projects!Wish
  BY <1>2 DEF Projects!Choice, Projects!Wish, Projects!Emptied
<1>4. /\ new.owner = IF "owner" \in fields THEN choice.owner ELSE w.owner
      /\ new.level = IF "level" \in fields THEN choice.level ELSE w.level
      /\ new.members = IF "members" \notin fields THEN w.members
                       ELSE IF choice.members = {} THEN Projects!Emptied ELSE choice.members
  OBVIOUS
<1>5. pWanted' = [pWanted EXCEPT ![p] = new]
  BY <1>1, <1>2 DEF Projects!Choose
<1> HIDE DEF new
<1>6. pRaced' \subseteq 1 .. pBorn
  BY <1>1 DEF Projects!Choose
<1> QED BY <1>1, <1>2, <1>3, <1>4, <1>5, <1>6

(* What is asked for, by kind.                                             *)
LEMMA AskIs ==
    ASSUME ProjectTypes, NEW kind \in {"list", "reorder", "level", "update", "delete",
                                       "create", "batch"}
    PROVE  /\ Projects!Ask(kind) \in Projects!CallState /\ Projects!Ask(kind).kind = kind
           /\ Projects!Ask(kind).project = Projects!Nothing
           /\ Projects!Ask(kind).items = <<>> /\ Projects!Ask(kind).choice = Projects!NoChoice
           /\ Projects!Ask(kind).phase = "sent"
           /\ Projects!Ask(kind).search = searching /\ Projects!Ask(kind).old = FALSE
BY NothingAsked, ProjectFacts DEF Projects!Ask, Projects!CallState

(* A call that is sent while the page stays as it is.                      *)
LEMMA SentTypes ==
    ASSUME ProjectTypes, NEW c \in PageCall, NEW r, ProjectCarried(r, pBorn),
           Projects!Operate, pCalls[c] = Projects!Idle, pCalls' = [x \in PageCall |-> pCalls'[x]],
           pCalls'[c] = r,
           \A x \in PageCall : x # c => Alike(pCalls'[x], pCalls[x]),
           UNCHANGED Projects!table,
           pWanted' \in [1 .. pBorn -> Projects!Wish], pRaced' \subseteq 1 .. pBorn,
           ProjectList(projects', pBorn), pLoading' \in BOOLEAN, searching' \in BOOLEAN,
           pStrayed' \in BOOLEAN, picks' = picks,
           Updates(r) => ~pEditing.busy, Creates(r) => ~pCreating.busy,
           pEditing' = IF Updates(r) THEN [pEditing EXCEPT !.busy = TRUE] ELSE pEditing,
           pCreating' = IF Creates(r) THEN [pCreating EXCEPT !.busy = TRUE] ELSE pCreating
    PROVE  ProjectTypes'
<1>0. pBorn' = pBorn /\ pRows' = pRows
  BY DEF Projects!table
<1>1. (pEditing.busy <=> UpdateSent) /\ (pCreating.busy <=> CreateSent)
  BY DEF ProjectTypes, ProjectDialogs, UpdateSent, CreateSent
<1>2. /\ ProjectCalls'
      /\ UpdateSent' <=> UpdateSent \/ Updates(r)
      /\ CreateSent' <=> CreateSent \/ Creates(r)
  BY <1>0, <1>1, SentProject
<1>3. ProjectTable'
  BY <1>0 DEF ProjectTypes, ProjectTable
<1>4. ProjectShown'
  BY <1>0 DEF ProjectShown, ProjectList
<1>5. pOps' \in 0 .. MaxOps
  BY ProjectBounds DEF ProjectTypes, Projects!Operate
<1>6. /\ pEditing' \in Projects!Form /\ pEditing'.open = pEditing.open
      /\ pEditing'.project = pEditing.project
      /\ pEditing'.choice = pEditing.choice /\ pEditing'.touched = pEditing.touched
      /\ pEditing'.busy <=> pEditing.busy \/ Updates(r)
  BY ProjectFacts DEF Projects!Form
<1>7. /\ pCreating' \in Projects!Form /\ pCreating'.open = pCreating.open
      /\ pCreating'.choice = pCreating.choice /\ pCreating'.touched = pCreating.touched
      /\ pCreating'.busy <=> pCreating.busy \/ Creates(r)
  BY ProjectFacts DEF Projects!Form
<1>8. ProjectDialogs'
  <2>1. (pEditing'.busy <=> UpdateSent') /\ (pCreating'.busy <=> CreateSent')
    BY <1>1, <1>2, <1>6, <1>7
  <2> QED BY <1>0, <1>6, <1>7, <2>1
          DEF ProjectTypes, ProjectDialogs, UpdateSent, CreateSent, Updates, Creates, Full
<1> QED BY <1>2, <1>3, <1>4, <1>5, <1>8 DEF ProjectTypes

LEMMA SendIs ==
    ASSUME ProjectTypes, NEW c \in PageCall, NEW r, Projects!Send(c, r)
    PROVE  /\ Projects!Operate /\ pCalls[c] = Projects!Idle
           /\ pCalls' = [x \in PageCall |-> pCalls'[x]] /\ pCalls'[c] = r
           /\ \A x \in PageCall : x # c => Alike(pCalls'[x], pCalls[x]) /\ pCalls'[x] = pCalls[x]
<1>1. /\ Projects!Operate /\ pCalls[c] = Projects!Idle
      /\ pCalls' = [x \in PageCall |-> IF x = c THEN r ELSE pCalls[x]]
  BY ProjectCallFacts DEF Projects!Send
<1>2. \A x \in PageCall : pCalls'[x] = IF x = c THEN r ELSE pCalls[x]
  BY <1>1
<1>3. \A x \in PageCall : Alike(pCalls[x], pCalls[x])
  BY AlikeItself, ProjectCallFacts
<1>4. pCalls' = [x \in PageCall |-> pCalls'[x]]
  BY <1>1
<1> QED BY <1>1, <1>2, <1>3, <1>4

LEMMA SendAheadIs ==
    ASSUME ProjectTypes, NEW c \in PageCall, NEW r, Projects!SendAhead(c, r)
    PROVE  /\ Projects!Operate /\ pCalls[c] = Projects!Idle
           /\ pCalls' = [x \in PageCall |-> pCalls'[x]] /\ pCalls'[c] = r
           /\ \A x \in PageCall : x # c => /\ Alike(pCalls'[x], pCalls[x]) /\ pCalls'[x].phase = pCalls[x].phase
                                           /\ pCalls'[x].old <=> pCalls[x].old
                                                 \/ (pCalls[x].kind = "list" /\ pCalls[x].phase = "done")
           /\ pStrayed' \in BOOLEAN
<1>1. /\ Projects!Operate /\ pCalls[c] = Projects!Idle
      /\ pCalls' = [x \in PageCall |-> IF x = c THEN r ELSE Projects!Aged(x)]
      /\ pStrayed' \in BOOLEAN
  BY DEF Projects!SendAhead
<1>2. \A x \in PageCall : pCalls'[x] = IF x = c THEN r ELSE Projects!Aged(x)
  BY <1>1
<1>3. \A x \in PageCall : /\ Alike(Projects!Aged(x), pCalls[x]) /\ Projects!Aged(x).phase = pCalls[x].phase
                          /\ Projects!Aged(x).old <=> pCalls[x].old
                                \/ (pCalls[x].kind = "list" /\ pCalls[x].phase = "done")
  BY AgedIs
<1>4. pCalls' = [x \in PageCall |-> pCalls'[x]]
  BY <1>1
<1> QED BY <1>1, <1>2, <1>3, <1>4

LEMMA SearchTypes ==
    ASSUME ProjectTypes, NEW c \in PageCall, Projects!Search(c)
    PROVE  /\ ProjectTypes'
           /\ pCalls'[c].kind = "list" /\ pCalls'[c].phase = "sent"
           /\ pCalls'[c].search = ~searching /\ pCalls'[c].old = FALSE
           /\ \A x \in PageCall : x # c => /\ Alike(pCalls'[x], pCalls[x]) /\ pCalls'[x].phase = pCalls[x].phase
                                           /\ pCalls'[x].old <=> pCalls[x].old \/ pCalls[x].kind = "list"
<1> DEFINE r == [Projects!Idle EXCEPT !.kind = "list", !.search = ~searching]
           old(x) == pCalls[x].old \/ pCalls[x].kind = "list"
<1>1. /\ r \in Projects!CallState /\ r.kind = "list" /\ r.phase = "sent" /\ r.search = ~searching
      /\ r.old = FALSE /\ r.items = <<>> /\ r.project = Projects!Nothing
  BY NothingAsked, ProjectFacts DEF Projects!CallState
<1> HIDE DEF r
<1>2. pCalls' = [x \in PageCall |-> IF x = c THEN r ELSE [pCalls[x] EXCEPT !.old = old(x)]]
  BY DEF Projects!Search, r
<1>3. \A x \in PageCall : old(x) \in BOOLEAN
  OBVIOUS
<1> HIDE DEF old
<1>4. \A x \in PageCall : /\ Alike([pCalls[x] EXCEPT !.old = old(x)], pCalls[x])
                          /\ [pCalls[x] EXCEPT !.old = old(x)].phase = pCalls[x].phase
                          /\ [pCalls[x] EXCEPT !.old = old(x)].old = old(x)
  BY <1>3, OldIs, ProjectCallFacts
<1>5. \A x \in PageCall : pCalls'[x] = IF x = c THEN r ELSE [pCalls[x] EXCEPT !.old = old(x)]
  BY <1>2
<1>6. /\ pCalls' = [x \in PageCall |-> pCalls'[x]] /\ pCalls'[c] = r
      /\ \A x \in PageCall : x # c => /\ Alike(pCalls'[x], pCalls[x]) /\ pCalls'[x].phase = pCalls[x].phase
                                      /\ pCalls'[x].old = old(x)
  <2>1. pCalls' = [x \in PageCall |-> pCalls'[x]]
    BY <1>2
  <2> QED BY <1>4, <1>5, <2>1
<1>7. ProjectCarried(r, pBorn) /\ ~Updates(r) /\ ~Creates(r)
  BY <1>1, NoProjects, ProjectFacts DEF ProjectCarried, Projects!Nothing, Updates, Creates
<1>8. /\ Projects!Operate /\ pCalls[c] = Projects!Idle
      /\ UNCHANGED <<Projects!table, projects, pEditing, pCreating, picks,
                                                   pWanted, pRaced, pStrayed>>
      /\ pLoading' = TRUE /\ searching' = ~searching
  BY DEF Projects!Search, Projects!dialogs, Projects!history
<1>9. /\ pLoading' \in BOOLEAN /\ searching' \in BOOLEAN /\ pStrayed' \in BOOLEAN
      /\ ProjectList(projects', pBorn)
  BY <1>8, ProjectFacts DEF ProjectTypes, ProjectShown
<1>10. ProjectTypes'
  BY <1>6, <1>7, <1>8, <1>9, SentTypes, ProjectFacts
<1>11. \A x \in PageCall : x # c => (pCalls'[x].old <=> pCalls[x].old \/ pCalls[x].kind = "list")
  BY <1>6 DEF old
<1> QED BY <1>1, <1>6, <1>10, <1>11

(* The list with a project moved, numbered by its places.                  *)
Numbering(list) == [i \in DOMAIN list |-> [list[i] EXCEPT !.row.order = i - 1]]

Dragged(items, from, to) ==
    /\ ProjectList(items, pBorn) /\ Len(items) = Len(projects)
    /\ \A i \in DOMAIN items :
          /\ Origin(from, to, i) \in DOMAIN projects
          /\ items[i].id = projects[Origin(from, to, i)].id
          /\ items[i].row.owner = projects[Origin(from, to, i)].row.owner
          /\ items[i].row.members = projects[Origin(from, to, i)].row.members
          /\ items[i].row.level = projects[Origin(from, to, i)].row.level
          /\ items[i].row.order = i - 1

LEMMA DraggedIs ==
    ASSUME ProjectTypes, NEW from \in DOMAIN projects, NEW to \in DOMAIN projects,
           NEW items, items = Numbering(Projects!Moved(projects, from, to))
    PROVE  Dragged(items, from, to)
<1> DEFINE list == Projects!Moved(projects, from, to)
           n == Len(projects)
           o(i) == Origin(from, to, i)
<1>1. /\ projects \in Seq(Projects!Shown) /\ n \in Nat /\ n <= MaxProjects
      /\ DOMAIN projects = 1 .. n
      /\ \A i, j \in 1 .. n : i # j => projects[i].id # projects[j].id
      /\ \A i \in 1 .. n : projects[i] \in Projects!Shown /\ projects[i].id <= pBorn
  BY LenProperties, ProjectFacts DEF ProjectTypes, ProjectShown, ProjectList
<1>2. /\ list \in Seq(Projects!Shown) /\ Len(list) = n
      /\ \A i \in 1 .. n : list[i] = projects[o(i)]
  BY <1>1, MovedIs
<1>3. /\ \A i \in 1 .. n : o(i) \in 1 .. n
      /\ \A i, j \in 1 .. n : o(i) = o(j) => i = j
  <2>1. n \in Nat /\ from \in 1 .. n /\ to \in 1 .. n
    BY <1>1
  <2> HIDE DEF n, o
  <2>2. /\ \A i \in 1 .. n : Origin(from, to, i) \in 1 .. n
        /\ \A i, j \in 1 .. n : Origin(from, to, i) = Origin(from, to, j) => i = j
    BY <2>1 DEF Origin
  <2>3. \A i : o(i) = Origin(from, to, i)
    BY DEF o
  <2> QED BY <2>2, <2>3
<1> HIDE DEF list, n, o
<1>4. DOMAIN list = 1 .. n
  BY <1>2, LenProperties
<1>5. items = [i \in 1 .. n |-> [list[i] EXCEPT !.row.order = i - 1]]
  BY <1>4 DEF Numbering, list
<1>6. ASSUME NEW i \in 1 .. n
      PROVE  /\ items[i] \in Projects!Shown /\ items[i].id = projects[o(i)].id
             /\ items[i].row.owner = projects[o(i)].row.owner
             /\ items[i].row.members = projects[o(i)].row.members
             /\ items[i].row.level = projects[o(i)].row.level
             /\ items[i].row.order = i - 1
  <2>1. list[i] \in Projects!Shown /\ list[i] = projects[o(i)]
    BY <1>1, <1>2, <1>3
  <2>2. i - 1 \in 0 .. MaxProjects
    BY <1>1, ProjectBounds
  <2>3. items[i] = [list[i] EXCEPT !.row.order = i - 1]
    BY <1>5
  <2> QED BY <2>1, <2>2, <2>3 DEF Projects!Shown, Projects!Row
<1>7. items \in [1 .. n -> Projects!Shown]
  BY <1>5, <1>6
<1>8. items \in Seq(Projects!Shown) /\ Len(items) = n /\ DOMAIN items = 1 .. n
  <2>1. items \in Seq(Projects!Shown) /\ DOMAIN items = 1 .. Len(items)
        /\ Len(items) = IF n < 0 THEN 0 ELSE n
    BY <1>1, <1>7, MakeSeq
  <2> QED BY <1>1, <2>1
<1>9. \A i, j \in DOMAIN items : i # j => items[i].id # items[j].id
  <2> SUFFICES ASSUME NEW i \in 1 .. n, NEW j \in 1 .. n, i # j
               PROVE  items[i].id # items[j].id
    BY <1>8
  <2>1. o(i) \in 1 .. n /\ o(j) \in 1 .. n /\ o(i) # o(j)
    BY <1>3
  <2>2. projects[o(i)].id # projects[o(j)].id
    BY <1>1, <2>1
  <2>3. items[i].id = projects[o(i)].id /\ items[j].id = projects[o(j)].id
    BY <1>6
  <2> QED BY <2>2, <2>3
<1>10. \A i \in DOMAIN items : items[i].id <= pBorn
  <2> SUFFICES ASSUME NEW i \in 1 .. n PROVE items[i].id <= pBorn
    BY <1>8
  <2>1. o(i) \in 1 .. n
    BY <1>3
  <2>2. projects[o(i)].id <= pBorn
    BY <1>1, <2>1
  <2>3. items[i].id = projects[o(i)].id
    BY <1>6
  <2> QED BY <2>2, <2>3
<1>11. ProjectList(items, pBorn)
  BY <1>1, <1>8, <1>9, <1>10 DEF ProjectList
<1>12. \A i \in DOMAIN items : /\ o(i) \in DOMAIN projects
                 /\ items[i].id = projects[o(i)].id
                 /\ items[i].row.owner = projects[o(i)].row.owner
                 /\ items[i].row.members = projects[o(i)].row.members
                 /\ items[i].row.level = projects[o(i)].row.level
                 /\ items[i].row.order = i - 1
  BY <1>1, <1>3, <1>6, <1>8
<1> QED BY <1>8, <1>11, <1>12 DEF n, o, Dragged

LEMMA HandleDragEndTypes ==
    ASSUME ProjectTypes, NEW c \in PageCall, NEW from \in DOMAIN projects,
           NEW to \in DOMAIN projects,
           Projects!HandleDragEnd(c, from, to)
    PROVE  /\ ProjectTypes'
           /\ projects' = Numbering(Projects!Moved(projects, from, to))
           /\ pCalls'[c].kind = "reorder" /\ pCalls'[c].phase = "sent"
           /\ pCalls'[c].items = projects'
           /\ pCalls'[c].project = Projects!Nothing
<1> DEFINE r == [Projects!Ask("reorder") EXCEPT !.items = projects']
<1>1. projects' = Numbering(Projects!Moved(projects, from, to)) /\ Projects!SendAhead(c, r)
  BY DEF Projects!HandleDragEnd, Numbering
<1>2. ProjectList(projects', pBorn)
  BY <1>1, DraggedIs DEF Dragged
<1>3. /\ r \in Projects!CallState /\ r.kind = "reorder" /\ r.phase = "sent" /\ r.items = projects'
      /\ r.project = Projects!Nothing
  BY <1>2, AskIs DEF Projects!CallState, ProjectList
<1> HIDE DEF r
<1>4. ProjectCarried(r, pBorn) /\ ~Updates(r) /\ ~Creates(r)
  BY <1>2, <1>3, ProjectFacts DEF ProjectCarried, Projects!Nothing, Updates, Creates
<1>5. UNCHANGED <<Projects!table, pLoading, searching, pEditing, pCreating, picks, pWanted, pRaced>>
  BY DEF Projects!HandleDragEnd, Projects!dialogs
<1>6. /\ Projects!Operate /\ pCalls[c] = Projects!Idle
      /\ pCalls' = [x \in PageCall |-> pCalls'[x]] /\ pCalls'[c] = r
      /\ \A x \in PageCall : x # c => Alike(pCalls'[x], pCalls[x])
      /\ pStrayed' \in BOOLEAN
  BY <1>1, SendAheadIs
<1>7. ProjectTypes'
  BY <1>2, <1>4, <1>5, <1>6, SentTypes, ProjectFacts
<1> QED BY <1>1, <1>3, <1>6, <1>7

Relevelled(list, i, level) ==
    /\ ProjectList(list, pBorn) /\ Len(list) = Len(projects) /\ DOMAIN list = DOMAIN projects
    /\ \A j \in DOMAIN projects :
          /\ list[j].id = projects[j].id
          /\ list[j].row.owner = projects[j].row.owner
          /\ list[j].row.members = projects[j].row.members
          /\ list[j].row.level = IF j = i THEN level ELSE projects[j].row.level
          /\ list[j].row.order = projects[j].row.order

LEMMA RelevelledIs ==
    ASSUME ProjectTypes, NEW i \in DOMAIN projects, NEW level \in Projects!Level,
           NEW list, list = [projects EXCEPT ![i].row.level = level]
    PROVE  Relevelled(list, i, level)
<1> DEFINE n == Len(projects)
<1>1. /\ projects \in Seq(Projects!Shown) /\ n \in Nat /\ n <= MaxProjects
      /\ DOMAIN projects = 1 .. n
      /\ \A j, k \in 1 .. n : j # k => projects[j].id # projects[k].id
      /\ \A j \in 1 .. n : projects[j] \in Projects!Shown /\ projects[j].id <= pBorn
      /\ projects \in [1 .. n -> Projects!Shown]
  BY LenProperties, ProjectFacts DEF ProjectTypes, ProjectShown, ProjectList
<1> DEFINE changed == [projects[i] EXCEPT !.row.level = level]
<1>2. /\ changed \in Projects!Shown /\ changed.id = projects[i].id
      /\ changed.row.owner = projects[i].row.owner
      /\ changed.row.members = projects[i].row.members
      /\ changed.row.level = level /\ changed.row.order = projects[i].row.order
  BY <1>1 DEF Projects!Shown, Projects!Row
<1>3. list = [j \in 1 .. n |-> IF j = i THEN changed ELSE projects[j]]
  BY <1>1
<1> HIDE DEF changed, n
<1>4. list \in [1 .. n -> Projects!Shown]
  BY <1>1, <1>2, <1>3
<1>5. list \in Seq(Projects!Shown) /\ Len(list) = n /\ DOMAIN list = 1 .. n
  <2>1. list \in Seq(Projects!Shown) /\ DOMAIN list = 1 .. Len(list)
        /\ Len(list) = IF n < 0 THEN 0 ELSE n
    BY <1>1, <1>4, MakeSeq
  <2> QED BY <1>1, <2>1
<1>6. \A j \in 1 .. n :
                 /\ list[j].id = projects[j].id
                 /\ list[j].row.owner = projects[j].row.owner
                 /\ list[j].row.members = projects[j].row.members
                 /\ list[j].row.level = IF j = i THEN level ELSE projects[j].row.level
                 /\ list[j].row.order = projects[j].row.order
  BY <1>2, <1>3
<1>7. ProjectList(list, pBorn)
  BY <1>1, <1>5, <1>6 DEF ProjectList
<1> QED BY <1>1, <1>5, <1>6, <1>7 DEF n, Relevelled

LEMMA HandleVisibilityTypes ==
    ASSUME ProjectTypes, NEW c \in PageCall, NEW i \in DOMAIN projects,
           NEW level \in Projects!Level,
           Projects!HandleVisibilityChange(c, i, level)
    PROVE  /\ ProjectTypes'
           /\ pCalls'[c].kind = "level" /\ pCalls'[c].phase = "sent"
           /\ pCalls'[c].project = projects[i].id /\ pCalls'[c].choice.level = level
           /\ pCalls'[c].choice.owner = None /\ pCalls'[c].choice.members = {}
<1> DEFINE p == projects[i].id
           r == [Projects!Ask("level") EXCEPT !.project = p, !.choice.level = level]
           choice == [Projects!NoChoice EXCEPT !.level = level]
<1>1. /\ projects' = [projects EXCEPT ![i].row.level = level] /\ Projects!SendAhead(c, r)
      /\ Projects!Choose(p, choice, {"level"})
  BY DEF Projects!HandleVisibilityChange
<1>2. ProjectList(projects', pBorn)
  BY <1>1, RelevelledIs DEF Relevelled
<1>3. p \in 1 .. pBorn /\ p \in Projects!Project /\ p # Projects!Nothing
  BY ProjectFacts DEF Projects!Project, Projects!Nothing
<1>4. /\ choice \in Projects!Choice /\ choice.owner = None /\ choice.members = {}
      /\ choice.level = level
  BY ChoicesAre DEF Projects!Choice
<1>5. /\ r \in Projects!CallState /\ r.kind = "level" /\ r.phase = "sent" /\ r.project = p
      /\ r.choice.level = level /\ r.choice.owner = None /\ r.choice.members = {}
      /\ r.items = <<>>
  BY <1>3, <1>4, AskIs, ChoicesAre DEF Projects!CallState, Projects!Choice
<1> HIDE DEF r, choice, p
<1>6. ProjectCarried(r, pBorn) /\ ~Updates(r) /\ ~Creates(r)
  BY <1>3, <1>5, NoProjects, ProjectFacts DEF ProjectCarried, Updates, Creates
<1>7. UNCHANGED <<Projects!table, pLoading, searching, pEditing, pCreating, picks>>
  BY DEF Projects!HandleVisibilityChange, Projects!dialogs
<1>8. /\ Projects!Operate /\ pCalls[c] = Projects!Idle
      /\ pCalls' = [x \in PageCall |-> pCalls'[x]] /\ pCalls'[c] = r
      /\ \A x \in PageCall : x # c => Alike(pCalls'[x], pCalls[x])
      /\ pStrayed' \in BOOLEAN
  BY <1>1, SendAheadIs
<1>9. pWanted' \in [1 .. pBorn -> Projects!Wish] /\ pRaced' \subseteq 1 .. pBorn
  BY <1>1, <1>3, <1>4, ChooseProjectIs
<1>10. ProjectTypes'
  BY <1>2, <1>6, <1>7, <1>8, <1>9, SentTypes, ProjectFacts
<1> QED BY <1>5, <1>8, <1>10 DEF p

LEMMA ProjectDeleteTypes ==
    ASSUME ProjectTypes, NEW c \in PageCall, NEW i \in DOMAIN projects,
           Projects!HandleDelete(c, i)
    PROVE  ProjectTypes' /\ pCalls'[c].kind = "delete" /\ pCalls'[c].phase = "sent"
<1> DEFINE p == projects[i].id
           r == [Projects!Ask("delete") EXCEPT !.project = p]
<1>1. Projects!Send(c, r) /\ p \in 1 .. pBorn /\ p \in Projects!Project
  BY ProjectFacts DEF Projects!HandleDelete, Projects!Project
<1>2. r \in Projects!CallState /\ r.kind = "delete" /\ r.phase = "sent" /\ r.project = p /\ r.items = <<>>
  BY <1>1, AskIs DEF Projects!CallState
<1> HIDE DEF r, p
<1>3. ProjectCarried(r, pBorn) /\ ~Updates(r) /\ ~Creates(r)
  BY <1>1, <1>2, NoProjects, ProjectFacts DEF ProjectCarried, Updates, Creates
<1>4. UNCHANGED <<Projects!table, projects, pLoading, searching, pEditing, pCreating, picks,
                  pWanted, pRaced, pStrayed>>
  BY DEF Projects!HandleDelete, Projects!shown, Projects!dialogs, Projects!history
<1>5. /\ Projects!Operate /\ pCalls[c] = Projects!Idle
      /\ pCalls' = [x \in PageCall |-> pCalls'[x]] /\ pCalls'[c] = r
      /\ \A x \in PageCall : x # c => Alike(pCalls'[x], pCalls[x])
  BY <1>1, SendIs
<1>6. ProjectTypes'
  BY <1>3, <1>4, <1>5, SentTypes, ProjectFacts DEF ProjectTypes, ProjectShown
<1> QED BY <1>2, <1>5, <1>6

LEMMA ProjectSubmitTypes ==
    ASSUME ProjectTypes, NEW c \in PageCall, Projects!HandleSubmit(c)
    PROVE  /\ ProjectTypes'
           /\ pCalls'[c].kind = "update" /\ pCalls'[c].phase = "sent"
           /\ pCalls'[c].project = pEditing.project /\ pCalls'[c].choice = pEditing.choice
<1> DEFINE p == pEditing.project
           r == [Projects!Ask("update") EXCEPT !.project = p, !.choice = pEditing.choice]
<1>1. /\ Projects!Send(c, r) /\ ~pEditing.busy
      /\ Projects!Choose(p, pEditing.choice, pEditing.touched)
      /\ pEditing' = [pEditing EXCEPT !.busy = TRUE]
      /\ UNCHANGED <<picks, Projects!table, projects, pLoading, searching, pCreating, pStrayed>>
  BY DEF Projects!HandleSubmit, Projects!shown
<1>2. p # Projects!Nothing /\ p \in 1 .. pBorn /\ p \in Projects!Project
  <2>1. p # Projects!Nothing
    BY DEF Projects!HandleSubmit, ProjectTypes, ProjectDialogs
  <2> QED BY <2>1, ProjectFacts DEF Projects!Project, Projects!Nothing
<1>3. /\ r \in Projects!CallState /\ r.kind = "update" /\ r.phase = "sent" /\ r.project = p
      /\ r.choice = pEditing.choice /\ r.items = <<>>
  BY <1>2, AskIs, ProjectFacts DEF Projects!CallState
<1> HIDE DEF r, p
<1>4. ProjectCarried(r, pBorn) /\ Updates(r) /\ ~Creates(r)
  BY <1>2, <1>3, NoProjects, ProjectFacts DEF ProjectCarried, Updates, Creates
<1>5. /\ Projects!Operate /\ pCalls[c] = Projects!Idle
      /\ pCalls' = [x \in PageCall |-> pCalls'[x]] /\ pCalls'[c] = r
      /\ \A x \in PageCall : x # c => Alike(pCalls'[x], pCalls[x])
  BY <1>1, SendIs
<1>6. pWanted' \in [1 .. pBorn -> Projects!Wish] /\ pRaced' \subseteq 1 .. pBorn
  <2>1. /\ pEditing.choice \in Projects!Choice /\ pEditing.choice.level \in Projects!Level
        /\ pEditing.touched \in SUBSET {"owner", "members", "level"}
    BY ProjectFacts DEF ProjectTypes, ProjectDialogs, Full, Projects!Form
  <2> QED BY <1>1, <1>2, <2>1, ChooseProjectIs
<1>7. ProjectTypes'
  BY <1>1, <1>4, <1>5, <1>6, SentTypes, ProjectFacts DEF ProjectTypes, ProjectShown
<1> QED BY <1>3, <1>5, <1>7 DEF p

LEMMA ProjectCreateTypes ==
    ASSUME ProjectTypes, NEW c \in PageCall,
           \/ Projects!HandleSingleSubmit(c)
           \/ \E p \in DOMAIN pRows \cup {Projects!Nothing}, u \in Person \cup {None}, replace \in BOOLEAN :
                 Projects!HandleBulkSubmit(c, p, u, replace)
    PROVE  ProjectTypes' /\ pCalls'[c].kind \in {"create", "batch"} /\ pCalls'[c].phase = "sent"
<1>1. ASSUME NEW r, ProjectCarried(r, pBorn), Creates(r), ~Updates(r), Projects!Send(c, r),
             ~pCreating.busy,
             pCreating' = [pCreating EXCEPT !.busy = TRUE],
             UNCHANGED <<picks, Projects!table, Projects!shown, pEditing, Projects!history>>
      PROVE  ProjectTypes' /\ pCalls'[c] = r
  <2>1. /\ Projects!Operate /\ pCalls[c] = Projects!Idle
        /\ pCalls' = [x \in PageCall |-> pCalls'[x]] /\ pCalls'[c] = r
        /\ \A x \in PageCall : x # c => Alike(pCalls'[x], pCalls[x])
    BY <1>1, SendIs
  <2> QED BY <1>1, <2>1, SentTypes, ProjectFacts
             DEF ProjectTypes, ProjectShown, Projects!shown, Projects!history
<1>2. CASE Projects!HandleSingleSubmit(c)
  <2> DEFINE r == [Projects!Ask("create") EXCEPT !.choice = pCreating.choice]
  <2>1. Projects!Send(c, r) /\ ~pCreating.busy
    BY <1>2 DEF Projects!HandleSingleSubmit
  <2>2. pCreating.choice.level \in Projects!Level /\ pCreating.choice \in Projects!Choice
    BY ProjectFacts DEF ProjectTypes, ProjectDialogs, Full
  <2>3. /\ r \in Projects!CallState /\ r.kind = "create" /\ r.phase = "sent"
        /\ r.project = Projects!Nothing
        /\ r.choice = pCreating.choice /\ r.items = <<>>
    BY <2>2, AskIs DEF Projects!CallState
  <2> HIDE DEF r
  <2>4. ProjectCarried(r, pBorn) /\ Creates(r) /\ ~Updates(r)
    BY <2>2, <2>3, NoProjects, ProjectFacts
       DEF ProjectCarried, Updates, Creates, Projects!Nothing
  <2> QED BY <1>1, <1>2, <2>1, <2>3, <2>4 DEF Projects!HandleSingleSubmit
<1>3. CASE \E p \in DOMAIN pRows \cup {Projects!Nothing}, u \in Person \cup {None}, replace \in BOOLEAN :
              Projects!HandleBulkSubmit(c, p, u, replace)
  <2>1. PICK p \in DOMAIN pRows \cup {Projects!Nothing}, u \in Person \cup {None}, replace \in BOOLEAN :
           Projects!HandleBulkSubmit(c, p, u, replace)
    BY <1>3
  <2> DEFINE choice == [Projects!NewChoice EXCEPT !.owner = u]
             r == [Projects!Ask("batch") EXCEPT !.project = p, !.replace = replace, !.choice = choice]
  <2>2. Projects!Send(c, r) /\ ~pCreating.busy
    BY <2>1 DEF Projects!HandleBulkSubmit
  <2>3. choice \in Projects!Choice /\ choice.level \in Projects!Level
    BY ChoicesAre DEF Projects!Choice
  <2>4. p \in 0 .. pBorn /\ p \in Projects!Project \cup {Projects!Nothing}
    BY ProjectFacts DEF Projects!Project, Projects!Nothing
  <2> HIDE DEF choice
  <2>5. /\ r \in Projects!CallState /\ r.kind = "batch" /\ r.phase = "sent" /\ r.project = p
        /\ r.choice = choice /\ r.items = <<>>
    BY <2>3, <2>4, AskIs DEF Projects!CallState
  <2> HIDE DEF r
  <2>6. ProjectCarried(r, pBorn) /\ Creates(r) /\ ~Updates(r)
    BY <2>3, <2>4, <2>5, NoProjects, ProjectFacts DEF ProjectCarried, Updates, Creates
  <2> QED BY <1>1, <2>1, <2>2, <2>5, <2>6 DEF Projects!HandleBulkSubmit
<1> QED BY <1>2, <1>3

-----------------------------------------------------------------------------
(* The projects: a step of the dialogs.                                    *)
LEMMA ProjectDialogTypes ==
    ASSUME ProjectTypes, UNCHANGED <<Projects!table, pCalls, Projects!shown, pWanted, pStrayed>>,
           pOps' \in 0 .. MaxOps, picks' \in 0 .. MaxPicks, pRaced' \subseteq 1 .. pBorn,
           pEditing' \in Projects!Form, pCreating' \in Projects!Form,
           ~(pEditing'.open /\ pCreating'.open),
           pEditing'.project <= pBorn, pEditing'.open => pEditing'.project # Projects!Nothing,
           Full(pEditing'), Full(pCreating'),
           pEditing'.busy = pEditing.busy, pCreating'.busy = pCreating.busy
    PROVE  ProjectTypes'
<1>1. /\ pRows' = pRows /\ pBorn' = pBorn /\ pCalls' = pCalls /\ projects' = projects
      /\ pLoading' = pLoading /\ searching' = searching /\ pWanted' = pWanted
      /\ pStrayed' = pStrayed
  BY DEF Projects!table, Projects!shown
<1>2. ProjectTable' /\ ProjectShown'
  BY <1>1 DEF ProjectTypes, ProjectTable, ProjectShown, ProjectList
<1>3. ProjectCalls'
  <2>1. \A c \in PageCall : ProjectCarried(pCalls[c], pBorn)'
    BY <1>1 DEF ProjectTypes, ProjectCalls, ProjectCarried, ProjectList
  <2> QED BY <1>1, <2>1 DEF ProjectTypes, ProjectCalls, Updates, Creates
<1>4. ProjectDialogs'
  BY <1>1 DEF ProjectTypes, ProjectDialogs, Updates, Creates, Full
<1> QED BY <1>1, <1>2, <1>3, <1>4 DEF ProjectTypes

LEMMA DialogFacts ==
    ASSUME ProjectTypes
    PROVE  /\ pEditing \in Projects!Form /\ pCreating \in Projects!Form
           /\ ~(pEditing.open /\ pCreating.open)
           /\ pEditing.project <= pBorn /\ pEditing.project \in 0 .. pBorn
           /\ pEditing.open => pEditing.project # Projects!Nothing
           /\ Full(pEditing) /\ Full(pCreating)
           /\ pCreating.choice.level \in Projects!Level /\ pEditing.choice \in Projects!Choice
           /\ pCreating.choice \in Projects!Choice
           /\ pOps \in 0 .. MaxOps /\ picks \in 0 .. MaxPicks /\ pRaced \subseteq 1 .. pBorn
           /\ Projects!Operate => pOps' \in 0 .. MaxOps
           /\ Projects!Pick => picks' \in 0 .. MaxPicks
<1>1. /\ pEditing \in Projects!Form /\ pCreating \in Projects!Form
      /\ ~(pEditing.open /\ pCreating.open)
      /\ pEditing.project <= pBorn /\ pEditing.project \in 0 .. pBorn
      /\ pEditing.open => pEditing.project # Projects!Nothing
      /\ Full(pEditing) /\ Full(pCreating)
      /\ pCreating.choice.level \in Projects!Level /\ pEditing.choice \in Projects!Choice
      /\ pCreating.choice \in Projects!Choice
      /\ pOps \in 0 .. MaxOps /\ picks \in 0 .. MaxPicks /\ pRaced \subseteq 1 .. pBorn
  BY ProjectFacts DEF ProjectTypes, ProjectDialogs, Full
<1>2. (Projects!Operate => pOps' \in 0 .. MaxOps) /\ (Projects!Pick => picks' \in 0 .. MaxPicks)
  BY <1>1, ProjectBounds DEF Projects!Operate, Projects!Pick
<1> QED BY <1>1, <1>2

LEMMA ClosedIs ==
    /\ Projects!Closed \in Projects!Form /\ ~Projects!Closed.open /\ Projects!Closed.busy = FALSE
    /\ Projects!Closed.project = Projects!Nothing
    /\ Projects!Closed.choice = Projects!NewChoice /\ Full(Projects!Closed)
    /\ Projects!Closed.choice.level \in Projects!Level /\ Projects!Closed.panel = "none"
BY ChoicesAre DEF Projects!Closed, Projects!Form, Full

LEMMA ClosedBusy ==
    ASSUME NEW b \in BOOLEAN
    PROVE  /\ [Projects!Closed EXCEPT !.busy = b] \in Projects!Form
           /\ ~[Projects!Closed EXCEPT !.busy = b].open
           /\ [Projects!Closed EXCEPT !.busy = b].busy = b
           /\ [Projects!Closed EXCEPT !.busy = b].project = Projects!Nothing
           /\ Full([Projects!Closed EXCEPT !.busy = b])
BY ClosedIs DEF Projects!Form, Full

LEMMA LeftIs ==
    ASSUME NEW d \in Projects!Form
    PROVE  /\ Projects!Left(d) \in Projects!Form /\ ~Projects!Left(d).open
           /\ Projects!Left(d).busy = FALSE /\ Projects!Left(d).project = Projects!Nothing
           /\ Full(Projects!Left(d))
<1> DEFINE m == IF d.panel = "members" THEN d.choice.members ELSE {}
<1>1. m \in SUBSET Person
  BY DEF Projects!Form, Projects!Choice
<1>2. Projects!Left(d) = [Projects!Closed EXCEPT !.panel = d.panel, !.choice.members = m]
  BY DEF Projects!Left
<1> HIDE DEF m
<1>3. Projects!NewChoice \in Projects!Choice /\ d.panel \in {"none", "owner", "members"}
  BY ChoicesAre DEF Projects!Form
<1>4. [Projects!NewChoice EXCEPT !.members = m] \in Projects!Choice
  BY <1>1, <1>3 DEF Projects!Choice
<1>6. [Projects!NewChoice EXCEPT !.members = m].level \in Projects!Level
  BY ChoicesAre DEF Projects!Choice
<1>5. Projects!Left(d) = [open |-> FALSE, busy |-> FALSE, project |-> Projects!Nothing,
                 choice |-> [Projects!NewChoice EXCEPT !.members = m],
                 panel |-> d.panel, ticked |-> {}, touched |-> {}]
  BY <1>2 DEF Projects!Closed
<1>7. Full(Projects!Left(d))
  <2>1. /\ Projects!Left(d).choice = [Projects!NewChoice EXCEPT !.members = m]
        /\ Projects!Left(d).touched = {}
    BY <1>5
  <2> QED BY <1>6, <2>1 DEF Full
<1> QED BY <1>3, <1>4, <1>5, <1>7 DEF Projects!Form

LEMMA OnEditIs ==
    ASSUME ProjectTypes, NEW i \in DOMAIN projects, Projects!OnEdit(i)
    PROVE  /\ pEditing' \in Projects!Form /\ pEditing'.open /\ pEditing'.busy = pEditing.busy
           /\ pEditing'.project = projects[i].id /\ pEditing'.touched = {}
           /\ pEditing'.choice = Projects!Chosen(projects[i].row)
           /\ pEditing'.panel = pEditing.panel /\ Full(pEditing')
<1>1. projects[i].id \in Projects!Project /\ projects[i].row \in Projects!Row
          /\ Projects!Chosen(projects[i].row) \in Projects!Choice
          /\ Projects!Chosen(projects[i].row).level \in Projects!Level
  BY ProjectFacts, ChoicesAre DEF Projects!Project
<1>2. pEditing \in Projects!Form /\ pEditing.choice.members \subseteq Person
  BY DialogFacts DEF Projects!Choice
<1>3. pEditing' = [pEditing EXCEPT !.open = TRUE, !.project = projects[i].id,
                                 !.choice = Projects!Chosen(projects[i].row),
                                 !.ticked = pEditing.choice.members, !.touched = {}]
  BY DEF Projects!OnEdit, Projects!Loaded
<1> QED BY <1>1, <1>2, <1>3 DEF Projects!Form, Full

LEMMA DialogStepTypes ==
    ASSUME ProjectTypes,
           (\E i \in DOMAIN projects : Projects!OnEdit(i)) \/ Projects!CancelEdit
               \/ Projects!OpenCreate \/ Projects!CloseCreate
    PROVE  ProjectTypes'
<1>1. ASSUME NEW i \in DOMAIN projects, Projects!OnEdit(i)
      PROVE  ProjectTypes'
  <2>1. /\ pEditing' \in Projects!Form /\ pEditing'.open /\ pEditing'.busy = pEditing.busy
        /\ pEditing'.project = projects[i].id /\ Full(pEditing')
    BY <1>1, OnEditIs
  <2>2. projects[i].id \in 1 .. pBorn /\ pEditing'.project <= pBorn
            /\ pEditing'.project # Projects!Nothing
    BY <2>1, ProjectFacts DEF Projects!Nothing
  <2>3. /\ UNCHANGED <<Projects!table, pCalls, Projects!shown, pWanted, pStrayed, picks, pCreating>>
        /\ ~pCreating.open /\ Projects!Operate
    BY <1>1 DEF Projects!OnEdit, Projects!OnPage
  <2>4. pRaced' \subseteq 1 .. pBorn
    BY <1>1, <2>2, DialogFacts DEF Projects!OnEdit
  <2> QED BY <2>1, <2>2, <2>3, <2>4, DialogFacts, ProjectDialogTypes
<1>2. CASE Projects!CancelEdit
  <2>1. pEditing.busy \in BOOLEAN /\ pEditing' = [Projects!Closed EXCEPT !.busy = pEditing.busy]
    BY <1>2, DialogFacts DEF Projects!CancelEdit, Projects!Form
  <2>2. /\ pEditing' \in Projects!Form /\ ~pEditing'.open /\ pEditing'.busy = pEditing.busy
        /\ pEditing'.project = Projects!Nothing /\ Full(pEditing')
    BY <2>1, ClosedBusy
  <2>3. Projects!Nothing <= pBorn
    BY ProjectFacts DEF Projects!Nothing
  <2> QED BY <1>2, <2>2, <2>3, DialogFacts, ProjectDialogTypes
             DEF Projects!CancelEdit, Projects!history
<1>3. CASE Projects!OpenCreate
  <2>1. /\ pCreating' = [pCreating EXCEPT !.open = TRUE] /\ pEditing' = pEditing
        /\ ~pEditing.open
        /\ Projects!Operate
        /\ UNCHANGED <<Projects!table, pCalls, Projects!shown, pWanted, pStrayed, picks, pRaced>>
    BY <1>3 DEF Projects!OpenCreate, Projects!OnPage, Projects!history
  <2>2. pCreating' \in Projects!Form /\ pCreating'.busy = pCreating.busy
            /\ Full(pCreating')
    BY <2>1, DialogFacts DEF Projects!Form, Full
  <2> QED BY <2>1, <2>2, DialogFacts, ProjectDialogTypes
<1>4. CASE Projects!CloseCreate
  <2>1. pCreating.busy \in BOOLEAN /\ pCreating' = [Projects!Closed EXCEPT !.busy = pCreating.busy]
    BY <1>4, DialogFacts DEF Projects!CloseCreate, Projects!Form
  <2>2. /\ pCreating' \in Projects!Form /\ ~pCreating'.open /\ pCreating'.busy = pCreating.busy
        /\ Full(pCreating')
    BY <2>1, ClosedBusy
  <2> QED BY <1>4, <2>2, DialogFacts, ProjectDialogTypes
             DEF Projects!CloseCreate, Projects!history
<1> QED BY <1>1, <1>2, <1>3, <1>4

(* What the panel leaves of the dialog.                                    *)
Picked(d2, d) ==
    /\ d2 \in Projects!Form /\ d2.open = d.open /\ d2.busy = d.busy /\ d2.project = d.project
    /\ d2.choice.level \in Projects!Level \/ d2.choice.level = d.choice.level
    /\ d.touched \subseteq d2.touched
    /\ "owner" \in d2.touched \/ d2.choice.owner = d.choice.owner
    /\ "owner" \in d2.touched => \/ d2.choice.owner # None
                                 \/ "owner" \in d.touched /\ d2.choice.owner = d.choice.owner
    /\ "members" \in d2.touched \/ d2.choice.members = d.choice.members
    /\ "level" \in d2.touched \/ d2.choice.level = d.choice.level

LEMMA PickerIs ==
    ASSUME ProjectTypes, Projects!Picker
    PROVE  /\ UNCHANGED <<Projects!table, pCalls, Projects!shown, pOps, Projects!history>>
           /\ picks' \in 0 .. MaxPicks
           /\ \/ pEditing' = pEditing /\ pCreating.open /\ Picked(pCreating', pCreating)
              \/ pCreating' = pCreating /\ pEditing.open /\ Picked(pEditing', pEditing)
<1>1. PICK dialog \in {"edit", "create"} :
        \/ \E level \in Projects!Level : Projects!SetLevel(dialog, level)
        \/ \E panel \in {"owner", "members"} : Projects!OpenPanel(dialog, panel)
        \/ \E u \in Person : Projects!PickOwner(dialog, u) \/ Projects!Tick(dialog, u)
        \/ Projects!HandleConfirmMulti(dialog) \/ Projects!ClosePanel(dialog)
  BY DEF Projects!Picker
<1> DEFINE d == Projects!InDialog(dialog)
<1>2. d \in Projects!Form /\ d.choice \in Projects!Choice /\ picks \in 0 .. MaxPicks
          /\ (Projects!Pick => picks' \in 0 .. MaxPicks)
  BY DialogFacts DEF Projects!InDialog
<1>3. ASSUME NEW d2, Projects!Changed(dialog, d2), d.open, Picked(d2, d)
      PROVE  \/ pEditing' = pEditing /\ pCreating.open /\ Picked(pCreating', pCreating)
             \/ pCreating' = pCreating /\ pEditing.open /\ Picked(pEditing', pEditing)
  BY <1>3 DEF Projects!Changed, Projects!InDialog
<1>4. ASSUME NEW level \in Projects!Level, Projects!SetLevel(dialog, level)
      PROVE  /\ UNCHANGED <<Projects!table, pCalls, Projects!shown, pOps, Projects!history>>
             /\ Projects!Pick /\ d.open
             /\ \E d2 : Projects!Changed(dialog, d2) /\ Picked(d2, d)
  <2> DEFINE d2 == [d EXCEPT !.choice.level = level, !.touched = d.touched \cup {"level"}]
  <2>1. Projects!Changed(dialog, d2)
    BY <1>4 DEF Projects!SetLevel
  <2> HIDE DEF d
  <2>2. Picked(d2, d)
    BY <1>2 DEF Picked, Projects!Form, Projects!Choice
  <2> QED BY <1>4, <2>1, <2>2 DEF Projects!SetLevel, d
<1>5. ASSUME NEW panel \in {"owner", "members"}, Projects!OpenPanel(dialog, panel)
      PROVE  /\ UNCHANGED <<Projects!table, pCalls, Projects!shown, pOps, Projects!history, picks>> /\ d.open
             /\ \E d2 : Projects!Changed(dialog, d2) /\ Picked(d2, d)
  <2> DEFINE d2 == [d EXCEPT !.panel = panel, !.ticked = d.choice.members]
  <2>1. Projects!Changed(dialog, d2)
    BY <1>5 DEF Projects!OpenPanel
  <2> HIDE DEF d
  <2>2. Picked(d2, d)
    BY <1>2 DEF Picked, Projects!Form, Projects!Choice
  <2> QED BY <1>5, <2>1, <2>2 DEF Projects!OpenPanel, d
<1>6. ASSUME NEW u \in Person, Projects!PickOwner(dialog, u)
      PROVE  /\ UNCHANGED <<Projects!table, pCalls, Projects!shown, pOps, Projects!history, picks>> /\ d.open
             /\ \E d2 : Projects!Changed(dialog, d2) /\ Picked(d2, d)
  <2> DEFINE d2 == [d EXCEPT !.choice.owner = u, !.panel = "none", !.ticked = {},
                             !.touched = d.touched \cup {"owner"}]
  <2>1. Projects!Changed(dialog, d2)
    BY <1>6 DEF Projects!PickOwner
  <2> HIDE DEF d
  <2>2. Picked(d2, d)
    BY <1>2, NoneAssumption DEF Picked, Projects!Form, Projects!Choice
  <2> QED BY <1>6, <2>1, <2>2 DEF Projects!PickOwner, d
<1>7. ASSUME NEW u \in Person, Projects!Tick(dialog, u)
      PROVE  /\ UNCHANGED <<Projects!table, pCalls, Projects!shown, pOps, Projects!history>>
             /\ Projects!Pick /\ d.open
             /\ \E d2 : Projects!Changed(dialog, d2) /\ Picked(d2, d)
  <2> DEFINE ticks == IF u \in d.ticked THEN d.ticked \ {u} ELSE d.ticked \cup {u}
             d2 == [d EXCEPT !.ticked = ticks]
  <2>1. Projects!Changed(dialog, d2)
    BY <1>7 DEF Projects!Tick
  <2>2. ticks \in SUBSET Person
    BY <1>2 DEF Projects!Form
  <2> HIDE DEF d, ticks
  <2>3. Picked(d2, d)
    BY <1>2, <2>2 DEF Picked, Projects!Form, Projects!Choice
  <2> QED BY <1>7, <2>1, <2>3 DEF Projects!Tick, d
<1>8. ASSUME Projects!HandleConfirmMulti(dialog)
      PROVE  /\ UNCHANGED <<Projects!table, pCalls, Projects!shown, pOps, Projects!history, picks>> /\ d.open
             /\ \E d2 : Projects!Changed(dialog, d2) /\ Picked(d2, d)
  <2> DEFINE d2 == [d EXCEPT !.choice.members = d.ticked, !.panel = "none", !.ticked = {},
                             !.touched = d.touched \cup {"members"}]
  <2>1. Projects!Changed(dialog, d2)
    BY <1>8 DEF Projects!HandleConfirmMulti
  <2> HIDE DEF d
  <2>2. Picked(d2, d)
    BY <1>2 DEF Picked, Projects!Form, Projects!Choice
  <2> QED BY <1>8, <2>1, <2>2 DEF Projects!HandleConfirmMulti, d
<1>9. ASSUME Projects!ClosePanel(dialog)
      PROVE  /\ UNCHANGED <<Projects!table, pCalls, Projects!shown, pOps, Projects!history, picks>> /\ d.open
             /\ \E d2 : Projects!Changed(dialog, d2) /\ Picked(d2, d)
  <2> DEFINE d2 == [d EXCEPT !.panel = "none", !.ticked = {}]
  <2>1. Projects!Changed(dialog, d2)
    BY <1>9 DEF Projects!ClosePanel
  <2> HIDE DEF d
  <2>2. Picked(d2, d)
    BY <1>2 DEF Picked, Projects!Form, Projects!Choice
  <2> QED BY <1>9, <2>1, <2>2 DEF Projects!ClosePanel, d
<1> HIDE DEF d
<1>10. /\ UNCHANGED <<Projects!table, pCalls, Projects!shown, pOps, Projects!history>> /\ d.open
       /\ Projects!Pick \/ picks' = picks
       /\ \E d2 : Projects!Changed(dialog, d2) /\ Picked(d2, d)
  BY <1>1, <1>4, <1>5, <1>6, <1>7, <1>8, <1>9
<1>11. picks' \in 0 .. MaxPicks
  BY <1>2, <1>10
<1> QED BY <1>3, <1>10, <1>11

LEMMA PickerTypes ==
    ASSUME ProjectTypes, Projects!Picker
    PROVE  ProjectTypes'
<1>1. /\ UNCHANGED <<Projects!table, pCalls, Projects!shown, pOps, Projects!history>>
      /\ picks' \in 0 .. MaxPicks
      /\ \/ pEditing' = pEditing /\ pCreating.open /\ Picked(pCreating', pCreating)
         \/ pCreating' = pCreating /\ pEditing.open /\ Picked(pEditing', pEditing)
  BY PickerIs
<1>2. CASE pEditing' = pEditing /\ pCreating.open /\ Picked(pCreating', pCreating)
  BY <1>1, <1>2, DialogFacts, ProjectDialogTypes DEF Picked, Full, Projects!history
<1>3. CASE pCreating' = pCreating /\ pEditing.open /\ Picked(pEditing', pEditing)
  BY <1>1, <1>3, DialogFacts, ProjectDialogTypes DEF Picked, Full, Projects!history
<1> QED BY <1>1, <1>2, <1>3

-----------------------------------------------------------------------------
(* The projects: what the service does.                                    *)
LEMMA ProjectServedTypes ==
    ASSUME ProjectTypes, ProjectTable', pBorn <= pBorn',
           pCalls' = [c \in PageCall |-> pCalls'[c]],
           \A c \in PageCall : Alike(pCalls'[c], pCalls[c]),
           UNCHANGED <<Projects!shown, Projects!dialogs, pOps>>, pStrayed' \in BOOLEAN
    PROVE  ProjectTypes'
<1>1. pBorn' \in Int /\ pBorn \in Int
  BY ProjectFacts, ProjectBounds DEF ProjectTable
<1>2. ProjectCalls' /\ (UpdateSent' <=> UpdateSent) /\ (CreateSent' <=> CreateSent)
  BY <1>1, SameCalls
<1>3. /\ projects' = projects /\ pLoading' = pLoading /\ searching' = searching
      /\ pEditing' = pEditing /\ pCreating' = pCreating /\ picks' = picks
  BY DEF Projects!shown, Projects!dialogs
<1>4. ProjectShown'
  <2>1. ProjectList(projects, pBorn')
    BY <1>1, MoreProjects DEF ProjectTypes, ProjectShown
  <2>2. ProjectList(projects, pBorn)'
    BY <1>3, <2>1 DEF ProjectList
  <2> QED BY <1>3, <2>2 DEF ProjectTypes, ProjectShown
<1>5. ProjectDialogs'
  <2>1. pEditing.project <= pBorn'
    BY <1>1, DialogFacts
  <2> QED BY <1>2, <1>3, <2>1 DEF ProjectTypes, ProjectDialogs, UpdateSent, CreateSent
<1> QED BY <1>2, <1>3, <1>4, <1>5 DEF ProjectTypes

LEMMA ProjectDoneCalls ==
    ASSUME ProjectTypes, NEW c \in PageCall, Projects!Done(c)
    PROVE  /\ pCalls' = [x \in PageCall |-> pCalls'[x]]
           /\ \A x \in PageCall : Alike(pCalls'[x], pCalls[x])
           /\ pCalls'[c].phase = "done" /\ pCalls'[c].old = pCalls[c].old
           /\ \A x \in PageCall : x # c => /\ pCalls'[x].phase = pCalls[x].phase
                                           /\ pCalls'[x].old <=> pCalls[x].old
                                                 \/ (pCalls[x].kind = "list" /\ pCalls[x].phase = "done")
<1>1. pCalls' = [x \in PageCall |-> IF x = c THEN [pCalls[c] EXCEPT !.phase = "done", !.row = Projects!NoRow] ELSE Projects!Aged(x)]
  BY DEF Projects!Done
<1>2. \A x \in PageCall : pCalls'[x] =
          IF x = c THEN [pCalls[c] EXCEPT !.phase = "done", !.row = Projects!NoRow] ELSE Projects!Aged(x)
  BY <1>1
<1>3. /\ Alike([pCalls[c] EXCEPT !.phase = "done", !.row = Projects!NoRow], pCalls[c])
      /\ [pCalls[c] EXCEPT !.phase = "done", !.row = Projects!NoRow].phase = "done"
      /\ [pCalls[c] EXCEPT !.phase = "done", !.row = Projects!NoRow].old = pCalls[c].old
  BY DoneIs, ProjectCallFacts
<1>4. \A x \in PageCall : /\ Alike(Projects!Aged(x), pCalls[x]) /\ Projects!Aged(x).phase = pCalls[x].phase
                          /\ Projects!Aged(x).old <=> pCalls[x].old
                                \/ (pCalls[x].kind = "list" /\ pCalls[x].phase = "done")
  BY AgedIs
<1>5. pCalls' = [x \in PageCall |-> pCalls'[x]]
  BY <1>1
<1> QED BY <1>2, <1>3, <1>4, <1>5

LEMMA ListProjectsTypes ==
    ASSUME ProjectTypes, NEW c \in PageCall, Projects!ListProjects(c)
    PROVE  /\ ProjectTypes'
           /\ pCalls'[c].kind = "list" /\ pCalls'[c].phase = "done"
           /\ pCalls'[c].search = pCalls[c].search
           /\ pCalls'[c].items = ListFrom(pRows, pCalls[c].search)
           /\ pCalls'[c].old <=> pCalls[c].old \/ Projects!Ahead # {}
           /\ \A x \in PageCall : x # c => pCalls'[x] = pCalls[x]
<1> DEFINE items == ListFrom(pRows, pCalls[c].search)
           old == pCalls[c].old \/ Projects!Ahead # {}
           r == [pCalls[c] EXCEPT !.phase = "done", !.items = items, !.old = old]
<1>1. /\ pCalls[c] \in Projects!CallState /\ ProjectCarried(pCalls[c], pBorn)
      /\ pCalls[c].kind = "list" /\ pCalls = [x \in PageCall |-> pCalls[x]]
  BY ProjectCallFacts DEF Projects!ListProjects
<1>2. ProjectList(items, pBorn)
  BY ProjectFacts, ListIs
<1>3. pCalls' = [pCalls EXCEPT ![c] = r]
  BY ListFromRows DEF Projects!ListProjects
<1>4. old \in BOOLEAN
  BY <1>1 DEF Projects!CallState
<1> HIDE DEF items, old
<1>5. /\ r \in Projects!CallState /\ r.kind = "list" /\ r.phase = "done"
      /\ r.search = pCalls[c].search
      /\ r.items = items /\ r.old = old /\ r.project = pCalls[c].project
  BY <1>1, <1>2, <1>4 DEF Projects!CallState, ProjectList
<1> HIDE DEF r
<1>6. ProjectCarried(r, pBorn)
  BY <1>1, <1>2, <1>5 DEF ProjectCarried
<1>7. /\ pRows' = pRows /\ pBorn' = pBorn /\ projects' = projects /\ pLoading' = pLoading
      /\ searching' = searching /\ pEditing' = pEditing /\ pCreating' = pCreating
      /\ picks' = picks
      /\ pOps' = pOps /\ pWanted' = pWanted /\ pRaced' = pRaced /\ pStrayed' = pStrayed
  BY DEF Projects!ListProjects, Projects!table, Projects!shown, Projects!dialogs,
     Projects!history
<1>8. /\ ProjectCalls'
      /\ UpdateSent' <=> UpdateSent /\ ~Updates(pCalls[c])
      /\ CreateSent' <=> CreateSent /\ ~Creates(pCalls[c])
      /\ \A x \in PageCall : pCalls'[x] = IF x = c THEN r ELSE pCalls[x]
  BY <1>3, <1>5, <1>6, <1>7, AnsweredProject
<1>9. ~Updates(pCalls[c]) /\ ~Creates(pCalls[c])
  BY <1>1 DEF Updates, Creates
<1>10. ProjectTable' /\ ProjectShown'
  BY <1>7 DEF ProjectTypes, ProjectTable, ProjectShown, ProjectList
<1>11. ProjectDialogs'
  BY <1>7, <1>8, <1>9 DEF ProjectTypes, ProjectDialogs, UpdateSent, CreateSent
<1>12. ProjectTypes'
  BY <1>7, <1>8, <1>10, <1>11 DEF ProjectTypes
<1> QED BY <1>5, <1>8, <1>12 DEF items, old

NewRow(choice) ==
    [owner |-> choice.owner, members |-> choice.members, level |-> choice.level, order |-> 0]

LEMMA ProjectCreatedTypes ==
    ASSUME ProjectTypes, pBorn < MaxProjects, NEW kept \in {pRows, <<>>},
           NEW choice \in Projects!Choice, choice.level \in Projects!Level,
           pRows' = Projects!Created(kept, choice), pBorn' = pBorn + 1,
           pWanted' = Projects!Added(pWanted, choice),
           pRaced' = pRaced
    PROVE  /\ ProjectTable' /\ pBorn <= pBorn'
           /\ DOMAIN pRows' = DOMAIN kept \cup {pBorn + 1}
           /\ \A p \in DOMAIN kept : pRows'[p] = kept[p]
           /\ pRows'[pBorn + 1] = NewRow(choice) /\ NewRow(choice) \in Projects!Row
           /\ \A p \in 1 .. pBorn : pWanted'[p] = pWanted[p]
           /\ pWanted'[pBorn + 1] = choice
<1>1. /\ pBorn \in Nat /\ pRows \in [DOMAIN pRows -> Projects!Row]
      /\ DOMAIN pRows \subseteq 1 .. pBorn
      /\ pWanted \in [1 .. pBorn -> Projects!Wish] /\ DOMAIN pWanted = 1 .. pBorn
      /\ pRaced \subseteq 1 .. pBorn /\ MaxProjects \in Nat
  BY ProjectFacts
<1>2. <<>> \in [{} -> Projects!Row] /\ DOMAIN <<>> = {}
  OBVIOUS
<1>3. kept \in [DOMAIN kept -> Projects!Row] /\ DOMAIN kept \subseteq 1 .. pBorn
  BY <1>1, <1>2
<1>4. NewRow(choice) \in Projects!Row
  BY <1>1 DEF NewRow, Projects!Row, Projects!Choice
<1>5. pRows' = Projects!Added(kept, NewRow(choice))
  BY DEF Projects!Created, NewRow
<1>6. /\ pRows' \in [DOMAIN kept \cup {pBorn + 1} -> Projects!Row]
      /\ DOMAIN pRows' = DOMAIN kept \cup {pBorn + 1}
      /\ \A p \in DOMAIN kept : pRows'[p] = kept[p]
      /\ pRows'[pBorn + 1] = NewRow(choice)
  <2>1. /\ Projects!Added(kept, NewRow(choice)) \in [DOMAIN kept \cup {pBorn + 1} -> Projects!Row]
        /\ DOMAIN Projects!Added(kept, NewRow(choice)) = DOMAIN kept \cup {pBorn + 1}
        /\ \A p \in DOMAIN kept : Projects!Added(kept, NewRow(choice))[p] = kept[p]
        /\ Projects!Added(kept, NewRow(choice))[pBorn + 1] = NewRow(choice)
    BY <1>1, <1>3, <1>4 DEF Projects!Added
  <2> QED BY <1>5, <2>1
<1>7. /\ pWanted' \in [DOMAIN pWanted \cup {pBorn + 1} -> Projects!Wish]
      /\ \A p \in DOMAIN pWanted : pWanted'[p] = pWanted[p]
      /\ pWanted'[pBorn + 1] = choice
  <2>1. /\ pWanted \in [DOMAIN pWanted -> Projects!Wish] /\ DOMAIN pWanted \subseteq 1 .. pBorn
        /\ choice \in Projects!Wish
    BY <1>1, ChoicesAre
  <2>2. /\ Projects!Added(pWanted, choice) \in [DOMAIN pWanted \cup {pBorn + 1} -> Projects!Wish]
        /\ \A p \in DOMAIN pWanted : Projects!Added(pWanted, choice)[p] = pWanted[p]
        /\ Projects!Added(pWanted, choice)[pBorn + 1] = choice
    BY <1>1, <2>1 DEF Projects!Added
  <2> QED BY <2>2
<1>8. 1 .. pBorn \cup {pBorn + 1} = 1 .. pBorn'
  BY <1>1
<1>9. /\ pBorn' \in 0 .. MaxProjects /\ DOMAIN pRows' \subseteq 1 .. pBorn' /\ pBorn <= pBorn'
      /\ pRaced' \subseteq 1 .. pBorn'
  BY <1>1, <1>3, <1>6
<1>10. pRows' \in [DOMAIN pRows' -> Projects!Row] /\ pWanted' \in [1 .. pBorn' -> Projects!Wish]
  BY <1>1, <1>6, <1>7, <1>8
<1>11. ProjectTable'
  BY <1>9, <1>10 DEF ProjectTable
<1> QED BY <1>1, <1>4, <1>6, <1>7, <1>9, <1>11

LEMMA NumberedIs ==
    ASSUME ProjectTypes, NEW items, ProjectList(items, pBorn)
    PROVE  /\ Projects!Numbered(items) \in [DOMAIN pRows -> Projects!Row]
           /\ DOMAIN Projects!Numbered(items) = DOMAIN pRows
           /\ \A p \in DOMAIN pRows :
                 /\ Projects!Numbered(items)[p].owner = pRows[p].owner
                 /\ Projects!Numbered(items)[p].members = pRows[p].members
                 /\ Projects!Numbered(items)[p].level = pRows[p].level
                 /\ \A i \in DOMAIN items : items[i].id = p => Projects!Numbered(items)[p].order = i - 1
<1>1. /\ items \in Seq(Projects!Shown) /\ Len(items) \in Nat /\ Len(items) <= MaxProjects
      /\ DOMAIN items = 1 .. Len(items) /\ MaxProjects \in Nat
      /\ \A i, j \in DOMAIN items : i # j => items[i].id # items[j].id
  BY LenProperties, ProjectBounds DEF ProjectList
<1>2. ASSUME NEW p \in DOMAIN pRows
      PROVE  /\ Projects!Numbered(items)[p] \in Projects!Row
             /\ Projects!Numbered(items)[p].owner = pRows[p].owner
             /\ Projects!Numbered(items)[p].members = pRows[p].members
             /\ Projects!Numbered(items)[p].level = pRows[p].level
             /\ \A i \in DOMAIN items : items[i].id = p => Projects!Numbered(items)[p].order = i - 1
  <2> DEFINE at == CHOOSE i \in DOMAIN items : items[i].id = p
  <2>1. pRows[p] \in Projects!Row
    BY ProjectFacts
  <2>2. Projects!Numbered(items)[p] = IF \E i \in DOMAIN items : items[i].id = p
                             THEN [pRows[p] EXCEPT !.order = at - 1] ELSE pRows[p]
    BY DEF Projects!Numbered
  <2>3. CASE \E i \in DOMAIN items : items[i].id = p
    <3>1. at \in DOMAIN items /\ items[at].id = p
      BY <2>3
    <3> HIDE DEF at
    <3>2. at - 1 \in 0 .. MaxProjects
      BY <1>1, <3>1
    <3>3. Projects!Numbered(items)[p] = [pRows[p] EXCEPT !.order = at - 1]
      BY <2>2, <2>3
    <3>4. \A i \in DOMAIN items : items[i].id = p => i = at
      BY <1>1, <3>1
    <3> QED BY <2>1, <3>2, <3>3, <3>4 DEF Projects!Row
  <2>4. CASE ~ \E i \in DOMAIN items : items[i].id = p
    BY <2>1, <2>2, <2>4
  <2> QED BY <2>3, <2>4
<1> QED BY <1>2 DEF Projects!Numbered

LEMMA ProjectServiceTypes ==
    ASSUME ProjectTypes, NEW c \in PageCall, Projects!Service(c)
    PROVE  ProjectTypes'
<1> DEFINE call == pCalls[c]
<1>0. /\ call \in Projects!CallState /\ ProjectCarried(call, pBorn) /\ pBorn \in Nat
      /\ Tabular(pRows, pBorn)
      /\ call.choice \in Projects!Choice /\ ProjectTable
      /\ pRows \in [DOMAIN pRows -> Projects!Row] /\ DOMAIN pRows \subseteq 1 .. pBorn
  BY ProjectCallFacts, ProjectFacts DEF Projects!CallState, ProjectTypes
<1>1. CASE Projects!ListProjects(c)
  BY <1>1, ListProjectsTypes
<1>2. ASSUME Projects!Done(c), ProjectTable', pBorn <= pBorn',
             UNCHANGED <<Projects!shown, Projects!dialogs, pOps>>, pStrayed' \in BOOLEAN
      PROVE  ProjectTypes'
  BY <1>2, ProjectDoneCalls, ProjectServedTypes
<1>3. CASE Projects!SaveProject(c)
  <2>1. /\ call.row \in Projects!Row /\ call.project \in 1 .. pBorn
        /\ Projects!Patched(call.row, call.choice) \in Projects!Row
    <3>1. call.row \in Projects!Row /\ call.project \in 1 .. pBorn
      BY <1>0, <1>3, ProjectCallFacts
         DEF Projects!SaveProject, ProjectCarried, Projects!CallState, Projects!Nothing
    <3> QED BY <1>0, <3>1, PatchedProject
  <2>2. ProjectTable' /\ pBorn' = pBorn
    BY <1>0, <1>3, <2>1 DEF Projects!SaveProject, ProjectTable
  <2>3. pStrayed' \in BOOLEAN
    BY <1>3 DEF Projects!SaveProject
  <2> QED BY <1>0, <1>2, <1>3, <2>2, <2>3 DEF Projects!SaveProject
<1>8. CASE Projects!ReadProject(c)
  <2> DEFINE row == pRows[call.project]
             r == [call EXCEPT !.phase = "read", !.row = row]
  <2>1. row \in Projects!Row /\ call.phase = "sent"
    BY <1>0, <1>8 DEF Projects!ReadProject
  <2>2. pCalls' = [x \in PageCall |-> IF x = c THEN r ELSE pCalls[x]]
    BY <1>8, ProjectCallFacts DEF Projects!ReadProject
  <2> HIDE DEF row
  <2>3. Alike(r, call)
    BY <1>0, <2>1, ReadIs
  <2> HIDE DEF r
  <2>4. \A x \in PageCall : Alike(pCalls'[x], pCalls[x])
    BY <2>2, <2>3, AlikeItself, ProjectCallFacts
  <2>5. pCalls' = [x \in PageCall |-> pCalls'[x]]
    BY <2>2
  <2>6. ProjectTable' /\ pBorn <= pBorn' /\ pStrayed' \in BOOLEAN
    BY <1>0, <1>8, ProjectFacts
       DEF Projects!ReadProject, ProjectTable, Projects!table, Projects!history
  <2> QED BY <1>8, <2>4, <2>5, <2>6, ProjectServedTypes DEF Projects!ReadProject
<1>4. CASE Projects!DeleteProject(c)
  <2>1. pRows' = [p \in DOMAIN pRows \ {call.project} |-> pRows[p]]
    BY <1>4 DEF Projects!DeleteProject, Projects!Restrict
  <2>2. ProjectTable' /\ pBorn' = pBorn
    BY <1>0, <1>4, <2>1 DEF Projects!DeleteProject, ProjectTable, Projects!history
  <2> QED BY <1>0, <1>2, <1>4, <2>2, ProjectFacts DEF Projects!DeleteProject, Projects!history
<1>5. CASE Projects!ReorderProjects(c)
  <2>1. ProjectList(call.items, pBorn)
    BY <1>0 DEF ProjectCarried
  <2>2. pRows' \in [DOMAIN pRows -> Projects!Row] /\ DOMAIN pRows' = DOMAIN pRows
    <3>1. pRows' = Projects!Numbered(call.items)
      BY <1>5 DEF Projects!ReorderProjects
    <3> QED BY <2>1, <3>1, NumberedIs
  <2>3. ProjectTable' /\ pBorn' = pBorn
    BY <1>0, <1>5, <2>2 DEF Projects!ReorderProjects, ProjectTable, Projects!history
  <2> QED BY <1>0, <1>2, <1>5, <2>3, ProjectFacts DEF Projects!ReorderProjects, Projects!history
<1>6. CASE Projects!CreateProject(c)
  <2>1. call.choice.level \in Projects!Level
    BY <1>0, <1>6 DEF ProjectCarried, Projects!CreateProject
  <2>2. ProjectTable' /\ pBorn <= pBorn'
    BY <1>0, <1>6, <2>1, ProjectCreatedTypes DEF Projects!CreateProject
  <2> QED BY <1>2, <1>6, <2>2, ProjectFacts DEF Projects!CreateProject
<1>7. CASE Projects!BatchCreateProjects(c)
  <2>1. call.choice.level \in Projects!Level
    BY <1>0, <1>7 DEF ProjectCarried, Projects!BatchCreateProjects
  <2>2. ProjectTable' /\ pBorn <= pBorn'
    <3>1. CASE UNCHANGED <<Projects!table, pWanted>>
      BY <1>0, <1>7, <3>1 DEF Projects!BatchCreateProjects, ProjectTable, Projects!table
    <3>2. CASE /\ pBorn < MaxProjects
               /\ pRows' = Projects!Created(IF call.replace THEN <<>> ELSE pRows, call.choice)
               /\ pBorn' = pBorn + 1
               /\ pWanted' = Projects!Added(pWanted, call.choice)
      BY <1>0, <1>7, <2>1, <3>2, ProjectCreatedTypes DEF Projects!BatchCreateProjects
    <3> QED BY <1>7, <3>1, <3>2 DEF Projects!BatchCreateProjects
  <2> QED BY <1>2, <1>7, <2>2, ProjectFacts DEF Projects!BatchCreateProjects
<1> QED BY <1>1, <1>3, <1>4, <1>5, <1>6, <1>7, <1>8 DEF Projects!Service

-----------------------------------------------------------------------------
(* The projects: the answers.                                              *)
LEMMA RefetchedIs ==
    ASSUME ProjectTypes, NEW c \in PageCall
    PROVE  /\ ProjectCarried(Projects!Refetched(pCalls[c]), pBorn)
           /\ Projects!Refetched(pCalls[c]).kind = "list"
           /\ Projects!Refetched(pCalls[c]).phase = "sent"
           /\ Projects!Refetched(pCalls[c]).search = pCalls[c].search
           /\ Projects!Refetched(pCalls[c]).old = (pCalls[c].search # searching)
<1> DEFINE s == pCalls[c].search
           b == s # searching
           r == [Projects!Idle EXCEPT !.kind = "list", !.search = s, !.old = b]
<1>1. s \in BOOLEAN /\ b \in BOOLEAN /\ pBorn \in Nat
  BY ProjectCallFacts
<1>2. Projects!Refetched(pCalls[c]) = r
  BY DEF Projects!Refetched
<1> HIDE DEF s, b
<1>3. /\ r \in Projects!CallState /\ r.kind = "list" /\ r.phase = "sent" /\ r.search = s
      /\ r.old = b
      /\ r.items = <<>> /\ r.project = Projects!Nothing
  BY <1>1, NothingAsked DEF Projects!CallState
<1> HIDE DEF r
<1>4. ProjectCarried(r, pBorn)
  BY <1>1, <1>3, NoProjects DEF ProjectCarried, Projects!Nothing
<1> QED BY <1>2, <1>3, <1>4 DEF s, b

LEMMA ProjectAnsweredTypes ==
    ASSUME ProjectTypes, NEW c \in PageCall, NEW r, ProjectCarried(r, pBorn),
           r.kind \in {"none", "list"},
           pCalls' = [pCalls EXCEPT ![c] = r],
           UNCHANGED <<Projects!table, searching, picks, pOps, pWanted>>,
           ProjectList(projects', pBorn), pLoading' \in BOOLEAN, pStrayed' \in BOOLEAN,
           pRaced' \subseteq 1 .. pBorn,
           pEditing' \in Projects!Form, pCreating' \in Projects!Form,
           ~(pEditing'.open /\ pCreating'.open),
           pEditing'.project <= pBorn, pEditing'.open => pEditing'.project # Projects!Nothing,
           Full(pEditing'), Full(pCreating'),
           pEditing'.busy <=> pEditing.busy /\ ~Updates(pCalls[c]),
           pCreating'.busy <=> pCreating.busy /\ ~Creates(pCalls[c])
    PROVE  ProjectTypes' /\ \A x \in PageCall : pCalls'[x] = IF x = c THEN r ELSE pCalls[x]
<1>1. pRows' = pRows /\ pBorn' = pBorn
  BY DEF Projects!table
<1>2. /\ ProjectCalls'
      /\ UpdateSent' <=> UpdateSent /\ ~Updates(pCalls[c])
      /\ CreateSent' <=> CreateSent /\ ~Creates(pCalls[c])
      /\ \A x \in PageCall : pCalls'[x] = IF x = c THEN r ELSE pCalls[x]
  BY <1>1, AnsweredProject
<1>3. ProjectTable'
  BY <1>1 DEF ProjectTypes, ProjectTable
<1>4. ProjectShown'
  BY <1>1 DEF ProjectTypes, ProjectShown, ProjectList
<1>5. (pEditing.busy <=> UpdateSent) /\ (pCreating.busy <=> CreateSent)
  BY DEF ProjectTypes, ProjectDialogs, UpdateSent, CreateSent
<1>6. ProjectDialogs'
  BY <1>1, <1>2, <1>5 DEF ProjectDialogs, UpdateSent, CreateSent, Full
<1> QED BY <1>1, <1>2, <1>3, <1>4, <1>6 DEF ProjectTypes

LEMMA ShowProjectsTypes ==
    ASSUME ProjectTypes, NEW c \in PageCall, Projects!ShowProjects(c)
    PROVE  ProjectTypes' /\ \A x \in PageCall : pCalls'[x] = IF x = c THEN Projects!Idle ELSE pCalls[x]
<1>1. /\ ProjectCarried(pCalls[c], pBorn) /\ pCalls[c].old \in BOOLEAN /\ pBorn \in Nat
      /\ ~Updates(pCalls[c]) /\ ~Creates(pCalls[c])
  BY ProjectCallFacts DEF Projects!ShowProjects, Updates, Creates
<1>2. ProjectCarried(Projects!Idle, pBorn) /\ Projects!Idle.kind \in {"none", "list"}
  BY <1>1, NothingCarried, NothingAsked
<1>3. /\ UNCHANGED <<Projects!table, searching, picks, pOps, pWanted, pEditing, pCreating, pRaced>>
      /\ ProjectList(projects', pBorn) /\ pLoading' \in BOOLEAN /\ pStrayed' \in BOOLEAN
      /\ pCalls' = [pCalls EXCEPT ![c] = Projects!Idle]
  BY <1>1 DEF Projects!ShowProjects, Projects!dialogs, ProjectCarried
<1> QED BY <1>1, <1>2, <1>3, DialogFacts, ProjectAnsweredTypes

LEMMA SettleTypes ==
    ASSUME ProjectTypes, NEW c \in PageCall, Projects!Settle(c)
    PROVE  ProjectTypes' /\ \A x \in PageCall : pCalls'[x] = IF x = c THEN Projects!Idle ELSE pCalls[x]
<1>1. /\ pBorn \in Nat /\ ~Updates(pCalls[c]) /\ ~Creates(pCalls[c])
  BY ProjectCallFacts DEF Projects!Settle, Updates, Creates
<1>2. ProjectCarried(Projects!Idle, pBorn) /\ Projects!Idle.kind \in {"none", "list"}
  BY <1>1, NothingCarried, NothingAsked
<1>3. /\ UNCHANGED <<Projects!table, projects, pLoading, searching, picks, pOps, pWanted, pEditing, pCreating,
                     pRaced, pStrayed>>
      /\ ProjectList(projects', pBorn) /\ pLoading' \in BOOLEAN /\ pStrayed' \in BOOLEAN
      /\ pCalls' = [pCalls EXCEPT ![c] = Projects!Idle]
  BY ProjectFacts DEF Projects!Settle, Projects!dialogs, Projects!shown, Projects!history,
     ProjectTypes, ProjectShown
<1> QED BY <1>1, <1>2, <1>3, DialogFacts, ProjectAnsweredTypes

LEMMA SucceedTypes ==
    ASSUME ProjectTypes, NEW c \in PageCall, Projects!Succeed(c)
    PROVE  ProjectTypes' /\ \A x \in PageCall : pCalls'[x] =
               IF x = c THEN Projects!Refetched(pCalls[c]) ELSE pCalls[x]
<1>1. ProjectCarried(Projects!Refetched(pCalls[c]), pBorn)
          /\ Projects!Refetched(pCalls[c]).kind \in {"none", "list"}
  BY RefetchedIs
<1>2. /\ UNCHANGED <<Projects!table, projects, searching, picks, pOps, pWanted, pRaced, pStrayed>>
      /\ ProjectList(projects', pBorn) /\ pLoading' \in BOOLEAN /\ pStrayed' \in BOOLEAN
      /\ pCalls' = [pCalls EXCEPT ![c] = Projects!Refetched(pCalls[c])]
  BY ProjectFacts DEF Projects!Succeed, Projects!history, ProjectTypes, ProjectShown
<1>3. /\ pEditing' \in Projects!Form /\ pEditing'.project <= pBorn
      /\ (pEditing'.open => pEditing.open)
      /\ pEditing'.open => pEditing'.project # Projects!Nothing
      /\ Full(pEditing')
      /\ pEditing'.busy <=> pEditing.busy /\ ~Updates(pCalls[c])
  <2>1. CASE pCalls[c].kind = "update"
    <3>1. pEditing' = Projects!Left(pEditing)
      BY <2>1 DEF Projects!Succeed
    <3>2. /\ pEditing' \in Projects!Form /\ ~pEditing'.open /\ pEditing'.busy = FALSE
          /\ pEditing'.project = Projects!Nothing /\ Full(pEditing')
      BY <3>1, LeftIs, DialogFacts
    <3>3. Projects!Nothing <= pBorn
      BY ProjectFacts DEF Projects!Nothing
    <3> QED BY <2>1, <3>2, <3>3 DEF Updates
  <2>2. CASE pCalls[c].kind # "update"
    BY <2>2, DialogFacts DEF Projects!Succeed, Updates
  <2> QED BY <2>1, <2>2
<1>4. /\ pCreating' \in Projects!Form /\ Full(pCreating')
      /\ (pCreating'.open => pCreating.open)
      /\ pCreating'.busy <=> pCreating.busy /\ ~Creates(pCalls[c])
  <2>1. pCreating' = IF Creates(pCalls[c]) THEN Projects!Closed ELSE pCreating
    BY DEF Projects!Succeed, Creates
  <2> QED BY <2>1, ClosedIs, DialogFacts
<1>5. ~(pEditing'.open /\ pCreating'.open)
  BY <1>3, <1>4, DialogFacts
<1> QED BY <1>1, <1>2, <1>3, <1>4, <1>5, DialogFacts, ProjectAnsweredTypes

LEMMA LostTypes ==
    ASSUME ProjectTypes, NEW c \in PageCall, Projects!Lost(c)
    PROVE  pRaced' \subseteq 1 .. pBorn
<1>1. pCalls[c].kind \in {"update", "level"} => pCalls[c].project \in 1 .. pBorn
  BY ProjectCallFacts DEF ProjectCarried, Projects!Nothing
<1> QED BY <1>1, ProjectFacts DEF Projects!Lost

LEMMA TakeBackTypes ==
    ASSUME ProjectTypes, NEW c \in PageCall, Projects!TakeBack(c)
    PROVE  ProjectTypes' /\ \A x \in PageCall : pCalls'[x] =
               IF x = c THEN Projects!Refetched(pCalls[c]) ELSE pCalls[x]
<1>1. /\ ProjectCarried(Projects!Refetched(pCalls[c]), pBorn)
      /\ Projects!Refetched(pCalls[c]).kind \in {"none", "list"}
      /\ ~Updates(pCalls[c]) /\ ~Creates(pCalls[c])
  BY RefetchedIs DEF Projects!TakeBack, Updates, Creates
<1>2. /\ UNCHANGED <<Projects!table, projects, searching, picks, pOps, pWanted, pEditing, pCreating, pStrayed>>
      /\ ProjectList(projects', pBorn) /\ pLoading' \in BOOLEAN /\ pStrayed' \in BOOLEAN
      /\ pCalls' = [pCalls EXCEPT ![c] = Projects!Refetched(pCalls[c])]
      /\ pRaced' \subseteq 1 .. pBorn
  BY ProjectFacts, LostTypes DEF Projects!TakeBack, Projects!dialogs, ProjectTypes, ProjectShown
<1> QED BY <1>1, <1>2, DialogFacts, ProjectAnsweredTypes

LEMMA FailTypes ==
    ASSUME ProjectTypes, NEW c \in PageCall, Projects!Fail(c)
    PROVE  /\ ProjectTypes'
           /\ \A x \in PageCall : pCalls'[x] = IF x = c THEN Projects!Idle ELSE pCalls[x]
           /\ pEditing'.open = pEditing.open /\ pEditing'.project = pEditing.project
           /\ pEditing'.choice = pEditing.choice /\ pEditing'.touched = pEditing.touched
<1>1. pBorn \in Nat
  BY ProjectCallFacts
<1>2. ProjectCarried(Projects!Idle, pBorn) /\ Projects!Idle.kind \in {"none", "list"}
  BY <1>1, NothingCarried, NothingAsked
<1>3. /\ UNCHANGED <<Projects!table, projects, searching, picks, pOps, pWanted>>
      /\ ProjectList(projects', pBorn) /\ pLoading' \in BOOLEAN /\ pStrayed' \in BOOLEAN
      /\ pCalls' = [pCalls EXCEPT ![c] = Projects!Idle]
      /\ pRaced' \subseteq 1 .. pBorn
  BY ProjectFacts, LostTypes DEF Projects!Fail, ProjectTypes, ProjectShown
<1>4. /\ pEditing' = [pEditing EXCEPT !.busy = pEditing.busy /\ pCalls[c].kind # "update"]
      /\ pCreating' = [pCreating EXCEPT !.busy = pCreating.busy
                                               /\ pCalls[c].kind \notin {"create", "batch"}]
  BY DEF Projects!Fail
<1>5. /\ pEditing' \in Projects!Form /\ pEditing'.open = pEditing.open
      /\ pEditing'.project = pEditing.project
      /\ pEditing'.choice = pEditing.choice /\ pEditing'.touched = pEditing.touched
      /\ pEditing'.busy <=> pEditing.busy /\ ~Updates(pCalls[c])
  BY <1>4, DialogFacts DEF Projects!Form, Updates
<1>6. /\ pCreating' \in Projects!Form /\ pCreating'.open = pCreating.open
      /\ pCreating'.choice = pCreating.choice /\ pCreating'.touched = pCreating.touched
      /\ pCreating'.busy <=> pCreating.busy /\ ~Creates(pCalls[c])
  BY <1>4, DialogFacts DEF Projects!Form, Creates
<1>7. Full(pEditing') /\ Full(pCreating')
  BY <1>5, <1>6, DialogFacts DEF Full
<1> QED BY <1>7, <1>2, <1>3, <1>5, <1>6, DialogFacts, ProjectAnsweredTypes

LEMMA ProjectFreshTypes ==
    ASSUME Projects!Fresh, NEW kind \in {"none", "list"}, NEW c \in PageCall,
           pCalls = [x \in PageCall |-> IF x = c THEN [Projects!Idle EXCEPT !.kind = kind] ELSE Projects!Idle]
    PROVE  /\ ProjectTypes
           /\ pCalls[c].kind = kind /\ \A x \in PageCall : pCalls[x].kind \in {"none", kind}
           /\ \A x \in PageCall : pCalls[x].phase = "sent" /\ pCalls[x].search = FALSE
                  /\ pCalls[x].old = FALSE
<1>1. pBorn \in 0 .. MaxProjects /\ pRows \in [1 .. pBorn -> Projects!Row] /\ DOMAIN pRows = 1 .. pBorn
  BY FirstProjectsAssumption, ProjectBounds DEF Projects!Fresh
<1>2. ProjectTable
  BY <1>1, ChoicesAre DEF Projects!Fresh, ProjectTable
<1> DEFINE r == [Projects!Idle EXCEPT !.kind = kind]
<1>3. /\ r \in Projects!CallState /\ r.kind = kind /\ r.items = <<>>
      /\ r.project = Projects!Nothing
      /\ r.phase = "sent" /\ r.search = FALSE /\ r.old = FALSE /\ Projects!Idle.search = FALSE
  BY NothingAsked DEF Projects!CallState, Projects!Idle
<1> HIDE DEF r
<1>4. ProjectCarried(r, pBorn)
  BY <1>1, <1>3, NoProjects DEF ProjectCarried, Projects!Nothing
<1>5. ProjectCarried(Projects!Idle, pBorn)
  BY <1>1, NothingCarried
<1>6. \A x \in PageCall : pCalls[x] = IF x = c THEN r ELSE Projects!Idle
  BY DEF r
<1>7. \A x \in PageCall : ~Updates(pCalls[x]) /\ ~Creates(pCalls[x])
  BY <1>3, <1>6, NothingAsked DEF Updates, Creates
<1>8. ProjectCalls
  BY <1>4, <1>5, <1>6, <1>7 DEF ProjectCalls
<1>9. ProjectDialogs
  <2>1. pEditing = Projects!Closed /\ pCreating = Projects!Closed /\ Projects!Nothing <= pBorn
    BY <1>1 DEF Projects!Fresh, Projects!Nothing
  <2> QED BY <1>7, <2>1, ClosedIs DEF ProjectDialogs
<1>10. ProjectShown
  <2>1. ProjectList(projects, pBorn)
    BY NoProjects DEF Projects!Fresh
  <2>2. pLoading \in BOOLEAN /\ searching \in BOOLEAN
    BY Zenon DEF Projects!Fresh
  <2> QED BY <2>1, <2>2 DEF ProjectShown
<1>11. pOps \in 0 .. MaxOps /\ picks \in 0 .. MaxPicks
  <2>1. pOps = 0 /\ picks = 0
    BY DEF Projects!Fresh
  <2> QED BY <2>1, ProjectBounds
<1>12. pStrayed \in BOOLEAN
  BY Zenon DEF Projects!Fresh
<1>13. ProjectTypes
  BY <1>2, <1>8, <1>9, <1>10, <1>11, <1>12 DEF ProjectTypes
<1> QED BY <1>3, <1>6, <1>13, NothingAsked

LEMMA ProjectTypesKept ==
    ASSUME ProjectTypes, Projects!Next
    PROVE  ProjectTypes'
<1>1. CASE Projects!Administrator
  <2>1. ASSUME NEW c \in PageCall, Projects!HandleSubmit(c)
        PROVE  ProjectTypes'
    BY <2>1, ProjectSubmitTypes
  <2>2. ASSUME NEW c \in PageCall,
               \/ Projects!HandleSingleSubmit(c)
               \/ \E p \in DOMAIN pRows \cup {Projects!Nothing}, u \in Person \cup {None},
                      replace \in BOOLEAN :
                     Projects!HandleBulkSubmit(c, p, u, replace)
        PROVE  ProjectTypes'
    BY <2>2, ProjectCreateTypes
  <2> QED BY <1>1, <2>1, <2>2, SearchTypes, HandleDragEndTypes, HandleVisibilityTypes,
             ProjectDeleteTypes, DialogStepTypes DEF Projects!Administrator
<1>2. CASE Projects!Picker
  BY <1>2, PickerTypes
<1>3. CASE \E c \in PageCall : \/ Projects!Service(c) \/ Projects!ShowProjects(c) \/ Projects!Settle(c)
                               \/ Projects!Succeed(c) \/ Projects!TakeBack(c) \/ Projects!Fail(c)
  BY <1>3, ProjectServiceTypes, ShowProjectsTypes, SettleTypes, SucceedTypes, TakeBackTypes,
     FailTypes
<1> QED BY <1>1, <1>2, <1>3 DEF Projects!Next

-----------------------------------------------------------------------------
(* The projects: what is shown.  It is the table but for what is ahead of  *)
(* it, a new order and a level for each project, unless the page strayed,  *)
(* or a list comes or is asked for when what the service did arrives.  A   *)
(* list that was read and is not old is the table, and nothing is ahead.   *)
Reordering(r) == r.kind = "reorder" /\ r.phase # "done"
Levelling(r, p) == r.kind = "level" /\ r.phase # "done" /\ r.project = p
IsAhead(r) == r.kind \in {"reorder", "level"} /\ r.phase # "done"
ProjectComing(r) ==
    \/ r.kind = "list"
    \/ r.kind \in {"update", "delete", "create", "batch"} /\ r.phase = "done"

ListsRead(t, s, k) ==
    \A c \in PageCall : k[c].kind = "list" /\ ~k[c].old =>
        /\ k[c].search = s
        /\ k[c].phase = "done" => k[c].items = ListFrom(t, s) /\ \A d \in PageCall : ~IsAhead(k[d])

OrderOfAll(k) == \A c \in PageCall : Reordering(k[c]) => k[c].project = Projects!Nothing
AheadOnce(k) ==
    \A c, d \in PageCall :
        IsAhead(k[c]) /\ IsAhead(k[d]) /\ k[c].kind = k[d].kind /\ k[c].project = k[d].project
            => c = d

Expected(x, i, t, k) ==
    /\ x.row.owner = t[x.id].owner /\ x.row.members = t[x.id].members
    /\ \A c \in PageCall : Levelling(k[c], x.id) => x.row.level = k[c].choice.level
    /\ (\A c \in PageCall : ~Levelling(k[c], x.id)) => x.row.level = t[x.id].level
    /\ \A c \in PageCall : Reordering(k[c]) => x.row.order = i - 1
    /\ (\A c \in PageCall : ~Reordering(k[c])) => x.row.order = t[x.id].order

ShownAs(list, t, s, k) ==
    /\ \A i \in DOMAIN list : list[i].id \in Found(t, s)
    /\ \A p \in Found(t, s) : \E i \in DOMAIN list : list[i].id = p
    /\ \A i \in DOMAIN list : Expected(list[i], i, t, k)
    /\ \A c \in PageCall : Reordering(k[c]) =>
          /\ Len(k[c].items) = Len(list)
          /\ \A i \in DOMAIN list : k[c].items[i].id = list[i].id
    /\ (\A c \in PageCall : ~Reordering(k[c])) =>
          \A i, j \in DOMAIN list : i < j => BeforeIn(t, list[i].id, list[j].id)

IsComing(k) == \E c \in PageCall : ProjectComing(k[c])

ProjectKnown ==
    /\ ListsRead(pRows, searching, pCalls) /\ OrderOfAll(pCalls)
    /\ pStrayed \/ AheadOnce(pCalls)
    /\ pStrayed \/ IsComing(pCalls) \/ ShownAs(projects, pRows, searching, pCalls)

LEMMA ProjectKnownFrom ==
    ASSUME ListsRead(pRows', searching', pCalls'), OrderOfAll(pCalls'),
           pStrayed' \/ AheadOnce(pCalls'),
           pStrayed' \/ IsComing(pCalls') \/ ShownAs(projects', pRows', searching', pCalls')
    PROVE  ProjectKnown'
<1>1. ListsRead(pRows, searching, pCalls)' <=> ListsRead(pRows', searching', pCalls')
  BY DEF ListsRead, ListFrom, Place, Found, BeforeIn, IsAhead
<1>2. OrderOfAll(pCalls)' <=> OrderOfAll(pCalls')
  BY DEF OrderOfAll, Reordering
<1>3. AheadOnce(pCalls)' <=> AheadOnce(pCalls')
  BY DEF AheadOnce, IsAhead
<1>4. IsComing(pCalls)' <=> IsComing(pCalls')
  BY DEF IsComing, ProjectComing
<1>5. ShownAs(projects, pRows, searching, pCalls)' <=> ShownAs(projects', pRows', searching', pCalls')
  BY DEF ShownAs, Found, BeforeIn, Expected, Levelling, Reordering
<1> QED BY <1>1, <1>2, <1>3, <1>4, <1>5 DEF ProjectKnown

LEMMA ProjectKnownShows ==
    ASSUME ProjectTypes, ProjectKnown
    PROVE  Projects!PageShowsTable
<1> SUFFICES ASSUME Projects!Underway = {}, ~pStrayed
             PROVE  projects = Projects!List(searching)
  BY DEF Projects!PageShowsTable
<1>1. \A c \in PageCall : pCalls[c].kind = "none"
  BY DEF Projects!Underway
<1>2. \A c \in PageCall : ~Reordering(pCalls[c]) /\ ~ProjectComing(pCalls[c])
          /\ \A p : ~Levelling(pCalls[c], p)
  BY <1>1 DEF Reordering, ProjectComing, Levelling
<1>3. ShownAs(projects, pRows, searching, pCalls)
  BY <1>2 DEF ProjectKnown, IsComing
<1>4. Tabular(pRows, pBorn) /\ ProjectList(projects, pBorn)
  BY ProjectFacts DEF ProjectTypes, ProjectShown
<1>5. ASSUME NEW i \in DOMAIN projects
      PROVE  projects[i].row = pRows[projects[i].id]
  <2>1. projects[i].row \in Projects!Row /\ pRows[projects[i].id] \in Projects!Row
    BY <1>3, ProjectFacts, FoundIs DEF ShownAs, Found
  <2>2. Expected(projects[i], i, pRows, pCalls)
    BY <1>3 DEF ShownAs
  <2>3. /\ projects[i].row.owner = pRows[projects[i].id].owner
        /\ projects[i].row.members = pRows[projects[i].id].members
        /\ projects[i].row.level = pRows[projects[i].id].level
        /\ projects[i].row.order = pRows[projects[i].id].order
    BY <1>2, <2>2 DEF Expected
  <2> QED BY <2>1, <2>3 DEF Projects!Row
<1>6. Lists(pRows, searching, projects)
  BY <1>2, <1>3, <1>5 DEF ShownAs, Lists
<1> QED BY <1>4, <1>6, OnlyList, ListFromRows

(* The calls that are ahead stay as they are.                              *)
SameAhead(k2, k) ==
    \A c \in PageCall : /\ IsAhead(k2[c]) <=> IsAhead(k[c])
                        /\ IsAhead(k[c]) => /\ k2[c].kind = k[c].kind /\ k2[c].project = k[c].project
                                            /\ k2[c].choice = k[c].choice
                                            /\ k2[c].items = k[c].items

LEMMA ShownKept ==
    ASSUME NEW list, NEW t, NEW s, NEW k, NEW k2, ShownAs(list, t, s, k), SameAhead(k2, k)
    PROVE  ShownAs(list, t, s, k2)
<1>1. \A c \in PageCall : /\ Reordering(k2[c]) <=> Reordering(k[c])
                          /\ Reordering(k2[c]) => k2[c].items = k[c].items
  BY DEF SameAhead, IsAhead, Reordering
<1>2. \A c \in PageCall : \A p : /\ Levelling(k2[c], p) <=> Levelling(k[c], p)
                                 /\ Levelling(k2[c], p) => k2[c].choice = k[c].choice
  BY DEF SameAhead, IsAhead, Levelling
<1>3. ASSUME NEW i \in DOMAIN list PROVE Expected(list[i], i, t, k2)
  <2> DEFINE x == list[i]
  <2>1. Expected(x, i, t, k)
    BY DEF ShownAs
  <2>2. \A c \in PageCall : /\ Levelling(k2[c], x.id) <=> Levelling(k[c], x.id)
                            /\ Levelling(k2[c], x.id) => k2[c].choice = k[c].choice
    BY <1>2
  <2> HIDE DEF x
  <2>3. Expected(x, i, t, k2)
    BY <1>1, <2>1, <2>2 DEF Expected
  <2> QED BY <2>3 DEF x
<1> QED BY <1>1, <1>3 DEF ShownAs

(* No call is ahead that was not.                                          *)
NoneAhead(k2, k) ==
    \A c \in PageCall : IsAhead(k2[c]) =>
        /\ IsAhead(k[c]) /\ k2[c].kind = k[c].kind /\ k2[c].project = k[c].project

LEMMA FewerAhead ==
    ASSUME NEW k, NEW k2, NoneAhead(k2, k)
    PROVE  /\ OrderOfAll(k) => OrderOfAll(k2)
           /\ AheadOnce(k) => AheadOnce(k2)
           /\ (\A c \in PageCall : ~IsAhead(k[c])) => \A c \in PageCall : ~IsAhead(k2[c])
<1>1. ASSUME OrderOfAll(k) PROVE OrderOfAll(k2)
  BY <1>1 DEF OrderOfAll, NoneAhead, IsAhead, Reordering
<1>2. ASSUME AheadOnce(k) PROVE AheadOnce(k2)
  <2> SUFFICES ASSUME NEW c \in PageCall, NEW d \in PageCall, IsAhead(k2[c]), IsAhead(k2[d]),
                      k2[c].kind = k2[d].kind, k2[c].project = k2[d].project
               PROVE  c = d
    BY DEF AheadOnce
  <2>1. /\ IsAhead(k[c]) /\ k2[c].kind = k[c].kind /\ k2[c].project = k[c].project
        /\ IsAhead(k[d]) /\ k2[d].kind = k[d].kind /\ k2[d].project = k[d].project
    BY DEF NoneAhead
  <2>2. k[c].kind = k[d].kind /\ k[c].project = k[d].project
    BY <2>1
  <2> QED BY <1>2, <2>1, <2>2 DEF AheadOnce
<1> QED BY <1>1, <1>2 DEF NoneAhead

LEMMA ListsStay ==
    ASSUME NEW t, NEW s, NEW k, NEW k2, ListsRead(t, s, k), NoneAhead(k2, k),
           \A c \in PageCall : k2[c].kind = "list" /\ ~k2[c].old =>
              \/ k2[c].search = s /\ k2[c].phase # "done"
              \/ /\ k[c].kind = "list" /\ ~k[c].old /\ k2[c].search = k[c].search
                 /\ k2[c].phase = k[c].phase /\ k2[c].items = k[c].items
    PROVE  ListsRead(t, s, k2)
<1> SUFFICES ASSUME NEW c \in PageCall, k2[c].kind = "list", ~k2[c].old
             PROVE  /\ k2[c].search = s
                    /\ k2[c].phase = "done" => /\ k2[c].items = ListFrom(t, s)
                                              /\ \A d \in PageCall : ~IsAhead(k2[d])
  BY DEF ListsRead
<1>1. CASE k2[c].search = s /\ k2[c].phase # "done"
  BY <1>1
<1>2. CASE /\ k[c].kind = "list" /\ ~k[c].old /\ k2[c].search = k[c].search
           /\ k2[c].phase = k[c].phase /\ k2[c].items = k[c].items
  <2>1. /\ k[c].search = s
        /\ k[c].phase = "done" => k[c].items = ListFrom(t, s) /\ \A d \in PageCall : ~IsAhead(k[d])
    BY <1>2 DEF ListsRead
  <2> QED BY <1>2, <2>1, FewerAhead
<1> QED BY <1>1, <1>2

(* What is shown stays, and so do the calls that matter.                   *)
LEMMA StillKnown ==
    ASSUME ProjectKnown, UNCHANGED <<pRows, projects, searching, pStrayed>>,
           SameAhead(pCalls', pCalls), IsComing(pCalls) => IsComing(pCalls'),
           \A c \in PageCall : pCalls'[c].kind = "list" /\ ~pCalls'[c].old =>
              \/ pCalls'[c].search = searching /\ pCalls'[c].phase # "done"
              \/ /\ pCalls[c].kind = "list" /\ ~pCalls[c].old /\ pCalls'[c].search = pCalls[c].search
                 /\ pCalls'[c].phase = pCalls[c].phase /\ pCalls'[c].items = pCalls[c].items
    PROVE  ProjectKnown'
<1>1. NoneAhead(pCalls', pCalls)
  BY DEF SameAhead, NoneAhead
<1>2. ListsRead(pRows, searching, pCalls')
  BY <1>1, ListsStay DEF ProjectKnown
<1>3. OrderOfAll(pCalls') /\ (pStrayed \/ AheadOnce(pCalls'))
  BY <1>1, FewerAhead DEF ProjectKnown
<1>4. pStrayed \/ IsComing(pCalls') \/ ShownAs(projects, pRows, searching, pCalls')
  BY ShownKept DEF ProjectKnown
<1> QED BY <1>2, <1>3, <1>4, ProjectKnownFrom

LEMMA SentKnown ==
    ASSUME ProjectTypes, ProjectKnown, NEW c \in PageCall, NEW r, Projects!Send(c, r),
           r.kind \notin {"list", "reorder", "level"},
           UNCHANGED <<Projects!table, Projects!shown, pStrayed>>
    PROVE  ProjectKnown'
<1>1. /\ pCalls[c] = Projects!Idle /\ pCalls'[c] = r
      /\ \A x \in PageCall : x # c => pCalls'[x] = pCalls[x]
  BY SendIs
<1>2. Projects!Idle.kind = "none"
  BY NothingAsked
<1>3. SameAhead(pCalls', pCalls)
  BY <1>1, <1>2 DEF SameAhead, IsAhead
<1>4. IsComing(pCalls) => IsComing(pCalls')
  BY <1>1, <1>2 DEF IsComing, ProjectComing
<1> QED BY <1>1, <1>3, <1>4, StillKnown DEF Projects!table, Projects!shown

LEMMA SearchKnown ==
    ASSUME ProjectTypes, ProjectKnown, NEW c \in PageCall, Projects!Search(c)
    PROVE  ProjectKnown'
<1>1. /\ pCalls'[c].kind = "list" /\ pCalls'[c].phase = "sent"
      /\ pCalls'[c].search = ~searching /\ pCalls'[c].old = FALSE
      /\ \A x \in PageCall : x # c => /\ Alike(pCalls'[x], pCalls[x]) /\ pCalls'[x].phase = pCalls[x].phase
                                      /\ pCalls'[x].old <=> pCalls[x].old \/ pCalls[x].kind = "list"
  BY SearchTypes
<1>2. searching' = ~searching /\ pStrayed' = pStrayed
  BY DEF Projects!Search, Projects!history
<1>3. NoneAhead(pCalls', pCalls)
  BY <1>1 DEF NoneAhead, IsAhead, Alike
<1>4. ListsRead(pRows', searching', pCalls')
  BY <1>1, <1>2 DEF ListsRead, Alike
<1>5. IsComing(pCalls')
  BY <1>1 DEF IsComing, ProjectComing
<1>6. OrderOfAll(pCalls') /\ (pStrayed' \/ AheadOnce(pCalls'))
  BY <1>2, <1>3, FewerAhead DEF ProjectKnown
<1> QED BY <1>4, <1>5, <1>6, ProjectKnownFrom

(* A change that is shown at once.                                         *)
LEMMA AheadKnown ==
    ASSUME ProjectTypes, ProjectKnown, NEW c \in PageCall, NEW r, Projects!SendAhead(c, r),
           r.kind \in {"reorder", "level"}, r.phase = "sent",
           r.kind = "reorder" => r.project = Projects!Nothing,
           searching' = searching
    PROVE  /\ ListsRead(pRows', searching', pCalls') /\ OrderOfAll(pCalls')
           /\ pStrayed' \/ AheadOnce(pCalls')
           /\ IsComing(pCalls) => IsComing(pCalls')
           /\ pStrayed => pStrayed'
           /\ ~pStrayed' => \A x \in PageCall : /\ r.kind = "reorder" => ~Reordering(pCalls[x])
                                                /\ r.kind = "level" => ~Levelling(pCalls[x], r.project)
           /\ pCalls'[c] = r
           /\ \A x \in PageCall : x # c => /\ IsAhead(pCalls'[x]) <=> IsAhead(pCalls[x])
                                           /\ Alike(pCalls'[x], pCalls[x])
           /\ ~IsAhead(pCalls[c])
<1>1. /\ pCalls[c] = Projects!Idle /\ pCalls'[c] = r
      /\ \A x \in PageCall : x # c => /\ Alike(pCalls'[x], pCalls[x]) /\ pCalls'[x].phase = pCalls[x].phase
                                      /\ pCalls'[x].old <=> pCalls[x].old
                                            \/ (pCalls[x].kind = "list" /\ pCalls[x].phase = "done")
  BY SendAheadIs
<1>2. Projects!Idle.kind = "none" /\ ~IsAhead(pCalls[c]) /\ ~ProjectComing(pCalls[c])
          /\ ~Reordering(pCalls[c])
  BY <1>1, NothingAsked DEF IsAhead, ProjectComing, Reordering
<1>3. \A x \in PageCall : x # c => /\ IsAhead(pCalls'[x]) <=> IsAhead(pCalls[x])
                                   /\ ProjectComing(pCalls'[x]) <=> ProjectComing(pCalls[x])
                                   /\ Reordering(pCalls'[x]) <=> Reordering(pCalls[x])
  BY <1>1 DEF IsAhead, ProjectComing, Alike, Reordering
<1>4. IsComing(pCalls) => IsComing(pCalls')
  BY <1>2, <1>3 DEF IsComing
<1>5. ListsRead(pRows', searching', pCalls')
  <2> SUFFICES ASSUME NEW x \in PageCall, pCalls'[x].kind = "list", ~pCalls'[x].old
               PROVE  pCalls'[x].search = searching' /\ pCalls'[x].phase # "done"
    BY DEF ListsRead
  <2>1. x # c
    BY <1>1
  <2>2. pCalls[x].kind = "list" /\ ~pCalls[x].old /\ pCalls[x].phase # "done"
        /\ pCalls'[x].search = pCalls[x].search /\ pCalls'[x].phase = pCalls[x].phase
    BY <1>1, <2>1 DEF Alike
  <2> QED BY <2>2 DEF ProjectKnown, ListsRead
<1>6. OrderOfAll(pCalls')
  BY <1>1, <1>3 DEF ProjectKnown, OrderOfAll, Alike, Reordering
<1>7. pStrayed' = (pStrayed \/ \E x \in Projects!Ahead :
                      pCalls[x].kind = r.kind /\ pCalls[x].project = r.project)
  BY DEF Projects!SendAhead
<1>8. \A x \in PageCall : x \in Projects!Ahead <=> IsAhead(pCalls[x])
  BY DEF Projects!Ahead, Projects!Underway, IsAhead
<1>9. ~pStrayed' => \A x \in PageCall : ~(IsAhead(pCalls[x]) /\ pCalls[x].kind = r.kind
                                       /\ pCalls[x].project = r.project)
  BY <1>7, <1>8
<1>10. pStrayed' \/ AheadOnce(pCalls')
  <2> SUFFICES ASSUME ~pStrayed', NEW x \in PageCall, NEW y \in PageCall,
                      IsAhead(pCalls'[x]), IsAhead(pCalls'[y]),
                      pCalls'[x].kind = pCalls'[y].kind, pCalls'[x].project = pCalls'[y].project
               PROVE  x = y
    BY DEF AheadOnce
  <2>1. AheadOnce(pCalls)
    BY <1>7 DEF ProjectKnown
  <2>2. CASE x = c /\ y # c
    BY <1>1, <1>3, <1>9, <2>2 DEF Alike
  <2>3. CASE y = c /\ x # c
    BY <1>1, <1>3, <1>9, <2>3 DEF Alike
  <2>4. CASE x # c /\ y # c
    BY <1>1, <1>3, <2>1, <2>4 DEF Alike, AheadOnce
  <2> QED BY <2>2, <2>3, <2>4
<1>11. ~pStrayed' => \A x \in PageCall : /\ r.kind = "reorder" => ~Reordering(pCalls[x])
                                         /\ r.kind = "level" => ~Levelling(pCalls[x], r.project)
  BY <1>9 DEF ProjectKnown, OrderOfAll, Reordering, Levelling, IsAhead
<1> QED BY <1>1, <1>2, <1>3, <1>4, <1>5, <1>6, <1>7, <1>10, <1>11

LEMMA HandleDragEndKnown ==
    ASSUME ProjectTypes, ProjectKnown, NEW c \in PageCall,
           NEW from \in DOMAIN projects, NEW to \in DOMAIN projects, Projects!HandleDragEnd(c, from, to)
    PROVE  ProjectKnown'
<1> DEFINE r == [Projects!Ask("reorder") EXCEPT !.items = projects']
           o(i) == Origin(from, to, i)
<1>1. projects' = Numbering(Projects!Moved(projects, from, to)) /\ Projects!SendAhead(c, r)
      /\ pRows' = pRows /\ searching' = searching
  BY DEF Projects!HandleDragEnd, Numbering, Projects!table
<1>2. /\ ProjectList(projects', pBorn) /\ Len(projects') = Len(projects)
      /\ \A i \in DOMAIN projects' :
            /\ o(i) \in DOMAIN projects
            /\ projects'[i].id = projects[o(i)].id
            /\ projects'[i].row.owner = projects[o(i)].row.owner
            /\ projects'[i].row.members = projects[o(i)].row.members
            /\ projects'[i].row.level = projects[o(i)].row.level
            /\ projects'[i].row.order = i - 1
  <2> DEFINE items == projects'
  <2>1. items = Numbering(Projects!Moved(projects, from, to))
    BY <1>1
  <2> HIDE DEF items, o
  <2>2. Dragged(items, from, to)
    BY <2>1, DraggedIs
  <2> QED BY <2>2 DEF items, o, Dragged
<1>3. r.kind = "reorder" /\ r.phase = "sent" /\ r.project = Projects!Nothing /\ r.items = projects'
  BY AskIs, <1>2 DEF Projects!CallState, ProjectList
<1> HIDE DEF r
<1>4. /\ ListsRead(pRows', searching', pCalls') /\ OrderOfAll(pCalls')
      /\ pStrayed' \/ AheadOnce(pCalls')
      /\ IsComing(pCalls) => IsComing(pCalls')
      /\ pStrayed => pStrayed'
      /\ ~pStrayed' => \A x \in PageCall : ~Reordering(pCalls[x])
      /\ pCalls'[c] = r
      /\ \A x \in PageCall : x # c => /\ IsAhead(pCalls'[x]) <=> IsAhead(pCalls[x])
                                      /\ Alike(pCalls'[x], pCalls[x])
      /\ ~IsAhead(pCalls[c])
  <2>1. /\ ListsRead(pRows', searching', pCalls') /\ OrderOfAll(pCalls')
        /\ pStrayed' \/ AheadOnce(pCalls')
        /\ IsComing(pCalls) => IsComing(pCalls')
        /\ pStrayed => pStrayed'
        /\ ~pStrayed' => \A x \in PageCall : /\ r.kind = "reorder" => ~Reordering(pCalls[x])
                                             /\ r.kind = "level" => ~Levelling(pCalls[x], r.project)
        /\ pCalls'[c] = r
        /\ \A x \in PageCall : x # c => /\ IsAhead(pCalls'[x]) <=> IsAhead(pCalls[x])
                                        /\ Alike(pCalls'[x], pCalls[x])
        /\ ~IsAhead(pCalls[c])
    <3>1. /\ Projects!SendAhead(c, r) /\ r.kind \in {"reorder", "level"} /\ r.phase = "sent"
          /\ r.kind = "reorder" => r.project = Projects!Nothing
          /\ searching' = searching
      BY <1>1, <1>3
    <3> QED BY <3>1, AheadKnown
  <2> QED BY <1>3, <2>1
<1>5. ASSUME ~pStrayed', ShownAs(projects, pRows, searching, pCalls)
      PROVE  ShownAs(projects', pRows, searching, pCalls')
  <2>0. projects' \in Seq(Projects!Shown) /\ projects \in Seq(Projects!Shown)
    BY <1>2 DEF ProjectList, ProjectTypes, ProjectShown
  <2>1. DOMAIN projects' = DOMAIN projects /\ DOMAIN projects = 1 .. Len(projects)
        /\ Len(projects) \in Nat
    BY <1>2, <2>0, LenProperties
  <2>2. \A j \in DOMAIN projects : \E i \in DOMAIN projects : o(i) = j
    <3>1. \A n \in Nat : from \in 1 .. n /\ to \in 1 .. n =>
             \A j \in 1 .. n : \E i \in 1 .. n : Origin(from, to, i) = j
      BY OriginIs
    <3> QED BY <2>1, <3>1
  <2> HIDE DEF o
  <2>3. \A x \in PageCall : \A p : /\ Levelling(pCalls'[x], p) <=> Levelling(pCalls[x], p)
                                   /\ Levelling(pCalls'[x], p) => pCalls'[x].choice = pCalls[x].choice
    <3> SUFFICES ASSUME NEW x \in PageCall, NEW p
                 PROVE  /\ Levelling(pCalls'[x], p) <=> Levelling(pCalls[x], p)
                        /\ Levelling(pCalls'[x], p) => pCalls'[x].choice = pCalls[x].choice
      OBVIOUS
    <3>1. CASE x = c
      BY <1>3, <1>4, <3>1 DEF Levelling, IsAhead
    <3>2. CASE x # c
      <4>1. Alike(pCalls'[x], pCalls[x]) /\ (IsAhead(pCalls'[x]) <=> IsAhead(pCalls[x]))
        BY <1>4, <3>2
      <4> QED BY <4>1 DEF Alike, IsAhead, Levelling
    <3> QED BY <3>1, <3>2
  <2>4. \A x \in PageCall : Reordering(pCalls'[x]) <=> x = c
    <3> SUFFICES ASSUME NEW x \in PageCall PROVE Reordering(pCalls'[x]) <=> x = c
      OBVIOUS
    <3>1. CASE x = c
      BY <1>3, <1>4, <3>1 DEF Reordering
    <3>2. CASE x # c
      <4>1. /\ Alike(pCalls'[x], pCalls[x]) /\ (IsAhead(pCalls'[x]) <=> IsAhead(pCalls[x]))
            /\ ~Reordering(pCalls[x])
        BY <1>4, <1>5, <3>2
      <4> QED BY <3>2, <4>1 DEF Alike, IsAhead, Reordering
    <3> QED BY <3>1, <3>2
  <2>5. ASSUME NEW i \in DOMAIN projects
        PROVE  Expected(projects'[i], i, pRows, pCalls')
    <3> DEFINE x == projects[o(i)]
               y == projects'[i]
    <3>1. Expected(x, o(i), pRows, pCalls)
      BY <1>2, <1>5, <2>1 DEF ShownAs
    <3>2. /\ y.id = x.id /\ y.row.owner = x.row.owner /\ y.row.members = x.row.members
          /\ y.row.level = x.row.level /\ y.row.order = i - 1
      BY <1>2, <2>1
    <3> HIDE DEF x, y
    <3>3. Expected(y, i, pRows, pCalls')
      BY <2>3, <2>4, <3>1, <3>2 DEF Expected
    <3> QED BY <3>3 DEF y
  <2>6. \A i \in DOMAIN projects' : projects'[i].id \in Found(pRows, searching)
    BY <1>2, <1>5 DEF ShownAs
  <2>7. ASSUME NEW p \in Found(pRows, searching)
        PROVE  \E i \in DOMAIN projects' : projects'[i].id = p
    <3>1. PICK j \in DOMAIN projects : projects[j].id = p
      BY <1>5 DEF ShownAs
    <3>2. PICK i \in DOMAIN projects : o(i) = j
      BY <2>2
    <3> QED BY <1>2, <2>1, <3>1, <3>2
  <2>8. \A x \in PageCall : Reordering(pCalls'[x]) => pCalls'[x].items = projects'
    BY <1>3, <1>4, <2>4
  <2> QED BY <2>1, <2>4, <2>5, <2>6, <2>7, <2>8 DEF ShownAs
<1>6. pStrayed' \/ IsComing(pCalls') \/ ShownAs(projects', pRows, searching, pCalls')
  BY <1>4, <1>5 DEF ProjectKnown
<1> QED BY <1>1, <1>4, <1>6, ProjectKnownFrom

LEMMA HandleVisibilityKnown ==
    ASSUME ProjectTypes, ProjectKnown, NEW c \in PageCall, NEW i0 \in DOMAIN projects,
           NEW level \in Projects!Level, Projects!HandleVisibilityChange(c, i0, level)
    PROVE  ProjectKnown'
<1> DEFINE p0 == projects[i0].id
           r == [Projects!Ask("level") EXCEPT !.project = p0, !.choice.level = level]
<1>1. /\ projects' = [projects EXCEPT ![i0].row.level = level] /\ Projects!SendAhead(c, r)
      /\ pRows' = pRows /\ searching' = searching
  BY DEF Projects!HandleVisibilityChange, Projects!table
<1>2. /\ ProjectList(projects', pBorn) /\ DOMAIN projects' = DOMAIN projects
      /\ Len(projects') = Len(projects)
      /\ \A j \in DOMAIN projects :
            /\ projects'[j].id = projects[j].id
            /\ projects'[j].row.owner = projects[j].row.owner
            /\ projects'[j].row.members = projects[j].row.members
            /\ projects'[j].row.level = IF j = i0 THEN level ELSE projects[j].row.level
            /\ projects'[j].row.order = projects[j].row.order
  <2> DEFINE list == projects'
  <2>1. list = [projects EXCEPT ![i0].row.level = level]
    BY <1>1
  <2> HIDE DEF list
  <2>2. Relevelled(list, i0, level)
    BY <2>1, RelevelledIs
  <2> QED BY <2>2 DEF list, Relevelled
<1>3. r.kind = "level" /\ r.phase = "sent" /\ r.project = p0 /\ r.choice.level = level
  BY AskIs, ChoicesAre, ProjectFacts DEF Projects!CallState, Projects!Choice
<1> HIDE DEF r, p0
<1>4. /\ ListsRead(pRows', searching', pCalls') /\ OrderOfAll(pCalls')
      /\ pStrayed' \/ AheadOnce(pCalls')
      /\ IsComing(pCalls) => IsComing(pCalls')
      /\ pStrayed => pStrayed'
      /\ ~pStrayed' => \A x \in PageCall : ~Levelling(pCalls[x], p0)
      /\ pCalls'[c] = r
      /\ \A x \in PageCall : x # c => /\ IsAhead(pCalls'[x]) <=> IsAhead(pCalls[x])
                                      /\ Alike(pCalls'[x], pCalls[x])
      /\ ~IsAhead(pCalls[c])
  <2>1. /\ ListsRead(pRows', searching', pCalls') /\ OrderOfAll(pCalls')
        /\ pStrayed' \/ AheadOnce(pCalls')
        /\ IsComing(pCalls) => IsComing(pCalls')
        /\ pStrayed => pStrayed'
        /\ ~pStrayed' => \A x \in PageCall : /\ r.kind = "reorder" => ~Reordering(pCalls[x])
                                             /\ r.kind = "level" => ~Levelling(pCalls[x], r.project)
        /\ pCalls'[c] = r
        /\ \A x \in PageCall : x # c => /\ IsAhead(pCalls'[x]) <=> IsAhead(pCalls[x])
                                        /\ Alike(pCalls'[x], pCalls[x])
        /\ ~IsAhead(pCalls[c])
    <3>1. /\ Projects!SendAhead(c, r) /\ r.kind \in {"reorder", "level"} /\ r.phase = "sent"
          /\ r.kind = "reorder" => r.project = Projects!Nothing
          /\ searching' = searching
      BY <1>1, <1>3
    <3> QED BY <3>1, AheadKnown
  <2> QED BY <1>3, <2>1
<1>5. ASSUME ~pStrayed', ShownAs(projects, pRows, searching, pCalls)
      PROVE  ShownAs(projects', pRows, searching, pCalls')
  <2>1. ASSUME NEW x \in PageCall
        PROVE  /\ Reordering(pCalls'[x]) <=> Reordering(pCalls[x])
               /\ Reordering(pCalls'[x]) => pCalls'[x].items = pCalls[x].items
    <3>1. CASE x = c
      BY <1>3, <1>4, <3>1 DEF Reordering, IsAhead
    <3>2. CASE x # c
      <4>1. Alike(pCalls'[x], pCalls[x]) /\ (IsAhead(pCalls'[x]) <=> IsAhead(pCalls[x]))
        BY <1>4, <3>2
      <4> QED BY <4>1 DEF Alike, IsAhead, Reordering
    <3> QED BY <3>1, <3>2
  <2>2. ASSUME NEW x \in PageCall, NEW p
        PROVE  /\ p # p0 => /\ Levelling(pCalls'[x], p) <=> Levelling(pCalls[x], p)
                            /\ Levelling(pCalls'[x], p) => pCalls'[x].choice = pCalls[x].choice
               /\ Levelling(pCalls'[x], p0) <=> x = c
    <3>1. CASE x = c
      BY <1>3, <1>4, <3>1 DEF Levelling, IsAhead
    <3>2. CASE x # c
      <4>1. /\ Alike(pCalls'[x], pCalls[x]) /\ (IsAhead(pCalls'[x]) <=> IsAhead(pCalls[x]))
            /\ ~Levelling(pCalls[x], p0)
        BY <1>4, <1>5, <3>2
      <4> QED BY <3>2, <4>1 DEF Alike, IsAhead, Levelling
    <3> QED BY <3>1, <3>2
  <2>3. ASSUME NEW i \in DOMAIN projects
        PROVE  Expected(projects'[i], i, pRows, pCalls')
    <3> DEFINE x == projects[i]
               y == projects'[i]
    <3>1. Expected(x, i, pRows, pCalls)
      BY <1>5 DEF ShownAs
    <3>2. /\ y.id = x.id /\ y.row.owner = x.row.owner /\ y.row.members = x.row.members
          /\ y.row.level = (IF i = i0 THEN level ELSE x.row.level)
          /\ y.row.order = x.row.order
      BY <1>2
    <3>3. x.id = p0 <=> i = i0
      BY DEF p0, ProjectTypes, ProjectShown, ProjectList
    <3> HIDE DEF x, y
    <3>4. CASE i = i0
      <4>1. \A z \in PageCall : Levelling(pCalls'[z], y.id) <=> z = c
        BY <2>2, <3>2, <3>3, <3>4
      <4>2. pCalls'[c].choice.level = level /\ y.row.level = level
        BY <1>3, <1>4, <3>2, <3>4
      <4>3. Expected(y, i, pRows, pCalls')
        BY <2>1, <3>1, <3>2, <4>1, <4>2 DEF Expected
      <4> QED BY <4>3 DEF y
    <3>5. CASE i # i0
      <4>1. \A z \in PageCall : /\ Levelling(pCalls'[z], y.id) <=> Levelling(pCalls[z], x.id)
                                /\ Levelling(pCalls'[z], y.id) => pCalls'[z].choice = pCalls[z].choice
        BY <2>2, <3>2, <3>3, <3>5
      <4>2. y.row.level = x.row.level
        BY <3>2, <3>5
      <4>3. Expected(y, i, pRows, pCalls')
        BY <2>1, <3>1, <3>2, <4>1, <4>2 DEF Expected
      <4> QED BY <4>3 DEF y
    <3> QED BY <3>4, <3>5
  <2>4. \A i \in DOMAIN projects' : projects'[i].id \in Found(pRows, searching)
    BY <1>2, <1>5 DEF ShownAs
  <2>5. \A p \in Found(pRows, searching) : \E i \in DOMAIN projects' : projects'[i].id = p
    BY <1>2, <1>5 DEF ShownAs
  <2>6. DOMAIN projects' = DOMAIN projects /\ Len(projects') = Len(projects)
        /\ \A i \in DOMAIN projects : projects'[i].id = projects[i].id
    BY <1>2
  <2>7. \A x \in PageCall : Reordering(pCalls'[x]) =>
           /\ Len(pCalls'[x].items) = Len(projects')
           /\ \A i \in DOMAIN projects' : pCalls'[x].items[i].id = projects'[i].id
    BY <1>5, <2>1, <2>6 DEF ShownAs
  <2>8. (\A x \in PageCall : ~Reordering(pCalls'[x])) =>
           \A i, j \in DOMAIN projects' :
              i < j => BeforeIn(pRows, projects'[i].id, projects'[j].id)
    BY <1>5, <2>1, <2>6 DEF ShownAs
  <2>9. \A i \in DOMAIN projects' : Expected(projects'[i], i, pRows, pCalls')
    BY <2>3, <2>6
  <2> QED BY <2>4, <2>5, <2>7, <2>8, <2>9 DEF ShownAs
<1>6. pStrayed' \/ IsComing(pCalls') \/ ShownAs(projects', pRows, searching, pCalls')
  BY <1>4, <1>5 DEF ProjectKnown
<1> QED BY <1>1, <1>4, <1>6, ProjectKnownFrom

(* When the service has done a call, the lists it has read are old.        *)
LEMMA DoneKnown ==
    ASSUME ProjectTypes, ProjectKnown, NEW c \in PageCall, Projects!Done(c),
           pCalls[c].kind # "list", searching' = searching, pStrayed => pStrayed'
    PROVE  /\ ListsRead(pRows', searching', pCalls') /\ OrderOfAll(pCalls')
           /\ pStrayed' \/ AheadOnce(pCalls')
           /\ IsComing(pCalls) => IsComing(pCalls')
           /\ \A x \in PageCall : Alike(pCalls'[x], pCalls[x])
           /\ ~IsAhead(pCalls'[c])
           /\ \A x \in PageCall : x # c => (IsAhead(pCalls'[x]) <=> IsAhead(pCalls[x]))
           /\ pCalls[c].kind \in {"update", "delete", "create", "batch"} => ProjectComing(pCalls'[c])
<1>1. /\ \A x \in PageCall : Alike(pCalls'[x], pCalls[x])
      /\ pCalls'[c].phase = "done"
      /\ \A x \in PageCall : x # c => /\ pCalls'[x].phase = pCalls[x].phase
                                      /\ pCalls'[x].old <=> pCalls[x].old
                                            \/ (pCalls[x].kind = "list" /\ pCalls[x].phase = "done")
  BY ProjectDoneCalls
<1>2. ASSUME NEW x \in PageCall
      PROVE  /\ pCalls'[x].kind = pCalls[x].kind /\ pCalls'[x].project = pCalls[x].project
             /\ pCalls'[x].search = pCalls[x].search
  BY <1>1 DEF Alike
<1>3. ListsRead(pRows', searching', pCalls')
  <2> SUFFICES ASSUME NEW x \in PageCall, pCalls'[x].kind = "list", ~pCalls'[x].old
               PROVE  pCalls'[x].search = searching' /\ pCalls'[x].phase # "done"
    BY DEF ListsRead
  <2>1. x # c
    BY <1>2
  <2>2. pCalls[x].kind = "list" /\ ~pCalls[x].old /\ pCalls[x].phase # "done"
        /\ pCalls'[x].search = pCalls[x].search /\ pCalls'[x].phase = pCalls[x].phase
    BY <1>1, <1>2, <2>1
  <2> QED BY <2>2 DEF ProjectKnown, ListsRead
<1>4. /\ ~IsAhead(pCalls'[c])
      /\ \A x \in PageCall : x # c => (IsAhead(pCalls'[x]) <=> IsAhead(pCalls[x]))
  BY <1>1, <1>2 DEF IsAhead
<1>5. NoneAhead(pCalls', pCalls)
  BY <1>2, <1>4 DEF NoneAhead
<1>6. OrderOfAll(pCalls') /\ (pStrayed' \/ AheadOnce(pCalls'))
  BY <1>5, FewerAhead DEF ProjectKnown
<1>7. \A x \in PageCall : ProjectComing(pCalls[x]) => ProjectComing(pCalls'[x])
  BY <1>1, <1>2 DEF ProjectComing
<1>8. IsComing(pCalls) => IsComing(pCalls')
  BY <1>7 DEF IsComing
<1>9. pCalls[c].kind \in {"update", "delete", "create", "batch"} => ProjectComing(pCalls'[c])
  BY <1>1, <1>2 DEF ProjectComing
<1> QED BY <1>1, <1>3, <1>4, <1>6, <1>8, <1>9

(* A new level that is made.                                               *)
LEMMA LevelMade ==
    ASSUME ProjectTypes, ProjectKnown, NEW c \in PageCall, Projects!SaveProject(c),
           pCalls[c].kind = "level",
           ~pStrayed', ShownAs(projects, pRows, searching, pCalls)
    PROVE  ShownAs(projects, pRows', searching, pCalls')
<1> DEFINE call == pCalls[c]
           p0 == call.project
<1>1. /\ call.phase = "read" /\ p0 \in DOMAIN pRows /\ Projects!Done(c)
      /\ pRows' = [pRows EXCEPT ![p0] = Projects!Patched(pRows[p0], call.choice)]
      /\ searching' = searching /\ ~pStrayed /\ (pStrayed => pStrayed')
  <2>1. /\ call.phase = "read" /\ Projects!Done(c) /\ searching' = searching
        /\ pStrayed' = (pStrayed \/ (p0 \in DOMAIN pRows => pRows[p0] # call.row))
        /\ pRows' = [q \in DOMAIN pRows \cup {p0} |->
                        IF q = p0 THEN Projects!Patched(call.row, call.choice) ELSE pRows[q]]
    BY DEF Projects!SaveProject, Projects!shown
  <2>2. ~pStrayed /\ p0 \in DOMAIN pRows /\ call.row = pRows[p0]
    BY <2>1
  <2> HIDE DEF p0, call
  <2>3. DOMAIN pRows \cup {p0} = DOMAIN pRows /\ pRows = [q \in DOMAIN pRows |-> pRows[q]]
    BY <2>2, ProjectFacts
  <2>4. pRows' = [pRows EXCEPT ![p0] = Projects!Patched(pRows[p0], call.choice)]
    BY <2>1, <2>2, <2>3
  <2> QED BY <2>1, <2>2, <2>4
<1>2. /\ \A x \in PageCall : Alike(pCalls'[x], pCalls[x])
      /\ ~IsAhead(pCalls'[c])
      /\ \A x \in PageCall : x # c => (IsAhead(pCalls'[x]) <=> IsAhead(pCalls[x]))
  BY <1>1, DoneKnown
<1>3. /\ pRows \in [DOMAIN pRows -> Projects!Row] /\ call.choice \in Projects!Choice
      /\ call.choice.owner = None /\ call.choice.members = {} /\ call.kind = "level"
  BY ProjectFacts, ProjectCallFacts DEF ProjectCarried, Projects!CallState
<1>4. /\ DOMAIN pRows' = DOMAIN pRows
      /\ \A p \in DOMAIN pRows : pRows'[p] =
             IF p = p0 THEN Projects!Patched(pRows[p], call.choice) ELSE pRows[p]
  BY <1>1, <1>3
<1>5. ASSUME NEW p \in DOMAIN pRows
      PROVE  /\ pRows'[p].owner = pRows[p].owner /\ pRows'[p].members = pRows[p].members
             /\ pRows'[p].order = pRows[p].order
             /\ p # p0 => pRows'[p].level = pRows[p].level
             /\ p = p0 /\ call.choice.level # 0 => pRows'[p].level = call.choice.level
  <2>1. /\ Projects!Patched(pRows[p], call.choice).owner = pRows[p].owner
        /\ Projects!Patched(pRows[p], call.choice).members = pRows[p].members
        /\ Projects!Patched(pRows[p], call.choice).order = pRows[p].order
        /\ call.choice.level # 0 => Projects!Patched(pRows[p], call.choice).level = call.choice.level
    BY <1>3, PatchedProject
  <2> QED BY <1>4, <2>1
<1>6. Found(pRows', searching) = Found(pRows, searching) /\ Found(pRows, searching) \subseteq DOMAIN pRows
  BY <1>4 DEF Found
<1>7. \A x \in PageCall : /\ Reordering(pCalls'[x]) <=> Reordering(pCalls[x])
                          /\ Reordering(pCalls'[x]) => pCalls'[x].items = pCalls[x].items
  <2> SUFFICES ASSUME NEW x \in PageCall
               PROVE  /\ Reordering(pCalls'[x]) <=> Reordering(pCalls[x])
                      /\ Reordering(pCalls'[x]) => pCalls'[x].items = pCalls[x].items
    OBVIOUS
  <2>1. Alike(pCalls'[x], pCalls[x])
    BY <1>2
  <2>2. CASE x = c
    BY <1>3, <2>1, <2>2 DEF Reordering, Alike
  <2>3. CASE x # c
    <3>1. IsAhead(pCalls'[x]) <=> IsAhead(pCalls[x])
      BY <1>2, <2>3
    <3> QED BY <2>1, <3>1 DEF Reordering, Alike, IsAhead
  <2> QED BY <2>2, <2>3
<1>8. ASSUME NEW x \in PageCall, NEW p
      PROVE  /\ p # p0 => /\ Levelling(pCalls'[x], p) <=> Levelling(pCalls[x], p)
                          /\ Levelling(pCalls'[x], p) => pCalls'[x].choice = pCalls[x].choice
             /\ ~Levelling(pCalls'[x], p0)
  <2>1. Alike(pCalls'[x], pCalls[x])
    BY <1>2
  <2>2. CASE x = c
    BY <1>2, <2>1, <2>2 DEF Levelling, Alike, IsAhead
  <2>3. CASE x # c
    <3>1. IsAhead(pCalls'[x]) <=> IsAhead(pCalls[x])
      BY <1>2, <2>3
    <3>2. ~Levelling(pCalls[x], p0)
      <4>1. AheadOnce(pCalls)
        BY <1>1 DEF ProjectKnown
      <4>2. IsAhead(pCalls[c])
        BY <1>1, <1>3 DEF IsAhead
      <4> QED BY <1>3, <2>3, <4>1, <4>2 DEF AheadOnce, Levelling, IsAhead
    <3> QED BY <2>1, <3>1, <3>2 DEF Levelling, Alike, IsAhead
  <2> QED BY <2>2, <2>3
<1>9. Levelling(pCalls[c], p0)
  BY <1>1, <1>3 DEF Levelling
<1> HIDE DEF p0
<1>10. ASSUME NEW i \in DOMAIN projects
       PROVE  Expected(projects[i], i, pRows', pCalls')
  <2> DEFINE x == projects[i]
  <2>1. Expected(x, i, pRows, pCalls) /\ x.id \in DOMAIN pRows /\ x.row.level # 0
    BY <1>6, ProjectFacts DEF ShownAs, Projects!Row, Projects!Level
  <2> HIDE DEF x
  <2>2. CASE x.id = p0
    <3>1. x.row.level = call.choice.level
      BY <1>9, <2>1, <2>2 DEF Expected
    <3>2. x.row.level = pRows'[x.id].level
      BY <1>5, <2>1, <2>2, <3>1
    <3>3. \A z \in PageCall : ~Levelling(pCalls'[z], x.id)
      BY <1>8, <2>2
    <3>4. /\ pRows'[x.id].owner = pRows[x.id].owner
          /\ pRows'[x.id].members = pRows[x.id].members
          /\ pRows'[x.id].order = pRows[x.id].order
      BY <1>5, <2>1
    <3>5. Expected(x, i, pRows', pCalls')
      BY <1>7, <2>1, <3>2, <3>3, <3>4 DEF Expected
    <3> QED BY <3>5 DEF x
  <2>3. CASE x.id # p0
    <3>1. \A z \in PageCall : /\ Levelling(pCalls'[z], x.id) <=> Levelling(pCalls[z], x.id)
                              /\ Levelling(pCalls'[z], x.id) => pCalls'[z].choice = pCalls[z].choice
      BY <1>8, <2>3
    <3>2. /\ pRows'[x.id].owner = pRows[x.id].owner
          /\ pRows'[x.id].members = pRows[x.id].members
          /\ pRows'[x.id].order = pRows[x.id].order /\ pRows'[x.id].level = pRows[x.id].level
      BY <1>5, <2>1, <2>3
    <3>3. Expected(x, i, pRows', pCalls')
      BY <1>7, <2>1, <3>1, <3>2 DEF Expected
    <3> QED BY <3>3 DEF x
  <2> QED BY <2>2, <2>3
<1>11. /\ \A i \in DOMAIN projects : projects[i].id \in Found(pRows', searching)
       /\ \A p \in Found(pRows', searching) : \E i \in DOMAIN projects : projects[i].id = p
  BY <1>6 DEF ShownAs
<1>12. \A x \in PageCall : Reordering(pCalls'[x]) =>
             /\ Len(pCalls'[x].items) = Len(projects)
             /\ \A i \in DOMAIN projects : pCalls'[x].items[i].id = projects[i].id
  BY <1>7 DEF ShownAs
<1>13. (\A x \in PageCall : ~Reordering(pCalls'[x])) =>
             \A i, j \in DOMAIN projects : i < j => BeforeIn(pRows', projects[i].id, projects[j].id)
  <2>1. \A p, q \in Found(pRows, searching) : BeforeIn(pRows, p, q) => BeforeIn(pRows', p, q)
    BY <1>5, <1>6 DEF BeforeIn
  <2> QED BY <1>7, <2>1 DEF ShownAs
<1> QED BY <1>10, <1>11, <1>12, <1>13 DEF ShownAs

(* A new order that is made.                                               *)
LEMMA OrderMade ==
    ASSUME ProjectTypes, ProjectKnown, NEW c \in PageCall, Projects!ReorderProjects(c),
           ~pStrayed, ShownAs(projects, pRows, searching, pCalls)
    PROVE  ShownAs(projects, pRows', searching, pCalls')
<1> DEFINE items == pCalls[c].items
<1>1. /\ pCalls[c].kind = "reorder" /\ pCalls[c].phase = "sent" /\ Projects!Done(c)
      /\ pRows' = Projects!Numbered(items) /\ searching' = searching /\ pStrayed' = pStrayed
  BY DEF Projects!ReorderProjects, Projects!shown, Projects!history
<1>2. /\ \A x \in PageCall : Alike(pCalls'[x], pCalls[x])
      /\ ~IsAhead(pCalls'[c])
      /\ \A x \in PageCall : x # c => (IsAhead(pCalls'[x]) <=> IsAhead(pCalls[x]))
  BY <1>1, DoneKnown
<1>3. ProjectList(items, pBorn)
  BY ProjectCallFacts DEF ProjectCarried
<1>4. /\ DOMAIN pRows' = DOMAIN pRows
      /\ \A p \in DOMAIN pRows :
            /\ pRows'[p].owner = pRows[p].owner /\ pRows'[p].members = pRows[p].members
            /\ pRows'[p].level = pRows[p].level
            /\ \A i \in DOMAIN items : items[i].id = p => pRows'[p].order = i - 1
  BY <1>1, <1>3, NumberedIs
<1>5. Found(pRows', searching) = Found(pRows, searching) /\ Found(pRows, searching) \subseteq DOMAIN pRows
  BY <1>4 DEF Found
<1>6. Reordering(pCalls[c])
  BY <1>1 DEF Reordering
<1>7. \A x \in PageCall : ~Reordering(pCalls'[x])
  <2> SUFFICES ASSUME NEW x \in PageCall, Reordering(pCalls'[x]) PROVE FALSE
    OBVIOUS
  <2>1. Alike(pCalls'[x], pCalls[x]) /\ IsAhead(pCalls'[x])
    BY <1>2 DEF Reordering, IsAhead
  <2>2. x # c /\ IsAhead(pCalls[x]) /\ Reordering(pCalls[x])
    BY <1>2, <2>1 DEF Reordering, Alike, IsAhead
  <2>3. pCalls[x].project = Projects!Nothing /\ pCalls[c].project = Projects!Nothing
    BY <1>6, <2>2 DEF ProjectKnown, OrderOfAll
  <2>4. AheadOnce(pCalls)
    BY DEF ProjectKnown
  <2> QED BY <1>1, <2>2, <2>3, <2>4 DEF AheadOnce, IsAhead, Reordering
<1>8. \A x \in PageCall : \A p : /\ Levelling(pCalls'[x], p) <=> Levelling(pCalls[x], p)
                                 /\ Levelling(pCalls'[x], p) => pCalls'[x].choice = pCalls[x].choice
  <2> SUFFICES ASSUME NEW x \in PageCall, NEW p
               PROVE  /\ Levelling(pCalls'[x], p) <=> Levelling(pCalls[x], p)
                      /\ Levelling(pCalls'[x], p) => pCalls'[x].choice = pCalls[x].choice
    OBVIOUS
  <2>1. Alike(pCalls'[x], pCalls[x])
    BY <1>2
  <2>2. CASE x = c
    BY <1>1, <2>1, <2>2 DEF Levelling, Alike
  <2>3. CASE x # c
    <3>1. IsAhead(pCalls'[x]) <=> IsAhead(pCalls[x])
      BY <1>2, <2>3
    <3> QED BY <2>1, <3>1 DEF Levelling, Alike, IsAhead
  <2> QED BY <2>2, <2>3
<1> HIDE DEF items
<1>9. ASSUME NEW i \in DOMAIN projects
      PROVE  /\ projects[i].id \in DOMAIN pRows
             /\ pRows'[projects[i].id].order = i - 1
  <2>1. projects[i].id \in DOMAIN pRows
    BY <1>5 DEF ShownAs
  <2>2. Len(items) = Len(projects) /\ items[i].id = projects[i].id
    BY <1>6 DEF ShownAs, items
  <2>3. DOMAIN items = DOMAIN projects
    <3>1. items \in Seq(Projects!Shown) /\ projects \in Seq(Projects!Shown)
      BY <1>3 DEF ProjectList, ProjectTypes, ProjectShown
    <3> QED BY <2>2, <3>1, LenProperties
  <2> QED BY <1>4, <2>1, <2>2, <2>3
<1>10. ASSUME NEW i \in DOMAIN projects
       PROVE  Expected(projects[i], i, pRows', pCalls')
  <2> DEFINE x == projects[i]
  <2>1. Expected(x, i, pRows, pCalls) /\ x.id \in DOMAIN pRows /\ pRows'[x.id].order = i - 1
    BY <1>9 DEF ShownAs
  <2> HIDE DEF x
  <2>2. x.row.order = i - 1
    BY <1>6, <2>1 DEF Expected
  <2>3. /\ pRows'[x.id].owner = pRows[x.id].owner /\ pRows'[x.id].members = pRows[x.id].members
        /\ pRows'[x.id].level = pRows[x.id].level
    BY <1>4, <2>1
  <2>4. Expected(x, i, pRows', pCalls')
    BY <1>7, <1>8, <2>1, <2>2, <2>3 DEF Expected
  <2> QED BY <2>4 DEF x
<1>11. ASSUME NEW i \in DOMAIN projects, NEW j \in DOMAIN projects, i < j
       PROVE  BeforeIn(pRows', projects[i].id, projects[j].id)
  <2>1. i \in Int /\ j \in Int
    BY LenProperties DEF ProjectTypes, ProjectShown, ProjectList
  <2> QED BY <1>9, <1>11, <2>1 DEF BeforeIn
<1>12. /\ \A i \in DOMAIN projects : projects[i].id \in Found(pRows', searching)
       /\ \A p \in Found(pRows', searching) : \E i \in DOMAIN projects : projects[i].id = p
  BY <1>5 DEF ShownAs
<1> QED BY <1>7, <1>10, <1>11, <1>12 DEF ShownAs

LEMMA ProjectServiceKnown ==
    ASSUME ProjectTypes, ProjectKnown, NEW c \in PageCall, Projects!Service(c)
    PROVE  ProjectKnown'
<1>1. CASE Projects!ListProjects(c)
  <2>1. /\ pCalls'[c].kind = "list" /\ pCalls'[c].phase = "done"
        /\ pCalls'[c].search = pCalls[c].search
        /\ pCalls'[c].items = ListFrom(pRows, pCalls[c].search)
        /\ pCalls'[c].old <=> pCalls[c].old \/ Projects!Ahead # {}
        /\ \A x \in PageCall : x # c => pCalls'[x] = pCalls[x]
    BY <1>1, ListProjectsTypes
  <2>2. /\ pRows' = pRows /\ searching' = searching /\ pStrayed' = pStrayed
        /\ pCalls[c].kind = "list"
        /\ projects' = projects
    BY <1>1 DEF Projects!ListProjects, Projects!table, Projects!shown, Projects!history
  <2>3. NoneAhead(pCalls', pCalls)
    BY <2>1 DEF NoneAhead, IsAhead
  <2>4. Projects!Ahead = {} => \A x \in PageCall : ~IsAhead(pCalls[x])
    BY DEF Projects!Ahead, Projects!Underway, IsAhead
  <2>5. ListsRead(pRows, searching, pCalls')
    <3> SUFFICES ASSUME NEW x \in PageCall, pCalls'[x].kind = "list", ~pCalls'[x].old
                 PROVE  /\ pCalls'[x].search = searching
                        /\ pCalls'[x].phase = "done" =>
                              /\ pCalls'[x].items = ListFrom(pRows, searching)
                              /\ \A d \in PageCall : ~IsAhead(pCalls'[d])
      BY DEF ListsRead
    <3>1. CASE x = c
      <4>1. ~pCalls[c].old /\ Projects!Ahead = {}
        BY <2>1, <3>1
      <4>2. pCalls[c].search = searching
        BY <2>2, <4>1 DEF ProjectKnown, ListsRead
      <4>3. \A d \in PageCall : ~IsAhead(pCalls'[d])
        BY <2>3, <2>4, <4>1, FewerAhead
      <4> QED BY <2>1, <3>1, <4>2, <4>3
    <3>2. CASE x # c
      <4>1. /\ pCalls[x].search = searching
            /\ pCalls[x].phase = "done" =>
                            /\ pCalls[x].items = ListFrom(pRows, searching)
                            /\ \A d \in PageCall : ~IsAhead(pCalls[d])
        BY <2>1, <3>2 DEF ProjectKnown, ListsRead
      <4> QED BY <2>1, <2>3, <3>2, <4>1, FewerAhead
    <3> QED BY <3>1, <3>2
  <2>6. OrderOfAll(pCalls') /\ (pStrayed' \/ AheadOnce(pCalls'))
    BY <2>2, <2>3, FewerAhead DEF ProjectKnown
  <2>7. IsComing(pCalls')
    BY <2>1 DEF IsComing, ProjectComing
  <2> QED BY <2>2, <2>5, <2>6, <2>7, ProjectKnownFrom
<1>2. ASSUME Projects!Done(c), pCalls[c].kind \in {"update", "delete", "create", "batch"},
             searching' = searching, pStrayed => pStrayed'
      PROVE  ProjectKnown'
  <2>1. /\ ListsRead(pRows', searching', pCalls') /\ OrderOfAll(pCalls')
        /\ pStrayed' \/ AheadOnce(pCalls')
        /\ ProjectComing(pCalls'[c])
    BY <1>2, DoneKnown
  <2>2. IsComing(pCalls')
    BY <2>1 DEF IsComing
  <2> QED BY <2>1, <2>2, ProjectKnownFrom
<1>3. ASSUME Projects!Done(c), pCalls[c].kind \in {"level", "reorder"},
             searching' = searching, pStrayed => pStrayed', projects' = projects,
             ~pStrayed' /\ ShownAs(projects, pRows, searching, pCalls)
                => ShownAs(projects, pRows', searching, pCalls')
      PROVE  ProjectKnown'
  <2>1. /\ ListsRead(pRows', searching', pCalls') /\ OrderOfAll(pCalls')
        /\ pStrayed' \/ AheadOnce(pCalls')
        /\ IsComing(pCalls) => IsComing(pCalls')
    BY <1>3, DoneKnown
  <2>2. pStrayed' \/ IsComing(pCalls') \/ ShownAs(projects', pRows', searching', pCalls')
    BY <1>3, <2>1 DEF ProjectKnown
  <2> QED BY <2>1, <2>2, ProjectKnownFrom
<1>4. CASE Projects!SaveProject(c)
  <2>1. Projects!Done(c) /\ searching' = searching /\ (pStrayed => pStrayed') /\ projects' = projects
        /\ pCalls[c].kind \in {"update", "level"}
    BY <1>4 DEF Projects!SaveProject, Projects!shown
  <2>2. CASE pCalls[c].kind = "level"
    BY <1>3, <1>4, <2>1, <2>2, LevelMade
  <2> QED BY <1>2, <2>1, <2>2
<1>5. CASE Projects!ReorderProjects(c)
  <2>1. Projects!Done(c) /\ searching' = searching /\ pStrayed' = pStrayed /\ projects' = projects
        /\ pCalls[c].kind = "reorder"
    BY <1>5 DEF Projects!ReorderProjects, Projects!shown, Projects!history
  <2> QED BY <1>3, <1>5, <2>1, OrderMade
<1>6. CASE Projects!DeleteProject(c) \/ Projects!CreateProject(c) \/ Projects!BatchCreateProjects(c)
  BY <1>2, <1>6 DEF Projects!DeleteProject, Projects!CreateProject,
     Projects!BatchCreateProjects, Projects!shown, Projects!history
<1>7. CASE Projects!ReadProject(c)
  <2> DEFINE row == pRows[pCalls[c].project]
             r == [pCalls[c] EXCEPT !.phase = "read", !.row = row]
  <2>1. /\ pCalls[c] \in Projects!CallState /\ row \in Projects!Row
        /\ pCalls[c].phase = "sent" /\ pCalls[c].kind \in {"update", "level"}
        /\ UNCHANGED <<pRows, projects, searching, pStrayed>>
    BY <1>7, ProjectCallFacts, ProjectFacts
       DEF Projects!ReadProject, Projects!table, Projects!shown, Projects!history
  <2>2. \A x \in PageCall : pCalls'[x] = IF x = c THEN r ELSE pCalls[x]
    BY <1>7, ProjectCallFacts DEF Projects!ReadProject
  <2> HIDE DEF row
  <2>3. Alike(r, pCalls[c]) /\ r.phase = "read"
    BY <2>1, ReadIs
  <2> HIDE DEF r
  <2>4. SameAhead(pCalls', pCalls)
    BY <2>1, <2>2, <2>3 DEF SameAhead, IsAhead, Alike
  <2>5. ~ProjectComing(pCalls[c])
    BY <2>1 DEF ProjectComing
  <2>6. IsComing(pCalls) => IsComing(pCalls')
    BY <2>2, <2>5 DEF IsComing
  <2>7. \A x \in PageCall : pCalls'[x].kind = "list" => pCalls'[x] = pCalls[x]
    BY <2>1, <2>2, <2>3 DEF Alike
  <2>8. \A x \in PageCall : pCalls'[x].kind = "list" /\ ~pCalls'[x].old =>
            /\ pCalls[x].kind = "list" /\ ~pCalls[x].old /\ pCalls'[x].search = pCalls[x].search
            /\ pCalls'[x].phase = pCalls[x].phase /\ pCalls'[x].items = pCalls[x].items
    BY <2>7
  <2> QED BY <2>1, <2>4, <2>6, <2>8, StillKnown
<1> QED BY <1>1, <1>4, <1>5, <1>6, <1>7 DEF Projects!Service

LEMMA ShowProjectsKnown ==
    ASSUME ProjectTypes, ProjectKnown, NEW c \in PageCall, Projects!ShowProjects(c)
    PROVE  ProjectKnown'
<1>1. \A x \in PageCall : pCalls'[x] = IF x = c THEN Projects!Idle ELSE pCalls[x]
  BY ShowProjectsTypes
<1>2. /\ pCalls[c].kind = "list" /\ pCalls[c].phase = "done" /\ projects' = pCalls[c].items
      /\ pStrayed' = pCalls[c].old /\ pRows' = pRows /\ searching' = searching
  BY DEF Projects!ShowProjects, Projects!table
<1>3. ~IsAhead(Projects!Idle) /\ Projects!Idle.kind = "none"
  BY NothingAsked DEF IsAhead
<1>4. NoneAhead(pCalls', pCalls)
  BY <1>1, <1>3 DEF NoneAhead
<1>5. ListsRead(pRows, searching, pCalls')
  BY <1>1, <1>3, <1>4, ListsStay DEF ProjectKnown
<1>6. OrderOfAll(pCalls')
  BY <1>4, FewerAhead DEF ProjectKnown
<1>7. ASSUME ~pStrayed'
      PROVE  AheadOnce(pCalls') /\ ShownAs(projects', pRows, searching, pCalls')
  <2> DEFINE list == ListFrom(pRows, searching)
  <2>1. /\ pCalls[c].search = searching /\ projects' = list
        /\ \A x \in PageCall : ~IsAhead(pCalls[x])
    BY <1>2, <1>7 DEF ProjectKnown, ListsRead
  <2>2. \A x \in PageCall : ~IsAhead(pCalls'[x])
    BY <1>4, <2>1, FewerAhead
  <2>3. AheadOnce(pCalls')
    BY <2>2 DEF AheadOnce
  <2>4. \A x \in PageCall : ~Reordering(pCalls'[x]) /\ \A p : ~Levelling(pCalls'[x], p)
    BY <2>2 DEF IsAhead, Reordering, Levelling
  <2>5. Lists(pRows, searching, list)
    BY ListIs, ProjectFacts
  <2> HIDE DEF list
  <2>6. ShownAs(list, pRows, searching, pCalls')
    BY <2>4, <2>5 DEF ShownAs, Lists, Expected
  <2> QED BY <2>1, <2>3, <2>6
<1>8. pStrayed' \/ AheadOnce(pCalls')
  BY <1>7
<1>9. pStrayed' \/ ShownAs(projects', pRows, searching, pCalls')
  BY <1>7
<1> QED BY <1>2, <1>5, <1>6, <1>8, <1>9, ProjectKnownFrom

(* A call that ends in a new list, and one that ends in nothing.           *)
LEMMA RefetchedKnown ==
    ASSUME ProjectTypes, ProjectKnown, NEW c \in PageCall,
           \A x \in PageCall : pCalls'[x] = IF x = c THEN Projects!Refetched(pCalls[c]) ELSE pCalls[x],
           pRows' = pRows, searching' = searching, pStrayed' = pStrayed
    PROVE  ProjectKnown'
<1>1. /\ Projects!Refetched(pCalls[c]).kind = "list"
      /\ Projects!Refetched(pCalls[c]).phase = "sent"
      /\ Projects!Refetched(pCalls[c]).search = pCalls[c].search
      /\ Projects!Refetched(pCalls[c]).old = (pCalls[c].search # searching)
  BY RefetchedIs
<1>2. NoneAhead(pCalls', pCalls)
  BY <1>1 DEF NoneAhead, IsAhead
<1>3. ListsRead(pRows, searching, pCalls')
  BY <1>1, <1>2, ListsStay DEF ProjectKnown
<1>4. OrderOfAll(pCalls') /\ (pStrayed' \/ AheadOnce(pCalls'))
  BY <1>2, FewerAhead DEF ProjectKnown
<1>5. IsComing(pCalls')
  BY <1>1 DEF IsComing, ProjectComing
<1> QED BY <1>3, <1>4, <1>5, ProjectKnownFrom

LEMMA EndedKnown ==
    ASSUME ProjectTypes, ProjectKnown, NEW c \in PageCall,
           \A x \in PageCall : pCalls'[x] = IF x = c THEN Projects!Idle ELSE pCalls[x],
           pRows' = pRows, searching' = searching, projects' = projects,
           pStrayed => pStrayed',
           pStrayed' \/ (~ProjectComing(pCalls[c]) /\ ~IsAhead(pCalls[c]))
    PROVE  ProjectKnown'
<1>1. Projects!Idle.kind = "none"
  BY NothingAsked
<1>2. ~IsAhead(Projects!Idle)
  BY <1>1 DEF IsAhead
<1>3. NoneAhead(pCalls', pCalls)
  BY <1>2 DEF NoneAhead
<1>4. ListsRead(pRows, searching, pCalls')
  BY <1>1, <1>3, ListsStay DEF ProjectKnown
<1>5. OrderOfAll(pCalls') /\ (pStrayed' \/ AheadOnce(pCalls'))
  BY <1>3, FewerAhead DEF ProjectKnown
<1>6. ASSUME ~pStrayed'
      PROVE  IsComing(pCalls') \/ ShownAs(projects, pRows, searching, pCalls')
  <2>1. SameAhead(pCalls', pCalls)
    BY <1>2, <1>6 DEF SameAhead
  <2>2. IsComing(pCalls) => IsComing(pCalls')
    BY <1>6 DEF IsComing
  <2> QED BY <1>6, <2>1, <2>2, ShownKept DEF ProjectKnown
<1> QED BY <1>4, <1>5, <1>6, ProjectKnownFrom

LEMMA ProjectAnsweredKnown ==
    ASSUME ProjectTypes, ProjectKnown, NEW c \in PageCall,
           Projects!ShowProjects(c) \/ Projects!Settle(c) \/ Projects!Succeed(c)
               \/ Projects!TakeBack(c) \/ Projects!Fail(c)
    PROVE  ProjectKnown'
<1>1. CASE Projects!ShowProjects(c)
  BY <1>1, ShowProjectsKnown
<1>2. CASE Projects!Settle(c)
  <2>1. \A x \in PageCall : pCalls'[x] = IF x = c THEN Projects!Idle ELSE pCalls[x]
    BY <1>2, SettleTypes
  <2>2. ~ProjectComing(pCalls[c]) /\ ~IsAhead(pCalls[c])
    BY <1>2 DEF Projects!Settle, ProjectComing, IsAhead
  <2>3. pRows' = pRows /\ searching' = searching /\ projects' = projects /\ (pStrayed => pStrayed')
    BY <1>2 DEF Projects!Settle, Projects!table, Projects!shown, Projects!history
  <2> QED BY <2>1, <2>2, <2>3, EndedKnown
<1>3. CASE Projects!Succeed(c)
  <2>1. \A x \in PageCall : pCalls'[x] = IF x = c THEN Projects!Refetched(pCalls[c]) ELSE pCalls[x]
    BY <1>3, SucceedTypes
  <2> QED BY <1>3, <2>1, RefetchedKnown DEF Projects!Succeed, Projects!table, Projects!history
<1>4. CASE Projects!TakeBack(c)
  <2>1. \A x \in PageCall : pCalls'[x] = IF x = c THEN Projects!Refetched(pCalls[c]) ELSE pCalls[x]
    BY <1>4, TakeBackTypes
  <2> QED BY <1>4, <2>1, RefetchedKnown DEF Projects!TakeBack, Projects!table
<1>5. CASE Projects!Fail(c)
  <2>1. \A x \in PageCall : pCalls'[x] = IF x = c THEN Projects!Idle ELSE pCalls[x]
    BY <1>5, FailTypes
  <2>2. /\ pRows' = pRows /\ searching' = searching /\ projects' = projects
        /\ pStrayed' = (pStrayed \/ pCalls[c].kind \in {"list", "reorder"} \/ pCalls[c].phase = "done")
        /\ pCalls[c].kind # "level"
    BY <1>5 DEF Projects!Fail, Projects!table
  <2>3. (pStrayed => pStrayed') /\ (pStrayed' \/ (~ProjectComing(pCalls[c]) /\ ~IsAhead(pCalls[c])))
    BY <2>2 DEF ProjectComing, IsAhead
  <2> QED BY <2>1, <2>2, <2>3, EndedKnown
<1> QED BY <1>1, <1>2, <1>3, <1>4, <1>5

LEMMA ProjectAdministratorKnown ==
    ASSUME ProjectTypes, ProjectKnown, Projects!Administrator \/ Projects!Picker
    PROVE  ProjectKnown'
<1>1. CASE UNCHANGED <<Projects!table, pCalls, Projects!shown, pStrayed>>
  <2>1. SameAhead(pCalls', pCalls) /\ (IsComing(pCalls) => IsComing(pCalls'))
    BY <1>1 DEF SameAhead
  <2> QED BY <1>1, <2>1, StillKnown DEF Projects!table, Projects!shown, ProjectKnown, ListsRead
<1>2. ASSUME NEW c \in PageCall, Projects!HandleSubmit(c)
      PROVE  ProjectKnown'
  <2> DEFINE r == [Projects!Ask("update") EXCEPT !.project = pEditing.project, !.choice = pEditing.choice]
  <2>1. r.kind = "update"
    BY AskIs DEF Projects!CallState
  <2>2. Projects!Send(c, r) /\ UNCHANGED <<Projects!table, Projects!shown, pStrayed>>
    BY <1>2 DEF Projects!HandleSubmit
  <2> QED BY <2>1, <2>2, SentKnown
<1>3. ASSUME NEW c \in PageCall, Projects!HandleSingleSubmit(c)
      PROVE  ProjectKnown'
  <2> DEFINE r == [Projects!Ask("create") EXCEPT !.choice = pCreating.choice]
  <2>1. r.kind = "create"
    BY AskIs DEF Projects!CallState
  <2>2. Projects!Send(c, r) /\ UNCHANGED <<Projects!table, Projects!shown, pStrayed>>
    BY <1>3 DEF Projects!HandleSingleSubmit, Projects!history
  <2> QED BY <2>1, <2>2, SentKnown
<1>4. ASSUME NEW c \in PageCall, NEW p, NEW u, NEW replace,
             Projects!HandleBulkSubmit(c, p, u, replace)
      PROVE  ProjectKnown'
  <2> DEFINE r == [Projects!Ask("batch") EXCEPT !.project = p, !.replace = replace,
                                       !.choice = [Projects!NewChoice EXCEPT !.owner = u]]
  <2>1. r.kind = "batch"
    BY AskIs DEF Projects!CallState
  <2>2. Projects!Send(c, r) /\ UNCHANGED <<Projects!table, Projects!shown, pStrayed>>
    BY <1>4 DEF Projects!HandleBulkSubmit, Projects!history
  <2> QED BY <2>1, <2>2, SentKnown
<1>5. ASSUME NEW c \in PageCall, NEW i, Projects!HandleDelete(c, i)
      PROVE  ProjectKnown'
  <2> DEFINE r == [Projects!Ask("delete") EXCEPT !.project = projects[i].id]
  <2>1. r.kind = "delete"
    BY AskIs DEF Projects!CallState
  <2>2. Projects!Send(c, r) /\ UNCHANGED <<Projects!table, Projects!shown, pStrayed>>
    BY <1>5 DEF Projects!HandleDelete, Projects!history
  <2> QED BY <2>1, <2>2, SentKnown
<1>6. CASE (\E i \in DOMAIN projects : Projects!OnEdit(i)) \/ Projects!CancelEdit
               \/ Projects!OpenCreate \/ Projects!CloseCreate
  BY <1>1, <1>6 DEF Projects!OnEdit, Projects!CancelEdit, Projects!OpenCreate,
     Projects!CloseCreate, Projects!history
<1>7. CASE Projects!Picker
  <2>1. UNCHANGED <<Projects!table, pCalls, Projects!shown, Projects!history>>
    BY <1>7, PickerIs
  <2> QED BY <1>1, <2>1 DEF Projects!history
<1>8. CASE Projects!Administrator
  BY <1>2, <1>3, <1>4, <1>5, <1>6, <1>8, SearchKnown, HandleDragEndKnown, HandleVisibilityKnown
     DEF Projects!Administrator
<1> QED BY <1>7, <1>8

LEMMA ProjectKnownKept ==
    ASSUME ProjectTypes, ProjectKnown, Projects!Next
    PROVE  ProjectKnown'
BY ProjectServiceKnown, ProjectAdministratorKnown, ProjectAnsweredKnown DEF Projects!Next

LEMMA ProjectFreshKnown ==
    ASSUME Projects!Fresh, NEW c \in PageCall,
           pCalls = [x \in PageCall |-> IF x = c THEN [Projects!Idle EXCEPT !.kind = "list"] ELSE Projects!Idle]
    PROVE  ProjectKnown
<1>1. /\ pCalls[c].kind = "list" /\ \A x \in PageCall : pCalls[x].kind \in {"none", "list"}
      /\ \A x \in PageCall : pCalls[x].phase = "sent" /\ pCalls[x].search = FALSE /\ pCalls[x].old = FALSE
  BY ProjectFreshTypes
<1>2. searching = FALSE
  BY DEF Projects!Fresh
<1>3. ListsRead(pRows, searching, pCalls)
  BY <1>1, <1>2 DEF ListsRead
<1>4. OrderOfAll(pCalls) /\ AheadOnce(pCalls)
  BY <1>1 DEF OrderOfAll, AheadOnce, Reordering, IsAhead
<1>5. IsComing(pCalls)
  BY <1>1 DEF IsComing, ProjectComing
<1> QED BY <1>3, <1>4, <1>5 DEF ProjectKnown

-----------------------------------------------------------------------------
(* The projects: what was chosen.  Of a project of which no choice raced   *)
(* at most one call makes a change: from the row, or from what it has read *)
(* of it, it makes what was chosen, and without one the row is that, while *)
(* it is there.  A dialog that is open shows the row but for what was      *)
(* touched, until its own call is made.                                    *)
Alters(r, p) == r.kind \in {"update", "level"} /\ r.project = p
Unmade(r, p) == Alters(r, p) /\ r.phase # "done"

FaithfulTo(choice) ==
    /\ "owner" \in pEditing.touched \/ pEditing.choice.owner = choice.owner
    /\ "members" \in pEditing.touched \/ pEditing.choice.members = choice.members
    /\ "level" \in pEditing.touched \/ pEditing.choice.level = choice.level

OneAlters(p) == \A c, d \in PageCall : Alters(pCalls[c], p) /\ Alters(pCalls[d], p) => c = d
IsChosen(p) == p \in DOMAIN pRows => Projects!Kept(Projects!Chosen(pRows[p]), pWanted[p])
Made(p) == IsChosen(p) \/ \E c \in PageCall : Unmade(pCalls[c], p)
Sets(r, row, p) == Projects!Kept(Projects!Patched(Projects!Chosen(row), r.choice), pWanted[p])
Makes(p) ==
    \A c \in PageCall : Unmade(pCalls[c], p) =>
        IF pCalls[c].phase = "read" THEN Sets(pCalls[c], pCalls[c].row, p)
        ELSE p \in DOMAIN pRows => Sets(pCalls[c], pRows[p], p)
Shows(p) == p \in DOMAIN pRows => FaithfulTo(Projects!Chosen(pRows[p]))
ShowsProject(p) ==
    pEditing.open /\ pEditing.project = p =>
        /\ \A c \in PageCall : Alters(pCalls[c], p) => Updates(pCalls[c])
        /\ (\A c \in PageCall : ~Alters(pCalls[c], p)) => Shows(p)

ProjectKept(p) == OneAlters(p) /\ Made(p) /\ Makes(p) /\ ShowsProject(p)
ProjectChoices == \A p \in 1 .. pBorn \ pRaced : ProjectKept(p)

LEMMA ProjectUpdating ==
    ASSUME NEW p
    PROVE  Projects!Updating(p) <=> \E c \in PageCall : Alters(pCalls[c], p)
BY DEF Projects!Updating, Projects!Underway, Alters

LEMMA ProjectChoicesKeep == ProjectTypes /\ ProjectChoices => Projects!LastChoiceKept
<1> SUFFICES ASSUME ProjectTypes, ProjectChoices,
                    NEW p \in DOMAIN pRows \ pRaced, ~Projects!Updating(p)
             PROVE  Projects!Kept(pRows[p], pWanted[p])
  BY DEF Projects!LastChoiceKept
<1>1. \A c \in PageCall : ~Unmade(pCalls[c], p)
  BY ProjectUpdating DEF Unmade
<1>2. p \in 1 .. pBorn
  BY ProjectFacts
<1>3. Projects!Kept(Projects!Chosen(pRows[p]), pWanted[p])
  BY <1>1, <1>2 DEF ProjectChoices, ProjectKept, Made, IsChosen
<1> QED BY <1>3 DEF Projects!Kept, Projects!Chosen

LEMMA SameChoice ==
    ASSUME NEW a \in Projects!Choice, NEW b \in Projects!Choice,
           a.owner = b.owner, a.members = b.members, a.level = b.level
    PROVE  a = b
BY DEF Projects!Choice

LEMMA PatchedChosen ==
    ASSUME NEW row \in Projects!Row, NEW choice \in Projects!Choice
    PROVE  Projects!Chosen(Projects!Patched(row, choice)) = Projects!Patched(Projects!Chosen(row), choice)
<1>1. /\ Projects!Chosen(row) \in Projects!Choice /\ Projects!Chosen(row).owner = row.owner
      /\ Projects!Chosen(row).members = row.members /\ Projects!Chosen(row).level = row.level
  BY ChoicesAre DEF Projects!Chosen
<1>2. Projects!Patched(row, choice) \in Projects!Row
  BY PatchedProject
<1>3. /\ Projects!Chosen(Projects!Patched(row, choice)) \in Projects!Choice
      /\ Projects!Chosen(Projects!Patched(row, choice)).owner = Projects!Patched(row, choice).owner
      /\ Projects!Chosen(Projects!Patched(row, choice)).members = Projects!Patched(row, choice).members
      /\ Projects!Chosen(Projects!Patched(row, choice)).level = Projects!Patched(row, choice).level
  BY <1>2, ChoicesAre DEF Projects!Chosen
<1> QED BY <1>1, <1>3, PatchedProject, SameChoice

LEMMA PatchKeptProject ==
    ASSUME NEW row, NEW choice, NEW fields, NEW w, NEW v, Projects!Kept(row, w),
           IF "owner" \in fields THEN choice.owner # None ELSE choice.owner \in {None, row.owner},
           "members" \notin fields => choice.members \in {{}, row.members},
           IF "level" \in fields THEN choice.level # 0 ELSE choice.level \in {0, row.level},
           v.owner = IF "owner" \in fields THEN choice.owner ELSE w.owner,
           v.level = IF "level" \in fields THEN choice.level ELSE w.level,
           v.members = IF "members" \notin fields THEN w.members
                       ELSE IF choice.members = {} THEN Projects!Emptied ELSE choice.members,
           row \in Projects!Choice, choice \in Projects!Choice
    PROVE  Projects!Kept(Projects!Patched(row, choice), v)
<1>1. PICK new : new = Projects!Patched(row, choice)
  OBVIOUS
<1>2. /\ new.owner = IF choice.owner = None THEN row.owner ELSE choice.owner
      /\ new.members = IF choice.members = {} THEN row.members ELSE choice.members
      /\ new.level = IF choice.level = 0 THEN row.level ELSE choice.level
  BY <1>1, PatchedProject
<1>3. /\ row.owner = w.owner /\ row.level = w.level
      /\ row.members = w.members \/ w.members = Projects!Emptied
  BY DEF Projects!Kept
<1>4. new.owner = v.owner
  BY <1>2, <1>3
<1>5. new.level = v.level
  BY <1>2, <1>3
<1>6. new.members = v.members \/ v.members = Projects!Emptied
  BY <1>2, <1>3
<1> QED BY <1>1, <1>4, <1>5, <1>6 DEF Projects!Kept

(* A step that changes neither the row nor what was chosen, nor a call for *)
(* it, nor the dialog but by closing it.                                   *)
SameCall(r2, r) ==
    /\ r2.kind = r.kind /\ r2.project = r.project /\ r2.choice = r.choice /\ r2.phase = r.phase
    /\ r2.phase = "read" => r2.row = r.row
SameForm(d2, d) ==
    d2.open = d.open /\ d2.project = d.project /\ d2.choice = d.choice /\ d2.touched = d.touched

SameProject(p) ==
    /\ \A d \in PageCall : \/ SameCall(pCalls'[d], pCalls[d])
                           \/ ~Alters(pCalls[d], p) /\ ~Alters(pCalls'[d], p)
    /\ p \in DOMAIN pRows' =>
           p \in DOMAIN pRows /\ Projects!Chosen(pRows'[p]) = Projects!Chosen(pRows[p])
    /\ pWanted'[p] = pWanted[p]
    /\ SameForm(pEditing', pEditing) \/ ~(pEditing'.open /\ pEditing'.project = p)

LEMMA SameProjectKept ==
    ASSUME NEW p, ProjectKept(p), SameProject(p)
    PROVE  ProjectKept(p)'
<1>1. \A d \in PageCall : /\ Alters(pCalls'[d], p) <=> Alters(pCalls[d], p)
                          /\ Alters(pCalls'[d], p) => SameCall(pCalls'[d], pCalls[d])
                          /\ Unmade(pCalls'[d], p) <=> Unmade(pCalls[d], p)
  BY DEF SameProject, SameCall, Alters, Unmade
<1>2. OneAlters(p)'
  BY <1>1 DEF ProjectKept, OneAlters, Alters
<1>3. Made(p)'
  <2>1. CASE IsChosen(p)
    <3>1. p \in DOMAIN pRows' => Projects!Kept(Projects!Chosen(pRows'[p]), pWanted'[p])
      BY <2>1 DEF IsChosen, SameProject
    <3> QED BY <3>1 DEF Made, IsChosen, Projects!Kept, Projects!Chosen
  <2>2. CASE \E c \in PageCall : Unmade(pCalls[c], p)
    BY <1>1, <2>2 DEF Made, Unmade, Alters
  <2> QED BY <2>1, <2>2 DEF ProjectKept, Made
<1>4. Makes(p)'
  <2>1. ASSUME NEW c \in PageCall, Unmade(pCalls'[c], p), pCalls'[c].phase = "read"
        PROVE  Projects!Kept(Projects!Patched(Projects!Chosen(pCalls'[c].row), pCalls'[c].choice),
                             pWanted'[p])
    <3>1. /\ Unmade(pCalls[c], p) /\ pCalls'[c].choice = pCalls[c].choice
          /\ pCalls[c].phase = "read" /\ pCalls'[c].row = pCalls[c].row
      BY <1>1, <2>1 DEF Unmade, SameCall
    <3>2. Sets(pCalls[c], pCalls[c].row, p)
      BY <3>1 DEF ProjectKept, Makes
    <3> QED BY <3>1, <3>2 DEF Sets, SameProject
  <2>2. ASSUME NEW c \in PageCall, Unmade(pCalls'[c], p), pCalls'[c].phase # "read",
               p \in DOMAIN pRows'
        PROVE  Projects!Kept(Projects!Patched(Projects!Chosen(pRows'[p]), pCalls'[c].choice),
                             pWanted'[p])
    <3>1. /\ Unmade(pCalls[c], p) /\ pCalls'[c].choice = pCalls[c].choice
          /\ pCalls[c].phase # "read"
      BY <1>1, <2>2 DEF Unmade, SameCall
    <3>2. Sets(pCalls[c], pRows[p], p)
      BY <2>2, <3>1 DEF ProjectKept, Makes, SameProject
    <3> QED BY <2>2, <3>1, <3>2 DEF Sets, SameProject
  <2> QED BY <2>1, <2>2 DEF Makes, Sets, Unmade, Alters, Projects!Patched, Projects!Chosen,
                            Projects!Kept
<1>5. ShowsProject(p)'
  <2>1. SUFFICES ASSUME pEditing'.open, pEditing'.project = p
                 PROVE  /\ \A c \in PageCall : Alters(pCalls'[c], p) => Updates(pCalls'[c])
                        /\ (\A c \in PageCall : ~Alters(pCalls'[c], p)) => Shows(p)'
    BY DEF ShowsProject, Alters, Updates
  <2>2. SameForm(pEditing', pEditing)
    BY <2>1 DEF SameProject
  <2>3. pEditing.open /\ pEditing.project = p
    BY <2>1, <2>2 DEF SameForm
  <2>4. \A c \in PageCall : Alters(pCalls'[c], p) => Updates(pCalls'[c])
    BY <1>1, <2>3 DEF ProjectKept, ShowsProject, SameCall, Updates
  <2>5. (\A c \in PageCall : ~Alters(pCalls'[c], p)) => Shows(p)
    BY <1>1, <2>3 DEF ProjectKept, ShowsProject
  <2>6. Shows(p) => Shows(p)'
    BY <2>2 DEF SameProject, Shows, FaithfulTo, SameForm, Projects!Chosen
  <2> QED BY <2>4, <2>5, <2>6
<1> QED BY <1>2, <1>3, <1>4, <1>5 DEF ProjectKept

(* The steps that touch no choice.                                         *)
LEMMA OtherProjects ==
    ASSUME ProjectChoices, UNCHANGED Projects!table, pWanted' = pWanted, pRaced \subseteq pRaced',
           \A d \in PageCall : \/ SameCall(pCalls'[d], pCalls[d])
                               \/ /\ pCalls[d].kind \notin {"update", "level"}
                                  /\ pCalls'[d].kind \notin {"update", "level"},
           SameForm(pEditing', pEditing) \/ ~pEditing'.open
    PROVE  ProjectChoices'
<1>0. pRows' = pRows /\ pBorn' = pBorn
  BY DEF Projects!table
<1>1. ASSUME NEW p \in 1 .. pBorn \ pRaced'
      PROVE  ProjectKept(p)'
  <2>1. SameProject(p)
    BY <1>0 DEF SameProject, Alters
  <2>2. ProjectKept(p)
    BY DEF ProjectChoices
  <2> QED BY <2>1, <2>2, SameProjectKept
<1> QED BY <1>0, <1>1 DEF ProjectChoices

(* A choice is made, and a call is sent that makes it.                     *)
LEMMA ChosenKept ==
    ASSUME ProjectTypes, ProjectChoices, NEW c \in PageCall, NEW p0 \in 1 .. pBorn,
           \A q \in 1 .. pBorn : q # p0 => pWanted'[q] = pWanted[q],
           pRaced' = IF Projects!Updating(p0) THEN pRaced \cup {p0} ELSE pRaced,
           UNCHANGED Projects!table,
           pCalls[c] = Projects!Idle, Alters(pCalls'[c], p0), pCalls'[c].phase = "sent",
           \A d \in PageCall : d # c => SameCall(pCalls'[d], pCalls[d]),
           SameForm(pEditing', pEditing),
           pEditing.open /\ pEditing.project = p0 => Updates(pCalls'[c]),
           p0 \in DOMAIN pRows /\ ProjectKept(p0) /\ (\A d \in PageCall : ~Alters(pCalls[d], p0))
              /\ Projects!Kept(Projects!Chosen(pRows[p0]), pWanted[p0]) =>
                  Projects!Kept(Projects!Patched(Projects!Chosen(pRows[p0]), pCalls'[c].choice),
                                pWanted'[p0])
    PROVE  ProjectChoices'
<1>0. pRows' = pRows /\ pBorn' = pBorn
  BY DEF Projects!table
<1>1. /\ \A p : ~Alters(pCalls[c], p)
      /\ Unmade(pCalls'[c], p0) /\ \A p : p # p0 => ~Alters(pCalls'[c], p)
  BY NothingAsked DEF Alters, Unmade
<1>3. ASSUME NEW p \in 1 .. pBorn \ pRaced'
      PROVE  ProjectKept(p)'
  <2>1. ProjectKept(p) /\ p \notin pRaced
    BY <1>3 DEF ProjectChoices
  <2>2. CASE p # p0
    <3>1. SameProject(p)
      BY <1>0, <1>1, <2>2 DEF SameProject
    <3> QED BY <2>1, <3>1, SameProjectKept
  <2>3. CASE p = p0
    <3>1. \A d \in PageCall : ~Alters(pCalls[d], p)
      BY <1>3, <2>3, ProjectUpdating
    <3>2. \A d \in PageCall : Alters(pCalls'[d], p) <=> d = c
      BY <1>1, <2>3, <3>1 DEF Alters, SameCall
    <3>3. p \in DOMAIN pRows => Projects!Kept(Projects!Chosen(pRows[p]), pWanted[p])
      BY <2>1, <3>1 DEF ProjectKept, Made, IsChosen, Unmade
    <3>4. OneAlters(p)'
      BY <3>2 DEF OneAlters, Alters
    <3>5. Unmade(pCalls'[c], p)
      BY <1>1, <2>3
    <3>7. Made(p)'
      BY <3>5 DEF Made, Unmade, Alters
    <3>8. Makes(p)'
      <4>1. \A d \in PageCall : Unmade(pCalls'[d], p) => d = c
        BY <3>2 DEF Unmade
      <4>2. p \in DOMAIN pRows' =>
                Projects!Kept(Projects!Patched(Projects!Chosen(pRows'[p]), pCalls'[c].choice),
                              pWanted'[p])
        BY <1>0, <2>1, <2>3, <3>1, <3>3
      <4>3. pCalls'[c].phase # "read"
        OBVIOUS
      <4> QED BY <4>1, <4>2, <4>3 DEF Makes, Sets, Unmade, Alters, Projects!Patched,
                                      Projects!Chosen, Projects!Kept
    <3>9. ShowsProject(p)'
      <4>1. pEditing'.open /\ pEditing'.project = p => Updates(pCalls'[c])
        BY <2>3 DEF SameForm
      <4> QED BY <3>2, <4>1 DEF ShowsProject, Alters, Updates
    <3> QED BY <3>4, <3>7, <3>8, <3>9 DEF ProjectKept
  <2> QED BY <2>2, <2>3
<1> QED BY <1>0, <1>3 DEF ProjectChoices

LEMMA HandleVisibilityChoices ==
    ASSUME ProjectTypes, ProjectChoices, NEW c \in PageCall, NEW i \in DOMAIN projects,
           NEW level \in Projects!Level, Projects!HandleVisibilityChange(c, i, level)
    PROVE  ProjectChoices'
<1> DEFINE p0 == projects[i].id
           choice == [Projects!NoChoice EXCEPT !.level = level]
           r == [Projects!Ask("level") EXCEPT !.project = p0, !.choice.level = level]
<1>1. /\ p0 \in 1 .. pBorn /\ choice \in Projects!Choice /\ choice.owner = None
      /\ choice.members = {}
      /\ choice.level = level
  BY ChoicesAre, ProjectFacts DEF Projects!Choice
<1>2. /\ Projects!Choose(p0, choice, {"level"}) /\ UNCHANGED Projects!table
      /\ pEditing' = pEditing /\ ~pEditing.open /\ Projects!SendAhead(c, r)
  BY DEF Projects!HandleVisibilityChange, Projects!dialogs, Projects!OnPage
<1>3. /\ pCalls'[c].kind = "level" /\ pCalls'[c].phase = "sent"
      /\ pCalls'[c].project = p0 /\ pCalls'[c].choice.level = level
      /\ pCalls'[c].choice.owner = None /\ pCalls'[c].choice.members = {} /\ ProjectTypes'
  BY HandleVisibilityTypes
<1>4. pCalls'[c].choice \in Projects!Choice
  BY <1>3 DEF ProjectTypes, ProjectCalls, ProjectCarried, Projects!CallState
<1>5. pCalls'[c].choice = choice
  BY <1>1, <1>3, <1>4, SameChoice
<1>6. /\ pCalls[c] = Projects!Idle
      /\ \A d \in PageCall : d # c => SameCall(pCalls'[d], pCalls[d])
  <2> HIDE DEF r
  <2> QED BY <1>2, SendAheadIs DEF SameCall, Alike
<1>7. Alters(pCalls'[c], p0) /\ SameForm(pEditing', pEditing)
  BY <1>2, <1>3 DEF Alters, SameForm
<1> HIDE DEF p0, choice
<1>8. /\ \A q \in 1 .. pBorn : q # p0 => pWanted'[q] = pWanted[q]
      /\ pWanted'[p0].owner = pWanted[p0].owner /\ pWanted'[p0].level = level
      /\ pWanted'[p0].members = pWanted[p0].members
  BY <1>1, <1>2, ChooseProjectIs
<1>9. pRaced' = IF Projects!Updating(p0) THEN pRaced \cup {p0} ELSE pRaced
  BY <1>2 DEF Projects!Choose
<1>10. ASSUME p0 \in DOMAIN pRows, Projects!Kept(Projects!Chosen(pRows[p0]), pWanted[p0])
       PROVE  Projects!Kept(Projects!Patched(Projects!Chosen(pRows[p0]), choice), pWanted'[p0])
  <2>1. PICK row : row = Projects!Chosen(pRows[p0])
    OBVIOUS
  <2>2. PICK w : w = pWanted[p0]
    OBVIOUS
  <2>3. PICK v : v = pWanted'[p0]
    OBVIOUS
  <2>4. row \in Projects!Choice
    BY <1>10, <2>1, ChoicesAre, ProjectFacts
  <2>5. PICK fields : fields = {"level"}
    OBVIOUS
  <2>6. /\ v.owner = IF "owner" \in fields THEN choice.owner ELSE w.owner
        /\ v.level = IF "level" \in fields THEN choice.level ELSE w.level
        /\ v.members = IF "members" \notin fields THEN w.members
                       ELSE IF choice.members = {} THEN Projects!Emptied ELSE choice.members
    BY <1>1, <1>8, <2>2, <2>3, <2>5
  <2>7. /\ IF "owner" \in fields THEN choice.owner # None ELSE choice.owner \in {None, row.owner}
        /\ "members" \notin fields => choice.members \in {{}, row.members}
        /\ IF "level" \in fields THEN choice.level # 0 ELSE choice.level \in {0, row.level}
    BY <1>1, <2>5 DEF Projects!Level
  <2>8. Projects!Kept(row, w)
    BY <1>10, <2>1, <2>2
  <2>9. Projects!Kept(Projects!Patched(row, choice), v)
    BY <1>1, <2>4, <2>6, <2>7, <2>8, PatchKeptProject
  <2> QED BY <2>1, <2>3, <2>9
<1> QED BY <1>1, <1>2, <1>3, <1>5, <1>6, <1>7, <1>8, <1>9, <1>10, ChosenKept

LEMMA ProjectSubmitChoices ==
    ASSUME ProjectTypes, ProjectChoices, NEW c \in PageCall, Projects!HandleSubmit(c)
    PROVE  ProjectChoices'
<1> DEFINE p0 == pEditing.project
           r == [Projects!Ask("update") EXCEPT !.project = p0, !.choice = pEditing.choice]
<1>1. /\ p0 \in 1 .. pBorn /\ pEditing \in Projects!Form /\ pEditing.open
      /\ pEditing.choice \in Projects!Choice /\ Full(pEditing)
      /\ pEditing.touched \in SUBSET {"owner", "members", "level"}
  BY DialogFacts DEF Projects!HandleSubmit, Projects!Nothing, Projects!Form
<1>2. /\ Projects!Choose(p0, pEditing.choice, pEditing.touched) /\ UNCHANGED Projects!table
      /\ Projects!Send(c, r) /\ pEditing' = [pEditing EXCEPT !.busy = TRUE]
  BY DEF Projects!HandleSubmit
<1>3. /\ pCalls'[c].kind = "update" /\ pCalls'[c].phase = "sent"
      /\ pCalls'[c].project = p0 /\ pCalls'[c].choice = pEditing.choice
  BY ProjectSubmitTypes
<1>4. /\ pCalls[c] = Projects!Idle
      /\ \A d \in PageCall : d # c => SameCall(pCalls'[d], pCalls[d])
  <2> HIDE DEF r
  <2> QED BY <1>2, SendIs DEF SameCall
<1>5. Alters(pCalls'[c], p0) /\ Updates(pCalls'[c])
  BY <1>3 DEF Alters, Updates
<1>6. SameForm(pEditing', pEditing)
  BY <1>1, <1>2 DEF SameForm, Projects!Form
<1>8. PICK fields \in SUBSET {"owner", "members", "level"} : fields = pEditing.touched
  BY <1>1
<1>9. PICK choice \in Projects!Choice : choice = pEditing.choice
  BY <1>1
<1>a. choice.level \in Projects!Level /\ ("owner" \in fields => choice.owner # None)
  BY <1>1, <1>8, <1>9 DEF Full
<1>b. Projects!Choose(p0, choice, fields)
  BY <1>2, <1>8, <1>9
<1>c. /\ \A q \in 1 .. pBorn : q # p0 => pWanted'[q] = pWanted[q]
      /\ pWanted'[p0].owner = IF "owner" \in fields THEN choice.owner ELSE pWanted[p0].owner
      /\ pWanted'[p0].level = IF "level" \in fields THEN choice.level ELSE pWanted[p0].level
      /\ pWanted'[p0].members = IF "members" \notin fields THEN pWanted[p0].members
                                ELSE IF choice.members = {} THEN Projects!Emptied
                                ELSE choice.members
  <2> HIDE DEF p0
  <2> QED BY <1>1, <1>a, <1>b, ChooseProjectIs
<1>d. pRaced' = IF Projects!Updating(p0) THEN pRaced \cup {p0} ELSE pRaced
  BY <1>2 DEF Projects!Choose
<1>7. ASSUME p0 \in DOMAIN pRows, ProjectKept(p0), \A d \in PageCall : ~Alters(pCalls[d], p0),
             Projects!Kept(Projects!Chosen(pRows[p0]), pWanted[p0])
      PROVE  Projects!Kept(Projects!Patched(Projects!Chosen(pRows[p0]), pCalls'[c].choice),
                           pWanted'[p0])
  <2>1. PICK row : row = Projects!Chosen(pRows[p0])
    OBVIOUS
  <2>2. PICK w : w = pWanted[p0]
    OBVIOUS
  <2>3. PICK v : v = pWanted'[p0]
    OBVIOUS
  <2>4. row \in Projects!Choice
    BY <1>7, <2>1, ChoicesAre, ProjectFacts
  <2>5. FaithfulTo(row)
    BY <1>1, <1>7, <2>1 DEF ProjectKept, ShowsProject, Shows
  <2>6. /\ "owner" \in fields \/ choice.owner = row.owner
        /\ "members" \in fields \/ choice.members = row.members
        /\ "level" \in fields \/ choice.level = row.level
    BY <1>8, <1>9, <2>5 DEF FaithfulTo
  <2>7. choice.level # 0
    BY <1>a DEF Projects!Level
  <2>8. /\ IF "owner" \in fields THEN choice.owner # None ELSE choice.owner \in {None, row.owner}
        /\ "members" \notin fields => choice.members \in {{}, row.members}
        /\ IF "level" \in fields THEN choice.level # 0 ELSE choice.level \in {0, row.level}
    BY <1>a, <2>6, <2>7
  <2>9. /\ v.owner = IF "owner" \in fields THEN choice.owner ELSE w.owner
        /\ v.level = IF "level" \in fields THEN choice.level ELSE w.level
        /\ v.members = IF "members" \notin fields THEN w.members
                       ELSE IF choice.members = {} THEN Projects!Emptied ELSE choice.members
    BY <1>c, <2>2, <2>3
  <2>10. Projects!Kept(row, w)
    BY <1>7, <2>1, <2>2
  <2>11. Projects!Kept(Projects!Patched(row, choice), v)
    BY <2>4, <2>8, <2>9, <2>10, PatchKeptProject
  <2> QED BY <1>3, <1>9, <2>1, <2>3, <2>11
<1> HIDE DEF p0
<1> QED BY <1>1, <1>2, <1>3, <1>4, <1>5, <1>6, <1>7, <1>c, <1>d, ChosenKept

LEMMA OnEditChoices ==
    ASSUME ProjectTypes, ProjectChoices, NEW i \in DOMAIN projects, Projects!OnEdit(i)
    PROVE  ProjectChoices'
<1> DEFINE p0 == projects[i].id
           row == projects[i].row
<1>1. /\ pRows' = pRows /\ pBorn' = pBorn /\ pWanted' = pWanted /\ pCalls' = pCalls
      /\ pRaced \subseteq pRaced'
      /\ p0 \notin pRaced' =>
             Projects!Chosen(pRows[p0]) = Projects!Chosen(row) /\ ~Projects!Updating(p0)
  BY DEF Projects!OnEdit, Projects!table
<1>2. pEditing'.project = p0 /\ pEditing'.choice = Projects!Chosen(row)
  BY OnEditIs
<1>3. ASSUME NEW p \in 1 .. pBorn \ pRaced'
      PROVE  ProjectKept(p)'
  <2>1. ProjectKept(p)
    BY <1>1, <1>3 DEF ProjectChoices
  <2>2. CASE p # p0
    <3>1. SameProject(p)
      BY <1>1, <1>2, <2>2 DEF SameProject, SameCall
    <3> QED BY <2>1, <3>1, SameProjectKept
  <2>3. CASE p = p0
    <3>1. \A d \in PageCall : ~Alters(pCalls[d], p)
      BY <1>1, <1>3, <2>3, ProjectUpdating
    <3>2. OneAlters(p)' /\ Made(p)' /\ Makes(p)'
      BY <1>1, <2>1 DEF ProjectKept, OneAlters, Made, IsChosen, Makes, Sets, Alters, Unmade,
         Projects!Patched, Projects!Chosen, Projects!Kept
    <3>3. pEditing'.choice = Projects!Chosen(pRows'[p])
      BY <1>1, <1>2, <1>3, <2>3
    <3>4. ShowsProject(p)'
      BY <1>1, <3>1, <3>3 DEF ShowsProject, Shows, Alters, FaithfulTo, Projects!Chosen
    <3> QED BY <3>2, <3>4 DEF ProjectKept
  <2> QED BY <2>2, <2>3
<1> QED BY <1>1, <1>3 DEF ProjectChoices

LEMMA PickerChoices ==
    ASSUME ProjectTypes, ProjectChoices, Projects!Picker
    PROVE  ProjectChoices'
<1>0. UNCHANGED Projects!table /\ pWanted' = pWanted /\ pCalls' = pCalls /\ pRaced' = pRaced
  BY PickerIs DEF Projects!history
<1>a. pRows' = pRows /\ pBorn' = pBorn
  BY <1>0 DEF Projects!table
<1>1. pEditing' = pEditing \/ (pEditing.open /\ Picked(pEditing', pEditing))
  BY PickerIs
<1>2. CASE pEditing' = pEditing
  BY <1>0, <1>2, OtherProjects DEF SameCall, SameForm
<1>3. CASE pEditing.open /\ Picked(pEditing', pEditing)
  <2>1. ASSUME NEW p \in 1 .. pBorn \ pRaced
        PROVE  ProjectKept(p)'
    <3>1. ProjectKept(p)
      BY DEF ProjectChoices
    <3>2. OneAlters(p)' /\ Made(p)' /\ Makes(p)'
      BY <1>0, <1>a, <3>1 DEF ProjectKept, OneAlters, Made, IsChosen, Makes, Sets, Alters,
         Unmade, Projects!Patched, Projects!Chosen, Projects!Kept
    <3>3. ShowsProject(p)'
      BY <1>0, <1>a, <1>3, <3>1
         DEF ProjectKept, ShowsProject, Shows, Alters, Updates, FaithfulTo, Picked, Projects!Chosen
    <3> QED BY <3>2, <3>3 DEF ProjectKept
  <2> QED BY <1>0, <1>a, <2>1 DEF ProjectChoices
<1> QED BY <1>1, <1>2, <1>3

LEMMA PlainProjects ==
    ASSUME ProjectTypes, ProjectChoices, NEW c \in PageCall,
           pCalls[c] = Projects!Idle, pCalls'[c].kind \notin {"update", "level"},
           \A d \in PageCall : d # c => SameCall(pCalls'[d], pCalls[d]),
           UNCHANGED Projects!table, pWanted' = pWanted, pRaced' = pRaced, pEditing' = pEditing
    PROVE  ProjectChoices'
<1>1. pCalls[c].kind = "none"
  BY NothingAsked
<1>2. SameForm(pEditing', pEditing)
  BY DEF SameForm
<1> QED BY <1>1, <1>2, OtherProjects

LEMMA ProjectAdministratorChoices ==
    ASSUME ProjectTypes, ProjectChoices, Projects!Administrator \/ Projects!Picker
    PROVE  ProjectChoices'
<1>1. ASSUME NEW c \in PageCall, Projects!Search(c)
      PROVE  ProjectChoices'
  <2>1. pCalls'[c].kind = "list" /\ \A d \in PageCall : d # c => SameCall(pCalls'[d], pCalls[d])
    <3>1. /\ pCalls'[c].kind = "list"
          /\ \A d \in PageCall : d # c =>
                Alike(pCalls'[d], pCalls[d]) /\ pCalls'[d].phase = pCalls[d].phase
      BY <1>1, SearchTypes
    <3> QED BY <3>1 DEF SameCall, Alike
  <2> QED BY <1>1, <2>1, PlainProjects
             DEF Projects!Search, Projects!dialogs, Projects!history
<1>2. ASSUME NEW c \in PageCall, NEW from \in DOMAIN projects, NEW to \in DOMAIN projects,
             Projects!HandleDragEnd(c, from, to)
      PROVE  ProjectChoices'
  <2> DEFINE r == [Projects!Ask("reorder") EXCEPT !.items = Numbering(Projects!Moved(projects, from, to))]
  <2>1. Projects!SendAhead(c, r)
    BY <1>2 DEF Projects!HandleDragEnd, Numbering
  <2> HIDE DEF r
  <2>2. pCalls[c] = Projects!Idle /\ \A d \in PageCall : d # c => SameCall(pCalls'[d], pCalls[d])
    BY <2>1, SendAheadIs DEF SameCall, Alike
  <2>3. pCalls'[c].kind = "reorder"
    BY <1>2, HandleDragEndTypes
  <2> QED BY <1>2, <2>2, <2>3, PlainProjects
             DEF Projects!HandleDragEnd, Projects!dialogs
<1>3. ASSUME NEW c \in PageCall, NEW i \in DOMAIN projects, Projects!HandleDelete(c, i)
      PROVE  ProjectChoices'
  <2> DEFINE r == [Projects!Ask("delete") EXCEPT !.project = projects[i].id]
  <2>1. Projects!Send(c, r)
    BY <1>3 DEF Projects!HandleDelete
  <2> HIDE DEF r
  <2>2. pCalls[c] = Projects!Idle /\ \A d \in PageCall : d # c => SameCall(pCalls'[d], pCalls[d])
    BY <2>1, SendIs DEF SameCall
  <2>3. pCalls'[c].kind = "delete"
    BY <1>3, ProjectDeleteTypes
  <2> QED BY <1>3, <2>2, <2>3, PlainProjects
             DEF Projects!HandleDelete, Projects!dialogs, Projects!history
<1>4. ASSUME NEW c \in PageCall,
             \/ Projects!HandleSingleSubmit(c)
             \/ \E p \in DOMAIN pRows \cup {Projects!Nothing}, u \in Person \cup {None},
                    replace \in BOOLEAN :
                   Projects!HandleBulkSubmit(c, p, u, replace)
      PROVE  ProjectChoices'
  <2>1. PICK r : Projects!Send(c, r)
    BY <1>4 DEF Projects!HandleSingleSubmit, Projects!HandleBulkSubmit
  <2>2. pCalls[c] = Projects!Idle /\ \A d \in PageCall : d # c => SameCall(pCalls'[d], pCalls[d])
    BY <2>1, SendIs DEF SameCall
  <2>3. pCalls'[c].kind \in {"create", "batch"}
    BY <1>4, ProjectCreateTypes
  <2>4. UNCHANGED Projects!table /\ pWanted' = pWanted /\ pRaced' = pRaced /\ pEditing' = pEditing
    BY <1>4 DEF Projects!HandleSingleSubmit, Projects!HandleBulkSubmit, Projects!history
  <2> QED BY <2>2, <2>3, <2>4, PlainProjects
<1>5. CASE Projects!CancelEdit
  <2>1. ~pEditing'.open
    BY <1>5, ClosedBusy, DialogFacts DEF Projects!CancelEdit, Projects!Form
  <2>2. pCalls' = pCalls /\ UNCHANGED Projects!table /\ pWanted' = pWanted /\ pRaced' = pRaced
    BY <1>5 DEF Projects!CancelEdit, Projects!history
  <2> QED BY <2>1, <2>2, OtherProjects DEF SameCall
<1>6. CASE Projects!OpenCreate \/ Projects!CloseCreate
  <2>1. pCalls' = pCalls /\ UNCHANGED Projects!table /\ pWanted' = pWanted /\ pRaced' = pRaced
            /\ pEditing' = pEditing
    BY <1>6 DEF Projects!OpenCreate, Projects!CloseCreate, Projects!history
  <2> QED BY <2>1, OtherProjects DEF SameCall, SameForm
<1>7. CASE Projects!Administrator
  BY <1>1, <1>2, <1>3, <1>4, <1>5, <1>6, <1>7, HandleVisibilityChoices, ProjectSubmitChoices,
     OnEditChoices DEF Projects!Administrator
<1> QED BY <1>7, PickerChoices

(* The service has done a call: for what it was not for, for a new one,    *)
(* and for the one it changes.                                             *)
LEMMA DoneFacts ==
    ASSUME ProjectTypes, NEW c \in PageCall, Projects!Done(c)
    PROVE  /\ pCalls'[c].kind = pCalls[c].kind /\ pCalls'[c].project = pCalls[c].project
           /\ pCalls'[c].phase = "done"
           /\ \A d \in PageCall : d # c => SameCall(pCalls'[d], pCalls[d])
<1>1. /\ \A x \in PageCall : Alike(pCalls'[x], pCalls[x])
      /\ pCalls'[c].phase = "done"
      /\ \A x \in PageCall : x # c => pCalls'[x].phase = pCalls[x].phase
  BY ProjectDoneCalls
<1> QED BY <1>1 DEF Alike, SameCall

LEMMA UntouchedProject ==
    ASSUME ProjectTypes, ProjectChoices, NEW c \in PageCall, Projects!Done(c),
           pEditing' = pEditing,
           NEW p \in 1 .. pBorn \ pRaced, ~Alters(pCalls[c], p),
           p \in DOMAIN pRows' =>
               p \in DOMAIN pRows /\ Projects!Chosen(pRows'[p]) = Projects!Chosen(pRows[p]),
           pWanted'[p] = pWanted[p]
    PROVE  ProjectKept(p)'
<1>1. SameProject(p)
  BY DoneFacts DEF SameProject, SameForm, Alters
<1> QED BY <1>1, SameProjectKept DEF ProjectChoices

LEMMA NewProject ==
    ASSUME ProjectTypes, NEW c \in PageCall, Projects!Done(c), pEditing' = pEditing,
           NEW p, p = pBorn + 1, Projects!Chosen(pRows'[p]) = pWanted'[p]
    PROVE  ProjectKept(p)'
<1>1. \A d \in PageCall : pCalls'[d].project = pCalls[d].project
  BY DoneFacts DEF SameCall
<1>2. \A d \in PageCall : pCalls[d].project # p
  BY ProjectCallFacts
<1>3. \A d \in PageCall : ~Alters(pCalls'[d], p) /\ ~Unmade(pCalls'[d], p)
  BY <1>1, <1>2 DEF Alters, Unmade
<1>4. pEditing.project # p
  BY ProjectFacts
<1>5. OneAlters(p)' /\ Makes(p)'
  BY <1>3 DEF OneAlters, Makes, Sets, Alters, Unmade
<1>6. ShowsProject(p)'
  BY <1>4 DEF ShowsProject
<1>7. Made(p)'
  BY DEF Made, IsChosen, Projects!Chosen, Projects!Kept
<1> QED BY <1>5, <1>6, <1>7 DEF ProjectKept

LEMMA AlteredProject ==
    ASSUME ProjectTypes, ProjectChoices, NEW c \in PageCall, Projects!Done(c),
           pEditing' = pEditing,
           NEW p \in 1 .. pBorn \ pRaced, Alters(pCalls[c], p),
           Projects!Kept(Projects!Chosen(pRows'[p]), pWanted'[p])
    PROVE  ProjectKept(p)'
<1>1. ProjectKept(p)
  BY DEF ProjectChoices
<1>2. \A d \in PageCall : Alters(pCalls[d], p) => d = c
  BY <1>1 DEF ProjectKept, OneAlters
<1>3. \A d \in PageCall : (Alters(pCalls'[d], p) <=> d = c) /\ ~Unmade(pCalls'[d], p)
  BY <1>2, DoneFacts DEF Alters, Unmade, SameCall
<1>4. OneAlters(p)'
  BY <1>3 DEF OneAlters, Alters
<1>5. Makes(p)'
  BY <1>3 DEF Makes, Sets, Unmade, Alters
<1>6. Made(p)'
  BY DEF Made, IsChosen, Projects!Chosen, Projects!Kept
<1>7. ShowsProject(p)'
  <2>1. pEditing.open /\ pEditing.project = p => Updates(pCalls'[c])
    BY <1>1, DoneFacts DEF ProjectKept, ShowsProject, Updates
  <2> QED BY <1>3, <2>1 DEF ShowsProject, Alters, Updates
<1> QED BY <1>4, <1>5, <1>6, <1>7 DEF ProjectKept

LEMMA CreatedProject ==
    ASSUME ProjectTypes, ProjectChoices, NEW c \in PageCall, Projects!Done(c),
           UNCHANGED <<pEditing, pRaced>>,
           NEW choice \in Projects!Choice, choice.level \in Projects!Level,
           NEW kept \in {pRows, <<>>},
           pBorn < MaxProjects, pCalls[c].kind \in {"create", "batch"},
           pRows' = Projects!Created(kept, choice), pWanted' = Projects!Added(pWanted, choice),
           pBorn' = pBorn + 1
    PROVE  ProjectChoices'
<1>1. /\ DOMAIN pRows' = DOMAIN kept \cup {pBorn + 1}
      /\ \A p \in DOMAIN kept : pRows'[p] = kept[p]
      /\ pRows'[pBorn + 1] = NewRow(choice) /\ NewRow(choice) \in Projects!Row
      /\ \A p \in 1 .. pBorn : pWanted'[p] = pWanted[p]
      /\ pWanted'[pBorn + 1] = choice
  BY ProjectCreatedTypes
<1>2. Projects!Chosen(NewRow(choice)) = choice
  <2>1. /\ Projects!Chosen(NewRow(choice)) \in Projects!Choice
        /\ Projects!Chosen(NewRow(choice)).owner = choice.owner
        /\ Projects!Chosen(NewRow(choice)).members = choice.members
        /\ Projects!Chosen(NewRow(choice)).level = choice.level
    BY <1>1, ChoicesAre DEF Projects!Chosen, NewRow
  <2> QED BY <2>1, SameChoice
<1>3. ASSUME NEW p \in 1 .. pBorn' \ pRaced'
      PROVE  ProjectKept(p)'
  <2>1. CASE p = pBorn + 1
    BY <1>1, <1>2, <2>1, NewProject
  <2>2. CASE p # pBorn + 1
    <3>1. p \in 1 .. pBorn \ pRaced
      BY <1>3, <2>2, ProjectFacts
    <3>2. ASSUME p \in DOMAIN pRows'
          PROVE  p \in DOMAIN pRows /\ Projects!Chosen(pRows'[p]) = Projects!Chosen(pRows[p])
      <4>1. p \in DOMAIN kept /\ pRows'[p] = kept[p]
        BY <1>1, <2>2, <3>2
      <4>2. DOMAIN <<>> = {}
        OBVIOUS
      <4>3. kept = pRows
        BY <4>1, <4>2
      <4> QED BY <4>1, <4>3
    <3>3. pWanted'[p] = pWanted[p]
      BY <1>1, <3>1
    <3>4. ~Alters(pCalls[c], p)
      BY DEF Alters
    <3> QED BY <3>1, <3>2, <3>3, <3>4, UntouchedProject
  <2> QED BY <2>1, <2>2
<1> QED BY <1>3 DEF ProjectChoices

LEMMA ProjectServiceChoices ==
    ASSUME ProjectTypes, ProjectChoices, NEW c \in PageCall, Projects!Service(c)
    PROVE  ProjectChoices'
<1> DEFINE call == pCalls[c]
<1>0. /\ call \in Projects!CallState /\ ProjectCarried(call, pBorn)
      /\ pCalls = [d \in PageCall |-> pCalls[d]]
      /\ pRows \in [DOMAIN pRows -> Projects!Row] /\ DOMAIN pRows \subseteq 1 .. pBorn
      /\ pBorn \in Nat
      /\ call.choice \in Projects!Choice
  BY ProjectFacts, ProjectCallFacts DEF Projects!CallState
<1>1. CASE Projects!ListProjects(c)
  <2>1. \A d \in PageCall : d # c => pCalls'[d] = pCalls[d]
    BY <1>1, ListProjectsTypes
  <2>2. pCalls[c].kind = "list" /\ pCalls'[c].kind = "list"
    BY <1>1, ListProjectsTypes DEF Projects!ListProjects
  <2>3. \A d \in PageCall : \/ SameCall(pCalls'[d], pCalls[d])
                            \/ /\ pCalls[d].kind \notin {"update", "level"}
                               /\ pCalls'[d].kind \notin {"update", "level"}
    BY <2>1, <2>2 DEF SameCall
  <2>4. /\ UNCHANGED Projects!table /\ pWanted' = pWanted /\ pRaced' = pRaced
        /\ SameForm(pEditing', pEditing)
    BY <1>1 DEF Projects!ListProjects, Projects!dialogs, Projects!history, SameForm
  <2> QED BY <2>3, <2>4, OtherProjects
<1>2. CASE Projects!SaveProject(c)
  <2>1. /\ Projects!Done(c) /\ pRaced' = pRaced /\ pWanted' = pWanted /\ pEditing' = pEditing
        /\ pBorn' = pBorn /\ call.kind \in {"update", "level"} /\ call.phase = "read"
        /\ pRows' = [q \in DOMAIN pRows \cup {call.project} |->
                        IF q = call.project THEN Projects!Patched(call.row, call.choice)
                        ELSE pRows[q]]
    BY <1>2 DEF Projects!SaveProject, Projects!dialogs
  <2>2. ASSUME NEW p \in 1 .. pBorn \ pRaced
        PROVE  ProjectKept(p)'
    <3>1. CASE p # call.project
      <4>1. /\ ~Alters(pCalls[c], p)
            /\ p \in DOMAIN pRows' => p \in DOMAIN pRows /\ pRows'[p] = pRows[p]
        BY <2>1, <3>1 DEF Alters
      <4> QED BY <2>1, <4>1, UntouchedProject
    <3>2. CASE p = call.project
      <4>1. Alters(pCalls[c], p) /\ Unmade(pCalls[c], p)
        BY <2>1, <3>2 DEF Alters, Unmade
      <4>2. Sets(call, call.row, p)
        BY <2>1, <2>2, <4>1 DEF ProjectChoices, ProjectKept, Makes
      <4>3. call.row \in Projects!Row /\ pRows'[p] = Projects!Patched(call.row, call.choice)
        BY <1>0, <2>1, <3>2 DEF Projects!CallState
      <4>4. Projects!Kept(Projects!Chosen(pRows'[p]), pWanted'[p])
        BY <1>0, <2>1, <4>2, <4>3, PatchedChosen DEF Sets
      <4> QED BY <2>1, <4>1, <4>4, AlteredProject
    <3> QED BY <3>1, <3>2
  <2> QED BY <2>1, <2>2 DEF ProjectChoices
<1>7. CASE Projects!ReadProject(c)
  <2> DEFINE row == pRows[call.project]
             r == [call EXCEPT !.phase = "read", !.row = row]
  <2>1. /\ row \in Projects!Row /\ call.phase = "sent" /\ call.project \in DOMAIN pRows
        /\ call.kind \in {"update", "level"}
        /\ pRows' = pRows /\ pBorn' = pBorn /\ pWanted' = pWanted /\ pRaced' = pRaced
        /\ pEditing' = pEditing
    BY <1>0, <1>7 DEF Projects!ReadProject, Projects!table, Projects!dialogs, Projects!history
  <2>2. \A x \in PageCall : pCalls'[x] = IF x = c THEN r ELSE pCalls[x]
    BY <1>0, <1>7 DEF Projects!ReadProject
  <2> HIDE DEF row
  <2>3. Alike(r, call) /\ r.phase = "read" /\ r.row = row
    BY <1>0, <2>1, ReadIs
  <2> HIDE DEF r
  <2>4. /\ \A d \in PageCall : d # c => SameCall(pCalls'[d], pCalls[d])
        /\ pCalls'[c].kind = call.kind /\ pCalls'[c].project = call.project
        /\ pCalls'[c].choice = call.choice /\ pCalls'[c].phase = "read"
        /\ pCalls'[c].row = pRows[call.project]
    BY <2>2, <2>3 DEF SameCall, Alike, row
  <2>5. ASSUME NEW p \in 1 .. pBorn \ pRaced
        PROVE  ProjectKept(p)'
    <3>0. ProjectKept(p)
      BY DEF ProjectChoices
    <3>1. CASE p # call.project
      <4>1. SameProject(p)
        BY <2>1, <2>4, <3>1 DEF SameProject, SameForm, Alters
      <4> QED BY <3>0, <4>1, SameProjectKept
    <3>2. CASE p = call.project
      <4>1. Alters(call, p) /\ Unmade(call, p) /\ call.phase # "read" /\ p \in DOMAIN pRows
        BY <2>1, <3>2 DEF Alters, Unmade
      <4>2. \A d \in PageCall : Alters(pCalls[d], p) => d = c
        BY <3>0, <4>1 DEF ProjectKept, OneAlters
      <4>3. \A d \in PageCall : Alters(pCalls'[d], p) <=> d = c
        BY <2>4, <3>2, <4>1, <4>2 DEF Alters, SameCall
      <4>4. Unmade(pCalls'[c], p)
        BY <2>4, <4>3 DEF Unmade
      <4>5. Sets(call, pRows[p], p)
        BY <3>0, <4>1 DEF ProjectKept, Makes
      <4>6. Projects!Kept(Projects!Patched(Projects!Chosen(pCalls'[c].row), pCalls'[c].choice),
                          pWanted'[p])
        BY <2>1, <2>4, <3>2, <4>5 DEF Sets
      <4>7. OneAlters(p)' /\ Made(p)'
        BY <4>3, <4>4 DEF OneAlters, Made, Alters, Unmade
      <4>8. Makes(p)'
        <5>1. \A d \in PageCall : Unmade(pCalls'[d], p) => d = c
          BY <4>3 DEF Unmade
        <5> QED BY <2>4, <4>6, <5>1 DEF Makes, Sets, Unmade, Alters, Projects!Patched,
                                        Projects!Chosen, Projects!Kept
      <4>9. ShowsProject(p)'
        <5>1. pEditing'.open /\ pEditing'.project = p => Updates(pCalls'[c])
          BY <2>1, <2>4, <3>0, <4>1 DEF ProjectKept, ShowsProject, Updates
        <5> QED BY <4>3, <5>1 DEF ShowsProject, Alters, Updates
      <4> QED BY <4>7, <4>8, <4>9 DEF ProjectKept
    <3> QED BY <3>1, <3>2
  <2> QED BY <2>1, <2>5 DEF ProjectChoices
<1>3. CASE Projects!DeleteProject(c)
  <2>1. /\ Projects!Done(c) /\ pRaced' = pRaced /\ pWanted' = pWanted /\ pEditing' = pEditing
        /\ call.kind = "delete" /\ pBorn' = pBorn
        /\ pRows' = [p \in DOMAIN pRows \ {call.project} |-> pRows[p]]
    BY <1>3 DEF Projects!DeleteProject, Projects!Restrict, Projects!history, Projects!dialogs
  <2>2. ASSUME NEW p \in 1 .. pBorn \ pRaced
        PROVE  ProjectKept(p)'
    <3>1. /\ ~Alters(pCalls[c], p)
          /\ p \in DOMAIN pRows' => p \in DOMAIN pRows /\ pRows'[p] = pRows[p]
      BY <2>1 DEF Alters
    <3> QED BY <2>1, <3>1, UntouchedProject
  <2> QED BY <2>1, <2>2 DEF ProjectChoices
<1>4. CASE Projects!ReorderProjects(c)
  <2>1. /\ Projects!Done(c) /\ pRaced' = pRaced /\ pWanted' = pWanted /\ pEditing' = pEditing
        /\ call.kind = "reorder" /\ pBorn' = pBorn /\ pRows' = Projects!Numbered(call.items)
    BY <1>4 DEF Projects!ReorderProjects, Projects!history, Projects!dialogs
  <2>2. /\ DOMAIN pRows' = DOMAIN pRows
        /\ \A p \in DOMAIN pRows : /\ pRows'[p].owner = pRows[p].owner
                                   /\ pRows'[p].members = pRows[p].members
                                   /\ pRows'[p].level = pRows[p].level
    <3>1. ProjectList(call.items, pBorn)
      BY <1>0 DEF ProjectCarried
    <3> HIDE DEF call
    <3> DEFINE items == call.items
    <3>2. ProjectList(items, pBorn) /\ pRows' = Projects!Numbered(items)
      BY <2>1, <3>1
    <3> HIDE DEF items
    <3> QED BY <3>2, NumberedIs
  <2>3. ASSUME NEW p \in 1 .. pBorn \ pRaced
        PROVE  ProjectKept(p)'
    <3>1. /\ ~Alters(pCalls[c], p)
          /\ p \in DOMAIN pRows' =>
                 p \in DOMAIN pRows /\ Projects!Chosen(pRows'[p]) = Projects!Chosen(pRows[p])
      BY <2>1, <2>2, <2>3 DEF Projects!Chosen, Alters
    <3> QED BY <2>1, <3>1, UntouchedProject
  <2> QED BY <2>1, <2>2, <2>3 DEF ProjectChoices
<1>5. CASE Projects!CreateProject(c)
  <2>1. call.choice.level \in Projects!Level /\ call.kind \in {"create", "batch"}
    BY <1>0, <1>5 DEF ProjectCarried, Projects!CreateProject
  <2> QED BY <1>0, <1>5, <2>1, CreatedProject DEF Projects!CreateProject, Projects!dialogs
<1>6. CASE Projects!BatchCreateProjects(c)
  <2>1. /\ call.choice.level \in Projects!Level /\ call.kind = "batch" /\ Projects!Done(c)
        /\ UNCHANGED <<pEditing, pRaced>>
    BY <1>0, <1>6 DEF ProjectCarried, Projects!BatchCreateProjects, Projects!dialogs
  <2>2. CASE UNCHANGED <<Projects!table, pWanted>>
    <3>1. ASSUME NEW p \in 1 .. pBorn \ pRaced
          PROVE  ProjectKept(p)'
      <4>1. ~Alters(pCalls[c], p) /\ pRows' = pRows /\ pWanted' = pWanted
        BY <2>1, <2>2 DEF Alters, Projects!table
      <4> QED BY <2>1, <4>1, UntouchedProject
    <3> QED BY <2>1, <2>2, <3>1 DEF ProjectChoices, Projects!table
  <2>3. CASE /\ pBorn < MaxProjects
             /\ pRows' = Projects!Created(IF call.replace THEN <<>> ELSE pRows, call.choice)
             /\ pBorn' = pBorn + 1
             /\ pWanted' = Projects!Added(pWanted, call.choice)
    <3> DEFINE kept == IF call.replace THEN <<>> ELSE pRows
    <3>1. kept \in {pRows, <<>>}
      OBVIOUS
    <3> HIDE DEF kept
    <3>2. pRows' = Projects!Created(kept, call.choice)
      BY <2>3 DEF kept
    <3> QED BY <1>0, <2>1, <2>3, <3>1, <3>2, CreatedProject
  <2> QED BY <1>6, <2>2, <2>3 DEF Projects!BatchCreateProjects
<1> QED BY <1>1, <1>2, <1>3, <1>4, <1>5, <1>6, <1>7 DEF Projects!Service

(* A call that was answered is for nothing any more: when it was lost, the *)
(* project it was for raced.                                               *)
LEMMA AnsweredChoice ==
    ASSUME ProjectChoices, NEW c \in PageCall, NEW r, r.kind \notin {"update", "level"},
           \A d \in PageCall : pCalls'[d] = IF d = c THEN r ELSE pCalls[d],
           UNCHANGED Projects!table, pWanted' = pWanted, pRaced \subseteq pRaced',
           SameForm(pEditing', pEditing) \/ ~pEditing'.open,
           \A p \in 1 .. pBorn \ pRaced' : Alters(pCalls[c], p) =>
              pCalls[c].phase = "done" /\ (Updates(pCalls[c]) => ~pEditing'.open)
    PROVE  ProjectChoices'
<1>0. pRows' = pRows /\ pBorn' = pBorn
  BY DEF Projects!table
<1>1. ASSUME NEW p \in 1 .. pBorn \ pRaced'
      PROVE  ProjectKept(p)'
  <2>1. ProjectKept(p) /\ ~Alters(pCalls'[c], p)
    BY DEF ProjectChoices, Alters
  <2>2. CASE ~Alters(pCalls[c], p)
    <3>1. SameProject(p)
      BY <1>0, <2>1, <2>2 DEF SameProject, SameCall
    <3> QED BY <2>1, <3>1, SameProjectKept
  <2>3. CASE Alters(pCalls[c], p)
    <3>1. \A d \in PageCall : ~Alters(pCalls'[d], p)
      BY <2>1, <2>3 DEF ProjectKept, OneAlters
    <3>2. \A d \in PageCall : ~Unmade(pCalls[d], p)
      BY <1>1, <2>1, <2>3 DEF ProjectKept, OneAlters, Unmade
    <3>3. IsChosen(p)
      BY <2>1, <3>2 DEF ProjectKept, Made
    <3>4. OneAlters(p)' /\ Made(p)' /\ Makes(p)'
      BY <1>0, <3>1, <3>3 DEF OneAlters, Made, IsChosen, Makes, Sets, Alters, Unmade,
         Projects!Chosen, Projects!Kept
    <3>5. pEditing.open /\ pEditing.project = p => Updates(pCalls[c])
      BY <2>1, <2>3 DEF ProjectKept, ShowsProject
    <3>6. ShowsProject(p)'
      BY <1>1, <2>3, <3>5 DEF ShowsProject, SameForm
    <3> QED BY <3>4, <3>6 DEF ProjectKept
  <2> QED BY <2>2, <2>3
<1> QED BY <1>0, <1>1 DEF ProjectChoices

LEMMA ProjectAnsweredChoices ==
    ASSUME ProjectTypes, ProjectChoices, NEW c \in PageCall,
           Projects!ShowProjects(c) \/ Projects!Settle(c) \/ Projects!Succeed(c)
               \/ Projects!TakeBack(c) \/ Projects!Fail(c)
    PROVE  ProjectChoices'
<1>0. /\ Projects!Idle.kind \notin {"update", "level"}
      /\ Projects!Refetched(pCalls[c]).kind \notin {"update", "level"}
      /\ pEditing \in Projects!Form
  BY NothingAsked, RefetchedIs, ProjectFacts
<1>1. CASE Projects!ShowProjects(c) \/ Projects!Settle(c)
  <2>1. \A d \in PageCall : pCalls'[d] = IF d = c THEN Projects!Idle ELSE pCalls[d]
    BY <1>1, ShowProjectsTypes, SettleTypes
  <2>2. /\ UNCHANGED Projects!table /\ pWanted' = pWanted /\ pRaced' = pRaced
        /\ SameForm(pEditing', pEditing)
        /\ pCalls[c].phase = "done" /\ ~Updates(pCalls[c])
    BY <1>1 DEF Projects!ShowProjects, Projects!Settle, Projects!dialogs,
       Projects!history, SameForm, Updates
  <2> QED BY <1>0, <2>1, <2>2, AnsweredChoice
<1>2. CASE Projects!Succeed(c)
  <2>1. \A d \in PageCall : pCalls'[d] = IF d = c THEN Projects!Refetched(pCalls[c]) ELSE pCalls[d]
    BY <1>2, SucceedTypes
  <2>2. /\ UNCHANGED Projects!table /\ pWanted' = pWanted /\ pRaced' = pRaced /\ pCalls[c].phase = "done"
        /\ pEditing' = IF pCalls[c].kind = "update" THEN Projects!Left(pEditing) ELSE pEditing
    BY <1>2 DEF Projects!Succeed, Projects!history
  <2>3. (SameForm(pEditing', pEditing) \/ ~pEditing'.open) /\ (Updates(pCalls[c]) => ~pEditing'.open)
    BY <1>0, <2>2, LeftIs DEF SameForm, Updates
  <2> QED BY <1>0, <2>1, <2>2, <2>3, AnsweredChoice
<1>3. CASE Projects!TakeBack(c)
  <2>1. \A d \in PageCall : pCalls'[d] = IF d = c THEN Projects!Refetched(pCalls[c]) ELSE pCalls[d]
    BY <1>3, TakeBackTypes
  <2>2. /\ UNCHANGED Projects!table /\ pWanted' = pWanted /\ SameForm(pEditing', pEditing)
        /\ Projects!Lost(c)
    BY <1>3 DEF Projects!TakeBack, Projects!dialogs, SameForm
  <2>3. pRaced \subseteq pRaced' /\ \A p \in 1 .. pBorn \ pRaced' : ~Alters(pCalls[c], p)
    BY <2>2 DEF Projects!Lost, Alters
  <2> QED BY <1>0, <2>1, <2>2, <2>3, AnsweredChoice
<1>4. CASE Projects!Fail(c)
  <2>1. \A d \in PageCall : pCalls'[d] = IF d = c THEN Projects!Idle ELSE pCalls[d]
    BY <1>4, FailTypes
  <2>2. SameForm(pEditing', pEditing)
    BY <1>4, FailTypes DEF SameForm
  <2>3. UNCHANGED Projects!table /\ pWanted' = pWanted /\ Projects!Lost(c)
    BY <1>4 DEF Projects!Fail
  <2>4. pRaced \subseteq pRaced' /\ \A p \in 1 .. pBorn \ pRaced' : ~Alters(pCalls[c], p)
    BY <2>3 DEF Projects!Lost, Alters
  <2> QED BY <1>0, <2>1, <2>2, <2>3, <2>4, AnsweredChoice
<1> QED BY <1>1, <1>2, <1>3, <1>4

-----------------------------------------------------------------------------
(* The projects: all of it.                                                *)
ProjectsGood == ProjectTypes /\ ProjectChoices

LEMMA ProjectsFreshGood ==
    ASSUME Projects!Fresh, NEW kind \in {"none", "list"}, NEW c \in PageCall,
           pCalls = [x \in PageCall |-> IF x = c THEN [Projects!Idle EXCEPT !.kind = kind] ELSE Projects!Idle]
    PROVE  ProjectsGood
<1>1. /\ ProjectTypes /\ pCalls[c].kind = kind
      /\ \A x \in PageCall : pCalls[x].kind \in {"none", kind}
  BY ProjectFreshTypes
<1>2. ~pEditing.open /\ \A p \in DOMAIN pRows : pWanted[p] = Projects!Chosen(pRows[p])
  BY ClosedIs DEF Projects!Fresh
<1>3. \A x \in PageCall : pCalls[x].kind \notin {"update", "level"}
  BY <1>1
<1>4. ProjectChoices
  BY <1>2, <1>3 DEF ProjectChoices, ProjectKept, OneAlters, Made, IsChosen, Makes, ShowsProject,
     Alters, Unmade, Projects!Kept
<1> QED BY <1>1, <1>4 DEF ProjectsGood

LEMMA ProjectsStart ==
    ASSUME Projects!Init
    PROVE  ProjectsGood /\ ProjectKnown
<1>1. PICK c \in PageCall :
          pCalls = [x \in PageCall |-> IF x = c THEN [Projects!Idle EXCEPT !.kind = "list"] ELSE Projects!Idle]
  BY DEF Projects!Init
<1> QED BY <1>1, ProjectsFreshGood, ProjectFreshKnown DEF Projects!Init

LEMMA ProjectsUnopened ==
    ASSUME Projects!Unopened, NEW c \in PageCall
    PROVE  ProjectsGood
<1>1. [Projects!Idle EXCEPT !.kind = "none"] = Projects!Idle
  <2>1. [Projects!Idle EXCEPT !.kind = Projects!Idle.kind] = Projects!Idle
    BY NothingAsked DEF Projects!CallState
  <2> QED BY <2>1, NothingAsked
<1>2. pCalls = [x \in PageCall |-> IF x = c THEN [Projects!Idle EXCEPT !.kind = "none"] ELSE Projects!Idle]
  BY <1>1 DEF Projects!Unopened
<1> QED BY <1>2, ProjectsFreshGood DEF Projects!Unopened

LEMMA ProjectsGoodKept ==
    ASSUME ProjectsGood, Projects!Next
    PROVE  ProjectsGood'
<1>1. ProjectTypes'
  BY ProjectTypesKept DEF ProjectsGood
<1>2. ProjectChoices'
  BY ProjectAdministratorChoices, ProjectServiceChoices, ProjectAnsweredChoices
     DEF ProjectsGood, Projects!Next
<1> QED BY <1>1, <1>2 DEF ProjectsGood

-----------------------------------------------------------------------------
(* The site: what is known of both pages, and what is shown by the one     *)
(* that is open.  A page that was never opened shows nothing yet.          *)
SiteGood ==
    /\ pathname \in {"users", "projects"}
    /\ UsersGood /\ ProjectsGood
    /\ pathname = "users" => UserKnown
    /\ pathname = "projects" => ProjectKnown

LEMMA UsersStay ==
    ASSUME UNCHANGED usersPage
    PROVE  (UsersGood => UsersGood') /\ (UserKnown => UserKnown')
<1>1. UserTypes => UserTypes'
  BY DEF usersPage, UserTypes, UserTable, UserCalls, Carried, UserList, UserDialogs, Waits,
     UserShown
<1>2. UserChoices => UserChoices'
  <2>1. \A u : SameFor(u)
    BY DEF usersPage, SameFor
  <2> QED BY <2>1, SameKept DEF usersPage, UserChoices
<1>3. UserKnown => UserKnown'
  BY KnownKept DEF usersPage
<1> QED BY <1>1, <1>2, <1>3 DEF UsersGood

LEMMA ProjectsStay ==
    ASSUME UNCHANGED projectsPage
    PROVE  (ProjectsGood => ProjectsGood') /\ (ProjectKnown => ProjectKnown')
<1>1. ProjectTypes => ProjectTypes'
  <2>1. ProjectTable => ProjectTable'
    BY DEF projectsPage, ProjectTable
  <2>2. ProjectCalls => ProjectCalls'
    BY DEF projectsPage, ProjectCalls, ProjectCarried, ProjectList, Updates, Creates
  <2>3. ProjectDialogs => ProjectDialogs'
    BY DEF projectsPage, ProjectDialogs, Updates, Creates, Full
  <2>4. ProjectShown => ProjectShown'
    BY DEF projectsPage, ProjectShown, ProjectList
  <2> QED BY <2>1, <2>2, <2>3, <2>4 DEF projectsPage, ProjectTypes
<1>2. ProjectChoices => ProjectChoices'
  <2>1. \A p : SameProject(p)
    BY DEF projectsPage, SameProject, SameCall, SameForm
  <2> QED BY <2>1, SameProjectKept DEF projectsPage, ProjectChoices
<1>3. ProjectKnown => ProjectKnown'
  BY ProjectKnownFrom DEF projectsPage, ProjectKnown
<1> QED BY <1>1, <1>2, <1>3 DEF ProjectsGood

LEMMA SiteGoodHolds == SiteSpec => []SiteGood
<1>1. ASSUME SiteInit
      PROVE  SiteGood
  <2>1. CASE pathname = "users" /\ Users!Init /\ Projects!Unopened
    <3>1. PICK c \in PageCall : TRUE
      BY <2>1 DEF Users!Init
    <3>2. UsersGood /\ UserKnown
      BY <2>1, UsersStart
    <3>3. ProjectsGood
      BY <2>1, <3>1, ProjectsUnopened
    <3> QED BY <2>1, <3>2, <3>3 DEF SiteGood
  <2>2. CASE pathname = "projects" /\ Projects!Init /\ Users!Unopened
    <3>1. PICK c \in PageCall : TRUE
      BY <2>2 DEF Projects!Init
    <3>2. ProjectsGood /\ ProjectKnown
      BY <2>2, ProjectsStart
    <3>3. UsersGood
      BY <2>2, <3>1, UsersUnopened
    <3> QED BY <2>2, <3>2, <3>3 DEF SiteGood
  <2> QED BY <1>1, <2>1, <2>2 DEF SiteInit
<1>2. ASSUME SiteGood, [SiteNext]_siteVars
      PROVE  SiteGood'
  <2>1. CASE UsersStep
    <3>1. pathname = "users" /\ Users!Next /\ UNCHANGED <<pathname, projectsPage>>
      BY <2>1 DEF UsersStep
    <3>2. UsersGood' /\ UserKnown'
      BY <1>2, <3>1, UsersGoodKept, UserKnownKept DEF SiteGood, UsersGood
    <3>3. ProjectsGood'
      BY <1>2, <3>1, ProjectsStay DEF SiteGood
    <3> QED BY <3>1, <3>2, <3>3 DEF SiteGood
  <2>2. CASE ProjectsStep
    <3>1. pathname = "projects" /\ Projects!Next /\ UNCHANGED <<pathname, usersPage>>
      BY <2>2 DEF ProjectsStep
    <3>2. ProjectsGood' /\ ProjectKnown'
      BY <1>2, <3>1, ProjectsGoodKept, ProjectKnownKept DEF SiteGood, ProjectsGood
    <3>3. UsersGood'
      BY <1>2, <3>1, UsersStay DEF SiteGood
    <3> QED BY <3>1, <3>2, <3>3 DEF SiteGood
  <2>3. CASE UNCHANGED siteVars
    BY <1>2, <2>3, UsersStay, ProjectsStay DEF siteVars, SiteGood
  <2> QED BY <1>2, <2>1, <2>2, <2>3 DEF SiteNext
<1> QED BY <1>1, <1>2, PTL DEF SiteSpec

(* The administrator's tables keep their types: no row is shown twice, and *)
(* a dialog whose buttons are blocked waits for a call that is under way.  *)
THEOREM SiteTypeCorrect == SiteSpec => []SiteTypeOK
<1>1. SiteGood => SiteTypeOK
  BY UserTypesAreTypes, ProjectTypesAreTypes DEF SiteGood, UsersGood, ProjectsGood, SiteTypeOK
<1> QED BY <1>1, SiteGoodHolds, PTL

(* When no call is under way the page that is open shows what the table    *)
(* holds, unless what it shows strayed: by a list that was read before a   *)
(* change, by two changes shown ahead at once, by a level that was saved   *)
(* over what its project had become, by a lost or refused call.            *)
THEOREM PagesShowTablesHolds == SiteSpec => []PagesShowTables
<1>1. SiteGood => PagesShowTables
  BY UserKnownShows, ProjectKnownShows DEF SiteGood, ProjectsGood, PagesShowTables
<1> QED BY <1>1, SiteGoodHolds, PTL

(* A row ends with what was last chosen for it, by the badges of the page  *)
(* or by the dialogs, which send every field: but for a position that was  *)
(* emptied and members that were all taken away, which the services do not *)
(* do, and unless a choice raced.                                          *)
THEOREM ChoicesKeptHolds == SiteSpec => []ChoicesKept
<1>1. SiteGood => ChoicesKept
  BY UserChoicesKeep, ProjectChoicesKeep DEF SiteGood, UsersGood, ProjectsGood, ChoicesKept
<1> QED BY <1>1, SiteGoodHolds, PTL
=============================================================================
