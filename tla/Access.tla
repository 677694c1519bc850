-------------------------------- MODULE Access --------------------------------
(***************************************************************************)
(* Requests for access to documents and the permissions granted for them.  *)
(*                                                                         *)
(* RequestAccess looks for what would make the request superfluous and     *)
(* inserts it, each in a statement of its own.  GrantAccess reads the      *)
(* request, then decides it in a transaction that holds the lock of its    *)
(* row; a transaction reads what others have committed, and no index keeps *)
(* the permissions of a user for a document apart.                         *)
(***************************************************************************)
EXTENDS Integers, FiniteSets

CONSTANTS
    User, Document,
    Super,          \* the users whose role is super
    Call,           \* calls that may be under way at once
    MaxCalls        \* bound: calls in a behaviour

ASSUME PairAssumption == User # {} /\ Document # {}
ASSUME SuperAssumption == Super \subseteq User
ASSUME MaxCallsAssumption == MaxCalls \in Nat

VARIABLES
    requests,       \* the table access_requests, by id
    permissions,    \* the table permissions, by id
    calls,
    begun,          \* calls so far
    granted,        \* history: the level last granted, by user and document
    askedTwice,     \* history: where two calls were past the look for a pending
                    \* request at once, or one got past it though there was one
    reopened,       \* history: where a decided request was set to pending again
    grantedTwice    \* history: where two approvals found no permission before
                    \* either had inserted one

tables == <<requests, permissions>>
history == <<granted, askedTwice, reopened, grantedTwice>>
vars == <<tables, calls, begun, history>>

-----------------------------------------------------------------------------
Full == 3
Level == 0 .. Full
Denied == -1
Pair == User \X Document
Id == 1 .. MaxCalls

(* A decision is any number the owner sends.                               *)
Status == {"pending", "approved", "rejected", "other"}

RequestRow == [pair : Pair, status : Status]
PermissionRow == [pair : Pair, level : Level]

(* A call asks for a pair, or decides the request with an id.              *)
CallState ==
    [phase : {"none", "asked", "unasked", "unpermitted", "read", "locked", "found"},
     pair : Pair,
     id : 0 .. MaxCalls,
     status : Status,
     level : Level,
     found : Nat]               \* the permission that was found, or 0

Idle == [phase |-> "none", pair |-> CHOOSE p \in Pair : TRUE, id |-> 0,
         status |-> "pending", level |-> 1, found |-> 0]

Init ==
    /\ requests = <<>>
    /\ permissions = <<>>
    /\ calls = [c \in Call |-> Idle]
    /\ begun = 0
    /\ granted = [p \in Pair |-> Denied]
    /\ askedTwice = {}
    /\ reopened = {}
    /\ grantedTwice = {}

Of(table, p) == {i \in DOMAIN table : table[i].pair = p}
Pending(p) == {r \in Of(requests, p) : requests[r].status = "pending"}
NewId(table) == Cardinality(DOMAIN table) + 1
Insert(table, row) ==
    [i \in DOMAIN table \cup {NewId(table)} |->
        IF i = NewId(table) THEN row ELSE table[i]]

Begin(c, call) ==
    /\ begun < MaxCalls
    /\ begun' = begun + 1
    /\ calls[c] = Idle
    /\ calls' = [calls EXCEPT ![c] = call]
Step(c, phase) == calls' = [calls EXCEPT ![c].phase = phase]
End(c) == calls' = [calls EXCEPT ![c] = Idle]

-----------------------------------------------------------------------------
(* The answer: any of the permissions, by the order of random ids; with    *)
(* none, or if the look for one fails, full access to what the own         *)
(* department has published.                                               *)
CheckAccess(p, owns, published, fails) ==
    LET found == IF fails THEN {} ELSE {permissions[i].level : i \in Of(permissions, p)} IN
    IF p[1] \in Super \/ owns THEN {Full}
    ELSE IF found # {} THEN found
    ELSE IF published THEN {Full}
    ELSE {Denied}

-----------------------------------------------------------------------------
RequestAccess(c, p, level) ==
    /\ Begin(c, [Idle EXCEPT !.phase = "asked", !.pair = p, !.level = level])
    /\ UNCHANGED <<tables, history>>

(* Mutant: a request is looked for that was decided.                       *)
OpenDecided(p) == Of(requests, p) \ Pending(p)

Open(p) == Pending(p)

(* A look that fails counts as one that found nothing.                     *)
LookForPending(c) ==
    LET p == calls[c].pair
        others == {x \in Call \ {c} : /\ calls[x].phase \in {"unasked", "unpermitted"}
                                      /\ calls[x].pair = p}
    IN
    /\ calls[c].phase = "asked"
    /\ \/ /\ Open(p) = {}
          /\ Step(c, "unasked")
          /\ askedTwice' = IF others = {} THEN askedTwice ELSE askedTwice \cup {p}
       \/ /\ Open(p) # {}
          /\ End(c)
          /\ UNCHANGED askedTwice
       \/ /\ Open(p) # {}
          /\ Step(c, "unasked")
          /\ askedTwice' = askedTwice \cup {p}
    /\ UNCHANGED <<tables, begun, granted, reopened, grantedTwice>>

(* First returns any of the permissions, by the order of their random ids. *)
(* None suffices, or the look fails.                                       *)
LookForPermission(c) ==
    /\ calls[c].phase = "unasked"
    /\ \/ Step(c, "unpermitted")
       \/ /\ \E i \in Of(permissions, calls[c].pair) : permissions[i].level >= calls[c].level
          /\ End(c)
    /\ UNCHANGED <<tables, begun, history>>

(* Mutant: the request is created without a status.                        *)
RequestedNone(p) == [pair |-> p, status |-> "none"]

Requested(p) == [pair |-> p, status |-> "pending"]

CreateRequest(c) ==
    /\ calls[c].phase = "unpermitted"
    /\ requests' = Insert(requests, Requested(calls[c].pair))
    /\ End(c)
    /\ UNCHANGED <<permissions, begun, history>>

-----------------------------------------------------------------------------
(* The owner decides a request, whatever was decided before.               *)
GrantAccess(c, r, status, level) ==
    /\ r \in DOMAIN requests
    /\ Begin(c, [Idle EXCEPT !.phase = "read", !.pair = requests[r].pair,
                             !.id = r, !.status = status, !.level = level])
    /\ UNCHANGED <<tables, history>>

(* Save takes the lock of the row until the transaction ends.              *)
SaveRequest(c) ==
    /\ calls[c].phase = "read"
    /\ \A x \in Call : calls[x].phase \in {"locked", "found"} => calls[x].id # calls[c].id
    /\ Step(c, "locked")
    /\ UNCHANGED <<tables, begun, history>>

(* The permission of the requester, if there is one; only an approval      *)
(* looks for it.                                                           *)
FindPermission(c) ==
    LET p == calls[c].pair
        held == Of(permissions, p)
    IN  /\ calls[c].phase = "locked"
        /\ \E i \in IF calls[c].status = "approved" /\ held # {} THEN held ELSE {0} :
              calls' = [calls EXCEPT ![c].phase = "found", ![c].found = i]
        /\ grantedTwice' =
              IF /\ calls[c].status = "approved" /\ held = {}
                 /\ \E x \in Call \ {c} :
                       /\ calls[x].phase = "found" /\ calls[x].status = "approved"
                       /\ calls[x].found = 0 /\ calls[x].pair = p
              THEN grantedTwice \cup {p} ELSE grantedTwice
        /\ UNCHANGED <<tables, begun, granted, askedTwice, reopened>>

(* Mutant: the permission that was found is left as it is.                 *)
PermittedOnce(p, found, level) ==
    IF found = 0 THEN Insert(permissions, [pair |-> p, level |-> level])
    ELSE permissions

Permitted(p, found, level) ==
    IF found = 0 THEN Insert(permissions, [pair |-> p, level |-> level])
    ELSE [permissions EXCEPT ![found].level = level]

(* Mutant: a rejection grants, and an approval does not.                   *)
GrantsRejected(status) == status = "rejected"

Grants(status) == status = "approved"

Commit(c) ==
    LET call == calls[c] IN
    /\ call.phase = "found"
    /\ requests' = [requests EXCEPT ![call.id].status = call.status]
    /\ permissions' = IF Grants(call.status)
                      THEN Permitted(call.pair, call.found, call.level)
                      ELSE permissions
    /\ granted' = IF call.status = "approved"
                  THEN [granted EXCEPT ![call.pair] = call.level] ELSE granted
    /\ reopened' = IF call.status = "pending" /\ requests[call.id].status # "pending"
                   THEN reopened \cup {call.pair} ELSE reopened
    /\ End(c)
    /\ UNCHANGED <<begun, askedTwice, grantedTwice>>

(* A statement that writes fails, and a transaction is rolled back with    *)
(* it; a commit that fails is not looked at, and ends like this too.       *)
Rollback(c) ==
    /\ calls[c].phase \in {"unpermitted", "read", "locked", "found"}
    /\ End(c)
    /\ UNCHANGED <<tables, begun, history>>

-----------------------------------------------------------------------------
Next ==
    \E c \in Call :
        \/ \E p \in Pair, level \in Level : RequestAccess(c, p, level)
        \/ LookForPending(c) \/ LookForPermission(c) \/ CreateRequest(c)
        \/ \E r \in Id, status \in Status, level \in Level :
              GrantAccess(c, r, status, level)
        \/ SaveRequest(c) \/ FindPermission(c) \/ Commit(c) \/ Rollback(c)

Spec == Init /\ [][Next]_vars

-----------------------------------------------------------------------------
(* Rows are numbered in the order of insertion, and what a call decides or *)
(* found is there.                                                         *)
TypeOK ==
    /\ requests \in [1 .. Cardinality(DOMAIN requests) -> RequestRow]
    /\ permissions \in [1 .. Cardinality(DOMAIN permissions) -> PermissionRow]
    /\ calls \in [Call -> CallState]
    /\ \A c \in Call :
          /\ calls[c].id \in DOMAIN requests \cup {0}
          /\ calls[c].found \in Of(permissions, calls[c].pair) \cup {0}
    /\ begun \in 0 .. MaxCalls
    /\ granted \in [Pair -> Level \cup {Denied}]
    /\ askedTwice \subseteq Pair /\ reopened \subseteq Pair /\ grantedTwice \subseteq Pair

(* A user has one pending request for a document, unless two calls looked  *)
(* for one before either had made its own, the look of a call failed and   *)
(* it asked all the same, or the owner set a decided request to pending    *)
(* (RequestAccess and GrantAccess).                                        *)
OnePending ==
    \A p \in Pair : Cardinality(Pending(p)) <= 1 \/ p \in askedTwice \cup reopened

(* A request that says approved has given its requester a permission, in   *)
(* whatever order requests are decided, and decided again.                 *)
ApprovedHasPermission ==
    \A r \in DOMAIN requests :
        requests[r].status = "approved" => Of(permissions, requests[r].pair) # {}

(* The level a user is let in with is the one granted last, whatever was   *)
(* granted before and whatever the department would give, unless two       *)
(* approvals both found no permission, or the look for it fails            *)
(* (CheckAccess and GrantAccess).                                          *)
AccessIsLastGrant ==
    \A p \in Pair :
        p[1] \notin Super /\ granted[p] # Denied /\ p \notin grantedTwice =>
            \A published \in BOOLEAN :
                CheckAccess(p, FALSE, published, FALSE) = {granted[p]}

=============================================================================
