--------------------------- MODULE Visibility_proofs --------------------------
(***************************************************************************)
(* Proofs about what a user may see and where it is shown: Access, for any *)
(* users, documents and calls, and any number of calls; and Explorer, for  *)
(* any documents, favourites and first documents, and any number of        *)
(* operations.                                                             *)
(***************************************************************************)
EXTENDS Access, Explorer, FiniteSetTheorems, TLAPS

-----------------------------------------------------------------------------
(* A table has rows 1 .. n for some n, which its cardinality is.           *)
Table(S) == UNION {[1 .. n -> S] : n \in Nat}

LEMMA TableShape ==
    ASSUME NEW S, NEW table \in Table(S)
    PROVE  /\ Cardinality(DOMAIN table) \in Nat
           /\ table \in [1 .. Cardinality(DOMAIN table) -> S]
<1>1. PICK n \in Nat : table \in [1 .. n -> S]
    BY DEF Table
<1>2. DOMAIN table = 1 .. n
    BY <1>1
<1>3. Cardinality(1 .. n) = n
    <2>1. Cardinality(1 .. n) = IF 1 > n THEN 0 ELSE n - 1 + 1
        BY FS_Interval
    <2> QED BY <2>1
<1> QED BY <1>1, <1>2, <1>3

LEMMA TableInsert ==
    ASSUME NEW S, NEW table \in Table(S), NEW row \in S
    PROVE  /\ Insert(table, row) \in Table(S)
           /\ DOMAIN Insert(table, row) = DOMAIN table \cup {NewId(table)}
           /\ NewId(table) \in Nat \ DOMAIN table
           /\ NewId(table) # 0
           /\ Insert(table, row)[NewId(table)] = row
           /\ \A i \in DOMAIN table : Insert(table, row)[i] = table[i]
<1> DEFINE n == Cardinality(DOMAIN table)
<1>1. n \in Nat /\ table \in [1 .. n -> S]
    BY TableShape
<1> HIDE DEF n
<1>2. NewId(table) = n + 1
    BY DEF NewId, n
<1>3. DOMAIN table = 1 .. n
    BY <1>1
<1>4. 1 .. n \cup {n + 1} = 1 .. (n + 1)
    BY <1>1
<1>5. n + 1 \notin 1 .. n /\ n + 1 # 0 /\ n + 1 \in Nat
    BY <1>1
<1>6. Insert(table, row) \in [1 .. (n + 1) -> S]
    BY <1>1, <1>2, <1>3, <1>4 DEF Insert
<1>7. Insert(table, row) \in Table(S)
    BY <1>5, <1>6 DEF Table
<1>8. DOMAIN Insert(table, row) = DOMAIN table \cup {NewId(table)}
    BY DEF Insert
<1>9. Insert(table, row)[NewId(table)] = row
    BY DEF Insert
<1>10. \A i \in DOMAIN table : Insert(table, row)[i] = table[i]
    BY <1>2, <1>3, <1>5 DEF Insert
<1> QED BY <1>2, <1>3, <1>5, <1>7, <1>8, <1>9, <1>10

(* For the two tables.                                                     *)
LEMMA InsertRequest ==
    ASSUME NEW table \in Table(RequestRow), NEW row \in RequestRow
    PROVE  /\ Insert(table, row) \in Table(RequestRow)
           /\ DOMAIN Insert(table, row) = DOMAIN table \cup {NewId(table)}
           /\ NewId(table) \notin DOMAIN table
           /\ Insert(table, row)[NewId(table)] = row
           /\ \A i \in DOMAIN table : Insert(table, row)[i] = table[i]
<1> DEFINE S == RequestRow
<1>0. table \in Table(S) /\ row \in S
    OBVIOUS
<1> HIDE DEF S
<1>1. Insert(table, row) \in Table(S)
    BY <1>0, TableInsert
<1>2. DOMAIN Insert(table, row) = DOMAIN table \cup {NewId(table)}
    BY <1>0, TableInsert
<1>3. NewId(table) \notin DOMAIN table
    BY <1>0, TableInsert
<1>4. Insert(table, row)[NewId(table)] = row
    BY DEF Insert
<1>5. \A i \in DOMAIN table : Insert(table, row)[i] = table[i]
    BY <1>3 DEF Insert
<1> QED BY <1>1, <1>2, <1>3, <1>4, <1>5, Zenon DEF S

LEMMA InsertPermission ==
    ASSUME NEW table \in Table(PermissionRow), NEW row \in PermissionRow
    PROVE  /\ Insert(table, row) \in Table(PermissionRow)
           /\ DOMAIN Insert(table, row) = DOMAIN table \cup {NewId(table)}
           /\ NewId(table) \notin DOMAIN table
           /\ Insert(table, row)[NewId(table)] = row
           /\ \A i \in DOMAIN table : Insert(table, row)[i] = table[i]
<1> DEFINE S == PermissionRow
<1>0. table \in Table(S) /\ row \in S
    OBVIOUS
<1> HIDE DEF S
<1>1. Insert(table, row) \in Table(S)
    BY <1>0, TableInsert
<1>2. DOMAIN Insert(table, row) = DOMAIN table \cup {NewId(table)}
    BY <1>0, TableInsert
<1>3. NewId(table) \notin DOMAIN table
    BY <1>0, TableInsert
<1>4. Insert(table, row)[NewId(table)] = row
    BY DEF Insert
<1>5. \A i \in DOMAIN table : Insert(table, row)[i] = table[i]
    BY <1>3 DEF Insert
<1> QED BY <1>1, <1>2, <1>3, <1>4, <1>5, Zenon DEF S

LEMMA TableUpdate ==
    ASSUME NEW S, NEW table \in Table(S), NEW i \in DOMAIN table, NEW row \in S
    PROVE  [table EXCEPT ![i] = row] \in Table(S)
<1>1. PICK n \in Nat : table \in [1 .. n -> S]
    BY DEF Table
<1>2. [table EXCEPT ![i] = row] \in [1 .. n -> S]
    BY <1>1
<1> QED BY <1>2 DEF Table

LEMMA TableEmpty == ASSUME NEW S PROVE <<>> \in Table(S)
<1>1. <<>> \in [1 .. 0 -> S]
    OBVIOUS
<1> QED BY <1>1 DEF Table

LEMMA TableRow ==
    ASSUME NEW S, NEW table \in Table(S), NEW i \in DOMAIN table
    PROVE  table[i] \in S
    BY DEF Table

-----------------------------------------------------------------------------
(* The parts of the inductive invariant.  The types, by tables:            *)
Types ==
    /\ requests \in Table(RequestRow)
    /\ permissions \in Table(PermissionRow)
    /\ calls \in [Call -> CallState]
    /\ begun \in 0 .. MaxCalls
    /\ granted \in [Pair -> Level \cup {Denied}]
    /\ askedTwice \subseteq Pair
    /\ reopened \subseteq Pair
    /\ grantedTwice \subseteq Pair

Deciding(c) == calls[c].phase \in {"read", "locked", "found"}

(* What a call has in memory is in the tables, and the request it decides  *)
(* is for its pair.                                                        *)
Remembered ==
    \A c \in Call :
        /\ calls[c].id \in DOMAIN requests \cup {0}
        /\ calls[c].found \in Of(permissions, calls[c].pair) \cup {0}
        /\ Deciding(c) => /\ calls[c].id \in DOMAIN requests
                          /\ requests[calls[c].id].pair = calls[c].pair

IInv == Types /\ Remembered /\ ApprovedHasPermission

LEMMA IdleType == Idle \in CallState
<1>1. \E p \in Pair : TRUE
    <2>1. PICK u \in User, d \in Document : TRUE
        BY PairAssumption
    <2>2. <<u, d>> \in Pair
        BY DEF Pair
    <2> QED BY <2>2
<1>2. (CHOOSE p \in Pair : TRUE) \in Pair
    BY <1>1
<1>3. 0 \in 0 .. MaxCalls /\ 1 \in Level
    BY MaxCallsAssumption DEF Level, Full
<1> QED BY <1>2, <1>3 DEF Idle, CallState, Status

LEMMA InitIInv == Init => IInv
<1> SUFFICES ASSUME Init PROVE IInv
    OBVIOUS
<1>1. Types
    <2>1. <<>> \in Table(RequestRow) /\ <<>> \in Table(PermissionRow)
        BY TableEmpty
    <2>2. begun \in 0 .. MaxCalls
        BY MaxCallsAssumption DEF Init
    <2> QED BY <2>1, <2>2, IdleType DEF Init, Types
<1>2. Remembered
    BY DEF Init, Remembered, Deciding, Idle
<1>3. ApprovedHasPermission
    BY DEF Init, ApprovedHasPermission
<1> QED BY <1>1, <1>2, <1>3 DEF IInv

-----------------------------------------------------------------------------
(* A step that ends a call, or moves it on without a table.                *)
LEMMA StepKeeps ==
    ASSUME IInv, NEW c \in Call, NEW call \in CallState, UNCHANGED tables,
           calls' = [calls EXCEPT ![c] = call],
           \/ call = Idle
           \/ /\ call.id \in DOMAIN requests \cup {0}
              /\ call.found \in Of(permissions, call.pair) \cup {0}
              /\ call.phase \in {"read", "locked", "found"} =>
                    /\ call.id \in DOMAIN requests
                    /\ requests[call.id].pair = call.pair
    PROVE  calls' \in [Call -> CallState] /\ Remembered' /\ ApprovedHasPermission'
<1>1. calls' \in [Call -> CallState] /\ calls'[c] = call
      /\ \A x \in Call \ {c} : calls'[x] = calls[x]
    BY DEF IInv, Types
<1>2. UNCHANGED <<requests, permissions>>
    BY DEF tables
<1>3. Remembered'
    <2> SUFFICES ASSUME NEW x \in Call
                 PROVE  /\ calls'[x].id \in DOMAIN requests \cup {0}
                        /\ calls'[x].found \in Of(permissions, calls'[x].pair) \cup {0}
                        /\ calls'[x].phase \in {"read", "locked", "found"} =>
                              /\ calls'[x].id \in DOMAIN requests
                              /\ requests[calls'[x].id].pair = calls'[x].pair
        BY <1>2 DEF Remembered, Deciding, Of
    <2>1. CASE x # c
        BY <1>1, <2>1 DEF IInv, Remembered, Deciding
    <2>2. CASE x = c /\ call = Idle
        BY <1>1, <2>2 DEF Idle
    <2>3. CASE x = c /\ call # Idle
        BY <1>1, <2>3
    <2> QED BY <2>1, <2>2, <2>3
<1>4. ApprovedHasPermission'
    BY <1>2 DEF IInv, ApprovedHasPermission, Of
<1> QED BY <1>1, <1>3, <1>4

LEMMA PhaseType ==
    ASSUME NEW call \in CallState,
           NEW p \in {"none", "asked", "unasked", "unpermitted", "read", "locked", "found"}
    PROVE  [call EXCEPT !.phase = p] \in CallState
    BY DEF CallState

(* What a commit makes of the tables: rows keep their pairs, no permission *)
(* goes, and an approval leaves one for its pair.                          *)
LEMMA CommitTables ==
    ASSUME IInv, NEW c \in Call, Commit(c)
    PROVE  /\ requests' \in Table(RequestRow)
           /\ DOMAIN requests' = DOMAIN requests
           /\ \A r \in DOMAIN requests :
                 /\ requests'[r].pair = requests[r].pair
                 /\ requests'[r].status = IF r = calls[c].id THEN calls[c].status
                                          ELSE requests[r].status
           /\ permissions' \in Table(PermissionRow)
           /\ \A p \in Pair : Of(permissions, p) \subseteq Of(permissions', p)
           /\ calls[c].status = "approved" => Of(permissions', calls[c].pair) # {}
<1> DEFINE call == calls[c]
           row == [requests[call.id] EXCEPT !.status = call.status]
           permission == [pair |-> call.pair, level |-> call.level]
<1>1. /\ call \in CallState /\ call.phase = "found"
      /\ call.id \in DOMAIN requests /\ requests[call.id].pair = call.pair
      /\ call.status \in Status
      /\ call.found \in Of(permissions, call.pair) \cup {0}
      /\ requests \in Table(RequestRow) /\ permissions \in Table(PermissionRow)
    BY DEF IInv, Types, Remembered, Deciding, Commit, CallState
<1>2. requests[call.id] \in RequestRow
    BY <1>1, TableRow
<1>3. row \in RequestRow /\ row.pair = requests[call.id].pair /\ row.status = call.status
    BY <1>1, <1>2 DEF RequestRow
<1>4. requests' = [requests EXCEPT ![call.id] = row]
    BY DEF Commit
<1>5. permission \in PermissionRow
    BY <1>1 DEF CallState, PermissionRow
<1>6. permissions' = IF call.status = "approved"
                     THEN Permitted(call.pair, call.found, call.level)
                     ELSE permissions
    BY DEF Commit, Grants
<1>7. Permitted(call.pair, call.found, call.level) =
          IF call.found = 0 THEN Insert(permissions, permission)
          ELSE [permissions EXCEPT ![call.found].level = call.level]
    BY DEF Permitted
<1> HIDE DEF call, row, permission
<1>8. /\ requests' \in Table(RequestRow)
      /\ DOMAIN requests' = DOMAIN requests
      /\ \A r \in DOMAIN requests :
            /\ requests'[r].pair = requests[r].pair
            /\ requests'[r].status = IF r = call.id THEN call.status
                                     ELSE requests[r].status
    <2>1. requests' \in Table(RequestRow)
        BY <1>1, <1>3, <1>4, TableUpdate
    <2>2. DOMAIN requests' = DOMAIN requests
        BY <1>4
    <2>3. \A r \in DOMAIN requests : requests'[r] = IF r = call.id THEN row ELSE requests[r]
        BY <1>4
    <2> QED BY <1>3, <2>1, <2>2, <2>3
<1>9. /\ permissions' \in Table(PermissionRow)
      /\ \A p \in Pair : Of(permissions, p) \subseteq Of(permissions', p)
      /\ call.status = "approved" => Of(permissions', call.pair) # {}
    <2>1. CASE call.status # "approved"
        BY <1>1, <1>6, <2>1
    <2>2. CASE call.status = "approved" /\ call.found = 0
        <3>1. permissions' = Insert(permissions, permission)
            BY <1>6, <1>7, <2>2
        <3>2. /\ permissions' \in Table(PermissionRow)
              /\ DOMAIN permissions' = DOMAIN permissions \cup {NewId(permissions)}
              /\ permissions'[NewId(permissions)] = permission
              /\ \A i \in DOMAIN permissions : permissions'[i] = permissions[i]
            <4>1. permissions \in Table(PermissionRow)
                BY <1>1
            <4>2. /\ Insert(permissions, permission) \in Table(PermissionRow)
                  /\ DOMAIN Insert(permissions, permission)
                         = DOMAIN permissions \cup {NewId(permissions)}
                  /\ Insert(permissions, permission)[NewId(permissions)] = permission
                  /\ \A i \in DOMAIN permissions :
                        Insert(permissions, permission)[i] = permissions[i]
                BY <1>5, <4>1, InsertPermission, Zenon
            <4> QED BY <3>1, <4>2, Zenon
        <3>3. permission.pair = call.pair
            BY DEF permission
        <3>4. NewId(permissions) \in Of(permissions', call.pair)
            BY <3>2, <3>3 DEF Of
        <3> QED BY <3>2, <3>4 DEF Of
    <2>3. CASE call.status = "approved" /\ call.found # 0
        <3> DEFINE new == [permissions[call.found] EXCEPT !.level = call.level]
        <3>1. call.found \in DOMAIN permissions
              /\ permissions[call.found].pair = call.pair
            BY <1>1, <2>3 DEF Of
        <3>2. permissions[call.found] \in PermissionRow
            BY <1>1, <3>1, TableRow
        <3>3. new \in PermissionRow /\ new.pair = permissions[call.found].pair
            BY <1>1, <3>2 DEF PermissionRow, CallState
        <3>4. permissions' = [permissions EXCEPT ![call.found] = new]
            BY <1>6, <1>7, <2>3
        <3> HIDE DEF new
        <3>5. permissions' \in Table(PermissionRow)
            BY <1>1, <3>1, <3>3, <3>4, TableUpdate
        <3>6. /\ DOMAIN permissions' = DOMAIN permissions
              /\ \A i \in DOMAIN permissions : permissions'[i].pair = permissions[i].pair
            BY <3>1, <3>3, <3>4
        <3> QED BY <3>1, <3>5, <3>6 DEF Of
    <2> QED BY <2>1, <2>2, <2>3
<1> QED BY <1>8, <1>9 DEF call

LEMMA CommitIInv ==
    ASSUME IInv, NEW c \in Call, Commit(c)
    PROVE  IInv'
<1>1. /\ calls \in [Call -> CallState] /\ Types /\ Remembered
      /\ ApprovedHasPermission /\ calls[c] \in CallState
      /\ calls[c].id \in DOMAIN requests
      /\ requests[calls[c].id].pair = calls[c].pair
    BY DEF IInv, Types, Remembered, Deciding, Commit
<1>2. /\ calls' = [calls EXCEPT ![c] = Idle]
      /\ UNCHANGED <<begun, askedTwice, grantedTwice>>
    BY DEF Commit, End
<1>3. calls' \in [Call -> CallState] /\ calls'[c] = Idle
      /\ \A x \in Call \ {c} : calls'[x] = calls[x]
    BY <1>1, <1>2, IdleType
<1>4. granted' \in [Pair -> Level \cup {Denied}]
    <2>1. calls[c].level \in Level
        BY <1>1 DEF CallState
    <2> QED BY <1>1, <2>1 DEF Types, Commit
<1>5. Types'
    <2>1. reopened' \subseteq Pair
        BY <1>1 DEF Types, Commit, CallState
    <2> QED BY <1>1, <1>2, <1>3, <1>4, <2>1, CommitTables DEF Types
<1>6. Remembered'
    <2> SUFFICES ASSUME NEW x \in Call
                 PROVE  /\ calls'[x].id \in DOMAIN requests' \cup {0}
                        /\ calls'[x].found \in Of(permissions', calls'[x].pair) \cup {0}
                        /\ calls'[x].phase \in {"read", "locked", "found"} =>
                              /\ calls'[x].id \in DOMAIN requests'
                              /\ requests'[calls'[x].id].pair = calls'[x].pair
        BY DEF Remembered, Deciding, Of
    <2>1. CASE x = c
        BY <1>3, <2>1 DEF Idle
    <2>2. CASE x # c
        <3>1. calls[x].pair \in Pair
            BY <1>1 DEF CallState
        <3>2. Of(permissions, calls[x].pair) \subseteq Of(permissions', calls[x].pair)
            BY <3>1, CommitTables DEF Of
        <3> QED BY <1>1, <1>3, <2>2, <3>2, CommitTables DEF Remembered, Deciding
    <2> QED BY <2>1, <2>2
<1>7. ApprovedHasPermission'
    <2> SUFFICES ASSUME NEW r \in DOMAIN requests', requests'[r].status = "approved"
                 PROVE  Of(permissions', requests'[r].pair) # {}
        BY DEF ApprovedHasPermission, Of
    <2>1. r \in DOMAIN requests /\ requests'[r].pair = requests[r].pair
        BY CommitTables
    <2>2. requests[r].pair \in Pair
        <3>1. requests \in Table(RequestRow)
            BY <1>1 DEF Types
        <3>2. requests[r] \in RequestRow
            BY <2>1, <3>1, TableRow
        <3> QED BY <3>2 DEF RequestRow
    <2>3. CASE r = calls[c].id
        <3>1. calls[c].status = "approved"
            BY <2>1, <2>3, CommitTables
        <3>2. Of(permissions', calls[c].pair) # {}
            BY <3>1, CommitTables
        <3> QED BY <1>1, <2>1, <2>3, <3>2
    <2>4. CASE r # calls[c].id
        <3>1. requests[r].status = "approved"
            BY <2>1, <2>4, CommitTables
        <3>2. Of(permissions, requests[r].pair) # {}
            BY <1>1, <2>1, <3>1 DEF ApprovedHasPermission
        <3>3. Of(permissions, requests[r].pair) \subseteq Of(permissions', requests[r].pair)
            BY <2>2, CommitTables
        <3> QED BY <2>1, <3>2, <3>3
    <2> QED BY <2>3, <2>4
<1> QED BY <1>5, <1>6, <1>7 DEF IInv

LEMMA NextIInv == IInv /\ [Next]_vars => IInv'
<1> SUFFICES ASSUME IInv, [Next]_vars PROVE IInv'
    OBVIOUS
<1> USE DEF tables, history
<1>0. /\ calls \in [Call -> CallState] /\ Types /\ Remembered
      /\ ApprovedHasPermission
    BY DEF IInv, Types
<1>1. ASSUME NEW c \in Call, NEW p \in Pair, NEW level \in Level,
             RequestAccess(c, p, level)
      PROVE  IInv'
    <2> DEFINE call == [Idle EXCEPT !.phase = "asked", !.pair = p, !.level = level]
    <2>1. call \in CallState /\ call.id = 0 /\ call.found = 0 /\ call.phase = "asked"
        BY IdleType DEF CallState, Idle
    <2>2. calls' = [calls EXCEPT ![c] = call] /\ UNCHANGED <<tables, history>>
          /\ begun' \in 0 .. MaxCalls
        BY <1>0, <1>1, MaxCallsAssumption DEF RequestAccess, Begin, Types
    <2> HIDE DEF call
    <2>3. calls' \in [Call -> CallState] /\ Remembered' /\ ApprovedHasPermission'
        BY <2>1, <2>2, StepKeeps
    <2> QED BY <1>0, <2>2, <2>3 DEF IInv, Types
<1>2. ASSUME NEW c \in Call, LookForPending(c)
      PROVE  IInv'
    <2>1. PICK call \in {Idle, [calls[c] EXCEPT !.phase = "unasked"]} :
              calls' = [calls EXCEPT ![c] = call]
        BY <1>2 DEF LookForPending, Step, End
    <2>2. call \in CallState
        BY <1>0, IdleType, PhaseType
    <2>3. UNCHANGED <<tables, begun, granted, reopened, grantedTwice>>
        BY <1>2 DEF LookForPending
    <2>4. \/ call = Idle
          \/ /\ call.id \in DOMAIN requests \cup {0}
             /\ call.found \in Of(permissions, call.pair) \cup {0}
             /\ call.phase = "unasked"
        BY <1>0 DEF Remembered, CallState
    <2>5. calls' \in [Call -> CallState] /\ Remembered' /\ ApprovedHasPermission'
        BY <2>1, <2>2, <2>3, <2>4, StepKeeps
    <2>6. askedTwice' \subseteq Pair
        <3>1. calls[c].pair \in Pair
            BY <1>0 DEF CallState
        <3> QED BY <1>0, <1>2, <3>1 DEF LookForPending, Types
    <2> QED BY <1>0, <2>3, <2>5, <2>6 DEF IInv, Types
<1>3. ASSUME NEW c \in Call, LookForPermission(c)
      PROVE  IInv'
    <2>1. PICK call \in {Idle, [calls[c] EXCEPT !.phase = "unpermitted"]} :
              calls' = [calls EXCEPT ![c] = call]
        BY <1>3 DEF LookForPermission, Step, End
    <2>2. call \in CallState
        BY <1>0, IdleType, PhaseType
    <2>3. UNCHANGED <<tables, begun, history>>
        BY <1>3 DEF LookForPermission
    <2>4. \/ call = Idle
          \/ /\ call.id \in DOMAIN requests \cup {0}
             /\ call.found \in Of(permissions, call.pair) \cup {0}
             /\ call.phase = "unpermitted"
        BY <1>0 DEF Remembered, CallState
    <2>5. calls' \in [Call -> CallState] /\ Remembered' /\ ApprovedHasPermission'
        BY <2>1, <2>2, <2>3, <2>4, StepKeeps
    <2> QED BY <1>0, <2>3, <2>5 DEF IInv, Types
<1>4. ASSUME NEW c \in Call, CreateRequest(c)
      PROVE  IInv'
    <2> DEFINE row == Requested(calls[c].pair)
    <2>1. row \in RequestRow /\ row.status = "pending"
        BY <1>0 DEF Requested, RequestRow, CallState, Status
    <2>2. /\ requests' = Insert(requests, row)
          /\ calls' = [calls EXCEPT ![c] = Idle]
          /\ UNCHANGED <<permissions, begun, history>>
        BY <1>4 DEF CreateRequest, End
    <2> HIDE DEF row
    <2>3. /\ requests' \in Table(RequestRow)
          /\ DOMAIN requests' = DOMAIN requests \cup {NewId(requests)}
          /\ requests'[NewId(requests)] = row
          /\ \A i \in DOMAIN requests : requests'[i] = requests[i]
        <3>1. requests \in Table(RequestRow) /\ requests' = Insert(requests, row)
            BY <1>0, <2>2 DEF Types
        <3>2. /\ Insert(requests, row) \in Table(RequestRow)
              /\ DOMAIN Insert(requests, row) = DOMAIN requests \cup {NewId(requests)}
              /\ Insert(requests, row)[NewId(requests)] = row
              /\ \A i \in DOMAIN requests : Insert(requests, row)[i] = requests[i]
            BY <2>1, <3>1, InsertRequest, Zenon
        <3> QED BY <3>1, <3>2, Zenon
    <2>4. calls' \in [Call -> CallState] /\ calls'[c] = Idle
          /\ \A x \in Call \ {c} : calls'[x] = calls[x]
        BY <1>0, <2>2, IdleType
    <2>5. Remembered'
        <3> SUFFICES ASSUME NEW x \in Call
                     PROVE  /\ calls'[x].id \in DOMAIN requests' \cup {0}
                            /\ calls'[x].found \in Of(permissions, calls'[x].pair) \cup {0}
                            /\ calls'[x].phase \in {"read", "locked", "found"} =>
                                  /\ calls'[x].id \in DOMAIN requests'
                                  /\ requests'[calls'[x].id].pair = calls'[x].pair
            BY <2>2 DEF Remembered, Deciding, Of
        <3>1. CASE x = c
            BY <2>4, <3>1 DEF Idle
        <3>2. CASE x # c
            BY <1>0, <2>3, <2>4, <3>2 DEF Remembered, Deciding
        <3> QED BY <3>1, <3>2
    <2>6. ApprovedHasPermission'
        BY <1>0, <2>1, <2>2, <2>3 DEF ApprovedHasPermission, Of
    <2> QED BY <1>0, <2>2, <2>3, <2>4, <2>5, <2>6 DEF IInv, Types
<1>5. ASSUME NEW c \in Call, NEW r \in Id, NEW status \in Status,
             NEW level \in Level, GrantAccess(c, r, status, level)
      PROVE  IInv'
    <2> DEFINE call == [Idle EXCEPT !.phase = "read", !.pair = requests[r].pair,
                                    !.id = r, !.status = status, !.level = level]
    <2>1. r \in DOMAIN requests /\ requests[r].pair \in Pair
        <3>1. r \in DOMAIN requests
            BY <1>5 DEF GrantAccess
        <3>2. requests[r] \in RequestRow
            BY <1>0, <3>1, TableRow DEF Types
        <3> QED BY <3>1, <3>2 DEF RequestRow
    <2>2. /\ call \in CallState /\ call.id = r /\ call.found = 0
          /\ call.pair = requests[r].pair /\ call.status = status
        <3>1. r \in 0 .. MaxCalls
            BY MaxCallsAssumption DEF Id
        <3>2. Idle \in CallState /\ Idle.found = 0
            BY IdleType DEF Idle
        <3> QED BY <2>1, <3>1, <3>2 DEF CallState
    <2>3. calls' = [calls EXCEPT ![c] = call] /\ UNCHANGED <<tables, history>>
          /\ begun' \in 0 .. MaxCalls
        BY <1>0, <1>5, MaxCallsAssumption DEF GrantAccess, Begin, Types
    <2> HIDE DEF call
    <2>4. calls' \in [Call -> CallState] /\ Remembered' /\ ApprovedHasPermission'
        BY <2>1, <2>2, <2>3, StepKeeps
    <2> QED BY <1>0, <2>3, <2>4 DEF IInv, Types
<1>6. ASSUME NEW c \in Call, SaveRequest(c)
      PROVE  IInv'
    <2> DEFINE call == [calls[c] EXCEPT !.phase = "locked"]
    <2>1. /\ call \in CallState /\ call.id = calls[c].id /\ call.found = calls[c].found
          /\ call.pair = calls[c].pair /\ call.status = calls[c].status
        <3>1. calls[c] \in CallState
            BY <1>0
        <3> QED BY <3>1 DEF CallState
    <2>2. /\ calls' = [calls EXCEPT ![c] = call]
          /\ UNCHANGED <<tables, begun, history>>
          /\ calls[c].phase = "read"
        BY <1>6 DEF SaveRequest, Step
    <2> HIDE DEF call
    <2>3. calls' \in [Call -> CallState] /\ Remembered' /\ ApprovedHasPermission'
        BY <1>0, <2>1, <2>2, StepKeeps DEF Remembered, Deciding
    <2> QED BY <1>0, <2>2, <2>3 DEF IInv, Types
<1>7. ASSUME NEW c \in Call, FindPermission(c)
      PROVE  IInv'
    <2>1. PICK i \in Of(permissions, calls[c].pair) \cup {0} :
              calls' = [calls EXCEPT ![c].phase = "found", ![c].found = i]
        BY <1>7 DEF FindPermission
    <2> DEFINE call == [calls[c] EXCEPT !.phase = "found", !.found = i]
    <2>2. i \in Nat
        <3>1. DOMAIN permissions \subseteq Nat
            BY <1>0, TableShape DEF Types
        <3> QED BY <2>1, <3>1 DEF Of
    <2>3. /\ call \in CallState /\ call.id = calls[c].id /\ call.found = i
          /\ call.pair = calls[c].pair /\ call.status = calls[c].status
        BY <1>0, <2>2 DEF CallState
    <2>4. /\ calls' = [calls EXCEPT ![c] = call]
          /\ UNCHANGED <<tables, begun, granted, askedTwice, reopened>>
          /\ calls[c].phase = "locked"
        BY <1>0, <1>7, <2>1 DEF FindPermission, CallState
    <2> HIDE DEF call
    <2>5. calls' \in [Call -> CallState] /\ Remembered' /\ ApprovedHasPermission'
        <3>1. /\ calls[c].id \in DOMAIN requests
              /\ requests[calls[c].id].pair = calls[c].pair
            BY <1>0, <2>4 DEF Remembered, Deciding
        <3>2. UNCHANGED tables /\ call.found \in Of(permissions, call.pair) \cup {0}
            BY <2>1, <2>3, <2>4
        <3> QED BY <2>3, <2>4, <3>1, <3>2, StepKeeps
    <2>6. grantedTwice' \subseteq Pair
        <3>1. calls[c].pair \in Pair
            BY <1>0 DEF CallState
        <3> QED BY <1>0, <1>7, <3>1 DEF FindPermission, Types
    <2> QED BY <1>0, <2>4, <2>5, <2>6 DEF IInv, Types
<1>8. ASSUME NEW c \in Call, Commit(c)
      PROVE  IInv'
    BY <1>0, <1>8, CommitIInv
<1>9. ASSUME NEW c \in Call, Rollback(c)
      PROVE  IInv'
    <2>1. calls' = [calls EXCEPT ![c] = Idle] /\ UNCHANGED <<tables, begun, history>>
        BY <1>9 DEF Rollback, End
    <2>2. calls' \in [Call -> CallState] /\ Remembered' /\ ApprovedHasPermission'
        BY <2>1, IdleType, StepKeeps
    <2> QED BY <1>0, <2>1, <2>2 DEF IInv, Types
<1>10. CASE UNCHANGED vars
    BY <1>0, <1>10 DEF vars, IInv, Types, Remembered, Deciding,
                       ApprovedHasPermission, Of
<1> QED BY <1>1, <1>2, <1>3, <1>4, <1>5, <1>6, <1>7, <1>8, <1>9, <1>10 DEF Next
-----------------------------------------------------------------------------
LEMMA TypesAndMemory == IInv => TypeOK
<1> SUFFICES ASSUME IInv PROVE TypeOK
    OBVIOUS
<1>1. /\ requests \in [1 .. Cardinality(DOMAIN requests) -> RequestRow]
      /\ permissions \in [1 .. Cardinality(DOMAIN permissions) -> PermissionRow]
    BY TableShape DEF IInv, Types
<1> QED BY <1>1 DEF IInv, Types, Remembered, TypeOK

LEMMA Invariant == Spec => []IInv
    BY InitIInv, NextIInv, PTL DEF Spec

(* The rows are numbered without gaps, have their shape, and what a call   *)
(* has in memory of them is there: tables of any size (RequestAccess,      *)
(* GrantAccess).                                                           *)
THEOREM TypeCorrect == Spec => []TypeOK
    BY Invariant, TypesAndMemory, PTL

(* Whoever decides requests, in any order and however often, a request     *)
(* that says approved leaves its requester a permission (GrantAccess).     *)
THEOREM ApprovedHasPermissionHolds == Spec => []ApprovedHasPermission
<1>1. IInv => ApprovedHasPermission
    BY DEF IInv
<1> QED BY <1>1, Invariant, PTL
-----------------------------------------------------------------------------
(* The strengthening of AccessIsLastGrant.  Where no two approvals both    *)
(* found no permission, one at most is about to insert one; that there is  *)
(* none is right until it ends; and a pair has one permission at most,     *)
(* with the level granted last.                                            *)
Inserting(c) ==
    calls[c].phase = "found" /\ calls[c].status = "approved" /\ calls[c].found = 0

OneFound ==
    \A x, y \in Call :
        x # y /\ Inserting(x) /\ Inserting(y) /\ calls[x].pair = calls[y].pair
        => calls[x].pair \in grantedTwice

FoundNone ==
    \A c \in Call :
        Inserting(c) /\ calls[c].pair \notin grantedTwice
        => Of(permissions, calls[c].pair) = {}

OnePermission ==
    \A p \in Pair \ grantedTwice :
        /\ \A i, j \in Of(permissions, p) : i = j
        /\ \A i \in Of(permissions, p) : permissions[i].level = granted[p]
        /\ granted[p] # Denied => Of(permissions, p) # {}

Last == OneFound /\ FoundNone /\ OnePermission

LEMMA InitLast == Init => Last
<1> SUFFICES ASSUME Init PROVE Last
    OBVIOUS
<1>1. OneFound /\ FoundNone
    BY DEF Init, OneFound, FoundNone, Inserting, Idle
<1>2. \A p \in Pair : Of(permissions, p) = {} /\ granted[p] = Denied
    BY DEF Init, Of
<1> QED BY <1>1, <1>2 DEF Last, OnePermission

(* A step without a table in which no call gets to find a permission.      *)
LEMMA LastKept ==
    ASSUME Last, UNCHANGED <<permissions, granted, grantedTwice>>,
           \A x \in Call : calls'[x].phase = "found" => calls'[x] = calls[x]
    PROVE  Last'
<1>1. OneFound'
    BY DEF Last, OneFound, Inserting
<1>2. FoundNone'
    BY DEF Last, FoundNone, Of, Inserting
<1>3. OnePermission'
    BY DEF Last, OnePermission, Of
<1> QED BY <1>1, <1>2, <1>3 DEF Last

LEMMA FindLast ==
    ASSUME IInv, Last, NEW c \in Call, FindPermission(c)
    PROVE  Last'
<1> DEFINE p == calls[c].pair
<1>1. /\ calls \in [Call -> CallState] /\ calls[c] \in CallState
      /\ UNCHANGED <<permissions, granted>>
    BY DEF IInv, Types, FindPermission, tables
<1>2. PICK i \in IF calls[c].status = "approved" /\ Of(permissions, p) # {}
                 THEN Of(permissions, p) ELSE {0} :
          calls' = [calls EXCEPT ![c].phase = "found", ![c].found = i]
    BY DEF FindPermission
<1>3. /\ calls'[c].pair = p /\ calls'[c].status = calls[c].status /\ calls'[c].found = i
      /\ \A x \in Call \ {c} : calls'[x] = calls[x]
    BY <1>1, <1>2 DEF CallState
<1>4. grantedTwice' = IF /\ calls[c].status = "approved" /\ Of(permissions, p) = {}
                         /\ \E x \in Call \ {c} : Inserting(x) /\ calls[x].pair = p
                      THEN grantedTwice \cup {p} ELSE grantedTwice
    BY DEF FindPermission, Inserting
<1> HIDE DEF p
<1>8. Inserting(c)' => calls[c].status = "approved" /\ Of(permissions, p) = {}
    <2>1. 0 \notin Of(permissions, p)
        <3>1. permissions \in Table(PermissionRow)
            BY DEF IInv, Types
        <3>2. DOMAIN permissions = 1 .. Cardinality(DOMAIN permissions)
              /\ Cardinality(DOMAIN permissions) \in Nat
            BY <3>1, TableShape
        <3> QED BY <3>2 DEF Of
    <2> QED BY <1>2, <1>3, <2>1 DEF Inserting
<1>9. \A x \in Call \ {c} : Inserting(x)' <=> Inserting(x)
    BY <1>3 DEF Inserting
<1>5. OneFound'
    <2> SUFFICES ASSUME NEW x \in Call, NEW y \in Call, x # y,
                        Inserting(x)', Inserting(y)', calls'[x].pair = calls'[y].pair
                 PROVE  calls'[x].pair \in grantedTwice'
        BY DEF OneFound
    <2>1. CASE x # c /\ y # c
        BY <1>3, <1>4, <1>9, <2>1 DEF Last, OneFound
    <2>2. CASE x = c
        BY <1>3, <1>4, <1>8, <1>9, <2>2
    <2>3. CASE y = c
        BY <1>3, <1>4, <1>8, <1>9, <2>3
    <2> QED BY <2>1, <2>2, <2>3
<1>6. FoundNone'
    <2> SUFFICES ASSUME NEW x \in Call, Inserting(x)', calls'[x].pair \notin grantedTwice'
                 PROVE  Of(permissions, calls'[x].pair) = {}
        BY <1>1 DEF FoundNone, Of
    <2>1. CASE x # c
        BY <1>3, <1>4, <1>9, <2>1 DEF Last, FoundNone
    <2>2. CASE x = c
        BY <1>3, <1>8, <2>2
    <2> QED BY <2>1, <2>2
<1>7. OnePermission'
    BY <1>1, <1>4 DEF Last, OnePermission, Of
<1> QED BY <1>5, <1>6, <1>7 DEF Last

(* A commit where no two transactions both found no permission.            *)
LEMMA CommitOnePermission ==
    ASSUME IInv, Last, NEW c \in Call, Commit(c)
    PROVE  /\ OnePermission'
           /\ \A p \in Pair : p # calls[c].pair \/ ~Inserting(c)
                              => Of(permissions', p) = Of(permissions, p)
<1> DEFINE call == calls[c]
           permission == [pair |-> call.pair, level |-> call.level]
<1>1. /\ call \in CallState /\ call.phase = "found" /\ call.pair \in Pair
      /\ call.found \in Of(permissions, call.pair) \cup {0}
      /\ permissions \in Table(PermissionRow)
      /\ granted \in [Pair -> Level \cup {Denied}]
      /\ permission \in PermissionRow
    BY DEF IInv, Types, Remembered, Commit, CallState, PermissionRow
<1>2. /\ permissions' = IF call.status = "approved"
                        THEN Permitted(call.pair, call.found, call.level)
                        ELSE permissions
      /\ granted' = IF call.status = "approved"
                    THEN [granted EXCEPT ![call.pair] = call.level] ELSE granted
      /\ UNCHANGED grantedTwice
    BY DEF Commit, Grants
<1>3. /\ permission.pair = call.pair /\ permission.level = call.level
      /\ Permitted(call.pair, call.found, call.level) =
            IF call.found = 0 THEN Insert(permissions, permission)
            ELSE [permissions EXCEPT ![call.found].level = call.level]
    BY DEF Permitted
<1>4. call.status = "approved" /\ call.found = 0 /\ call.pair \notin grantedTwice
          => Of(permissions, call.pair) = {}
    BY <1>1 DEF Last, FoundNone, Inserting
<1>8. Inserting(c) <=> call.status = "approved" /\ call.found = 0
    BY <1>1 DEF Inserting
<1> HIDE DEF call, permission
<1> SUFFICES /\ \A p \in Pair \ grantedTwice :
                   /\ \A i, j \in Of(permissions', p) : i = j
                   /\ \A i \in Of(permissions', p) : permissions'[i].level = granted'[p]
                   /\ granted'[p] # Denied => Of(permissions', p) # {}
             /\ \A p \in Pair : \/ p # call.pair
                                \/ ~(call.status = "approved" /\ call.found = 0)
                                => Of(permissions', p) = Of(permissions, p)
    BY <1>2, <1>8 DEF OnePermission, Of, call
<1>5. CASE call.status # "approved"
    BY <1>2, <1>5 DEF Last, OnePermission
<1>6. CASE call.status = "approved" /\ call.found = 0
    <2>1. permissions' = Insert(permissions, permission)
        BY <1>2, <1>3, <1>6
    <2>2. /\ DOMAIN Insert(permissions, permission)
                 = DOMAIN permissions \cup {NewId(permissions)}
          /\ NewId(permissions) \notin DOMAIN permissions
          /\ Insert(permissions, permission)[NewId(permissions)] = permission
          /\ \A i \in DOMAIN permissions :
                Insert(permissions, permission)[i] = permissions[i]
        BY <1>1, InsertPermission, Zenon
    <2>3. PICK new : /\ DOMAIN permissions' = DOMAIN permissions \cup {new}
                     /\ new \notin DOMAIN permissions
                     /\ permissions'[new] = permission
                     /\ \A i \in DOMAIN permissions : permissions'[i] = permissions[i]
        BY <2>1, <2>2, Zenon
    <2>4. \A p \in Pair : p # call.pair => Of(permissions', p) = Of(permissions, p)
        BY <1>3, <2>3 DEF Of
    <2>5. Of(permissions', call.pair) = Of(permissions, call.pair) \cup {new}
        BY <1>3, <2>3 DEF Of
    <2>6. granted'[call.pair] = call.level
          /\ \A p \in Pair : p # call.pair => granted'[p] = granted[p]
        BY <1>1, <1>2, <1>6
    <2> SUFFICES ASSUME NEW p \in Pair \ grantedTwice
                 PROVE  /\ \A i, j \in Of(permissions', p) : i = j
                        /\ \A i \in Of(permissions', p) : permissions'[i].level = granted'[p]
                        /\ granted'[p] # Denied => Of(permissions', p) # {}
        BY <1>6, <2>4
    <2>7. CASE p = call.pair
        <3>1. Of(permissions', p) = {new}
            BY <1>4, <1>6, <2>5, <2>7
        <3> QED BY <1>3, <2>3, <2>6, <2>7, <3>1
    <2>8. CASE p # call.pair
        <3>1. Of(permissions', p) = Of(permissions, p) /\ granted'[p] = granted[p]
            BY <2>4, <2>6, <2>8
        <3>2. \A i \in Of(permissions, p) : permissions'[i] = permissions[i]
            BY <2>3 DEF Of
        <3> QED BY <3>1, <3>2 DEF Last, OnePermission
    <2> QED BY <2>7, <2>8
<1>7. CASE call.status = "approved" /\ call.found # 0
    <2>1. call.found \in DOMAIN permissions /\ permissions[call.found].pair = call.pair
        BY <1>1, <1>7 DEF Of
    <2>2. permissions[call.found] \in PermissionRow
        BY <1>1, <2>1, TableRow
    <2>3. permissions' = [permissions EXCEPT ![call.found].level = call.level]
        BY <1>2, <1>3, <1>7
    <2>4. /\ DOMAIN permissions' = DOMAIN permissions
          /\ permissions'[call.found].pair = call.pair
          /\ permissions'[call.found].level = call.level
          /\ \A i \in DOMAIN permissions \ {call.found} : permissions'[i] = permissions[i]
        BY <2>1, <2>2, <2>3 DEF PermissionRow
    <2>5. \A p : Of(permissions', p) = Of(permissions, p)
        BY <2>1, <2>4 DEF Of
    <2>6. granted'[call.pair] = call.level
          /\ \A p \in Pair : p # call.pair => granted'[p] = granted[p]
        BY <1>1, <1>2, <1>7
    <2> SUFFICES ASSUME NEW p \in Pair \ grantedTwice
                 PROVE  /\ \A i, j \in Of(permissions', p) : i = j
                        /\ \A i \in Of(permissions', p) : permissions'[i].level = granted'[p]
                        /\ granted'[p] # Denied => Of(permissions', p) # {}
        BY <2>5
    <2>7. CASE p = call.pair
        <3>1. call.found \in Of(permissions, p)
            BY <2>1, <2>7 DEF Of
        <3>2. \A i, j \in Of(permissions, p) : i = j
            BY DEF Last, OnePermission
        <3>3. Of(permissions, p) = {call.found}
            BY <3>1, <3>2
        <3> QED BY <2>4, <2>5, <2>6, <2>7, <3>3
    <2>8. CASE p # call.pair
        <3>1. \A i \in Of(permissions, p) : permissions'[i] = permissions[i]
            BY <2>1, <2>4, <2>8 DEF Of
        <3> QED BY <2>5, <2>6, <2>8, <3>1 DEF Last, OnePermission
    <2> QED BY <2>7, <2>8
<1> QED BY <1>5, <1>6, <1>7

LEMMA CommitLast ==
    ASSUME IInv, Last, NEW c \in Call, Commit(c)
    PROVE  Last'
<1>1. /\ calls \in [Call -> CallState]
      /\ calls' = [calls EXCEPT ![c] = Idle] /\ UNCHANGED grantedTwice
    BY DEF IInv, Types, Commit, End
<1>2. ~Inserting(c)' /\ \A x \in Call \ {c} : calls'[x] = calls[x]
    BY <1>1 DEF Idle, Inserting
<1>3. OneFound'
    BY <1>1, <1>2 DEF Last, OneFound, Inserting
<1>4. FoundNone'
    <2> SUFFICES ASSUME NEW x \in Call \ {c}, Inserting(x), calls[x].pair \notin grantedTwice
                 PROVE  Of(permissions', calls[x].pair) = {}
        BY <1>1, <1>2 DEF FoundNone, Of, Inserting
    <2>1. calls[x].pair # calls[c].pair \/ ~Inserting(c)
        BY DEF Last, OneFound
    <2>2. calls[x].pair \in Pair
        BY <1>1 DEF CallState
    <2>3. Of(permissions', calls[x].pair) = Of(permissions, calls[x].pair)
        BY <2>1, <2>2, CommitOnePermission
    <2> QED BY <2>3 DEF Last, FoundNone
<1> QED BY <1>3, <1>4, CommitOnePermission DEF Last

LEMMA NextLast == IInv /\ Last /\ [Next]_vars => Last'
<1> SUFFICES ASSUME IInv, Last, [Next]_vars PROVE Last'
    OBVIOUS
<1> USE DEF tables, history
<1>0. calls \in [Call -> CallState]
    BY DEF IInv, Types
<1>1. ASSUME NEW c \in Call, FindPermission(c) PROVE Last'
    BY <1>1, FindLast
<1>2. ASSUME NEW c \in Call, Commit(c) PROVE Last'
    BY <1>2, CommitLast
<1>3. ASSUME NEW c \in Call, NEW p \in Pair, NEW level \in Level,
             RequestAccess(c, p, level)
      PROVE  Last'
    BY <1>0, <1>3, LastKept DEF RequestAccess, Begin, Idle
<1>4. ASSUME NEW c \in Call,
             LookForPending(c) \/ LookForPermission(c) \/ CreateRequest(c)
      PROVE  Last'
    <2>1. \/ calls' = [calls EXCEPT ![c].phase = "unasked"]
          \/ calls' = [calls EXCEPT ![c].phase = "unpermitted"]
          \/ calls' = [calls EXCEPT ![c] = Idle]
        BY <1>4 DEF LookForPending, LookForPermission, CreateRequest, Step, End
    <2>2. \A x \in Call : calls'[x].phase = "found" => calls'[x] = calls[x]
        BY <1>0, <2>1 DEF CallState, Idle
    <2> QED BY <1>4, <2>2, LastKept DEF LookForPending, LookForPermission, CreateRequest
<1>5. ASSUME NEW c \in Call, NEW r \in Id, NEW status \in Status,
             NEW level \in Level, GrantAccess(c, r, status, level)
      PROVE  Last'
    BY <1>0, <1>5, LastKept DEF GrantAccess, Begin, Idle
<1>6. ASSUME NEW c \in Call, SaveRequest(c) \/ Rollback(c)
      PROVE  Last'
    <2>1. \/ calls' = [calls EXCEPT ![c].phase = "locked"]
          \/ calls' = [calls EXCEPT ![c] = Idle]
        BY <1>6 DEF SaveRequest, Rollback, Step, End
    <2>2. \A x \in Call : calls'[x].phase = "found" => calls'[x] = calls[x]
        BY <1>0, <2>1 DEF CallState, Idle
    <2> QED BY <1>6, <2>2, LastKept DEF SaveRequest, Rollback
<1>7. CASE UNCHANGED vars
    BY <1>7, LastKept DEF vars
<1> QED BY <1>1, <1>2, <1>3, <1>4, <1>5, <1>6, <1>7 DEF Next

LEMMA LastIsGrant == Types /\ Last => AccessIsLastGrant
<1> SUFFICES ASSUME Types, Last, NEW p \in Pair, p[1] \notin Super,
                    granted[p] # Denied, p \notin grantedTwice, NEW published \in BOOLEAN
             PROVE  CheckAccess(p, FALSE, published, FALSE) = {granted[p]}
    BY DEF AccessIsLastGrant
<1>1. Of(permissions, p) # {}
      /\ \A i \in Of(permissions, p) : permissions[i].level = granted[p]
    BY DEF Last, OnePermission
<1>2. {permissions[i].level : i \in Of(permissions, p)} = {granted[p]}
    BY <1>1
<1> QED BY <1>2 DEF CheckAccess

(* The level CheckAccess lets a user in with is the one granted last,      *)
(* however many decisions cross, but where two approvals both found no     *)
(* permission, and if its look does not fail (GrantAccess, CheckAccess).   *)
THEOREM AccessIsLastGrantHolds == Spec => []AccessIsLastGrant
<1>1. Init => IInv /\ Last
    BY InitIInv, InitLast
<1>2. IInv /\ Last /\ [Next]_vars => (IInv /\ Last)'
    BY NextIInv, NextLast
<1>3. IInv /\ Last => AccessIsLastGrant
    BY LastIsGrant DEF IInv
<1> QED BY <1>1, <1>2, <1>3, PTL DEF Spec
-----------------------------------------------------------------------------
(* The strengthening of OnePending.  Where no two calls looked before      *)
(* either had made its own, no look failed and nothing was set to pending  *)
(* again, one call at most has looked and not yet created; what it saw     *)
(* still holds; and one request at most is pending.                        *)
Twice == askedTwice \cup reopened

Asking(c) == calls[c].phase \in {"unasked", "unpermitted"}

OneAsking ==
    \A x, y \in Call :
        x # y /\ Asking(x) /\ Asking(y) /\ calls[x].pair = calls[y].pair
        => calls[x].pair \in Twice

NonePending ==
    \A c \in Call :
        Asking(c) /\ calls[c].pair \notin Twice => Pending(calls[c].pair) = {}

OneRequest ==
    \A p \in Pair \ Twice : \A i, j \in Pending(p) : i = j

Asked == OneAsking /\ NonePending /\ OneRequest

LEMMA InitAsked == Init => Asked
<1> SUFFICES ASSUME Init PROVE Asked
    OBVIOUS
<1>1. OneAsking /\ NonePending
    BY DEF Init, OneAsking, NonePending, Asking, Idle
<1>2. \A p \in Pair : Pending(p) = {}
    BY DEF Init, Pending, Of
<1> QED BY <1>1, <1>2 DEF Asked, OneRequest

(* A step after which no more is pending, but where something was set to   *)
(* pending again, and in which no call has looked.                         *)
LEMMA AskedKept ==
    ASSUME Asked, UNCHANGED askedTwice, reopened \subseteq reopened',
           \A p \in Pair \ reopened' : Pending(p)' \subseteq Pending(p),
           \A x \in Call : Asking(x)' => Asking(x) /\ calls'[x].pair = calls[x].pair
                                         /\ calls[x].pair \in Pair
    PROVE  Asked'
<1>0. Twice \subseteq Twice' /\ reopened' \subseteq Twice'
    BY DEF Twice
<1>1. OneAsking'
    BY <1>0 DEF Asked, OneAsking
<1>2. NonePending'
    BY <1>0 DEF Asked, NonePending
<1>3. OneRequest'
    BY <1>0 DEF Asked, OneRequest
<1> QED BY <1>1, <1>2, <1>3 DEF Asked

LEMMA LookAsked ==
    ASSUME IInv, Asked, NEW c \in Call, LookForPending(c)
    PROVE  Asked'
<1> DEFINE p == calls[c].pair
<1>1. /\ calls \in [Call -> CallState] /\ calls[c] \in CallState
      /\ UNCHANGED <<requests, reopened>>
    BY DEF IInv, Types, LookForPending, tables
<1>2. \/ calls' = [calls EXCEPT ![c].phase = "unasked"]
      \/ calls' = [calls EXCEPT ![c] = Idle]
    BY DEF LookForPending, Step, End
<1>3. /\ calls'[c].phase \in {"unasked", "none"}
      /\ Asking(c)' => calls'[c].pair = p /\ calls'[c].phase = "unasked"
      /\ \A x \in Call \ {c} : calls'[x] = calls[x]
    BY <1>1, <1>2 DEF CallState, Asking, Idle
<1>4. /\ askedTwice \subseteq askedTwice'
      /\ Asking(c)' /\ p \notin askedTwice' =>
            /\ Pending(p) = {}
            /\ ~\E x \in Call \ {c} : Asking(x) /\ calls[x].pair = p
    <2>1. \/ askedTwice' = askedTwice \/ askedTwice' = askedTwice \cup {p}
        BY DEF LookForPending
    <2>2. CASE calls' = [calls EXCEPT ![c] = Idle]
        BY <1>1, <2>1, <2>2 DEF Asking, Idle
    <2>3. CASE calls' # [calls EXCEPT ![c] = Idle]
        BY <2>1, <2>3 DEF LookForPending, End, Asking, Open
    <2> QED BY <2>2, <2>3
<1>5. Twice \subseteq Twice' /\ (p \notin Twice' => p \notin askedTwice')
    BY <1>1, <1>4 DEF Twice
<1> HIDE DEF p
<1>6. OneAsking'
    <2> SUFFICES ASSUME NEW x \in Call, NEW y \in Call, x # y, Asking(x)', Asking(y)',
                        calls'[x].pair = calls'[y].pair, calls'[x].pair \notin Twice'
                 PROVE  FALSE
        BY DEF OneAsking
    <2>1. CASE x # c /\ y # c
        BY <1>3, <1>5, <2>1 DEF Asked, OneAsking, Asking
    <2>2. CASE x = c
        <3>1. Asking(y) /\ calls[y].pair = p
            BY <1>3, <2>2 DEF Asking
        <3> QED BY <1>3, <1>4, <1>5, <2>2, <3>1
    <2>3. CASE y = c
        <3>1. Asking(x) /\ calls[x].pair = p
            BY <1>3, <2>3 DEF Asking
        <3> QED BY <1>3, <1>4, <1>5, <2>3, <3>1
    <2> QED BY <2>1, <2>2, <2>3
<1>7. NonePending'
    <2> SUFFICES ASSUME NEW x \in Call, Asking(x)', calls'[x].pair \notin Twice'
                 PROVE  Pending(calls'[x].pair) = {}
        BY <1>1 DEF NonePending, Pending, Of
    <2>1. CASE x # c
        BY <1>3, <1>5, <2>1 DEF Asked, NonePending, Asking
    <2>2. CASE x = c
        BY <1>3, <1>4, <1>5, <2>2
    <2> QED BY <2>1, <2>2
<1>8. OneRequest'
    BY <1>1, <1>5 DEF Asked, OneRequest, Pending, Of
<1> QED BY <1>6, <1>7, <1>8 DEF Asked

LEMMA CreateAsked ==
    ASSUME IInv, Asked, NEW c \in Call, CreateRequest(c)
    PROVE  Asked'
<1> DEFINE row == Requested(calls[c].pair)
<1>1. /\ calls \in [Call -> CallState] /\ calls[c].pair \in Pair /\ Asking(c)
      /\ requests \in Table(RequestRow) /\ row \in RequestRow
      /\ row.pair = calls[c].pair
      /\ UNCHANGED Twice /\ requests' = Insert(requests, row)
      /\ calls' = [calls EXCEPT ![c] = Idle]
    BY DEF IInv, Types, CreateRequest, End, Asking, Requested, RequestRow, Status,
           CallState, history, Twice
<1> HIDE DEF row
<1>2. PICK new : /\ DOMAIN requests' = DOMAIN requests \cup {new}
                 /\ new \notin DOMAIN requests
                 /\ requests'[new] = row
                 /\ \A i \in DOMAIN requests : requests'[i] = requests[i]
    <2>1. /\ DOMAIN Insert(requests, row) = DOMAIN requests \cup {NewId(requests)}
          /\ NewId(requests) \notin DOMAIN requests
          /\ Insert(requests, row)[NewId(requests)] = row
          /\ \A i \in DOMAIN requests : Insert(requests, row)[i] = requests[i]
        BY <1>1, InsertRequest, Zenon
    <2> QED BY <1>1, <2>1, Zenon
<1>3. \A p \in Pair : p # calls[c].pair => Pending(p)' = Pending(p)
    BY <1>1, <1>2 DEF Pending, Of
<1>4. \A p \in Pair : Pending(p)' \subseteq Pending(p) \cup {new}
    BY <1>1, <1>2 DEF Pending, Of
<1>5. ~Asking(c)' /\ \A x \in Call \ {c} : calls'[x] = calls[x]
    BY <1>1 DEF Asking, Idle
<1>6. OneAsking'
    BY <1>1, <1>5 DEF Asked, OneAsking, Asking
<1>7. NonePending'
    <2> SUFFICES ASSUME NEW x \in Call \ {c}, Asking(x),
                        calls[x].pair \notin Twice
                 PROVE  Pending(calls[x].pair)' = {}
        BY <1>1, <1>5 DEF NonePending, Asking, Pending, Of
    <2>1. calls[x].pair # calls[c].pair
        BY <1>1 DEF Asked, OneAsking
    <2>2. PICK q \in Pair : q = calls[x].pair
        BY <1>1 DEF CallState
    <2>3. Pending(q) = {}
        BY <2>2 DEF Asked, NonePending
    <2>4. Pending(q)' = {}
        BY <1>3, <2>1, <2>2, <2>3
    <2>5. calls'[x].pair = q
        BY <1>5, <2>2
    <2> QED BY <2>4, <2>5
<1>8. OneRequest'
    <2> SUFFICES ASSUME NEW p \in Pair \ Twice,
                        NEW i \in Pending(p)', NEW j \in Pending(p)'
                 PROVE  i = j
        BY <1>1 DEF OneRequest
    <2>1. CASE p = calls[c].pair
        <3>1. Pending(p) = {}
            BY <1>1, <2>1 DEF Asked, NonePending
        <3> QED BY <1>4, <2>1, <3>1
    <2>2. CASE p # calls[c].pair
        BY <1>3, <2>2 DEF Asked, OneRequest
    <2> QED BY <2>1, <2>2
<1> QED BY <1>6, <1>7, <1>8 DEF Asked

LEMMA CommitAsked ==
    ASSUME IInv, Asked, NEW c \in Call, Commit(c)
    PROVE  Asked'
<1>1. /\ calls \in [Call -> CallState] /\ UNCHANGED askedTwice
      /\ calls' = [calls EXCEPT ![c] = Idle]
      /\ reopened' = IF calls[c].status = "pending" /\ requests[calls[c].id].status # "pending"
                     THEN reopened \cup {calls[c].pair} ELSE reopened
      /\ requests[calls[c].id].pair = calls[c].pair
    BY DEF IInv, Types, Remembered, Deciding, Commit, End
<1>2. \A p \in Pair \ reopened' : Pending(p)' \subseteq Pending(p)
    <2> SUFFICES ASSUME NEW p \in Pair \ reopened', NEW r \in Pending(p)'
                 PROVE  r \in Pending(p)
        OBVIOUS
    <2>1. /\ r \in DOMAIN requests /\ requests[r].pair = p
          /\ IF r = calls[c].id THEN calls[c].status = "pending"
             ELSE requests[r].status = "pending"
        BY CommitTables DEF Pending, Of
    <2> QED BY <1>1, <2>1 DEF Pending, Of
<1>3. \A x \in Call : Asking(x)' => Asking(x) /\ calls'[x].pair = calls[x].pair
                                    /\ calls[x].pair \in Pair
    BY <1>1 DEF Asking, Idle, CallState
<1> QED BY <1>1, <1>2, <1>3, AskedKept

LEMMA NextAsked == IInv /\ Asked /\ [Next]_vars => Asked'
<1> SUFFICES ASSUME IInv, Asked, [Next]_vars PROVE Asked'
    OBVIOUS
<1> USE DEF tables, history
<1>0. calls \in [Call -> CallState] /\ \A x \in Call : calls[x].pair \in Pair
    BY DEF IInv, Types, CallState
<1>1. ASSUME NEW c \in Call, LookForPending(c) PROVE Asked'
    BY <1>1, LookAsked
<1>2. ASSUME NEW c \in Call, CreateRequest(c) PROVE Asked'
    BY <1>2, CreateAsked
<1>3. ASSUME NEW c \in Call, Commit(c) PROVE Asked'
    BY <1>3, CommitAsked
<1>4. ASSUME UNCHANGED <<requests, askedTwice, reopened>>,
             \A x \in Call : Asking(x)' => Asking(x) /\ calls'[x].pair = calls[x].pair
      PROVE  Asked'
    <2>1. \A p \in Pair : Pending(p)' \subseteq Pending(p)
        BY <1>4 DEF Pending, Of
    <2> QED BY <1>0, <1>4, <2>1, AskedKept
<1>5. ASSUME NEW c \in Call, NEW p \in Pair, NEW level \in Level,
             RequestAccess(c, p, level)
      PROVE  Asked'
    BY <1>0, <1>4, <1>5 DEF RequestAccess, Begin, Idle, Asking
<1>6. ASSUME NEW c \in Call, NEW r \in Id, NEW status \in Status,
             NEW level \in Level, GrantAccess(c, r, status, level)
      PROVE  Asked'
    BY <1>0, <1>4, <1>6 DEF GrantAccess, Begin, Idle, Asking
<1>7. ASSUME NEW c \in Call, LookForPermission(c)
      PROVE  Asked'
    <2>1. /\ calls[c].phase = "unasked"
          /\ \/ calls' = [calls EXCEPT ![c].phase = "unpermitted"]
             \/ calls' = [calls EXCEPT ![c] = Idle]
        BY <1>7 DEF LookForPermission, Step, End
    <2>2. \A x \in Call : Asking(x)' => Asking(x) /\ calls'[x].pair = calls[x].pair
        BY <1>0, <2>1 DEF Asking, Idle, CallState
    <2> QED BY <1>4, <1>7, <2>2 DEF LookForPermission
<1>8. ASSUME NEW c \in Call, SaveRequest(c) \/ FindPermission(c) \/ Rollback(c)
      PROVE  Asked'
    <2>1. \A x \in Call \ {c} : calls'[x] = calls[x]
        BY <1>0, <1>8 DEF SaveRequest, FindPermission, Rollback, Step, End
    <2>2. calls'[c].phase \in {"locked", "found", "none"}
        <3>1. calls[c] \in CallState
            BY <1>0
        <3> QED BY <1>0, <1>8, <3>1 DEF SaveRequest, FindPermission, Rollback,
                                        Step, End, Idle, CallState
    <2>3. \A x \in Call : Asking(x)' => Asking(x) /\ calls'[x].pair = calls[x].pair
        BY <2>1, <2>2 DEF Asking
    <2> QED BY <1>4, <1>8, <2>3 DEF SaveRequest, FindPermission, Rollback
<1>9. CASE UNCHANGED vars
    BY <1>0, <1>4, <1>9 DEF vars, Asking
<1> QED BY <1>1, <1>2, <1>3, <1>5, <1>6, <1>7, <1>8, <1>9 DEF Next

LEMMA AskedIsOne == Types /\ Asked => OnePending
<1> SUFFICES ASSUME Types, Asked, NEW p \in Pair, p \notin Twice
             PROVE  Cardinality(Pending(p)) <= 1
    BY DEF OnePending, Twice
<1>1. CASE Pending(p) = {}
    BY <1>1, FS_EmptySet
<1>2. CASE Pending(p) # {}
    <2>1. PICK r \in Pending(p) : TRUE
        BY <1>2
    <2>2. Pending(p) = {r}
        BY <2>1 DEF Asked, OneRequest
    <2>3. Cardinality({r}) = 1
        BY FS_Singleton
    <2> QED BY <2>2, <2>3
<1> QED BY <1>1, <1>2

(* However many calls ask and decide, a user has one pending request for a *)
(* document at most, but where two calls both looked before either had     *)
(* created one, where a look failed, and where the owner set a decided     *)
(* request to pending again (RequestAccess, GrantAccess).                  *)
THEOREM OnePendingHolds == Spec => []OnePending
<1>1. Init => IInv /\ Asked
    BY InitIInv, InitAsked
<1>2. IInv /\ Asked /\ [Next]_vars => (IInv /\ Asked)'
    BY NextIInv, NextAsked
<1>3. IInv /\ Asked => OnePending
    BY AskedIsOne DEF IInv
<1> QED BY <1>1, <1>2, <1>3, PTL DEF Spec

-----------------------------------------------------------------------------
(* The list of documents: its inductive invariant.  What is in the tree is *)
(* live; a tree that no drag has altered has each item below its parent.   *)
TreeIsLive == \A d \in Doc : under[d] # None => d \in Live(documents)
Follows(t, docs) == \A d \in Doc : t[d] \in Doc => t[d] = docs[d].parent
TreeFollows == ~dragged => Follows(under, documents)

(* A document lies below one that was made before it; where the list looks *)
(* it has a group, that of its parent, and it is live only below what is.  *)
Ordered(docs) ==
    /\ \A S \in SUBSET Doc : S # {} => \E d \in S : docs[d].parent \notin S
    /\ \A d \in Doc : docs[d].parent # None =>
          docs[d].state # "none" /\ docs[docs[d].parent].state # "none"
Filed(docs, d) ==
    docs[d].state # "none" =>
        /\ Home(docs[d]) # None
        /\ docs[d].parent # None => /\ Home(docs[docs[d].parent]) = Home(docs[d])
                                    /\ docs[d].state = "live" => docs[d].parent \in Live(docs)
(* It has the parent it was made with, or none.                            *)
FromMade(docs) ==
    \A d \in Doc : /\ docs[d].parent \in {made[d].parent, None}
                   /\ docs[d].state = "none" <=> made[d].state = "none"
Sourced == Ordered(made) /\ FromMade(documents)
InPlace ==
    /\ Ordered(documents) /\ Sourced
    /\ \A d \in Doc \ astray : Filed(documents, d)

TreeInv == /\ ExplorerTypeOK /\ TreeIsLive /\ TreeFollows /\ InPlace
           /\ NothingDisappears /\ ActiveIsVisible /\ RememberedIsShown

-----------------------------------------------------------------------------
(* The path of a document.                                                 *)

LEMMA GroupFacts ==
    /\ Group \cap Doc = {} /\ None \notin Doc /\ None \notin Group
    /\ Private \in Group /\ Own \in Group /\ Favorites \in Group
    /\ Own # Private /\ Own \notin {Foreign, Favorites}
    /\ Private \notin {Foreign, Favorites}
BY GroupsAssumption DEF Group

LEMMA ItemsLeast ==
    ASSUME NEW t, NEW S \in SUBSET Doc, NEW d \in S, UpClosed(t, S)
    PROVE  Items(t, d) \subseteq S
<1>1. S = (S \ {d}) \cup {d} /\ S \ {d} \in SUBSET (Doc \ {d})
    OBVIOUS
<1>2. PICK T \in SUBSET (Doc \ {d}) : S = T \cup {d}
    BY <1>1
<1> QED BY <1>2 DEF Items

LEMMA ItemsClosed ==
    ASSUME NEW t, NEW d \in Doc
    PROVE  /\ Items(t, d) \subseteq Doc /\ d \in Items(t, d)
           /\ UpClosed(t, Items(t, d))
<1>1. Items(t, d) \subseteq Doc /\ d \in Items(t, d)
    BY DEF Items
<1>2. ASSUME NEW x \in Items(t, d), t[x] \in Doc, NEW T \in SUBSET (Doc \ {d}),
             UpClosed(t, T \cup {d})
      PROVE  t[x] \in T \cup {d}
    <2>1. x \in T \cup {d}
        BY <1>2 DEF Items
    <2> QED BY <1>2, <2>1 DEF UpClosed
<1>3. \A x \in Items(t, d) : t[x] \in Doc => t[x] \in Items(t, d)
    BY <1>2 DEF Items
<1> QED BY <1>1, <1>3 DEF UpClosed

LEMMA ItemsWithin ==
    ASSUME NEW t, NEW d \in Doc, NEW x \in Items(t, d)
    PROVE  Items(t, x) \subseteq Items(t, d) /\ x \in Doc
BY ItemsClosed, ItemsLeast

(* An item, and what is above the place it has.                            *)
LEMMA ItemsStep ==
    ASSUME NEW t, NEW d \in Doc
    PROVE  /\ t[d] \in Doc => Items(t, d) = {d} \cup Items(t, t[d])
           /\ t[d] \notin Doc => Items(t, d) = {d}
<1>1. CASE t[d] \in Doc
    <2>1. UpClosed(t, {d} \cup Items(t, t[d])) /\ Items(t, t[d]) \subseteq Doc
        BY <1>1, ItemsClosed DEF UpClosed
    <2>2. Items(t, d) \subseteq {d} \cup Items(t, t[d])
        BY <2>1, ItemsLeast
    <2>3. t[d] \in Items(t, d)
        BY <1>1, ItemsClosed DEF UpClosed
    <2>4. Items(t, t[d]) \subseteq Items(t, d)
        BY <2>3, ItemsWithin
    <2> QED BY <1>1, <2>2, <2>4, ItemsClosed
<1>2. CASE t[d] \notin Doc
    <2>1. UpClosed(t, {d})
        BY <1>2 DEF UpClosed
    <2> QED BY <1>2, <2>1, ItemsLeast, ItemsClosed
<1> QED BY <1>1, <1>2

LEMMA PathIs ==
    ASSUME NEW t, NEW d \in Doc
    PROVE  \A y : y \in Path(t, d) <=>
               \/ y \in Items(t, d)
               \/ y # None /\ \E x \in Items(t, d) : y = t[x]
BY ItemsClosed, GroupFacts DEF Path

LEMMA PathDocs ==
    ASSUME NEW t, NEW d \in Doc
    PROVE  Path(t, d) \cap Doc = Items(t, d) /\ d \in Path(t, d)
<1>1. UpClosed(t, Items(t, d)) /\ Items(t, d) \subseteq Doc /\ d \in Items(t, d)
    BY ItemsClosed
<1> QED BY <1>1, PathIs DEF UpClosed

LEMMA PathWithin ==
    ASSUME NEW t, NEW d \in Doc, NEW x \in Items(t, d)
    PROVE  Path(t, x) \subseteq Path(t, d)
<1>1. Items(t, x) \subseteq Items(t, d) /\ x \in Doc
    BY ItemsWithin
<1> QED BY <1>1, PathIs

(* Of two items on a path one is above the other.                          *)
LEMMA PathIsChain ==
    ASSUME NEW t, NEW d \in Doc, NEW x \in Items(t, d)
    PROVE  \A y \in Items(t, d) : y \in Items(t, x) \/ x \in Items(t, y)
<1> DEFINE S == {y \in Items(t, d) : y \in Items(t, x) \/ x \in Items(t, y)}
<1>1. S \subseteq Doc /\ d \in S /\ Items(t, d) \subseteq Doc
    BY ItemsClosed
<1>2. ASSUME NEW y \in S, t[y] \in Doc
      PROVE  t[y] \in S
    <2>1. t[y] \in Items(t, d) /\ y \in Doc /\ x \in Doc
        BY <1>1, <1>2, ItemsClosed DEF UpClosed
    <2>2. CASE y \in Items(t, x)
        BY <1>2, <2>1, <2>2, ItemsClosed DEF UpClosed
    <2>3. CASE x \in Items(t, y)
        <3>1. Items(t, y) = {y} \cup Items(t, t[y])
            BY <1>2, <2>1, ItemsStep
        <3>2. CASE x = y
            <4>1. t[y] \in Items(t, x)
                BY <1>2, <2>1, <3>2, ItemsClosed DEF UpClosed
            <4> QED BY <2>1, <4>1
        <3>3. CASE x \in Items(t, t[y])
            BY <2>1, <3>3
        <3> QED BY <2>3, <3>1, <3>2, <3>3
    <2> QED BY <1>2, <2>2, <2>3
<1>3. UpClosed(t, S)
    BY <1>2 DEF UpClosed
<1>4. Items(t, d) \subseteq S
    BY <1>1, <1>3, ItemsLeast
<1> QED BY <1>4

(* Whatever is on the path to a group has the group on its path.           *)
LEMMA ChainToGroup ==
    ASSUME NEW t, NEW d \in Doc, NEW x \in Items(t, d), NEW g \in Path(t, d) \cap Group
    PROVE  g \in Path(t, x)
<1>1. g \notin Doc /\ g # None /\ Items(t, d) \subseteq Doc
    BY GroupFacts, ItemsClosed
<1>2. PICK y \in Items(t, d) : g = t[y]
    BY <1>1, PathIs
<1>3. Items(t, y) = {y} /\ y \in Doc
    BY <1>1, <1>2, ItemsStep
<1>4. y \in Items(t, x) \/ x = y
    BY <1>3, PathIsChain
<1>5. y \in Items(t, x)
    BY <1>3, <1>4, ItemsClosed
<1> QED BY <1>1, <1>2, <1>5, PathIs

LEMMA PathType ==
    ASSUME NEW t \in [Doc -> Doc \cup Group \cup {None}], NEW d \in Doc
    PROVE  Path(t, d) \subseteq Doc \cup Group
<1>1. Items(t, d) \subseteq Doc
    BY ItemsClosed
<1>2. \A x \in Items(t, d) : t[x] \in Doc \cup Group \cup {None}
    BY <1>1
<1> QED BY <1>1, <1>2, PathIs

-----------------------------------------------------------------------------
(* Another place for one item.                                             *)
LEMMA ItemsElsewhere ==
    ASSUME NEW t, NEW u, NEW d \in Doc, NEW x \in Doc,
           \A y \in Doc \ {d} : u[y] = t[y], d \notin Items(t, x)
    PROVE  Items(u, x) \subseteq Items(t, x)
<1>1. /\ UpClosed(t, Items(t, x)) /\ x \in Items(t, x) /\ Items(t, x) \subseteq Doc
    BY ItemsClosed
<1>2. UpClosed(u, Items(t, x))
    BY <1>1 DEF UpClosed
<1> QED BY <1>1, <1>2, ItemsLeast

LEMMA PathElsewhere ==
    ASSUME NEW t, NEW u, NEW d \in Doc, NEW x \in Doc,
           \A y \in Doc \ {d} : u[y] = t[y]
    PROVE  /\ d \in Items(t, x) <=> d \in Items(u, x)
           /\ d \notin Items(t, x) => Path(u, x) = Path(t, x)
<1>1. d \notin Items(t, x) => Items(u, x) \subseteq Items(t, x)
    BY ItemsElsewhere
<1>2. d \notin Items(u, x) => Items(t, x) \subseteq Items(u, x)
    BY ItemsElsewhere
<1>3. d \in Items(t, x) <=> d \in Items(u, x)
    BY <1>1, <1>2
<1>4. ASSUME d \notin Items(t, x)
      PROVE  Path(u, x) = Path(t, x)
    <2>1. Items(u, x) = Items(t, x) /\ Items(t, x) \subseteq Doc
        BY <1>1, <1>2, <1>3, <1>4, ItemsClosed
    <2>2. \A y \in Items(t, x) : u[y] = t[y]
        BY <1>4, <2>1
    <2>3. {u[y] : y \in Items(u, x)} = {t[y] : y \in Items(t, x)}
        BY <2>1, <2>2
    <2> QED BY <2>1, <2>3 DEF Path
<1> QED BY <1>3, <1>4

(* What is listed when a listed item has another place was listed.         *)
LEMMA ListedBefore ==
    ASSUME NEW t, NEW u, NEW d \in Doc, NEW x \in Doc,
           \A y \in Doc \ {d} : u[y] = t[y], Listed(t, d), Listed(u, x)
    PROVE  Listed(t, x)
<1>1. CASE d \in Items(t, x)
    BY <1>1, PathWithin DEF Listed
<1>2. CASE d \notin Items(t, x)
    BY <1>2, PathElsewhere DEF Listed
<1> QED BY <1>1, <1>2

(* An item that is put where its place is not below itself stays in the    *)
(* list, and so does what is below it.                                     *)
LEMMA ListedAfter ==
    ASSUME NEW t, NEW d \in Doc, NEW u, NEW over \in Doc,
           \A y \in Doc \ {d} : u[y] = t[y], u[d] \in {over, t[over]},
           d \notin Path(t, over), Listed(t, over), NEW x \in Doc, Listed(t, x)
    PROVE  Listed(u, x)
<1>1. CASE d \notin Items(t, x)
    BY <1>1, PathElsewhere DEF Listed
<1>2. CASE d \in Items(t, x)
    <2>1. d \notin Items(t, over)
        BY PathDocs
    <2>2. Path(u, over) = Path(t, over)
        BY <2>1, PathElsewhere
    <2>3. PICK g \in Group : g \in Path(t, over)
        BY DEF Listed
    <2>4. g \in Path(u, d)
        <3>1. d \in Items(u, d)
            BY ItemsClosed
        <3>2. CASE u[d] = over
            <4>1. over \in Items(u, d)
                BY <3>1, <3>2, ItemsClosed DEF UpClosed
            <4> QED BY <2>2, <2>3, <4>1, PathWithin
        <3>3. CASE u[d] = t[over] /\ t[over] \in Doc
            <4>1. t[over] \in Items(t, over)
                BY <3>3, ItemsClosed DEF UpClosed
            <4>2. d \notin Items(t, t[over])
                BY <2>1, <4>1, ItemsWithin
            <4>3. Path(u, t[over]) = Path(t, t[over])
                BY <3>3, <4>2, PathElsewhere
            <4>4. g \in Path(t, t[over])
                BY <2>3, <4>1, ChainToGroup
            <4>5. t[over] \in Items(u, d)
                BY <3>1, <3>3, ItemsClosed DEF UpClosed
            <4> QED BY <4>3, <4>4, <4>5, PathWithin
        <3>4. CASE u[d] = t[over] /\ t[over] \notin Doc
            <4>1. Items(t, over) = {over}
                BY <3>4, ItemsStep
            <4>2. g \notin Doc /\ g # None
                BY GroupFacts
            <4>3. g = t[over]
                BY <2>3, <4>1, <4>2, PathIs
            <4> QED BY <3>1, <3>4, <4>2, <4>3, PathIs
        <3> QED BY <3>2, <3>3, <3>4
    <2>5. d \in Items(u, x)
        BY <1>2, PathElsewhere
    <2> QED BY <2>4, <2>5, PathWithin DEF Listed
<1> QED BY <1>1, <1>2

-----------------------------------------------------------------------------
(* The tree of the documents.                                              *)
Place(docs, favorites, d) ==
    IF d \notin Live(docs) THEN None
    ELSE IF favorites THEN (IF d \in Favorite THEN Favorites ELSE None)
    ELSE IF Home(docs[d]) = None \/ docs[d].parent = None THEN Home(docs[d])
    ELSE IF docs[d].parent \in Live(docs) /\ Home(docs[docs[d].parent]) = Home(docs[d])
    THEN docs[d].parent ELSE None

LEMMA RowFacts ==
    ASSUME NEW r \in DocumentRow
    PROVE  /\ Home(r) \in Group \cup {None} /\ r.parent \in Doc \cup {None}
           /\ r.group \in Group \cup {None} /\ r.type \in {"private", "department"}
           /\ r.state \in {"none", "asked", "live", "recycled", "gone"}
BY GroupFacts DEF DocumentRow, Home

LEMMA TreeIs ==
    ASSUME NEW docs \in [Doc -> DocumentRow], NEW favorites \in BOOLEAN
    PROVE  /\ Tree(docs, favorites) = [d \in Doc |-> Place(docs, favorites, d)]
           /\ Tree(docs, favorites) \in [Doc -> Doc \cup Group \cup {None}]
<1>1. Tree(docs, favorites) = [d \in Doc |-> Place(docs, favorites, d)]
    BY DEF Tree, Place
<1>2. \A d \in Doc : Place(docs, favorites, d) \in Doc \cup Group \cup {None}
    BY RowFacts, GroupFacts DEF Place
<1> QED BY <1>1, <1>2

LEMMA TreeFollowsDocuments ==
    ASSUME NEW docs \in [Doc -> DocumentRow], NEW favorites \in BOOLEAN
    PROVE  /\ Follows(Tree(docs, favorites), docs)
           /\ \A d \in Doc : Tree(docs, favorites)[d] # None => d \in Live(docs)
<1>1. ASSUME NEW d \in Doc
      PROVE  /\ Place(docs, favorites, d) \in Doc => Place(docs, favorites, d) = docs[d].parent
             /\ Place(docs, favorites, d) # None => d \in Live(docs)
    BY RowFacts, GroupFacts DEF Place
<1> QED BY <1>1, TreeIs DEF Follows

(* The tree has every live document, but below one that is elsewhere: the  *)
(* documents it had not would have their parents among them.               *)
LEMMA TreeIsComplete ==
    ASSUME NEW docs \in [Doc -> DocumentRow], NEW favorites \in BOOLEAN, NEW A \in SUBSET Doc,
           Ordered(docs), \A d \in Doc \ A : Filed(docs, d), NEW d \in Live(docs)
    PROVE  \/ favorites /\ d \notin Favorite
           \/ Listed(Tree(docs, favorites), d)
           \/ Path(Tree(docs, favorites), d) \cap A # {}
<1> DEFINE t == Tree(docs, favorites)
<1>1. Live(docs) \subseteq Doc /\ \A x \in Doc : t[x] = Place(docs, favorites, x)
    BY TreeIs DEF Live
<1>2. ASSUME NEW x \in Doc, t[x] \in Group
      PROVE  Listed(t, x)
    <2>1. t[x] \in Path(t, x)
        BY <1>2, PathIs, ItemsClosed, GroupFacts
    <2> QED BY <1>2, <2>1 DEF Listed
<1>3. CASE favorites
    <2>1. d \in Doc /\ t[d] = IF d \in Favorite THEN Favorites ELSE None
        BY <1>1, <1>3 DEF Place
    <2>2. d \in Favorite => Listed(t, d)
        BY <1>2, <2>1, GroupFacts
    <2> QED BY <1>3, <2>2
<1>4. CASE ~favorites
    <2> DEFINE S == {x \in Live(docs) : ~Listed(t, x) /\ Path(t, x) \cap A = {}}
    <2>1. ASSUME NEW x \in S
          PROVE  docs[x].parent \in S
        <3>1. x \in Doc /\ x \in Live(docs) /\ docs[x].state = "live" /\ docs[x] \in DocumentRow
            BY <1>1 DEF Live
        <3>2. x \notin A
            BY <3>1, PathDocs
        <3>3. Home(docs[x]) \in Group
            BY <3>1, <3>2, RowFacts DEF Filed
        <3>4. CASE docs[x].parent = None
            BY <1>1, <1>2, <1>4, <3>1, <3>3, <3>4 DEF Place
        <3>5. CASE docs[x].parent # None
            <4>1. /\ docs[x].parent \in Live(docs)
                  /\ t[x] = docs[x].parent /\ t[x] \in Doc
                BY <1>1, <1>4, <3>1, <3>2, <3>3, <3>5, GroupFacts DEF Place, Filed
            <4>2. t[x] \in Items(t, x)
                BY <3>1, <4>1, ItemsClosed DEF UpClosed
            <4>3. Path(t, t[x]) \subseteq Path(t, x)
                BY <3>1, <4>2, PathWithin
            <4> QED BY <4>1, <4>3 DEF Listed
        <3> QED BY <3>4, <3>5
    <2>2. S = {}
        BY <1>1, <2>1 DEF Ordered
    <2> QED BY <2>2
<1> QED BY <1>3, <1>4

-----------------------------------------------------------------------------
(* The second effect unfolds the tree down to the active document.         *)
LEMMA DownToType ==
    ASSUME NEW docs \in [Doc -> DocumentRow], NEW t \in [Doc -> Doc \cup Group \cup {None}],
           NEW shown \in SUBSET (Doc \cup Group), NEW active \in Doc \cup {None}
    PROVE  /\ DownTo(t, shown, docs, active) \in SUBSET (Doc \cup Group)
           /\ shown \subseteq DownTo(t, shown, docs, active)
<1> DEFINE above == [d \in Doc |-> docs[d].parent]
<1>1. above \in [Doc -> Doc \cup Group \cup {None}]
    BY RowFacts
<1>2. active # None => Path(above, active) \subseteq Doc \cup Group
    BY <1>1, PathType
<1> QED BY <1>2, GroupFacts DEF DownTo

LEMMA DownToShows ==
    ASSUME NEW docs \in [Doc -> DocumentRow], NEW t \in [Doc -> Doc \cup Group \cup {None}],
           NEW shown, NEW active \in Doc, active \in Stored(docs), Follows(t, docs),
           Listed(t, active)
    PROVE  Path(t, active) \ {active} \subseteq DownTo(t, shown, docs, active)
<1> DEFINE above == [d \in Doc |-> docs[d].parent]
           group == Path(t, active) \cap Group
<1>1. Items(t, active) \subseteq Items(above, active)
    <2>1. /\ UpClosed(above, Items(above, active)) /\ active \in Items(above, active)
          /\ Items(above, active) \subseteq Doc
        BY ItemsClosed
    <2>2. UpClosed(t, Items(above, active))
        BY <2>1 DEF UpClosed, Follows
    <2> QED BY <2>1, <2>2, ItemsLeast
<1>2. ASSUME NEW y \in Items(t, active), y # active
      PROVE  y \in Path(above, active) \ {active} /\ Path(t, y) \cap group # {}
    <2>1. y \in Path(above, active)
        BY <1>1, <1>2, PathIs
    <2>2. Path(t, y) \cap group # {}
        BY ChainToGroup DEF Listed
    <2> QED BY <1>2, <2>1, <2>2
<1>3. ASSUME NEW y \in Path(t, active), y # active
      PROVE  y \in group \/ y \in Items(t, active)
    BY <1>3, PathType, PathDocs
<1>4. active # None
    BY GroupFacts
<1> QED BY <1>2, <1>3, <1>4 DEF DownTo

-----------------------------------------------------------------------------
(* The tree is built anew of documents that are in place.                  *)
LEMMA TreeIsBuilt ==
    ASSUME documents' \in [Doc -> DocumentRow], isFavoriteFilter' \in BOOLEAN,
           astray' \subseteq Doc, InPlace', under' = Tree(documents', isFavoriteFilter')
    PROVE  /\ under' \in [Doc -> Doc \cup Group \cup {None}]
           /\ TreeIsLive' /\ TreeFollows' /\ NothingDisappears'
<1> DEFINE docs == documents'
           favorites == isFavoriteFilter'
<1>1. under' \in [Doc -> Doc \cup Group \cup {None}]
    BY TreeIs
<1>2. TreeIsLive' /\ TreeFollows'
    <2>1. /\ Follows(Tree(docs, favorites), docs)
          /\ \A d \in Doc : Tree(docs, favorites)[d] # None => d \in Live(docs)
        BY TreeFollowsDocuments
    <2> QED BY <2>1 DEF TreeIsLive, TreeFollows, Follows, Live
<1>3. NothingDisappears'
    <2>1. Ordered(docs) /\ \A d \in Doc \ astray' : Filed(docs, d)
        BY DEF InPlace, Sourced, FromMade, Ordered, Filed, Live
    <2>2. ASSUME NEW d \in Live(docs)
          PROVE  \/ favorites /\ d \notin Favorite
                 \/ Listed(Tree(docs, favorites), d)
                 \/ Path(Tree(docs, favorites), d) \cap astray' # {}
        BY <2>1, TreeIsComplete
    <2>3. \A d \in Live(docs) : \/ favorites /\ d \notin Favorite
                                \/ Listed(under', d)
                                \/ Path(under', d) \cap (lost' \cup astray') # {}
        BY <2>2
    <2> QED BY <2>3 DEF NothingDisappears, Live, Listed, Path, Items, UpClosed
<1> QED BY <1>1, <1>2, <1>3

(* What the first two effects give, whatever the documents are now.        *)
LEMMA DocumentsAreSet ==
    ASSUME NEW docs \in [Doc -> DocumentRow], NEW active \in Stored(docs) \cup {None},
           NEW refs \in SUBSET (Doc \cup Group), NEW favorites \in BOOLEAN,
           SetDocuments(docs, active, refs, favorites), ops' \in 0 .. MaxOps,
           astray' \subseteq Doc, \A d \in Doc \ astray' : Filed(docs, d),
           Ordered(docs), Ordered(made), FromMade(docs), UNCHANGED made,
           made \in [Doc -> DocumentRow]
    PROVE  TreeInv'
<1> DEFINE t == Tree(docs, favorites)
<1>1. /\ documents' = docs /\ activeTabId' = active /\ remembered' = refs
      /\ isFavoriteFilter' = favorites /\ under' = t
      /\ open' = DownTo(t, Unfolded(refs, favorites), docs, active)
      /\ lost' = {} /\ dragged' = FALSE /\ disturbed' = FALSE
    BY DEF SetDocuments
<1>2. InPlace'
    BY <1>1 DEF InPlace, Sourced, FromMade, Ordered, Filed, Live
<1>3. /\ under' \in [Doc -> Doc \cup Group \cup {None}]
      /\ TreeIsLive' /\ TreeFollows' /\ NothingDisappears'
    BY <1>1, <1>2, TreeIsBuilt
<1>4. Stored(docs) \subseteq Doc /\ Stored(docs) = Stored(documents)'
    BY <1>1 DEF Stored
<1>5. Unfolded(refs, favorites) \in SUBSET (Doc \cup Group)
    BY GroupFacts DEF Unfolded
<1>6. open' \subseteq Doc \cup Group /\ Unfolded(refs, favorites) \subseteq open'
    BY <1>1, <1>3, <1>4, <1>5, DownToType
<1>7. ExplorerTypeOK'
    BY <1>1, <1>3, <1>4, <1>6 DEF ExplorerTypeOK
<1>8. ActiveIsVisible'
    <2>1. ASSUME active \in Doc, Listed(t, active)
          PROVE  Path(t, active) \ {active} \subseteq open'
        <3>1. Follows(t, docs) /\ t \in [Doc -> Doc \cup Group \cup {None}]
            BY TreeFollowsDocuments, TreeIs
        <3>2. active \in Stored(docs)
            BY <2>1, GroupFacts
        <3> QED BY <1>1, <2>1, <3>1, <3>2, DownToShows
    <2>2. ASSUME active \in Doc, Listed(t, active)
          PROVE  (Path(t, active) \ {active}) \cap Group # {}
        BY <2>2, GroupFacts DEF Listed
    <2>3. activeTabId' \in Doc /\ Path(under', activeTabId') \cap Group # {}
          => LET path == Path(under', activeTabId') \ {activeTabId'}
             IN  path \cap Group # {} /\ path \subseteq open'
        BY <1>1, <2>1, <2>2 DEF Listed
    <2> QED BY <2>3 DEF ActiveIsVisible, Visible, Listed, Path, Items, UpClosed
<1>9. RememberedIsShown'
    BY <1>1, <1>6 DEF RememberedIsShown, Unfolded
<1> QED BY <1>2, <1>3, <1>7, <1>8, <1>9 DEF TreeInv

-----------------------------------------------------------------------------
(* The documents.                                                          *)

LEMMA DocFacts ==
    ASSUME ExplorerTypeOK
    PROVE  /\ \A d \in Doc : documents[d] \in DocumentRow /\ documents[d].parent \in Doc \cup {None}
           /\ Live(documents) \subseteq Stored(documents) /\ Stored(documents) \subseteq Doc
           /\ Groups \subseteq Group
<1>1. \A d \in Doc : documents[d] \in DocumentRow
    BY DEF ExplorerTypeOK
<1>2. \A d \in Doc : /\ documents[d].parent \in Doc \cup {None}
                     /\ Home(documents[d]) \in Group \cup {None}
    BY <1>1, RowFacts
<1>3. Live(documents) \subseteq Stored(documents) /\ Stored(documents) \subseteq Doc
    BY DEF Live, Stored
<1> QED BY <1>1, <1>2, <1>3, GroupFacts DEF Groups

(* Documents that have their places, at most without a parent.             *)
LEMMA OrderedAsMade ==
    ASSUME ExplorerTypeOK, Ordered(made), NEW docs, FromMade(docs)
    PROVE  Ordered(docs)
<1>1. ASSUME NEW S \in SUBSET Doc, S # {}
      PROVE  \E d \in S : docs[d].parent \notin S
    <2>1. PICK d \in S : made[d].parent \notin S
        BY <1>1 DEF Ordered
    <2>2. None \notin S
        BY GroupFacts
    <2> QED BY <2>1, <2>2 DEF FromMade
<1>2. \A d \in Doc : docs[d].parent # None =>
            docs[d].parent = made[d].parent /\ docs[d].parent \in Doc
    BY RowFacts DEF FromMade, ExplorerTypeOK
<1>3. ASSUME NEW d \in Doc, docs[d].parent # None
      PROVE  docs[d].state # "none" /\ docs[docs[d].parent].state # "none"
    BY <1>2, <1>3 DEF Ordered, FromMade
<1> QED BY <1>1, <1>3 DEF Ordered

LEMMA StaysOrdered ==
    ASSUME ExplorerTypeOK, Sourced, NEW docs,
           \A d \in Doc : /\ docs[d].parent \in {documents[d].parent, None}
                          /\ docs[d].state = "none" <=> documents[d].state = "none"
    PROVE  Ordered(docs) /\ FromMade(docs) /\ Ordered(made)
<1>1. FromMade(docs)
    BY DEF Sourced, FromMade
<1> QED BY <1>1, OrderedAsMade DEF Sourced

LEMMA StaysFiled ==
    ASSUME ExplorerTypeOK, NEW docs, NEW d \in Doc, Filed(documents, d),
           \A x \in Doc : Home(docs[x]) = Home(documents[x]),
           docs[d].state = "none" <=> documents[d].state = "none",
           docs[d].parent \in {documents[d].parent, None},
           docs[d].state = "live" /\ docs[d].parent # None => docs[d].parent \in Live(docs)
    PROVE  Filed(docs, d)
<1>1. docs[d].parent # None => docs[d].parent = documents[d].parent /\ docs[d].parent \in Doc
    BY DocFacts
<1> QED BY <1>1 DEF Filed

(* Another state leaves a document its place.                              *)
LEMMA StateOnly ==
    ASSUME NEW r \in DocumentRow, NEW state \in {"live", "recycled", "gone"}
    PROVE  /\ [r EXCEPT !.state = state] \in DocumentRow
           /\ [r EXCEPT !.state = state].state = state
           /\ [r EXCEPT !.state = state].parent = r.parent
           /\ Home([r EXCEPT !.state = state]) = Home(r)
BY DEF DocumentRow, Home

LEMMA SameDocuments ==
    ASSUME TreeInv, NEW active \in Stored(documents) \cup {None}, NEW favorites \in BOOLEAN,
           NEW refs \in SUBSET (Doc \cup Group),
           SetDocuments(documents, active, refs, favorites),
           ops' \in 0 .. MaxOps, UNCHANGED <<made, astray>>
    PROVE  TreeInv'
<1>1. /\ documents \in [Doc -> DocumentRow] /\ made \in [Doc -> DocumentRow]
      /\ astray \subseteq Doc /\ Ordered(documents) /\ Ordered(made) /\ FromMade(documents)
      /\ \A d \in Doc \ astray : Filed(documents, d)
    BY DEF TreeInv, ExplorerTypeOK, InPlace, Sourced
<1>2. /\ astray' \subseteq Doc /\ made' = made
      /\ \A d \in Doc \ astray' : Filed(documents, d)
    BY <1>1
<1> QED BY <1>1, <1>2, DocumentsAreSet

LEMMA CreateDocumentStep ==
    ASSUME TreeInv, NEW d \in Doc, CreateDocument(d)
    PROVE  TreeInv'
<1> DEFINE docs == [documents EXCEPT ![d].state = "live"]
           parent == documents[d].parent
<1> USE DEF TreeInv, InPlace
<1>1. /\ documents[d].state = "asked" /\ documents \in [Doc -> DocumentRow]
      /\ made \in [Doc -> DocumentRow] /\ made' = made
      /\ remembered \in SUBSET (Doc \cup Group) /\ isFavoriteFilter \in BOOLEAN
      /\ ops' \in 0 .. MaxOps /\ astray \subseteq Doc
      /\ astray' = IF parent # None /\ parent \notin Live(documents)
                   THEN astray \cup {d} ELSE astray
      /\ SetDocuments(docs, d, remembered, isFavoriteFilter)
    BY DEF CreateDocument, ExplorerTypeOK
<1>2. /\ docs \in [Doc -> DocumentRow] /\ docs[d].state = "live"
      /\ \A x \in Doc : /\ docs[x].parent = documents[x].parent
                        /\ Home(docs[x]) = Home(documents[x])
                        /\ x # d => docs[x] = documents[x]
    <2>1. docs = [documents EXCEPT ![d] = [documents[d] EXCEPT !.state = "live"]]
        BY <1>1
    <2>2. documents[d] \in DocumentRow
        BY <1>1
    <2> QED BY ZenonT(60), <1>1, <2>1, <2>2, StateOnly
<1>3. Live(documents) \subseteq Live(docs) /\ d \in Stored(docs)
    BY <1>1, <1>2 DEF Live, Stored
<1>4. Ordered(docs) /\ FromMade(docs) /\ Ordered(made)
    BY <1>1, <1>2, StaysOrdered
<1>5. ASSUME NEW x \in Doc \ astray'
      PROVE  Filed(docs, x)
    <2>1. Filed(documents, x) /\ x \in Doc
        BY <1>1
    <2>2. docs[x].state = "live" /\ docs[x].parent # None => docs[x].parent \in Live(docs)
        BY <1>1, <1>2, <1>3, <2>1 DEF Filed
    <2> QED BY <1>1, <1>2, <2>1, <2>2, StaysFiled
<1>6. astray' \subseteq Doc
    BY <1>1
<1>7. d \in Stored(docs) \cup {None} /\ isFavoriteFilter \in BOOLEAN /\ Ordered(docs)
    BY <1>1, <1>3, <1>4
<1> HIDE DEF docs
<1> QED BY <1>1, <1>2, <1>4, <1>5, <1>6, <1>7, DocumentsAreSet

(* What is removed takes along what is live below it.                      *)
LEMMA RemoveStep ==
    ASSUME TreeInv, NEW removed \in SUBSET Stored(documents), NEW state \in {"recycled", "gone"},
           \A x \in Live(documents) \ removed :
               documents[x].parent \in Live(documents) => documents[x].parent \notin removed,
           Remove(removed, state)
    PROVE  TreeInv'
<1> DEFINE docs == [d \in Doc |-> IF d \in removed
                                 THEN [documents[d] EXCEPT !.state = state] ELSE documents[d]]
<1> USE DEF TreeInv, InPlace
<1>1. PICK active \in ActiveAfter(removed) :
          SetDocuments(docs, active, remembered, isFavoriteFilter)
    BY DEF Remove
<1>2. /\ documents \in [Doc -> DocumentRow] /\ astray \subseteq Doc /\ astray' = astray
      /\ made \in [Doc -> DocumentRow] /\ made' = made
      /\ remembered \in SUBSET (Doc \cup Group) /\ isFavoriteFilter \in BOOLEAN
      /\ ops' \in 0 .. MaxOps /\ activeTabId \in Stored(documents) \cup {None}
    BY MaxOpsAssumption DEF Remove, Operate, ExplorerTypeOK
<1>3. ASSUME NEW x \in Doc
      PROVE  /\ docs[x] \in DocumentRow /\ docs[x].parent = documents[x].parent
             /\ Home(docs[x]) = Home(documents[x])
             /\ x \notin removed => docs[x] = documents[x]
             /\ x \in removed => docs[x].state = state /\ documents[x].state # "none"
    <2>1. documents[x] \in DocumentRow
        BY <1>2
    <2>2. CASE x \in removed
        <3>1. docs[x] = [documents[x] EXCEPT !.state = state]
            BY <2>2
        <3>2. documents[x].state \in {"live", "recycled"}
            BY <2>2 DEF Stored
        <3>3. LET r == [documents[x] EXCEPT !.state = state]
              IN  /\ r \in DocumentRow /\ r.state = state /\ r.parent = documents[x].parent
                  /\ Home(r) = Home(documents[x])
            BY <2>1, StateOnly
        <3> HIDE DEF docs
        <3> QED BY <2>2, <3>1, <3>2, <3>3
    <2>3. CASE x \notin removed
        BY <2>1, <2>3
    <2> QED BY <2>2, <2>3
<1>4. docs \in [Doc -> DocumentRow]
    BY <1>3
<1>5. Live(docs) = Live(documents) \ removed /\ Stored(documents) \ removed \subseteq Stored(docs)
    BY <1>3 DEF Live, Stored
<1>6. active \in Stored(docs) \cup {None}
    BY <1>2, <1>5 DEF ActiveAfter
<1>7. Ordered(docs) /\ FromMade(docs) /\ Ordered(made)
    BY <1>3, StaysOrdered
<1>8. ASSUME NEW x \in Doc \ astray'
      PROVE  Filed(docs, x)
    <2>1. Filed(documents, x) /\ x \in Doc
        BY <1>2
    <2>2. ASSUME docs[x].state = "live", docs[x].parent # None
          PROVE  docs[x].parent \in Live(docs)
        <3>1. x \in Live(documents) \ removed /\ documents[x].state = "live"
            BY <1>3, <2>1, <2>2 DEF Live
        <3>2. documents[x].parent \in Live(documents)
            BY <1>3, <2>1, <2>2, <3>1 DEF Filed
        <3> QED BY <1>3, <1>5, <2>1, <3>1, <3>2
    <2>3. docs[x].state = "none" <=> documents[x].state = "none"
        BY <1>3, <2>1
    <2> QED BY <1>3, <2>1, <2>2, <2>3, StaysFiled
<1> QED BY <1>1, <1>2, <1>4, <1>6, <1>7, <1>8, DocumentsAreSet

LEMMA DeleteDocumentStep ==
    ASSUME TreeInv, NEW d \in Doc, DeleteDocument(d)
    PROVE  TreeInv'
<1> DEFINE subtree == Below(Parent, d) \cap Stored(documents)
<1>1. PICK state \in {"recycled", "gone"} : Remove(subtree, state)
    BY DEF DeleteDocument
<1>2. Live(documents) \subseteq Stored(documents) /\ Live(documents) \subseteq Doc
    BY DocFacts DEF TreeInv
<1>3. ASSUME NEW x \in Live(documents) \ subtree, documents[x].parent \in Live(documents)
      PROVE  documents[x].parent \notin subtree
    <2>1. x \in Doc /\ Parent[x] = documents[x].parent /\ Parent[x] \in Doc
        BY <1>2, <1>3 DEF Parent
    <2>2. Parent[x] \in Items(Parent, x)
        BY <2>1, ItemsClosed DEF UpClosed
    <2>3. Path(Parent, Parent[x]) \subseteq Path(Parent, x)
        BY <2>1, <2>2, PathWithin
    <2> QED BY <1>2, <2>1, <2>3 DEF Below
<1> QED BY <1>1, <1>3, RemoveStep

LEMMA EmptyRecycleBinStep ==
    ASSUME TreeInv, EmptyRecycleBin
    PROVE  TreeInv'
BY RemoveStep DEF EmptyRecycleBin

LEMMA RestoreDocumentStep ==
    ASSUME TreeInv, NEW d \in Doc, RestoreDocument(d)
    PROVE  TreeInv'
<1> DEFINE docs == [documents EXCEPT ![d] = Restored(d)]
           parent == documents[d].parent
<1> USE DEF TreeInv, InPlace
<1>1. /\ documents[d].state = "recycled" /\ documents \in [Doc -> DocumentRow]
      /\ made \in [Doc -> DocumentRow] /\ made' = made
      /\ remembered \in SUBSET (Doc \cup Group) /\ isFavoriteFilter \in BOOLEAN
      /\ ops' \in 0 .. MaxOps /\ astray \subseteq Doc /\ astray' = astray
      /\ SetDocuments(docs, d, remembered, isFavoriteFilter)
    BY MaxOpsAssumption DEF RestoreDocument, Operate, ExplorerTypeOK
<1>2. /\ Restored(d) \in DocumentRow /\ Restored(d).state = "live"
      /\ Restored(d).parent = IF parent \in Live(documents) THEN parent ELSE None
      /\ Home(Restored(d)) = Home(documents[d])
    <2>1. documents[d] \in DocumentRow /\ parent \in Doc \cup {None}
        BY DocFacts
    <2> QED BY <2>1 DEF Restored, Home, DocumentRow
<1>3. /\ docs \in [Doc -> DocumentRow] /\ docs[d] = Restored(d)
      /\ \A x \in Doc : x # d => docs[x] = documents[x]
    BY <1>1, <1>2
<1>4. Live(documents) \subseteq Live(docs) /\ d \in Stored(docs)
    BY <1>1, <1>2, <1>3 DEF Live, Stored
<1>5. \A x \in Doc : /\ docs[x].parent \in {documents[x].parent, None}
                     /\ Home(docs[x]) = Home(documents[x])
                     /\ docs[x].state = "none" <=> documents[x].state = "none"
    BY <1>1, <1>2, <1>3
<1>6. Ordered(docs) /\ FromMade(docs) /\ Ordered(made)
    BY <1>5, StaysOrdered
<1>7. ASSUME NEW x \in Doc \ astray'
      PROVE  Filed(docs, x)
    <2>1. Filed(documents, x) /\ x \in Doc
        BY <1>1
    <2>2. docs[x].state = "live" /\ docs[x].parent # None => docs[x].parent \in Live(docs)
        BY <1>2, <1>3, <1>4, <2>1 DEF Filed
    <2> QED BY <1>5, <2>1, <2>2, StaysFiled
<1>8. d \in Stored(docs) \cup {None} /\ astray' \subseteq Doc
    BY <1>1, <1>4
<1> HIDE DEF docs
<1> QED BY <1>1, <1>3, <1>6, <1>7, <1>8, DocumentsAreSet

(* An answer brings a document with its parent, or without: what is not    *)
(* elsewhere then has its place.                                           *)
LEMMA MergeDocumentStep ==
    ASSUME TreeInv, NEW d \in Doc, MergeDocument(d)
    PROVE  TreeInv'
<1>1. PICK r \in Brought(d) :
          LET docs == [documents EXCEPT ![d] = r] IN
          /\ \E active \in {activeTabId} \cup ActiveThen(docs) :
                SetDocuments(docs, active, remembered, isFavoriteFilter)
          /\ astray' = astray \cup Elsewhere(docs)
    BY DEF MergeDocument
<1> DEFINE docs == [documents EXCEPT ![d] = r]
<1>2. PICK active \in {activeTabId} \cup ActiveThen(docs) :
          SetDocuments(docs, active, remembered, isFavoriteFilter)
    BY <1>1
<1>3. /\ documents \in [Doc -> DocumentRow] /\ astray \subseteq Doc
      /\ made \in [Doc -> DocumentRow] /\ made' = made
      /\ remembered \in SUBSET (Doc \cup Group) /\ isFavoriteFilter \in BOOLEAN
      /\ ops' \in 0 .. MaxOps /\ activeTabId \in Stored(documents) \cup {None}
      /\ documents[d].state \notin {"none", "asked"} /\ ExplorerTypeOK /\ Sourced
    BY MaxOpsAssumption DEF MergeDocument, Operate, TreeInv, ExplorerTypeOK, InPlace
<1>4. /\ r \in DocumentRow /\ r.state \in {"live", "recycled"}
      /\ r.parent \in {made[d].parent, None}
    <2>1. made[d] \in DocumentRow
        BY <1>3
    <2> QED BY <2>1 DEF Brought, DocumentRow
<1>5. /\ docs \in [Doc -> DocumentRow] /\ docs[d] = r
      /\ \A x \in Doc : x # d => docs[x] = documents[x]
    BY <1>3, <1>4
<1>6. astray' = astray \cup Elsewhere(docs)
    BY <1>1
<1> HIDE DEF docs
<1>7. FromMade(docs)
    BY <1>3, <1>4, <1>5 DEF Sourced, FromMade
<1>8. Ordered(docs) /\ Ordered(made)
    BY <1>3, <1>7, OrderedAsMade DEF Sourced
<1>9. Stored(documents) \subseteq Stored(docs)
    BY <1>4, <1>5 DEF Stored
<1>10. active \in Stored(docs) \cup {None}
    BY <1>2, <1>3, <1>9 DEF ActiveThen
<1>11. astray' \subseteq Doc /\ \A x \in Doc \ astray' : Filed(docs, x)
    BY <1>3, <1>6 DEF Elsewhere, Filed
<1> QED BY <1>2, <1>3, <1>5, <1>7, <1>8, <1>10, <1>11, DocumentsAreSet

-----------------------------------------------------------------------------
(* Folding.                                                                *)

LEMMA RebuildStep ==
    ASSUME TreeInv, NEW favorites \in BOOLEAN, Rebuild(favorites)
    PROVE  TreeInv'
<1>1. ExplorerTypeOK /\ InPlace
    BY DEF TreeInv
<1>2. /\ isFavoriteFilter' = favorites /\ under' = Tree(documents, favorites)
      /\ open' = Unfolded(remembered, favorites) /\ lost' = {} /\ dragged' = FALSE
      /\ disturbed' = TRUE /\ ops' \in 0 .. MaxOps
      /\ documents' = documents /\ activeTabId' = activeTabId
      /\ remembered' = remembered /\ astray' = astray /\ made' = made
    BY <1>1, MaxOpsAssumption DEF Rebuild, Operate, ExplorerTypeOK
<1>3. InPlace'
    BY <1>1, <1>2 DEF InPlace, Sourced, FromMade, Ordered, Filed, Live
<1>4. documents' \in [Doc -> DocumentRow] /\ astray' \subseteq Doc
    BY <1>1, <1>2 DEF ExplorerTypeOK
<1>5. /\ under' \in [Doc -> Doc \cup Group \cup {None}]
      /\ TreeIsLive' /\ TreeFollows' /\ NothingDisappears'
    BY <1>2, <1>3, <1>4, TreeIsBuilt
<1>6. open' \subseteq Doc \cup Group
    BY <1>1, <1>2, GroupFacts DEF Unfolded, ExplorerTypeOK
<1>7. ExplorerTypeOK'
    BY <1>1, <1>2, <1>5, <1>6 DEF ExplorerTypeOK, Stored
<1>8. ActiveIsVisible'
    BY <1>2 DEF ActiveIsVisible
<1>9. RememberedIsShown'
    BY <1>2 DEF RememberedIsShown, Unfolded
<1> QED BY <1>3, <1>5, <1>7, <1>8, <1>9 DEF TreeInv

(* Only what is unfolded changes.                                          *)
LEMMA SameTree ==
    ASSUME TreeInv, ops' \in 0 .. MaxOps, open' \subseteq Doc \cup Group,
           remembered' \subseteq Doc \cup Group, activeTabId' \in Stored(documents) \cup {None},
           disturbed' \in BOOLEAN, ActiveIsVisible', RememberedIsShown',
           UNCHANGED <<documents, made, isFavoriteFilter, under, lost, dragged, astray>>
    PROVE  TreeInv'
<1>1. ExplorerTypeOK'
    BY DEF TreeInv, ExplorerTypeOK, Stored
<1>2. TreeIsLive' /\ TreeFollows' /\ InPlace'
    BY DEF TreeInv, TreeIsLive, TreeFollows, Follows, InPlace, Sourced, FromMade, Ordered, Filed, Live
<1>3. NothingDisappears'
    BY DEF TreeInv, NothingDisappears, Live
<1> QED BY <1>1, <1>2, <1>3 DEF TreeInv

LEMMA ToggleStep ==
    ASSUME TreeInv, NEW x \in Doc \cup Group, Toggle(x)
    PROVE  TreeInv'
<1>1. /\ ops' \in 0 .. MaxOps /\ activeTabId' \in Stored(documents) \cup {None}
      /\ open' \subseteq Doc \cup Group /\ remembered' \subseteq Doc \cup Group
    BY MaxOpsAssumption DEF Toggle, Operate, Switched, TreeInv, ExplorerTypeOK
<1>2. disturbed' = TRUE /\ ActiveIsVisible'
    BY DEF Toggle, ActiveIsVisible
<1>3. RememberedIsShown'
    <2>1. \A d \in Doc : d \in remembered' /\ (d \in remembered => d \in open) => d \in open'
        BY DEF Toggle, Switched
    <2> QED BY <2>1 DEF TreeInv, RememberedIsShown, Toggle, Listed, Children
<1> QED BY <1>1, <1>2, <1>3, SameTree DEF Toggle

LEMMA ToggleAllGroupsStep ==
    ASSUME TreeInv, ToggleAllGroups
    PROVE  TreeInv'
<1> DEFINE items == {d \in Doc : Listed(under, d)}
           parents == {d \in items : Children(d) # {}}
<1>1. Groups \subseteq Group
    BY DocFacts DEF TreeInv
<1>2. /\ ops' \in 0 .. MaxOps /\ activeTabId' \in Stored(documents) \cup {None}
      /\ open' \subseteq Doc \cup Group /\ remembered' \subseteq Doc \cup Group
    BY <1>1, MaxOpsAssumption DEF ToggleAllGroups, Operate, TreeInv, ExplorerTypeOK
<1>3. disturbed' = TRUE /\ ActiveIsVisible'
    BY DEF ToggleAllGroups, ActiveIsVisible
<1>4. RememberedIsShown'
    <2>1. ASSUME NEW d \in Doc, d \in remembered', Listed(under, d), Children(d) # {}
          PROVE  d \in open'
        <3>1. d \in items /\ d \in parents
            BY <2>1
        <3> QED BY <2>1, <3>1 DEF ToggleAllGroups
    <2>2. under' = under
        BY DEF ToggleAllGroups
    <2> QED BY <2>1, <2>2 DEF RememberedIsShown, Listed, Children
<1> QED BY <1>2, <1>3, <1>4, SameTree DEF ToggleAllGroups

(* The second effect unfolds; what was unfolded stays.                     *)
LEMMA OpenTabStep ==
    ASSUME TreeInv, NEW d \in Doc \cup {None}, OpenTab(d)
    PROVE  TreeInv'
<1>1. /\ ExplorerTypeOK /\ d \in Stored(documents) \cup {None} /\ activeTabId' = d
      /\ open' = DownTo(under, open, documents, d)
      /\ disturbed' = IF d = activeTabId THEN disturbed ELSE dragged
      /\ remembered' = remembered /\ under' = under /\ documents' = documents
      /\ isFavoriteFilter' = isFavoriteFilter
    BY DEF OpenTab, Activate, TreeInv
<1>2. ops' \in 0 .. MaxOps /\ disturbed' \in BOOLEAN /\ remembered' \subseteq Doc \cup Group
    BY <1>1, MaxOpsAssumption DEF OpenTab, Operate, ExplorerTypeOK
<1>3. open' \subseteq Doc \cup Group /\ open \subseteq open'
    BY <1>1, DownToType DEF ExplorerTypeOK
<1>4. RememberedIsShown'
    BY <1>1, <1>3 DEF TreeInv, RememberedIsShown, Listed, Children
<1>5. ASSUME d \in Doc, Listed(under, d), ~disturbed'
      PROVE  (Path(under, d) \ {d}) \cap Group # {} /\ Path(under, d) \ {d} \subseteq open'
    <2>1. CASE d = activeTabId
        <3>1. Visible(d)
            BY <1>1, <1>5, <2>1 DEF TreeInv, ActiveIsVisible
        <3> QED BY <1>3, <3>1 DEF Visible
    <2>2. CASE d # activeTabId
        <3>1. Follows(under, documents)
            BY <1>1, <1>5, <2>2 DEF TreeInv, TreeFollows
        <3>2. d \in Stored(documents)
            BY <1>1, <1>5, GroupFacts
        <3>3. Path(under, d) \ {d} \subseteq open'
            BY <1>1, <1>5, <3>1, <3>2, DownToShows DEF ExplorerTypeOK
        <3>4. (Path(under, d) \ {d}) \cap Group # {}
            BY <1>5, GroupFacts DEF Listed
        <3> QED BY <3>3, <3>4
    <2> QED BY <2>1, <2>2
<1>6. ActiveIsVisible'
    BY <1>1, <1>5 DEF ActiveIsVisible, Visible, Listed
<1> QED BY <1>1, <1>2, <1>3, <1>4, <1>6, SameTree DEF OpenTab

-----------------------------------------------------------------------------
(* Asking for a document.                                                  *)

LEMMA Listing ==
    ASSUME NEW t, NEW d \in Doc, Listed(t, d)
    PROVE  t[d] # None
<1>1. CASE t[d] = None
    <2>1. Items(t, d) = {d}
        BY <1>1, ItemsStep, GroupFacts
    <2>2. \A y \in Group : y \notin Path(t, d)
        BY <1>1, <2>1, PathIs, GroupFacts
    <2> QED BY <2>2 DEF Listed
<1> QED BY <1>1

LEMMA VisibleIsListed ==
    ASSUME NEW d \in Doc, Visible(d)
    PROVE  Listed(under, d) /\ under[d] # None
<1>1. Listed(under, d)
    BY DEF Visible, Listed
<1> QED BY <1>1, Listing

(* A row that is not live takes another that is not.                       *)
LEMMA OneRow ==
    ASSUME TreeInv, NEW d \in Doc, NEW r \in DocumentRow,
           documents[d].state \in {"none", "asked"}, r.state \in {"asked", "gone"},
           documents' = [documents EXCEPT ![d] = r], made' \in [Doc -> DocumentRow],
           Sourced', Ordered(documents'), \A x \in Doc \ astray' : Filed(documents', x),
           astray \subseteq astray', astray' \subseteq Doc, ops' \in 0 .. MaxOps,
           open \subseteq open', open' \subseteq Doc \cup Group,
           remembered' \subseteq Doc \cup Group, RememberedIsShown',
           UNCHANGED <<activeTabId, isFavoriteFilter, under, lost, dragged, disturbed>>
    PROVE  TreeInv'
<1>1. documents \in [Doc -> DocumentRow] /\ ExplorerTypeOK
    BY DEF TreeInv, ExplorerTypeOK
<1>2. /\ documents' \in [Doc -> DocumentRow] /\ documents'[d] = r
      /\ \A x \in Doc : x # d => documents'[x] = documents[x]
    BY <1>1
<1>3. Live(documents') = Live(documents) /\ Stored(documents') = Stored(documents)
    BY <1>2 DEF Live, Stored
<1>4. ExplorerTypeOK'
    <2>1. Stored(documents)' = Stored(documents)
        BY <1>3 DEF Stored
    <2> QED BY <1>1, <1>2, <2>1 DEF ExplorerTypeOK
<1>5. TreeIsLive'
    <2>1. Live(documents)' = Live(documents)
        BY <1>3 DEF Live
    <2> QED BY <2>1 DEF TreeInv, TreeIsLive
<1>6. TreeFollows'
    <2>1. ASSUME NEW x \in Doc, under[x] \in Doc
          PROVE  documents'[x] = documents[x]
        <3>1. x \in Live(documents)
            BY <2>1, GroupFacts DEF TreeInv, TreeIsLive
        <3> QED BY <1>2, <3>1 DEF Live
    <2> QED BY <2>1 DEF TreeInv, TreeFollows, Follows
<1>7. InPlace'
    BY DEF InPlace, Sourced, FromMade, Ordered, Filed, Live
<1>8. NothingDisappears'
    <2>1. Live(documents)' = Live(documents)
        BY <1>3 DEF Live
    <2>2. ASSUME NEW x \in Live(documents)
          PROVE  \/ isFavoriteFilter /\ x \notin Favorite
                 \/ Listed(under, x)
                 \/ Path(under, x) \cap (lost \cup astray') # {}
        BY DEF TreeInv, NothingDisappears
    <2> QED BY <2>1, <2>2 DEF NothingDisappears, Listed
<1>9. ActiveIsVisible'
    <2>1. ASSUME activeTabId \in Doc, Listed(under, activeTabId), ~disturbed
          PROVE  LET path == Path(under, activeTabId) \ {activeTabId}
                 IN  path \cap Group # {} /\ path \subseteq open'
        BY <2>1 DEF TreeInv, ActiveIsVisible, Visible
    <2> QED BY <2>1 DEF ActiveIsVisible, Visible, Listed
<1> QED BY <1>4, <1>5, <1>6, <1>7, <1>8, <1>9 DEF TreeInv

LEMMA CreateFailsStep ==
    ASSUME TreeInv, NEW d \in Doc, CreateFails(d)
    PROVE  TreeInv'
<1> DEFINE r == [documents[d] EXCEPT !.state = "gone"]
<1>1. /\ ExplorerTypeOK /\ documents \in [Doc -> DocumentRow] /\ Ordered(documents)
      /\ \A x \in Doc \ astray : Filed(documents, x)
      /\ documents[d].state = "asked" /\ astray' = astray
      /\ made \in [Doc -> DocumentRow] /\ made' = made /\ Sourced
    BY DEF TreeInv, ExplorerTypeOK, InPlace, CreateFails, explorerHistory
<1>2. documents[d] \in DocumentRow
    BY <1>1
<1>3. /\ r \in DocumentRow /\ r.state = "gone" /\ r.parent = documents[d].parent
      /\ Home(r) = Home(documents[d])
    BY <1>2, StateOnly
<1> HIDE DEF r
<1>4. documents' = [documents EXCEPT ![d] = r]
    BY DEF CreateFails, r
<1>5. documents'[d] = r /\ \A x \in Doc : x # d => documents'[x] = documents[x]
    BY <1>1, <1>4
<1>6. \A x \in Doc : /\ documents'[x].parent = documents[x].parent
                     /\ Home(documents'[x]) = Home(documents[x])
                     /\ documents'[x].state = "none" <=> documents[x].state = "none"
    BY <1>1, <1>3, <1>5
<1>7. Ordered(documents') /\ Sourced'
    <2>1. Ordered(documents') /\ FromMade(documents') /\ Ordered(made)
        BY <1>1, <1>6, StaysOrdered
    <2> QED BY <1>1, <2>1 DEF Sourced, FromMade, Ordered
<1>8. ASSUME NEW x \in Doc \ astray'
      PROVE  Filed(documents', x)
    <2>1. Live(documents') = Live(documents)
        BY <1>1, <1>3, <1>5 DEF Live
    <2>2. Filed(documents, x) /\ x \in Doc
        BY <1>1
    <2>3. documents'[x].state = "live" /\ documents'[x].parent # None
              => documents'[x].parent \in Live(documents')
        BY <1>3, <1>5, <2>1, <2>2 DEF Filed
    <2> QED BY <1>1, <1>6, <2>2, <2>3, StaysFiled
<1>9. /\ ops' \in 0 .. MaxOps /\ open \subseteq open' /\ open' \subseteq Doc \cup Group
      /\ remembered' \subseteq Doc \cup Group /\ astray' \subseteq Doc
    BY DEF TreeInv, ExplorerTypeOK, CreateFails, tree, explorerHistory
<1>10. RememberedIsShown'
    BY DEF TreeInv, RememberedIsShown, CreateFails, tree, Listed, Children
<1> QED BY <1>1, <1>3, <1>4, <1>7, <1>8, <1>9, <1>10, OneRow DEF CreateFails, tree, explorerHistory

LEMMA RequestFacts ==
    ASSUME NEW g \in Group, NEW parent \in Doc \cup {None}
    PROVE  LET r == Request(g, parent)
           IN  /\ r \in DocumentRow /\ r.state = "asked" /\ r.parent = parent
               /\ ~Misfiled(g, parent) =>
                     Home(r) = g /\ (parent # None => Home(documents[parent]) = g)
<1>1. Request(g, parent) \in DocumentRow
    BY GroupFacts DEF Request, DocumentRow
<1>2. ~Misfiled(g, parent) => g \in {Private, Own} /\ (parent # None => Home(documents[parent]) = g)
    BY DEF Misfiled, Group
<1>3. g \in {Private, Own} => Home(Request(g, parent)) = g
    BY GroupFacts DEF Home, Request, Known
<1> QED BY <1>1, <1>2, <1>3 DEF Request

(* A document joins those it may lie below.                                *)
LEMMA JoinsOrdered ==
    ASSUME NEW docs \in [Doc -> DocumentRow], Ordered(docs), NEW d \in Doc,
           docs[d].state = "none", NEW r \in DocumentRow, r.state # "none",
           r.parent # None => /\ r.parent \in Doc /\ r.parent # d
                              /\ docs[r.parent].state # "none"
    PROVE  Ordered([docs EXCEPT ![d] = r])
<1> DEFINE joined == [docs EXCEPT ![d] = r]
<1>1. joined[d] = r /\ \A x \in Doc : x # d => joined[x] = docs[x]
    OBVIOUS
<1> HIDE DEF joined
<1>2. \A x \in Doc : docs[x].parent \in Doc \cup {None}
    BY RowFacts
<1>3. \A x \in Doc : docs[x].parent # d
    BY GroupFacts DEF Ordered
<1>4. ASSUME NEW S \in SUBSET Doc, S # {}
      PROVE  \E x \in S : joined[x].parent \notin S
    <2>1. CASE S \subseteq {d}
        BY <1>1, <1>4, <2>1, GroupFacts
    <2>2. CASE ~(S \subseteq {d})
        <3>1. S \ {d} # {} /\ S \ {d} \in SUBSET Doc
            BY <2>2
        <3>2. PICK x \in S \ {d} : docs[x].parent \notin S \ {d}
            BY <3>1 DEF Ordered
        <3>3. joined[x] = docs[x] /\ x \in Doc
            BY <1>1, <3>2
        <3> QED BY <1>3, <3>2, <3>3
    <2> QED BY <2>1, <2>2
<1>5. ASSUME NEW x \in Doc, joined[x].parent # None
      PROVE  joined[x].state # "none" /\ joined[joined[x].parent].state # "none"
    <2>1. CASE x = d
        BY <1>1, <1>5, <2>1
    <2>2. CASE x # d
        BY <1>1, <1>2, <1>3, <1>5, <2>2 DEF Ordered
    <2> QED BY <2>1, <2>2
<1>6. Ordered(joined)
    BY <1>4, <1>5 DEF Ordered
<1> QED BY <1>6 DEF joined

LEMMA AskStep ==
    ASSUME TreeInv, NEW d \in Doc, NEW g \in Group, NEW parent \in Doc \cup {None},
           Ask(d, g, parent), parent # None => parent \in Live(documents),
           open \subseteq open', open' \subseteq Doc \cup Group,
           remembered' \cap Doc \subseteq remembered \cup open',
           remembered' \subseteq Doc \cup Group
    PROVE  TreeInv'
<1> DEFINE r == Request(g, parent)
<1>1. /\ ExplorerTypeOK /\ documents \in [Doc -> DocumentRow] /\ Ordered(documents)
      /\ \A x \in Doc \ astray : Filed(documents, x)
      /\ documents[d].state = "none" /\ documents' = [documents EXCEPT ![d] = r]
      /\ astray' = IF Misfiled(g, parent) THEN astray \cup {d} ELSE astray
      /\ ops' \in 0 .. MaxOps /\ astray \subseteq Doc
    BY MaxOpsAssumption DEF TreeInv, ExplorerTypeOK, InPlace, Ask, Operate
<1>2. /\ r \in DocumentRow /\ r.state = "asked" /\ r.parent = parent
      /\ ~Misfiled(g, parent) =>
            Home(r) = g /\ (parent # None => Home(documents[parent]) = g)
    BY RequestFacts
<1> HIDE DEF r
<1>3. documents'[d] = r /\ \A x \in Doc : x # d => documents'[x] = documents[x]
    BY <1>1
<1>4. \A x \in Doc : documents[x].parent # d
    BY <1>1, GroupFacts DEF Ordered
<1>5. parent # None => /\ parent \in Doc /\ parent # d /\ documents'[parent] = documents[parent]
                       /\ documents'[parent].state # "none"
    BY <1>1, <1>3 DEF Live
<1>6. Ordered(documents')
    BY <1>1, <1>2, <1>5, JoinsOrdered
<1>10. /\ made \in [Doc -> DocumentRow] /\ made' = [made EXCEPT ![d] = r]
       /\ Ordered(made) /\ FromMade(documents) /\ made[d].state = "none"
    BY <1>1 DEF TreeInv, ExplorerTypeOK, InPlace, Sourced, FromMade, Ask, r
<1>11. made' \in [Doc -> DocumentRow] /\ Sourced'
    <2>1. parent # None => made[parent].state # "none"
        BY <1>1, <1>5, <1>10 DEF FromMade, Live
    <2>2. Ordered(made')
        BY <1>2, <1>5, <1>10, <2>1, JoinsOrdered
    <2>3. \A x \in Doc : /\ documents'[x].parent \in {made'[x].parent, None}
                         /\ documents'[x].state = "none" <=> made'[x].state = "none"
        BY <1>2, <1>3, <1>10 DEF FromMade
    <2> QED BY <1>2, <1>10, <2>2, <2>3 DEF Sourced, FromMade, Ordered
<1>7. ASSUME NEW x \in Doc \ astray'
      PROVE  Filed(documents', x)
    <2>1. CASE x = d
        <3>1. ~Misfiled(g, parent)
            BY <1>1, <2>1
        <3> QED BY <1>2, <1>3, <1>5, <2>1, <3>1, GroupFacts DEF Filed
    <2>2. CASE x # d
        <3>1. Filed(documents, x) /\ documents'[x] = documents[x] /\ x \in Doc
            BY <1>1, <1>3, <2>2
        <3>2. documents[x].parent # None =>
                  /\ documents'[documents[x].parent] = documents[documents[x].parent]
                  /\ documents[x].parent \in Doc
            BY <1>1, <1>3, <1>4, <3>1, DocFacts
        <3> QED BY <3>1, <3>2 DEF Filed, Live
    <2> QED BY <2>1, <2>2
<1>8. astray \subseteq astray' /\ astray' \subseteq Doc
    BY <1>1
<1>9. RememberedIsShown'
    <2>1. under' = under /\ isFavoriteFilter' = isFavoriteFilter
        BY DEF Ask
    <2> QED BY <2>1 DEF TreeInv, RememberedIsShown, Listed, Children
<1> QED BY <1>1, <1>2, <1>6, <1>7, <1>8, <1>9, <1>11, OneRow DEF Ask

LEMMA HandleAddSubPageStep ==
    ASSUME TreeInv, NEW d \in Doc, HandleAddSubPage(d)
    PROVE  TreeInv'
<1>1. Groups \subseteq Group /\ open \subseteq Doc \cup Group /\ remembered \subseteq Doc \cup Group
    BY DocFacts DEF TreeInv, ExplorerTypeOK
<1>2. ASSUME NEW g \in Groups, Ask(d, g, None), remembered' = remembered \cup {g}, UNCHANGED open
      PROVE  TreeInv'
    BY <1>1, <1>2, AskStep, GroupFacts
<1>3. ASSUME NEW p \in Doc, NEW g \in Groups, Ask(d, g, p), Visible(p),
             remembered' = remembered \cup {g, p}, open' = open \cup {g, p}
      PROVE  TreeInv'
    <2>1. p \in Live(documents)
        BY <1>3, VisibleIsListed DEF TreeInv, TreeIsLive
    <2> QED BY <1>1, <1>3, <2>1, AskStep
<1> QED BY <1>2, <1>3 DEF HandleAddSubPage

LEMMA HandleCreateStep ==
    ASSUME TreeInv, NEW d \in Doc, HandleCreate(d)
    PROVE  TreeInv'
<1>1. open \subseteq Doc \cup Group /\ remembered \subseteq Doc \cup Group
    BY DEF TreeInv, ExplorerTypeOK
<1>2. Ask(d, Own, None)
    BY DEF HandleCreate, Offered
<1> QED BY <1>1, <1>2, AskStep, GroupFacts DEF HandleCreate

-----------------------------------------------------------------------------
(* Dragging: one item has another place, or none.                          *)
LEMMA Dragged ==
    ASSUME TreeInv, NEW d \in Doc, Visible(d), NEW place \in Doc \cup Group \cup {None},
           under' = [under EXCEPT ![d] = place],
           \A x \in Doc : Listed(under, x) => Listed(under', x) \/ d \in Path(under', x) \cap lost',
           \A x \in Doc : place = x /\ x \notin open' => Children(x) # {},
           open \subseteq open', open' \subseteq Doc \cup Group,
           lost \subseteq lost', lost' \subseteq Doc,
           dragged' = TRUE, disturbed' = TRUE, Operate,
           UNCHANGED <<documents, made, activeTabId, isFavoriteFilter, remembered, astray>>
    PROVE  TreeInv'
<1>1. ExplorerTypeOK /\ Listed(under, d) /\ d \in Live(documents)
    BY VisibleIsListed DEF TreeInv, TreeIsLive
<1>2. /\ under' \in [Doc -> Doc \cup Group \cup {None}] /\ under'[d] = place
      /\ \A x \in Doc \ {d} : under'[x] = under[x]
    BY <1>1 DEF ExplorerTypeOK
<1>3. ExplorerTypeOK'
    BY <1>1, <1>2, MaxOpsAssumption DEF ExplorerTypeOK, Operate, Stored
<1>4. TreeIsLive' /\ TreeFollows' /\ InPlace' /\ ActiveIsVisible'
    BY <1>1, <1>2 DEF TreeInv, TreeIsLive, TreeFollows, InPlace, Sourced, FromMade, Ordered, Filed, Live, ActiveIsVisible
<1>5. ASSUME NEW x \in Live(documents)
      PROVE  \/ isFavoriteFilter /\ x \notin Favorite
             \/ Listed(under', x)
             \/ Path(under', x) \cap (lost' \cup astray) # {}
    <2>1. x \in Doc /\ (\/ isFavoriteFilter /\ x \notin Favorite
                        \/ Listed(under, x)
                        \/ Path(under, x) \cap (lost \cup astray) # {})
        BY DEF TreeInv, NothingDisappears, Live
    <2>2. CASE d \in Items(under, x)
        <3>1. Listed(under, x)
            BY <1>1, <2>1, <2>2, PathWithin DEF Listed
        <3> QED BY <2>1, <3>1
    <2>3. CASE d \notin Items(under, x)
        <3>1. Path(under', x) = Path(under, x)
            BY <1>2, <2>1, <2>3, PathElsewhere
        <3> QED BY <2>1, <3>1 DEF Listed
    <2> QED BY <2>2, <2>3
<1>6. NothingDisappears'
    BY <1>5 DEF NothingDisappears, Live, Listed
<1>7. ASSUME NEW x \in Doc, x \in remembered, ~isFavoriteFilter, Listed(under', x),
             NEW y \in Doc, under'[y] = x, x \notin open'
      PROVE  FALSE
    <2>1. Listed(under, x)
        BY <1>1, <1>2, <1>7, ListedBefore
    <2>2. Children(x) # {}
        BY <1>2, <1>7 DEF Children
    <2> QED BY <1>7, <2>1, <2>2 DEF TreeInv, RememberedIsShown
<1>8. RememberedIsShown'
    BY <1>7 DEF RememberedIsShown, Listed, Children
<1> QED BY <1>3, <1>4, <1>6, <1>8 DEF TreeInv

LEMMA HandleDragEndStep ==
    ASSUME TreeInv, HandleDragEnd
    PROVE  TreeInv'
<1> DEFINE seen == {x \in Doc : Visible(x)}
           targets(d) == seen \ Below(under, d)
<1>1. /\ under \in [Doc -> Doc \cup Group \cup {None}] /\ open \subseteq Doc \cup Group
      /\ lost \subseteq Doc
    BY DEF TreeInv, ExplorerTypeOK
<1>2. ASSUME NEW d \in seen, NEW over \in targets(d), NEW place \in {over, under[over]},
             under' = [under EXCEPT ![d] = place],
             open' = IF place = over THEN open \cup {over} ELSE open,
             UNCHANGED lost
      PROVE  TreeInv'
    <2>1. /\ d \in Doc /\ Visible(d) /\ over \in Doc /\ Listed(under, over)
          /\ d \notin Path(under, over)
        BY <1>2, VisibleIsListed DEF Below
    <2>2. place \in Doc \cup Group \cup {None}
        BY <1>1, <2>1
    <2>3. under'[d] = place /\ \A y \in Doc \ {d} : under'[y] = under[y]
        BY <1>1, <1>2, <2>1
    <2>4. \A x \in Doc : Listed(under, x) => Listed(under', x)
        BY <2>1, <2>3, ListedAfter
    <2>5. \A x \in Doc : place = x /\ x \notin open' => Children(x) # {}
        BY <1>2, <2>1 DEF Children
    <2>6. /\ open \subseteq open' /\ open' \subseteq Doc \cup Group
          /\ lost \subseteq lost' /\ lost' \subseteq Doc
        BY <1>1, <1>2, <2>1
    <2> QED BY <1>2, <2>1, <2>2, <2>4, <2>5, <2>6, Dragged DEF HandleDragEnd
<1>3. ASSUME NEW d \in seen, under' = [under EXCEPT ![d] = None], lost' = lost \cup {d},
             UNCHANGED open
      PROVE  TreeInv'
    <2>1. d \in Doc /\ Visible(d)
        BY <1>3
    <2>2. under'[d] = None /\ \A y \in Doc \ {d} : under'[y] = under[y]
        BY <1>1, <1>3, <2>1
    <2>3. ASSUME NEW x \in Doc, Listed(under, x)
          PROVE  Listed(under', x) \/ d \in Path(under', x) \cap lost'
        <3>1. CASE d \in Items(under, x)
            <4>1. d \in Items(under', x)
                BY <2>1, <2>2, <3>1, PathElsewhere
            <4>2. d \in Path(under', x)
                BY <4>1, PathIs
            <4> QED BY <1>3, <4>2
        <3>2. CASE d \notin Items(under, x)
            BY <2>1, <2>2, <2>3, <3>2, PathElsewhere DEF Listed
        <3> QED BY <3>1, <3>2
    <2>4. \A x \in Doc : None = x /\ x \notin open' => Children(x) # {}
        BY GroupFacts
    <2>5. /\ open \subseteq open' /\ open' \subseteq Doc \cup Group
          /\ lost \subseteq lost' /\ lost' \subseteq Doc
        BY <1>1, <1>3, <2>1
    <2> QED BY <1>3, <2>1, <2>3, <2>4, <2>5, Dragged DEF HandleDragEnd
<1>4. PICK d \in seen :
          \/ \E over \in targets(d) :
                /\ \/ under' = [under EXCEPT ![d] = under[over]] /\ UNCHANGED open
                   \/ under' = [under EXCEPT ![d] = over] /\ open' = open \cup {over}
                /\ UNCHANGED lost
          \/ /\ under' = [under EXCEPT ![d] = None]
             /\ lost' = lost \cup {d}
             /\ UNCHANGED open
    BY DEF HandleDragEnd
<1>5. ASSUME NEW over \in targets(d), under' = [under EXCEPT ![d] = under[over]], UNCHANGED open
      PROVE  under[over] # over
    <2>1. over \in Doc /\ Listed(under, over)
        BY <1>5, VisibleIsListed
    <2>2. ASSUME under[over] = over
          PROVE  FALSE
        <3>1. UpClosed(under, {over})
            BY <2>2 DEF UpClosed
        <3>2. Items(under, over) \subseteq {over}
            BY <2>1, <3>1, ItemsLeast
        <3>3. \A y \in Path(under, over) : y = over
            BY <2>1, <2>2, <3>2, PathIs
        <3> QED BY <2>1, <3>3, GroupFacts DEF Listed
    <2> QED BY <2>2
<1> HIDE DEF seen, targets
<1> QED BY <1>2, <1>3, <1>4, <1>5

-----------------------------------------------------------------------------
(* The steps and the theorems.                                             *)

LEMMA FirstIsTyped == FirstDocs \in [Doc -> DocumentRow]
BY FirstAssumption

LEMMA InitIsGood == ExplorerInit => TreeInv
<1> SUFFICES ASSUME ExplorerInit PROVE TreeInv
    OBVIOUS
<1>1. /\ documents = FirstDocs /\ made = FirstDocs /\ documents \in [Doc -> DocumentRow] /\ activeTabId = None
      /\ isFavoriteFilter = FALSE /\ remembered = {Private} /\ open = {Private}
      /\ under = Tree(FirstDocs, FALSE) /\ ops = 0 /\ lost = {} /\ dragged = FALSE
      /\ disturbed = FALSE /\ astray = Elsewhere(FirstDocs)
    BY FirstIsTyped DEF ExplorerInit
<1>2. ExplorerTypeOK
    <2>1. under \in [Doc -> Doc \cup Group \cup {None}]
        BY <1>1, TreeIs
    <2>2. 0 \in 0 .. MaxOps
        BY MaxOpsAssumption
    <2> QED BY <1>1, <2>1, <2>2, GroupFacts DEF ExplorerTypeOK, Elsewhere
<1>3. TreeIsLive /\ TreeFollows
    BY <1>1, TreeFollowsDocuments DEF TreeIsLive, TreeFollows
<1>4. Ordered(documents)
    <2>1. \A d \in Doc : documents[d].parent # None => documents[d].state # "none"
                            /\ documents[documents[d].parent].state # "none"
        BY <1>1, FirstAssumption
    <2> QED BY <1>1, <2>1, FirstAssumption DEF Ordered
<1>5. \A d \in Doc \ astray : Filed(documents, d)
    BY <1>1 DEF Elsewhere, Filed
<1>6. InPlace
    <2>1. Sourced
        BY <1>1, <1>4 DEF Sourced, FromMade
    <2> QED BY <1>4, <1>5, <2>1 DEF InPlace
<1>7. NothingDisappears
    <2>1. ASSUME NEW d \in Live(documents)
          PROVE  \/ isFavoriteFilter /\ d \notin Favorite
                 \/ Listed(under, d)
                 \/ Path(under, d) \cap astray # {}
        <3>1. astray \in SUBSET Doc
            BY <1>2 DEF ExplorerTypeOK
        <3> QED BY <1>1, <1>4, <1>5, <3>1, TreeIsComplete
    <2> QED BY <1>1, <2>1 DEF NothingDisappears
<1>8. ActiveIsVisible
    BY <1>1, GroupFacts DEF ActiveIsVisible
<1>9. RememberedIsShown
    BY <1>1, GroupFacts DEF RememberedIsShown
<1> QED BY <1>2, <1>3, <1>6, <1>7, <1>8, <1>9 DEF TreeInv

LEMMA FoldStep ==
    ASSUME TreeInv, Fold
    PROVE  TreeInv'
<1>1. isFavoriteFilter \in BOOLEAN /\ (~isFavoriteFilter) \in BOOLEAN
    BY DEF TreeInv, ExplorerTypeOK
<1>2. Groups \subseteq Group
    BY DocFacts DEF TreeInv
<1>3. CASE ToggleFavorites
    BY <1>1, <1>3, RebuildStep DEF ToggleFavorites
<1>4. CASE HandleSortChange
    BY <1>1, <1>4, RebuildStep DEF HandleSortChange
<1>5. CASE ToggleGroup
    BY <1>2, <1>5, ToggleStep DEF ToggleGroup
<1>6. CASE ToggleExpandItem
    BY <1>6, ToggleStep DEF ToggleExpandItem
<1> QED BY <1>3, <1>4, <1>5, <1>6, ToggleAllGroupsStep DEF Fold

LEMMA SidebarStep ==
    ASSUME TreeInv, OpenSidebar \/ FetchDocuments
    PROVE  TreeInv'
<1>1. /\ ops \in 0 .. MaxOps /\ isFavoriteFilter \in BOOLEAN
      /\ activeTabId \in Stored(documents) \cup {None}
      /\ remembered \in SUBSET (Doc \cup Group) /\ {Private} \in SUBSET (Doc \cup Group)
    BY GroupFacts DEF TreeInv, ExplorerTypeOK
<1>2. CASE OpenSidebar
    <2>1. ops' \in 0 .. MaxOps
        BY <1>1, <1>2, MaxOpsAssumption DEF OpenSidebar, Operate
    <2> QED BY <1>1, <1>2, <2>1, SameDocuments DEF OpenSidebar
<1>3. CASE FetchDocuments
    <2>1. PICK active \in ActiveThen(documents) :
              SetDocuments(documents, active, remembered, isFavoriteFilter)
        BY <1>3 DEF FetchDocuments
    <2>2. active \in Stored(documents) \cup {None}
        BY <1>1, <2>1 DEF ActiveThen
    <2>3. ops' \in 0 .. MaxOps /\ UNCHANGED <<made, astray>>
        BY <1>1, <1>3 DEF FetchDocuments
    <2> QED BY <1>1, <2>1, <2>2, <2>3, SameDocuments
<1> QED BY <1>2, <1>3

LEMMA NextIsGood == TreeInv /\ [ExplorerNext]_explorerVars => TreeInv'
<1> SUFFICES ASSUME TreeInv, [ExplorerNext]_explorerVars PROVE TreeInv'
    OBVIOUS
<1>1. CASE OpenSidebar \/ FetchDocuments
    BY <1>1, SidebarStep
<1>2. CASE Fold
    BY <1>2, FoldStep
<1>3. CASE HandleDragEnd
    BY <1>3, HandleDragEndStep
<1>4. CASE EmptyRecycleBin
    BY <1>4, EmptyRecycleBinStep
<1>5. ASSUME NEW d \in Doc, Create(d)
      PROVE  TreeInv'
    BY <1>5, HandleAddSubPageStep, HandleCreateStep, CreateDocumentStep, CreateFailsStep DEF Create
<1>6. ASSUME NEW d \in Doc, Change(d)
      PROVE  TreeInv'
    BY <1>6, DeleteDocumentStep, RestoreDocumentStep, MergeDocumentStep DEF Change
<1>7. ASSUME NEW d \in Doc \cup {None}, OpenTab(d)
      PROVE  TreeInv'
    BY <1>7, OpenTabStep
<1>8. CASE UNCHANGED explorerVars
    BY <1>8 DEF explorerVars, tree, explorerHistory, TreeInv, ExplorerTypeOK, TreeIsLive,
       TreeFollows, Follows, InPlace, Sourced, FromMade, Ordered, Filed, NothingDisappears, ActiveIsVisible, RememberedIsShown, Live, Stored,
       Listed, Visible, Children
<1> QED BY <1>1, <1>2, <1>3, <1>4, <1>5, <1>6, <1>7, <1>8 DEF ExplorerNext

LEMMA ExplorerInvariant == ExplorerSpec => []TreeInv
<1>1. ExplorerInit => TreeInv
    BY InitIsGood
<1>2. TreeInv /\ [ExplorerNext]_explorerVars => TreeInv'
    BY NextIsGood
<1> QED BY <1>1, <1>2, PTL DEF ExplorerSpec

(* The list keeps the types of its state: the tree gives each document one *)
(* place, and what is active is in the store (DocumentList.tsx 520-600).   *)
THEOREM ExplorerTypeCorrect == ExplorerSpec => []ExplorerTypeOK
<1>1. TreeInv => ExplorerTypeOK
    BY DEF TreeInv
<1> QED BY <1>1, ExplorerInvariant, PTL

(* However the documents change and the tree is folded and dragged, a live *)
(* document is in the list, but for the ways to lose it that the property  *)
(* names (DocumentList.tsx 600-760, 932-1038; SingleTabEditor 989-1010).   *)
THEOREM NothingDisappearsHolds == ExplorerSpec => []NothingDisappears
<1>1. TreeInv => NothingDisappears
    BY DEF TreeInv
<1> QED BY <1>1, ExplorerInvariant, PTL

(* The tree is unfolded down to the active document whenever it is built   *)
(* of other documents or another tab is opened (DocumentList.tsx 762-815). *)
THEOREM ActiveIsVisibleHolds == ExplorerSpec => []ActiveIsVisible
<1>1. TreeInv => ActiveIsVisible
    BY DEF TreeInv
<1> QED BY <1>1, ExplorerInvariant, PTL

(* What the references remember to unfold is unfolded in the list already, *)
(* if it is there and has children (DocumentList.tsx 529-531, 847-930).    *)
THEOREM RememberedIsShownHolds == ExplorerSpec => []RememberedIsShown
<1>1. TreeInv => RememberedIsShown
    BY DEF TreeInv
<1> QED BY <1>1, ExplorerInvariant, PTL

=============================================================================
