-------------------------- MODULE Departments_proofs --------------------------
(***************************************************************************)
(* Proofs about Departments, for any number of departments, requests and   *)
(* operations.                                                             *)
(***************************************************************************)
EXTENDS Departments, TLAPS

-----------------------------------------------------------------------------
(* The first part of the inductive invariant.  The ids in a list, and the  *)
(* parents, were given before n + 1 was.                                   *)
Given(list, n) ==
    /\ list \in List /\ DOMAIN list \subseteq 1 .. n
    /\ \A d \in DOMAIN list : list[d].parent \in 0 .. n

(* The department of a deletion is in the list that is put back, the row   *)
(* that was read is the only one of its list.                              *)
Carries(r, n) ==
    /\ r \in Request
    /\ r.kind = "none" => r = NoCall
    /\ Given(r.list, n)
    /\ r.kind = "delete" => r.id \in DOMAIN r.list
    /\ r.kind = "level" => r.id \in 1 .. n /\ r.id \in Department /\ r.level \in Level
    /\ r.kind = "level" /\ r.phase = "read" => DOMAIN r.list = {r.id}

Shapes ==
    /\ Given(rows, lastId) /\ Given(shown, lastId)
    /\ staffed \subseteq DOMAIN rows
    /\ lastId \in 0 .. MaxDepartments
    /\ DOMAIN calls = Call /\ calls = [c \in Call |-> calls[c]]
    /\ \A c \in Call : Carries(calls[c], lastId)
    /\ searching \in BOOLEAN /\ isLoading \in BOOLEAN
    /\ ops \in 0 .. MaxOps
    /\ looped \in BOOLEAN /\ strayed \in BOOLEAN

-----------------------------------------------------------------------------
(* Lists.                                                                  *)

LEMMA ListElements ==
    ASSUME NEW list \in List
    PROVE  /\ DOMAIN list \subseteq Department
           /\ list = [d \in DOMAIN list |-> list[d]]
           /\ \A d \in DOMAIN list : list[d] \in Row
BY DEF List

LEMMA ListOf ==
    ASSUME NEW D \in SUBSET Department, NEW list \in [D -> Row]
    PROVE  list \in List /\ DOMAIN list = D
BY DEF List

LEMMA RowFields ==
    ASSUME NEW r \in Row
    PROVE  /\ r.parent \in Department \cup {None} /\ r.level \in Level
           /\ \A p \in Department \cup {None} :
                 /\ [r EXCEPT !.parent = p] \in Row
                 /\ [r EXCEPT !.parent = p].parent = p
                 /\ [r EXCEPT !.parent = p].level = r.level
           /\ \A l \in Level :
                 /\ [r EXCEPT !.level = l] \in Row
                 /\ [r EXCEPT !.level = l].parent = r.parent
                 /\ [r EXCEPT !.level = l].level = l
BY DEF Row

LEMMA EmptyList == <<>> \in List /\ DOMAIN <<>> = {}
<1>1. DOMAIN <<>> = {}
    OBVIOUS
<1>2. <<>> \in [{} -> Row]
    OBVIOUS
<1> QED BY <1>1, <1>2, ListOf

LEMMA RestrictIs ==
    ASSUME NEW list \in List, NEW D \in SUBSET DOMAIN list
    PROVE  /\ Restrict(list, D) \in List /\ DOMAIN Restrict(list, D) = D
           /\ \A d \in D : Restrict(list, D)[d] = list[d]
<1>1. Restrict(list, D) \in [D -> Row] /\ D \in SUBSET Department
    BY ListElements DEF Restrict
<1> QED BY <1>1, ListOf DEF Restrict

LEMMA WithoutIs ==
    ASSUME NEW list \in List, NEW d \in Department
    PROVE  /\ Without(list, d) \in List
           /\ DOMAIN Without(list, d) = DOMAIN list \ {d}
           /\ \A x \in DOMAIN list \ {d} : Without(list, d)[x] = list[x]
BY RestrictIs DEF Without

LEMMA LevelSet ==
    ASSUME NEW list \in List, NEW d \in DOMAIN list, NEW l \in Level
    PROVE  /\ [list EXCEPT ![d].level = l] \in List
           /\ DOMAIN [list EXCEPT ![d].level = l] = DOMAIN list
           /\ \A x \in DOMAIN list :
                 /\ [list EXCEPT ![d].level = l][x].parent = list[x].parent
                 /\ [list EXCEPT ![d].level = l][x].level =
                        IF x = d THEN l ELSE list[x].level
<1> DEFINE new == [list EXCEPT ![d].level = l]
<1>1. /\ DOMAIN new = DOMAIN list /\ new[d] = [list[d] EXCEPT !.level = l]
      /\ \A x \in DOMAIN list : x # d => new[x] = list[x]
      /\ new = [x \in DOMAIN list |-> new[x]]
    BY ListElements
<1>2. \A x \in DOMAIN list : list[x] \in Row
    BY ListElements
<1> HIDE DEF new
<1>3. ASSUME NEW x \in DOMAIN list
      PROVE  /\ new[x] \in Row /\ new[x].parent = list[x].parent
             /\ new[x].level = IF x = d THEN l ELSE list[x].level
    <2>1. CASE x = d
        <3>1. list[d] \in Row /\ new[d] = [list[d] EXCEPT !.level = l]
            BY <1>1, <1>2
        <3>2. new[d] \in Row /\ new[d].parent = list[d].parent /\ new[d].level = l
            BY <3>1, RowFields
        <3> QED BY <2>1, <3>2
    <2>2. CASE x # d
        BY <1>1, <1>2, <2>2
    <2> QED BY <2>1, <2>2
<1>4. new \in [DOMAIN list -> Row] /\ DOMAIN list \in SUBSET Department
    BY <1>1, <1>3, ListElements
<1>5. new \in List
    BY <1>4, ListOf
<1> QED BY <1>1, <1>3, <1>5 DEF new

LEMMA DroppedIs ==
    ASSUME NEW list \in List, NEW d \in DOMAIN list, NEW over \in DOMAIN list
    PROVE  /\ Dropped(list, d, over) \in List
           /\ DOMAIN Dropped(list, d, over) = DOMAIN list
           /\ \A x \in DOMAIN list :
                 /\ Dropped(list, d, over)[x].parent =
                        IF x = d THEN list[over].parent ELSE list[x].parent
                 /\ Dropped(list, d, over)[x].level = list[x].level
<1> DEFINE new == Dropped(list, d, over)
<1>1. /\ DOMAIN new = DOMAIN list /\ new[d] = [list[d] EXCEPT !.parent = list[over].parent]
      /\ \A x \in DOMAIN list : x # d => new[x] = list[x]
      /\ new = [x \in DOMAIN list |-> new[x]]
    BY ListElements DEF Dropped
<1>2. \A x \in DOMAIN list : list[x] \in Row
    BY ListElements
<1>a. list[over].parent \in Department \cup {None}
    BY <1>2, RowFields
<1> HIDE DEF new
<1>3. ASSUME NEW x \in DOMAIN list
      PROVE  /\ new[x] \in Row /\ new[x].level = list[x].level
             /\ new[x].parent = IF x = d THEN list[over].parent ELSE list[x].parent
    <2>1. CASE x = d
        <3>1. list[d] \in Row /\ new[d] = [list[d] EXCEPT !.parent = list[over].parent]
            BY <1>1, <1>2
        <3>2. /\ new[d] \in Row /\ new[d].parent = list[over].parent
              /\ new[d].level = list[d].level
            BY <3>1, <1>a, RowFields
        <3> QED BY <2>1, <3>2
    <2>2. CASE x # d
        BY <1>1, <1>2, <2>2
    <2> QED BY <2>1, <2>2
<1>4. new \in [DOMAIN list -> Row] /\ DOMAIN list \in SUBSET Department
    BY <1>1, <1>3, ListElements
<1>5. new \in List
    BY <1>4, ListOf
<1> QED BY <1>1, <1>3, <1>5 DEF new

(* A row is written over a list.                                           *)
LEMMA WrittenIs ==
    ASSUME NEW list \in List, NEW d \in Department, NEW row \in Row
    PROVE  /\ With(list, d, row) \in List
           /\ DOMAIN With(list, d, row) = DOMAIN list \cup {d}
           /\ With(list, d, row)[d] = row
           /\ \A x \in DOMAIN list : x # d => With(list, d, row)[x] = list[x]
<1> DEFINE new == With(list, d, row)
<1>1. /\ DOMAIN new = DOMAIN list \cup {d} /\ new[d] = row
      /\ \A x \in DOMAIN list : x # d => new[x] = list[x]
      /\ new = [x \in DOMAIN list \cup {d} |-> new[x]]
    BY DEF With
<1>2. DOMAIN list \subseteq Department /\ \A x \in DOMAIN list : list[x] \in Row
    BY ListElements
<1> HIDE DEF new
<1>3. new \in [DOMAIN list \cup {d} -> Row] /\ DOMAIN list \cup {d} \in SUBSET Department
    BY <1>1, <1>2
<1>4. new \in List
    BY <1>3, ListOf
<1> QED BY <1>1, <1>4 DEF new

LEMMA ReorderedIs ==
    ASSUME rows \in List, NEW items \in List
    PROVE  /\ Reordered(items) \in List /\ DOMAIN Reordered(items) = DOMAIN rows
           /\ \A d \in DOMAIN rows :
                 /\ Reordered(items)[d].parent =
                        IF d \in DOMAIN items THEN items[d].parent ELSE rows[d].parent
                 /\ Reordered(items)[d].level = rows[d].level
<1>1. /\ DOMAIN rows \in SUBSET Department
      /\ \A d \in DOMAIN rows : rows[d] \in Row
      /\ \A d \in DOMAIN items : items[d] \in Row
    BY ListElements
<1>2. ASSUME NEW d \in DOMAIN rows
      PROVE  /\ Reordered(items)[d] \in Row
             /\ Reordered(items)[d].parent =
                    IF d \in DOMAIN items THEN items[d].parent ELSE rows[d].parent
             /\ Reordered(items)[d].level = rows[d].level
    <2>1. CASE d \in DOMAIN items
        <3>1. Reordered(items)[d] = [rows[d] EXCEPT !.parent = items[d].parent]
            BY <2>1 DEF Reordered
        <3> QED BY <1>1, <2>1, <3>1, RowFields
    <2>2. CASE d \notin DOMAIN items
        <3>1. Reordered(items)[d] = rows[d]
            BY <2>2 DEF Reordered
        <3> QED BY <1>1, <2>2, <3>1, RowFields
    <2> QED BY <2>1, <2>2
<1>3. Reordered(items) \in [DOMAIN rows -> Row]
    BY <1>2 DEF Reordered
<1> QED BY <1>1, <1>2, <1>3, ListOf DEF Reordered

LEMMA InsertedIs ==
    ASSUME NEW list \in List, NEW d \in Department, NEW p \in Department \cup {None}
    PROVE  /\ Inserted(list, d, p) \in List
           /\ DOMAIN Inserted(list, d, p) = DOMAIN list \cup {d}
           /\ Inserted(list, d, p)[d].parent = p
           /\ \A x \in DOMAIN list : x # d => Inserted(list, d, p)[x] = list[x]
<1> DEFINE row == [parent |-> p, level |-> 1]
<1>1. row \in Row /\ row.parent = p
    BY DEF Row, Level
<1> HIDE DEF row
<1>2. /\ With(list, d, row) \in List
      /\ DOMAIN With(list, d, row) = DOMAIN list \cup {d}
      /\ With(list, d, row)[d] = row
      /\ \A x \in DOMAIN list : x # d => With(list, d, row)[x] = list[x]
    BY <1>1, WrittenIs
<1>3. Inserted(list, d, p) = With(list, d, row)
    BY DEF Inserted, row
<1> QED BY <1>1, <1>2, <1>3

(* What is known of a list stays true when more ids are given.             *)
LEMMA GivenGrows ==
    ASSUME NEW m \in Nat, NEW n \in Nat, m <= n, NEW list, Given(list, m)
    PROVE  Given(list, n)
BY DEF Given

LEMMA CarriesGrows ==
    ASSUME NEW m \in Nat, NEW n \in Nat, m <= n, NEW r, Carries(r, m)
    PROVE  Carries(r, n)
<1>1. Given(r.list, n)
    BY GivenGrows DEF Carries
<1>2. 1 .. m \subseteq 1 .. n
    OBVIOUS
<1> QED BY <1>1, <1>2 DEF Carries

LEMMA GivenPart ==
    ASSUME NEW n \in Nat, NEW list, Given(list, n), NEW part \in List,
           DOMAIN part \subseteq DOMAIN list,
           \A d \in DOMAIN part : part[d].parent = list[d].parent
    PROVE  Given(part, n)
BY DEF Given

LEMMA GivenNone == \A n \in Nat : Given(<<>>, n)
BY EmptyList DEF Given

-----------------------------------------------------------------------------
(* Requests.                                                               *)

LEMMA RequestFields ==
    ASSUME NEW r \in Request
    PROVE  /\ r.kind \in Kind \cup {"none"} /\ r.phase \in {"sent", "read", "done", "failed"}
           /\ r.id \in Department \cup {None} /\ r.level \in Level \cup {None}
           /\ r.silent \in BOOLEAN /\ r.list \in List
BY DEF Request

LEMMA NoCallFields ==
    /\ NoCall \in Request
    /\ NoCall.kind = "none" /\ NoCall.phase = "sent" /\ NoCall.id = None
    /\ NoCall.level = None /\ NoCall.silent = FALSE
    /\ NoCall.list = <<>>
<1>1. NoCall.list = <<>> /\ <<>> \in List
    BY EmptyList DEF NoCall
<1> QED BY <1>1 DEF NoCall, Request, Kind

LEMMA NoCallCarries == \A n \in Nat : Carries(NoCall, n)
BY NoCallFields, GivenNone DEF Carries

(* One request changes.                                                    *)
Only(c) == \A o \in Call \ {c} : calls'[o] = calls[o]
CallsAreFunction == DOMAIN calls = Call /\ calls = [c \in Call |-> calls[c]]

(* A request in its new phase: all else is as it was but the list.         *)
Phased(c, phase, list) ==
    /\ Only(c) /\ CallsAreFunction'
    /\ calls'[c] \in Request
    /\ calls'[c].kind = calls[c].kind /\ calls'[c].phase = phase
    /\ calls'[c].id = calls[c].id /\ calls'[c].level = calls[c].level
    /\ calls'[c].list = list

LEMMA AnswerIs ==
    ASSUME CallsAreFunction, NEW c \in Call, calls[c] \in Request, NEW list \in List,
           Answer(c, list)
    PROVE  \/ Phased(c, "done", list) /\ strayed' = strayed
           \/ Phased(c, "failed", calls[c].list) /\ strayed' = TRUE
<1>1. CASE calls' = [calls EXCEPT ![c].phase = "done", ![c].list = list] /\ UNCHANGED strayed
    <2>1. CallsAreFunction'
        BY <1>1 DEF CallsAreFunction
    <2>2. Only(c)
        BY <1>1 DEF CallsAreFunction, Only
    <2>3. /\ calls'[c].phase = "done" /\ calls'[c].list = list
          /\ calls'[c].kind = calls[c].kind /\ calls'[c].id = calls[c].id
          /\ calls'[c].level = calls[c].level
        BY <1>1 DEF CallsAreFunction, Request
    <2>4. calls'[c] \in Request
        BY <1>1 DEF CallsAreFunction, Request
    <2> QED BY <1>1, <2>1, <2>2, <2>3, <2>4 DEF Phased
<1>2. CASE calls' = [calls EXCEPT ![c].phase = "failed"] /\ strayed' = TRUE
    <2>1. CallsAreFunction'
        BY <1>2 DEF CallsAreFunction
    <2>2. Only(c)
        BY <1>2 DEF CallsAreFunction, Only
    <2>3. /\ calls'[c].phase = "failed" /\ calls'[c].list = calls[c].list
          /\ calls'[c].kind = calls[c].kind /\ calls'[c].id = calls[c].id
          /\ calls'[c].level = calls[c].level
        BY <1>2 DEF CallsAreFunction, Request
    <2>4. calls'[c] \in Request
        BY <1>2 DEF CallsAreFunction, Request
    <2> QED BY <1>2, <2>1, <2>2, <2>3, <2>4 DEF Phased
<1> QED BY <1>1, <1>2 DEF Answer

LEMMA RefuseIs ==
    ASSUME CallsAreFunction, NEW c \in Call, calls[c] \in Request, Refuse(c)
    PROVE  /\ Phased(c, "failed", calls[c].list)
           /\ rows' = rows /\ lastId' = lastId /\ strayed' = strayed
<1>1. CallsAreFunction'
    BY DEF CallsAreFunction, Refuse
<1>2. Only(c)
    BY DEF CallsAreFunction, Only, Refuse
<1>3. /\ calls'[c].phase = "failed" /\ calls'[c].list = calls[c].list
      /\ calls'[c].kind = calls[c].kind /\ calls'[c].id = calls[c].id
      /\ calls'[c].level = calls[c].level
    BY DEF CallsAreFunction, Request, Refuse
<1>4. calls'[c] \in Request
    BY DEF CallsAreFunction, Request, Refuse
<1> QED BY <1>1, <1>2, <1>3, <1>4 DEF Phased, Refuse

LEMMA EndIs ==
    ASSUME CallsAreFunction, NEW c \in Call, End(c)
    PROVE  CallsAreFunction' /\ Only(c) /\ calls'[c] = NoCall
BY DEF CallsAreFunction, Only, End

LEMMA BeginIs ==
    ASSUME CallsAreFunction, NEW c \in Call, NEW request \in Request,
           Begin(c, request)
    PROVE  /\ CallsAreFunction' /\ Only(c) /\ calls[c] = NoCall
           /\ calls'[c] \in Request
           /\ calls'[c].kind = request.kind /\ calls'[c].phase = request.phase
           /\ calls'[c].id = request.id /\ calls'[c].level = request.level
           /\ calls'[c].list = request.list
BY DEF CallsAreFunction, Only, Begin

(* The requests the page sends.                                            *)
LEMMA NewRequests ==
    ASSUME NEW d \in Department, NEW l \in Level, NEW list \in List
    PROVE  /\ Fetch \in Request /\ Fetch.kind = "fetch"
           /\ Fetch.phase = "sent" /\ Fetch.list = <<>>
           /\ LET r == [NoCall EXCEPT !.kind = "delete", !.id = d, !.list = list]
              IN  r \in Request /\ r.kind = "delete" /\ r.phase = "sent" /\ r.id = d
                  /\ r.list = list
           /\ LET r == [NoCall EXCEPT !.kind = "level", !.id = d, !.level = l]
              IN  r \in Request /\ r.kind = "level" /\ r.phase = "sent" /\ r.id = d
                  /\ r.level = l /\ r.list = <<>>
           /\ LET r == [NoCall EXCEPT !.kind = "reorder", !.list = list]
              IN  r \in Request /\ r.kind = "reorder" /\ r.phase = "sent" /\ r.list = list
           /\ LET r == [NoCall EXCEPT !.kind = "create"]
              IN  r \in Request /\ r.kind = "create" /\ r.phase = "sent" /\ r.list = <<>>
<1>1. "fetch" \in Kind /\ "delete" \in Kind /\ "level" \in Kind /\ "reorder" \in Kind /\ "create" \in Kind
    BY DEF Kind
<1>2. NoCall \in Request /\ NoCall.phase = "sent" /\ NoCall.list = <<>>
    BY NoCallFields
<1>3. /\ Fetch \in Request /\ Fetch.kind = "fetch"
      /\ Fetch.phase = "sent" /\ Fetch.list = <<>>
    BY <1>1, <1>2 DEF Request, Fetch
<1>4. LET r == [NoCall EXCEPT !.kind = "delete", !.id = d, !.list = list]
      IN  r \in Request /\ r.kind = "delete" /\ r.phase = "sent" /\ r.id = d /\ r.list = list
    BY <1>1, <1>2 DEF Request
<1>5. LET r == [NoCall EXCEPT !.kind = "level", !.id = d, !.level = l]
      IN  r \in Request /\ r.kind = "level" /\ r.phase = "sent" /\ r.id = d
          /\ r.level = l /\ r.list = <<>>
    BY <1>1, <1>2 DEF Request
<1>6. LET r == [NoCall EXCEPT !.kind = "reorder", !.list = list]
      IN  r \in Request /\ r.kind = "reorder" /\ r.phase = "sent" /\ r.list = list
    BY <1>1, <1>2 DEF Request
<1>7. LET r == [NoCall EXCEPT !.kind = "create"]
      IN  r \in Request /\ r.kind = "create" /\ r.phase = "sent" /\ r.list = <<>>
    BY <1>1, <1>2 DEF Request
<1> QED BY <1>3, <1>4, <1>5, <1>6, <1>7

-----------------------------------------------------------------------------
(* The shapes are kept.                                                    *)

LEMMA ShapesFacts ==
    ASSUME Shapes
    PROVE  /\ lastId \in Nat /\ MaxDepartments \in Nat /\ lastId <= MaxDepartments
           /\ CallsAreFunction
           /\ rows \in List /\ shown \in List
           /\ \A c \in Call : calls[c] \in Request /\ calls[c].list \in List
BY RowsAssumption DEF Shapes, Carries, Given, CallsAreFunction

LEMMA CallsKept ==
    ASSUME Shapes, NEW c \in Call, CallsAreFunction', Only(c), lastId' \in Nat,
           lastId <= lastId', Carries(calls'[c], lastId')
    PROVE  \A o \in Call : Carries(calls'[o], lastId')
<1>1. ASSUME NEW o \in Call PROVE Carries(calls'[o], lastId')
    <2>1. CASE o = c
        BY <2>1
    <2>2. CASE o # c
        <3>1. calls'[o] = calls[o] /\ Carries(calls[o], lastId) /\ lastId \in Nat
            BY <2>2, ShapesFacts DEF Only, Shapes
        <3> QED BY <3>1, CarriesGrows
    <2> QED BY <2>1, <2>2
<1> QED BY <1>1

LEMMA PhasedKept ==
    ASSUME Shapes, NEW c \in Call, NEW phase, NEW list, Phased(c, phase, list),
           calls[c].kind # "none", lastId' \in Nat, lastId <= lastId',
           Given(list, lastId'),
           calls[c].kind = "delete" => list = calls[c].list,
           calls[c].kind = "level" /\ phase = "read" => DOMAIN list = {calls[c].id}
    PROVE  CallsAreFunction' /\ \A o \in Call : Carries(calls'[o], lastId')
<1>1. /\ calls'[c] \in Request /\ calls'[c].kind = calls[c].kind
      /\ calls'[c].phase = phase /\ calls'[c].list = list /\ calls'[c].id = calls[c].id
      /\ calls'[c].level = calls[c].level
      /\ CallsAreFunction' /\ Only(c)
    BY DEF Phased
<1>2. Carries(calls[c], lastId) /\ 1 .. lastId \subseteq 1 .. lastId'
    BY ShapesFacts DEF Shapes
<1>3. Carries(calls'[c], lastId')
    BY <1>1, <1>2 DEF Carries
<1> QED BY <1>1, <1>3, CallsKept

LEMMA AnswerKept ==
    ASSUME Shapes, NEW c \in Call, NEW list, Answer(c, list), calls[c].kind # "none",
           lastId' \in Nat, lastId <= lastId', Given(list, lastId'),
           calls[c].kind = "delete" => list = calls[c].list
    PROVE  /\ CallsAreFunction' /\ \A o \in Call : Carries(calls'[o], lastId')
           /\ strayed' \in BOOLEAN
<1>1. list \in List /\ CallsAreFunction /\ calls[c] \in Request /\ strayed \in BOOLEAN
    BY ShapesFacts DEF Given, Shapes
<1>2. CASE Phased(c, "done", list) /\ strayed' = strayed
    <2>1. CallsAreFunction' /\ \A o \in Call : Carries(calls'[o], lastId')
        BY <1>2, PhasedKept
    <2> QED BY <1>1, <1>2, <2>1
<1>3. CASE Phased(c, "failed", calls[c].list) /\ strayed' = TRUE
    <2>1. Given(calls[c].list, lastId')
        BY ShapesFacts, GivenGrows DEF Shapes, Carries
    <2>2. CallsAreFunction' /\ \A o \in Call : Carries(calls'[o], lastId')
        BY <1>3, <2>1, PhasedKept
    <2> QED BY <1>3, <2>2
<1> QED BY <1>1, <1>2, <1>3, AnswerIs

LEMMA RefuseKept ==
    ASSUME Shapes, NEW c \in Call, Refuse(c), calls[c].kind # "none", Serve
    PROVE  Shapes'
<1>1. /\ Phased(c, "failed", calls[c].list)
      /\ rows' = rows /\ lastId' = lastId /\ strayed' = strayed
    BY ShapesFacts, RefuseIs
<1>2. lastId \in Nat /\ Given(calls[c].list, lastId)
    BY ShapesFacts DEF Shapes, Carries
<1>3. lastId' \in Nat /\ lastId <= lastId' /\ Given(calls[c].list, lastId')
    BY <1>1, <1>2
<1>4. CallsAreFunction' /\ \A o \in Call : Carries(calls'[o], lastId')
    <2> DEFINE list == calls[c].list
    <2>1. Phased(c, "failed", list) /\ Given(list, lastId') /\ list = calls[c].list
        BY <1>1, <1>3
    <2> HIDE DEF list
    <2> QED BY <1>3, <2>1, PhasedKept
<1> QED BY <1>1, <1>4 DEF Shapes, Serve, page, CallsAreFunction

LEMMA ServeKept ==
    ASSUME Shapes, Serve, Given(rows', lastId'), staffed \subseteq DOMAIN rows',
           lastId' \in 0 .. MaxDepartments, lastId <= lastId', CallsAreFunction',
           \A o \in Call : Carries(calls'[o], lastId'), strayed' \in BOOLEAN
    PROVE  Shapes'
<1>1. Given(shown, lastId')
    BY ShapesFacts, GivenGrows, RowsAssumption DEF Shapes
<1> QED BY <1>1 DEF Shapes, Serve, page, CallsAreFunction

LEMMA ListShapes ==
    ASSUME Shapes, NEW c \in Call, ListDepartments(c)
    PROVE  Shapes'
<1> DEFINE list == rows
<1>1. /\ Answer(c, list) /\ rows' = rows /\ lastId' = lastId /\ Serve
      /\ calls[c].kind = "fetch"
    BY DEF ListDepartments, Waits
<1>2. Given(list, lastId) /\ lastId \in Nat
    BY ShapesFacts DEF Shapes
<1> HIDE DEF list
<1>3. /\ CallsAreFunction' /\ \A o \in Call : Carries(calls'[o], lastId')
      /\ strayed' \in BOOLEAN
    BY <1>1, <1>2, AnswerKept
<1>4. /\ Given(rows', lastId') /\ staffed \subseteq DOMAIN rows'
      /\ lastId' \in 0 .. MaxDepartments /\ lastId <= lastId'
    BY <1>1, ShapesFacts DEF Shapes
<1> QED BY <1>1, <1>3, <1>4, ServeKept

LEMMA DeleteShapes ==
    ASSUME Shapes, NEW c \in Call, DeleteDepartment(c)
    PROVE  Shapes'
<1>1. Serve /\ calls[c].kind = "delete"
    BY DEF DeleteDepartment, Waits
<1>2. CASE calls[c].id \in staffed
    BY <1>1, <1>2, RefuseKept DEF DeleteDepartment
<1>3. CASE calls[c].id \notin staffed
    <2>1. /\ rows' = Without(rows, calls[c].id) /\ Answer(c, calls[c].list)
          /\ lastId' = lastId
        BY <1>3 DEF DeleteDepartment
    <2>2. /\ lastId \in Nat /\ Given(calls[c].list, lastId) /\ Given(rows, lastId)
          /\ rows \in List
        BY ShapesFacts DEF Shapes, Carries
    <2>a. calls[c].id \in Department
        BY <1>1, ShapesFacts, ListElements DEF Shapes, Carries
    <2>3. /\ CallsAreFunction' /\ \A o \in Call : Carries(calls'[o], lastId')
          /\ strayed' \in BOOLEAN
        <3> DEFINE list == calls[c].list
        <3>1. /\ Answer(c, list) /\ Given(list, lastId') /\ list = calls[c].list
              /\ lastId' \in Nat /\ lastId <= lastId'
            BY <2>1, <2>2
        <3> HIDE DEF list
        <3> QED BY <1>1, <3>1, AnswerKept
    <2>b. PICK d \in Department : d = calls[c].id
        BY <2>a
    <2>c. PICK part : part = Without(rows, d)
        OBVIOUS
    <2>d. /\ part \in List /\ DOMAIN part = DOMAIN rows \ {d}
          /\ \A x \in DOMAIN rows \ {d} : part[x] = rows[x]
        BY <2>2, <2>c, WithoutIs
    <2>e. rows' = part
        BY <2>1, <2>b, <2>c
    <2>4. Given(rows', lastId')
        <3>1. /\ DOMAIN part \subseteq DOMAIN rows
              /\ \A x \in DOMAIN part : part[x].parent = rows[x].parent
            BY <2>d
        <3>2. Given(part, lastId)
            BY <2>2, <2>d, <3>1, GivenPart
        <3> QED BY <2>1, <2>e, <3>2
    <2>5. staffed \subseteq DOMAIN rows'
        BY <1>3, <2>b, <2>d, <2>e DEF Shapes
    <2>6. lastId' \in 0 .. MaxDepartments /\ lastId <= lastId'
        BY <2>1, ShapesFacts DEF Shapes
    <2> QED BY <1>1, <2>3, <2>4, <2>5, <2>6, ServeKept
<1> QED BY <1>2, <1>3

(* The row that UpdateDepartment reads.                                    *)
LEMMA UpdateIs ==
    ASSUME Shapes, NEW c \in Call, UpdateDepartment(c), calls[c].id \in DOMAIN rows
    PROVE  /\ Phased(c, "read", Restrict(rows, {calls[c].id}))
           /\ rows' = rows /\ lastId' = lastId /\ strayed' = strayed
<1> DEFINE d == calls[c].id
           list == Restrict(rows, {d})
<1>1. /\ calls' = [calls EXCEPT ![c].phase = "read", ![c].list = list]
      /\ rows' = rows /\ lastId' = lastId /\ strayed' = strayed
    BY DEF UpdateDepartment
<1>2. CallsAreFunction /\ calls[c] \in Request /\ list \in List
    BY ShapesFacts, RestrictIs
<1> HIDE DEF list
<1>3. CallsAreFunction'
    BY <1>1, <1>2 DEF CallsAreFunction
<1>4. Only(c)
    BY <1>1, <1>2 DEF CallsAreFunction, Only
<1>5. /\ calls'[c].phase = "read" /\ calls'[c].list = list
      /\ calls'[c].kind = calls[c].kind /\ calls'[c].id = calls[c].id
      /\ calls'[c].level = calls[c].level
    BY <1>1, <1>2 DEF CallsAreFunction, Request
<1>6. calls'[c] \in Request
    BY <1>1, <1>2 DEF CallsAreFunction, Request
<1> QED BY <1>1, <1>3, <1>4, <1>5, <1>6 DEF Phased, list

LEMMA UpdateShapes ==
    ASSUME Shapes, NEW c \in Call, UpdateDepartment(c)
    PROVE  Shapes'
<1>1. Serve /\ calls[c].kind = "level"
    BY DEF UpdateDepartment, Waits
<1>2. CASE calls[c].id \notin DOMAIN rows
    BY <1>1, <1>2, RefuseKept DEF UpdateDepartment
<1>3. CASE calls[c].id \in DOMAIN rows
    <2> DEFINE list == Restrict(rows, {calls[c].id})
    <2>1. /\ Phased(c, "read", list)
          /\ rows' = rows /\ lastId' = lastId /\ strayed' = strayed
        BY <1>3, UpdateIs
    <2>2. /\ lastId \in Nat /\ Given(rows, lastId) /\ rows \in List
        BY ShapesFacts DEF Shapes
    <2>3. Given(list, lastId) /\ DOMAIN list = {calls[c].id}
        BY <1>3, <2>2, RestrictIs, GivenPart
    <2> HIDE DEF list
    <2>4. CallsAreFunction' /\ \A o \in Call : Carries(calls'[o], lastId')
        BY <1>1, <2>1, <2>2, <2>3, PhasedKept
    <2>5. /\ Given(rows', lastId') /\ staffed \subseteq DOMAIN rows'
          /\ lastId' \in 0 .. MaxDepartments /\ lastId <= lastId' /\ strayed' \in BOOLEAN
        BY <2>1, ShapesFacts DEF Shapes
    <2> QED BY <1>1, <2>4, <2>5, ServeKept
<1> QED BY <1>2, <1>3

(* A row that is written over the table, or added to it.                   *)
LEMMA WrittenGiven ==
    ASSUME NEW n \in Nat, NEW list, Given(list, n), NEW d \in Department, d \in 1 .. n,
           NEW row \in Row, row.parent \in 0 .. n
    PROVE  Given(With(list, d, row), n)
<1>1. list \in List /\ DOMAIN list \subseteq 1 .. n
      /\ \A x \in DOMAIN list : list[x].parent \in 0 .. n
    BY DEF Given
<1>2. PICK new : new = With(list, d, row)
    OBVIOUS
<1>3. /\ new \in List /\ DOMAIN new = DOMAIN list \cup {d} /\ new[d] = row
      /\ \A x \in DOMAIN list : x # d => new[x] = list[x]
    BY <1>1, <1>2, WrittenIs
<1>4. \A x \in DOMAIN new : new[x].parent \in 0 .. n
    BY <1>1, <1>3
<1> QED BY <1>1, <1>2, <1>3, <1>4 DEF Given

LEMMA InsertedGiven ==
    ASSUME NEW n \in Nat, NEW list, Given(list, n), NEW d \in Department, d \in 1 .. n,
           NEW p \in Department \cup {None}, p \in 0 .. n
    PROVE  Given(Inserted(list, d, p), n)
<1>1. PICK row : row = [parent |-> p, level |-> 1]
    OBVIOUS
<1>2. row \in Row /\ row.parent = p
    BY <1>1 DEF Row, Level
<1>3. Inserted(list, d, p) = With(list, d, row)
    BY <1>1 DEF Inserted
<1> QED BY <1>2, <1>3, WrittenGiven

(* The row that is saved, if the request has read one.                     *)
Saved(c) == [calls[c].list[calls[c].id] EXCEPT !.level = calls[c].level]

LEMMA SavedIs ==
    ASSUME Shapes, NEW c \in Call, Waits(c, "level", "read")
    PROVE  /\ Saved(c) \in Row /\ Saved(c).level = calls[c].level
           /\ Saved(c).parent = calls[c].list[calls[c].id].parent
           /\ Saved(c).parent \in 0 .. lastId
           /\ calls[c].id \in 1 .. lastId /\ calls[c].id \in Department
           /\ DOMAIN calls[c].list = {calls[c].id} /\ calls[c].level \in Level
<1>1. /\ DOMAIN calls[c].list = {calls[c].id} /\ calls[c].level \in Level
      /\ calls[c].id \in 1 .. lastId /\ calls[c].id \in Department
      /\ calls[c].list \in List
      /\ calls[c].list[calls[c].id].parent \in 0 .. lastId
    BY DEF Shapes, Carries, Waits, Given
<1>2. calls[c].list[calls[c].id] \in Row
    BY <1>1, ListElements
<1> QED BY <1>1, <1>2, RowFields DEF Saved

LEMMA SaveShapes ==
    ASSUME Shapes, NEW c \in Call, SaveDepartment(c)
    PROVE  Shapes'
<1>1. Serve /\ calls[c].kind = "level" /\ Waits(c, "level", "read")
    BY DEF SaveDepartment, Waits
<1>2. CASE Refuse(c)
    BY <1>1, <1>2, RefuseKept
<1>3. CASE /\ rows' = With(rows, calls[c].id, Saved(c)) /\ Answer(c, calls[c].list)
           /\ UNCHANGED lastId
    <2>1. PICK d \in Department, row \in Row, list \in List :
              d = calls[c].id /\ row = Saved(c) /\ list = calls[c].list
        BY <1>1, ShapesFacts, SavedIs
    <2>2. /\ lastId \in Nat /\ Given(list, lastId) /\ Given(rows, lastId)
          /\ rows \in List /\ d \in 1 .. lastId /\ row.parent \in 0 .. lastId
        BY <1>1, <2>1, ShapesFacts, SavedIs DEF Shapes, Carries
    <2>3. rows' = With(rows, d, row) /\ lastId' = lastId /\ Answer(c, list)
        BY <1>3, <2>1
    <2>4. Given(rows', lastId')
        BY <2>2, <2>3, WrittenGiven
    <2>5. /\ lastId' \in 0 .. MaxDepartments /\ lastId <= lastId' /\ lastId' \in Nat
          /\ Given(list, lastId')
        BY <2>2, <2>3, ShapesFacts DEF Shapes
    <2>6. /\ CallsAreFunction' /\ \A o \in Call : Carries(calls'[o], lastId')
          /\ strayed' \in BOOLEAN
        BY <1>1, <2>3, <2>5, AnswerKept
    <2>7. staffed \subseteq DOMAIN rows'
        <3>1. DOMAIN With(rows, d, row) = DOMAIN rows \cup {d}
            BY <2>2, WrittenIs
        <3> QED BY <2>3, <3>1 DEF Shapes
    <2> QED BY <1>1, <2>4, <2>5, <2>6, <2>7, ServeKept
<1> QED BY <1>2, <1>3 DEF SaveDepartment, Saved

LEMMA ReorderShapes ==
    ASSUME Shapes, NEW c \in Call, ReorderDepartments(c)
    PROVE  Shapes'
<1>1. Serve /\ calls[c].kind = "reorder" /\ lastId' = lastId
    BY DEF ReorderDepartments, Waits
<1>2. CASE Refuse(c)
    BY <1>1, <1>2, RefuseKept
<1>3. CASE rows' = Reordered(calls[c].list) /\ Answer(c, calls[c].list)
    <2>1. PICK items : items = calls[c].list
        OBVIOUS
    <2>2. /\ lastId \in Nat /\ Given(items, lastId) /\ Given(rows, lastId)
          /\ rows \in List /\ items \in List
        BY <1>1, <2>1, ShapesFacts DEF Shapes, Carries
    <2>3. PICK new : new = Reordered(items)
        OBVIOUS
    <2>4. /\ new \in List /\ DOMAIN new = DOMAIN rows
          /\ \A d \in DOMAIN rows : new[d].parent =
                 IF d \in DOMAIN items THEN items[d].parent ELSE rows[d].parent
        BY <2>2, <2>3, ReorderedIs
    <2>5. rows' = new /\ Answer(c, items)
        BY <1>3, <2>1, <2>3
    <2>6. Given(rows', lastId')
        BY <1>1, <2>2, <2>4, <2>5 DEF Given
    <2>7. /\ lastId' \in 0 .. MaxDepartments /\ lastId <= lastId' /\ lastId' \in Nat
          /\ Given(items, lastId')
        BY <1>1, <2>2, ShapesFacts DEF Shapes
    <2>8. /\ CallsAreFunction' /\ \A o \in Call : Carries(calls'[o], lastId')
          /\ strayed' \in BOOLEAN
        BY <1>1, <2>5, <2>7, AnswerKept
    <2>9. staffed \subseteq DOMAIN rows'
        BY <2>4, <2>5 DEF Shapes
    <2> QED BY <1>1, <2>6, <2>7, <2>8, <2>9, ServeKept
<1> QED BY <1>2, <1>3 DEF ReorderDepartments

LEMMA CreateShapes ==
    ASSUME Shapes, NEW c \in Call, NEW p \in Department \cup {None}, CreateDepartment(c, p)
    PROVE  Shapes'
<1>1. /\ Serve /\ calls[c].kind = "create" /\ lastId < MaxDepartments
      /\ p \in (1 .. lastId) \cup {None} /\ lastId' = lastId + 1
      /\ rows' = Inserted(rows, lastId', p) /\ Answer(c, calls[c].list)
    BY DEF CreateDepartment, Waits
<1>2. PICK n, list : n = lastId + 1 /\ list = calls[c].list
    OBVIOUS
<1>3. /\ n \in Nat /\ lastId \in Nat /\ lastId <= n /\ n \in 0 .. MaxDepartments
      /\ n \in Department /\ n \in 1 .. n /\ p \in 0 .. n
    BY <1>1, <1>2, ShapesFacts DEF Department, None
<1>4. Given(rows, n) /\ Given(list, n) /\ rows \in List
    <2>1. Given(rows, lastId) /\ Given(list, lastId) /\ rows \in List
        BY <1>2, ShapesFacts DEF Shapes, Carries
    <2> QED BY <1>3, <2>1, GivenGrows
<1>5. lastId' = n /\ rows' = Inserted(rows, n, p) /\ Answer(c, list)
    BY <1>1, <1>2
<1>6. Given(rows', lastId')
    BY <1>3, <1>4, <1>5, InsertedGiven
<1>7. /\ lastId' \in Nat /\ lastId <= lastId' /\ lastId' \in 0 .. MaxDepartments
      /\ Given(list, lastId')
    BY <1>3, <1>4, <1>5
<1>8. /\ CallsAreFunction' /\ \A o \in Call : Carries(calls'[o], lastId')
      /\ strayed' \in BOOLEAN
    BY <1>1, <1>5, <1>7, AnswerKept
<1>9. staffed \subseteq DOMAIN rows'
    <2>1. DOMAIN Inserted(rows, n, p) = DOMAIN rows \cup {n}
        BY <1>3, <1>4, InsertedIs
    <2> QED BY <1>5, <2>1 DEF Shapes
<1> QED BY <1>1, <1>6, <1>7, <1>8, <1>9, ServeKept

(* What an import leaves: the rows there were, or none, then a department  *)
(* without a parent, then one below it or below one that was there.        *)
LEMMA BatchIs ==
    ASSUME Shapes, NEW c \in Call, NEW replace \in BOOLEAN, NEW children \in 0 .. 1,
           BatchCreateDepartments(c, replace, children)
    PROVE  \E kept \in {<<>>, rows}, p \in 0 .. lastId + 1 :
              /\ kept = <<>> => staffed = {} \/ kept = rows
              /\ p \in DOMAIN kept \cup {lastId + 1} /\ p \in Department
              /\ lastId' = lastId + 1 + children /\ lastId' <= MaxDepartments
              /\ rows' = IF children = 0 THEN Inserted(kept, lastId + 1, None)
                         ELSE Inserted(Inserted(kept, lastId + 1, None), lastId + 2, p)
<1>1. PICK kept : kept = IF replace THEN <<>> ELSE rows
    OBVIOUS
<1>2. PICK p \in DOMAIN kept \cup {lastId + 1} :
          rows' = IF children = 0 THEN Inserted(kept, lastId + 1, None)
                  ELSE Inserted(Inserted(kept, lastId + 1, None), lastId + 1 + 1, p)
    BY <1>1 DEF BatchCreateDepartments
<1>3. /\ lastId + 1 + children <= MaxDepartments /\ lastId' = lastId + 1 + children
      /\ replace => staffed = {}
    BY DEF BatchCreateDepartments, Replaceable
<1>4. /\ lastId \in Nat /\ MaxDepartments \in Nat /\ lastId + 1 + 1 = lastId + 2
      /\ lastId + 1 <= MaxDepartments
    BY <1>3, ShapesFacts
<1>5. DOMAIN kept \subseteq 1 .. lastId
    <2>1. DOMAIN rows \subseteq 1 .. lastId /\ DOMAIN <<>> = {}
        BY EmptyList DEF Shapes, Given
    <2> QED BY <1>1, <2>1
<1>6. p \in 1 .. lastId + 1
    BY <1>4, <1>5
<1>7. p \in Department /\ p \in 0 .. lastId + 1
    BY <1>4, <1>6 DEF Department
<1>8. kept \in {<<>>, rows} /\ (kept = <<>> => staffed = {} \/ kept = rows)
    BY <1>1, <1>3
<1>9. /\ lastId' = lastId + 1 + children /\ lastId' <= MaxDepartments
      /\ rows' = IF children = 0 THEN Inserted(kept, lastId + 1, None)
                 ELSE Inserted(Inserted(kept, lastId + 1, None), lastId + 2, p)
    BY <1>2, <1>3, <1>4
<1> QED BY <1>2, <1>7, <1>8, <1>9

LEMMA BatchShapes ==
    ASSUME Shapes, NEW c \in Call, NEW replace \in BOOLEAN, NEW children \in 0 .. 1,
           BatchCreateDepartments(c, replace, children)
    PROVE  Shapes'
<1>1. /\ Serve /\ calls[c].kind = "create" /\ Answer(c, calls[c].list)
    BY DEF BatchCreateDepartments, Waits
<1>2. PICK kept \in {<<>>, rows}, p \in 0 .. lastId + 1 :
          /\ kept = <<>> => staffed = {} \/ kept = rows
          /\ p \in DOMAIN kept \cup {lastId + 1} /\ p \in Department
          /\ lastId' = lastId + 1 + children /\ lastId' <= MaxDepartments
          /\ rows' = IF children = 0 THEN Inserted(kept, lastId + 1, None)
                     ELSE Inserted(Inserted(kept, lastId + 1, None), lastId + 2, p)
    BY BatchIs
<1>3. PICK n, root, list, one : n = lastId + 1 + children /\ root = lastId + 1
          /\ list = calls[c].list /\ one = Inserted(kept, root, None)
    OBVIOUS
<1>4. /\ n \in Nat /\ lastId \in Nat /\ lastId <= n /\ n \in 0 .. MaxDepartments
      /\ root \in Department /\ root \in 1 .. n /\ p \in 0 .. n
      /\ children = 1 => n = root + 1 /\ n \in Department /\ n \in 1 .. n /\ n = lastId + 2
      /\ None \in 0 .. n /\ None \in Department \cup {None}
    BY <1>2, <1>3, ShapesFacts DEF Department, None
<1>5. Given(rows, n) /\ Given(list, n) /\ Given(kept, n) /\ kept \in List
    <2>1. Given(rows, lastId) /\ Given(list, lastId)
        BY <1>3, ShapesFacts DEF Shapes, Carries
    <2>2. Given(rows, n) /\ Given(list, n)
        BY <1>4, <2>1, GivenGrows
    <2>3. Given(kept, n)
        BY <1>2, <1>4, <2>2, GivenNone
    <2> QED BY <2>2, <2>3 DEF Given
<1>6. /\ Given(one, n) /\ one \in List /\ DOMAIN one = DOMAIN kept \cup {root}
    <2>1. Given(one, n)
        BY <1>3, <1>4, <1>5, InsertedGiven
    <2>2. one \in List /\ DOMAIN one = DOMAIN kept \cup {root}
        BY ZenonT(60), <1>3, <1>4, <1>5, InsertedIs
    <2> QED BY <2>1, <2>2
<1>7. Given(rows', n) /\ DOMAIN kept \subseteq DOMAIN rows'
    <2>1. CASE children = 0
        <3>1. rows' = one
            BY <1>2, <1>3, <2>1
        <3> QED BY <1>6, <3>1
    <2>2. CASE children = 1
        <3>1. rows' = Inserted(one, n, p)
            BY <1>2, <1>3, <1>4, <2>2
        <3>2. Given(Inserted(one, n, p), n)
            BY <1>2, <1>4, <1>6, <2>2, InsertedGiven
        <3>3. DOMAIN Inserted(one, n, p) = DOMAIN one \cup {n}
            BY ZenonT(60), <1>2, <1>4, <1>6, <2>2, InsertedIs
        <3> QED BY <1>6, <3>1, <3>2, <3>3
    <2> QED BY <2>1, <2>2
<1>8. lastId' = n /\ Answer(c, list)
    BY <1>1, <1>2, <1>3
<1>9. /\ lastId' \in Nat /\ lastId <= lastId' /\ lastId' \in 0 .. MaxDepartments
      /\ Given(list, lastId') /\ Given(rows', lastId')
    BY <1>4, <1>5, <1>7, <1>8
<1>10. /\ CallsAreFunction' /\ \A o \in Call : Carries(calls'[o], lastId')
       /\ strayed' \in BOOLEAN
    BY <1>1, <1>8, <1>9, AnswerKept
<1>11. staffed \subseteq DOMAIN rows'
    <2>1. staffed \subseteq DOMAIN kept
        BY <1>2 DEF Shapes
    <2> QED BY <1>7, <2>1
<1> QED BY <1>1, <1>9, <1>10, <1>11, ServeKept

LEMMA RefuseCreateShapes ==
    ASSUME Shapes, NEW c \in Call, RefuseCreate(c)
    PROVE  Shapes'
BY RefuseKept DEF RefuseCreate, Waits

(* What the page does with an answer.                                      *)
LEMMA SettledKept ==
    ASSUME Shapes, NEW c \in Call, CallsAreFunction', Only(c), Carries(calls'[c], lastId'),
           UNCHANGED table, UNCHANGED <<searching, ops, looped>>,
           Given(shown', lastId), isLoading' \in BOOLEAN, strayed' \in BOOLEAN
    PROVE  Shapes'
<1>1. lastId' = lastId /\ lastId' \in Nat /\ lastId <= lastId' /\ rows' = rows
      /\ staffed' = staffed
    BY ShapesFacts DEF table
<1>2. \A o \in Call : Carries(calls'[o], lastId')
    BY <1>1, CallsKept
<1> QED BY <1>1, <1>2 DEF Shapes, CallsAreFunction

LEMMA EndKept ==
    ASSUME Shapes, NEW c \in Call, End(c), NEW kind, NEW phase, Settled(c, kind, phase),
           Given(shown', lastId), isLoading' \in BOOLEAN, strayed' \in BOOLEAN
    PROVE  Shapes'
<1>1. CallsAreFunction' /\ Only(c) /\ calls'[c] = NoCall
    BY ShapesFacts, EndIs
<1>2. UNCHANGED table /\ UNCHANGED <<searching, ops, looped>> /\ lastId' = lastId
    BY DEF Settled, table
<1>3. Carries(calls'[c], lastId')
    BY <1>1, <1>2, ShapesFacts, NoCallCarries
<1> QED BY <1>1, <1>2, <1>3, SettledKept

LEMMA AnsweredShapes ==
    ASSUME Shapes, NEW c \in Call,
           ShowFetched(c) \/ DeleteDone(c) \/ RevertDelete(c)
    PROVE  Shapes'
<1>1. /\ Given(shown, lastId) /\ Given(calls[c].list, lastId)
      /\ isLoading \in BOOLEAN /\ strayed \in BOOLEAN /\ calls[c].silent \in BOOLEAN
    BY ShapesFacts, RequestFields DEF Shapes, Carries
<1>2. CASE ShowFetched(c)
    <2>1. Given(shown', lastId) /\ isLoading' \in BOOLEAN /\ strayed' \in BOOLEAN /\ End(c)
        BY <1>1, <1>2 DEF ShowFetched
    <2>2. \E phase : Settled(c, "fetch", phase)
        BY <1>2 DEF ShowFetched
    <2> QED BY <2>1, <2>2, EndKept
<1>3. CASE DeleteDone(c)
    <2>1. Given(shown', lastId) /\ isLoading' \in BOOLEAN /\ strayed' \in BOOLEAN /\ End(c)
        BY <1>1, <1>3 DEF DeleteDone
    <2>2. Settled(c, "delete", "done")
        BY <1>3 DEF DeleteDone
    <2> QED BY <2>1, <2>2, EndKept
<1>4. CASE RevertDelete(c)
    <2>1. Given(shown', lastId) /\ isLoading' \in BOOLEAN /\ strayed' \in BOOLEAN /\ End(c)
        BY <1>1, <1>4 DEF RevertDelete, Reverted
    <2>2. Settled(c, "delete", "failed")
        BY <1>4 DEF RevertDelete
    <2> QED BY <2>1, <2>2, EndKept
<1> QED BY <1>2, <1>3, <1>4

(* The list that is asked for again.                                       *)
LEMMA RefetchIs ==
    ASSUME Shapes, NEW c \in Call, ChangeAnswered(c), Refetches(calls[c])
    PROVE  /\ CallsAreFunction' /\ Only(c) /\ calls'[c] \in Request
           /\ calls'[c].kind = "fetch" /\ calls'[c].phase = "sent"
           /\ calls'[c].list = <<>> /\ calls'[c].silent \in BOOLEAN
<1>1. PICK silent \in BOOLEAN : silent = (calls[c].kind = "create")
    OBVIOUS
<1>2. calls' = [calls EXCEPT ![c] = [Fetch EXCEPT !.silent = silent]]
    BY <1>1 DEF ChangeAnswered
<1>3. calls'[c] = [Fetch EXCEPT !.silent = silent]
      /\ CallsAreFunction' /\ Only(c)
    BY <1>2, ShapesFacts DEF CallsAreFunction, Only
<1>4. PICK f : f = Fetch
    OBVIOUS
<1>5. f \in Request /\ f.kind = "fetch" /\ f.phase = "sent" /\ f.list = <<>>
    <2>1. NoCall \in Request /\ NoCall.phase = "sent" /\ NoCall.list = <<>>
        BY NoCallFields
    <2> QED BY <1>4, <2>1 DEF Fetch, Request, Kind
<1>6. /\ [f EXCEPT !.silent = silent] \in Request
      /\ [f EXCEPT !.silent = silent].kind = f.kind
      /\ [f EXCEPT !.silent = silent].phase = f.phase
      /\ [f EXCEPT !.silent = silent].list = f.list
      /\ [f EXCEPT !.silent = silent].silent = silent
    BY <1>5 DEF Request
<1> QED BY <1>3, <1>4, <1>5, <1>6

LEMMA ChangeShapes ==
    ASSUME Shapes, NEW c \in Call, ChangeAnswered(c)
    PROVE  Shapes'
<1>1. PICK kind, phase : Settled(c, kind, phase)
    BY DEF ChangeAnswered
<1>2. shown' = shown /\ Given(shown', lastId) /\ isLoading \in BOOLEAN /\ strayed \in BOOLEAN
    BY DEF ChangeAnswered, Shapes
<1>3. CASE Refetches(calls[c])
    <2>1. /\ CallsAreFunction' /\ Only(c) /\ calls'[c] \in Request
          /\ calls'[c].kind = "fetch" /\ calls'[c].list = <<>>
          /\ calls'[c].silent \in BOOLEAN
        BY <1>3, RefetchIs
    <2>2. isLoading' \in BOOLEAN
        BY <1>2, <1>3, <2>1 DEF ChangeAnswered
    <2>3. strayed' \in BOOLEAN
        BY <1>2, <1>3 DEF ChangeAnswered
    <2>4. UNCHANGED table /\ UNCHANGED <<searching, ops, looped>> /\ lastId' = lastId
        BY <1>1 DEF Settled, table
    <2>5. Carries(calls'[c], lastId')
        BY <2>1, <2>4, ShapesFacts, GivenNone DEF Carries
    <2> QED BY <1>2, <2>1, <2>2, <2>3, <2>4, <2>5, SettledKept
<1>4. CASE ~Refetches(calls[c])
    <2>1. End(c) /\ isLoading' = isLoading /\ strayed' = strayed
        BY <1>4 DEF ChangeAnswered
    <2> QED BY <1>1, <1>2, <2>1, EndKept
<1> QED BY <1>3, <1>4

(* What the administrator does.                                            *)
LEMMA BeginKept ==
    ASSUME Shapes, NEW c \in Call, NEW request \in Request, Begin(c, request), Operate,
           request.kind # "none", Given(request.list, lastId),
           request.kind = "delete" => request.id \in DOMAIN request.list,
           request.kind = "level" => /\ request.id \in 1 .. lastId /\ request.id \in Department
                                     /\ request.level \in Level,
           request.phase = "sent",
           UNCHANGED table, searching' \in BOOLEAN, Given(shown', lastId),
           isLoading' \in BOOLEAN, looped' \in BOOLEAN
    PROVE  Shapes'
<1>1. /\ CallsAreFunction' /\ Only(c) /\ calls'[c] \in Request
      /\ calls'[c].kind = request.kind /\ calls'[c].phase = request.phase
      /\ calls'[c].id = request.id /\ calls'[c].level = request.level
      /\ calls'[c].list = request.list
    BY ShapesFacts, BeginIs
<1>2. lastId' = lastId /\ lastId' \in Nat /\ lastId <= lastId' /\ rows' = rows
      /\ staffed' = staffed
    BY ShapesFacts DEF table
<1>3. Carries(calls'[c], lastId')
    BY <1>1, <1>2 DEF Carries
<1>4. \A o \in Call : Carries(calls'[o], lastId')
    BY <1>1, <1>2, <1>3, CallsKept
<1>5. strayed' \in BOOLEAN
    BY DEF Begin, Shapes
<1>6. ops' \in 0 .. MaxOps
    BY MaxOpsAssumption DEF Operate, Shapes
<1> QED BY <1>1, <1>2, <1>4, <1>5, <1>6 DEF Shapes, CallsAreFunction

LEMMA SearchShapes ==
    ASSUME Shapes, NEW c \in Call, Search(c)
    PROVE  Shapes'
<1>1. PICK r \in Request : r = Fetch /\ r.kind = "fetch" /\ r.phase = "sent" /\ r.list = <<>>
    <2>1. NoCall \in Request /\ NoCall.phase = "sent" /\ NoCall.list = <<>>
        BY NoCallFields
    <2>2. /\ Fetch \in Request /\ Fetch.kind = "fetch"
          /\ Fetch.phase = "sent" /\ Fetch.list = <<>>
        BY <2>1 DEF Fetch, Request, Kind
    <2> QED BY <2>2
<1>2. /\ Operate /\ Begin(c, r) /\ UNCHANGED table /\ shown' = shown /\ looped' = looped
      /\ searching' = ~searching /\ isLoading' = TRUE
    BY <1>1 DEF Search
<1>3. Given(<<>>, lastId) /\ Given(shown', lastId) /\ looped' \in BOOLEAN /\ searching' \in BOOLEAN
    BY <1>2, ShapesFacts, GivenNone DEF Shapes
<1> QED BY <1>1, <1>2, <1>3, BeginKept

LEMMA SubmitShapes ==
    ASSUME Shapes, NEW c \in Call, Submit(c)
    PROVE  Shapes'
<1>a. PICK r : r = [NoCall EXCEPT !.kind = "create"]
    OBVIOUS
<1>1. r \in Request /\ r.kind = "create" /\ r.phase = "sent" /\ r.list = <<>>
    <2>1. NoCall \in Request /\ NoCall.phase = "sent" /\ NoCall.list = <<>>
        BY NoCallFields
    <2> QED BY <1>a, <2>1 DEF Request, Kind
<1>2. /\ Operate /\ Begin(c, r) /\ UNCHANGED table /\ shown' = shown /\ looped' = looped
      /\ searching' = searching /\ isLoading' = isLoading
    BY <1>a DEF Submit, page
<1>3. Given(<<>>, lastId) /\ Given(shown', lastId) /\ looped' \in BOOLEAN
      /\ searching' \in BOOLEAN /\ isLoading' \in BOOLEAN
    BY <1>2, ShapesFacts, GivenNone DEF Shapes
<1> QED BY <1>1, <1>2, <1>3, BeginKept

(* The list that HandleDelete leaves, and the one it may put back.         *)
LEMMA DeleteRequest ==
    ASSUME Shapes, NEW c \in Call, NEW d \in Department, HandleDelete(c, d)
    PROVE  \E r \in Request, left \in List :
              /\ Begin(c, r) /\ shown' = left /\ left = Without(shown, d)
              /\ DOMAIN left = DOMAIN shown \ {d}
              /\ \A x \in DOMAIN left : left[x] = shown[x]
              /\ r.kind = "delete" /\ r.phase = "sent" /\ r.id = d /\ r.list = shown
              /\ d \in DOMAIN shown
<1>1. PICK list \in List : list = shown
    BY ShapesFacts
<1>2. PICK r : r = [NoCall EXCEPT !.kind = "delete", !.id = d, !.list = list]
    OBVIOUS
<1>3. /\ r \in Request /\ r.kind = "delete" /\ r.phase = "sent" /\ r.id = d
      /\ r.list = list
    <2>1. NoCall \in Request /\ NoCall.phase = "sent"
        BY NoCallFields
    <2> QED BY <1>2, <2>1 DEF Request, Kind
<1>4. PICK left : left = Without(list, d)
    OBVIOUS
<1>5. left \in List /\ DOMAIN left = DOMAIN list \ {d} /\ \A x \in DOMAIN left : left[x] = list[x]
    BY <1>4, WithoutIs
<1>6. Begin(c, r) /\ shown' = left
    BY <1>1, <1>2, <1>4 DEF HandleDelete
<1>7. d \in DOMAIN shown
    <2>1. DOMAIN Found(shown) \subseteq DOMAIN shown
        BY DEF Found, Restrict
    <2> QED BY <2>1 DEF HandleDelete
<1> QED BY <1>1, <1>3, <1>4, <1>5, <1>6, <1>7

LEMMA HandleDeleteShapes ==
    ASSUME Shapes, NEW c \in Call, NEW d \in Department, HandleDelete(c, d)
    PROVE  Shapes'
<1>1. PICK r \in Request, left \in List :
              /\ Begin(c, r) /\ shown' = left
              /\ DOMAIN left = DOMAIN shown \ {d}
              /\ \A x \in DOMAIN left : left[x] = shown[x]
              /\ r.kind = "delete" /\ r.phase = "sent" /\ r.id = d /\ r.list = shown
              /\ d \in DOMAIN shown
    BY DeleteRequest
<1>2. /\ Operate /\ UNCHANGED table /\ looped' = looped
      /\ searching' = searching /\ isLoading' = isLoading
    BY DEF HandleDelete
<1>3. Given(shown, lastId) /\ lastId \in Nat /\ looped' \in BOOLEAN
      /\ searching' \in BOOLEAN /\ isLoading' \in BOOLEAN
    BY <1>2, ShapesFacts DEF Shapes
<1>4. Given(left, lastId)
    BY <1>1, <1>3, GivenPart
<1> QED BY <1>1, <1>2, <1>3, <1>4, BeginKept

LEMMA LevelRequest ==
    ASSUME Shapes, NEW c \in Call, NEW d \in Department, NEW l \in Level,
           HandleVisibilityChange(c, d, l)
    PROVE  \E r \in Request, left \in List :
              /\ Begin(c, r) /\ shown' = left
              /\ DOMAIN left = DOMAIN shown
              /\ \A x \in DOMAIN left :
                    /\ left[x].parent = shown[x].parent
                    /\ left[x].level = IF x = d THEN l ELSE shown[x].level
              /\ r.kind = "level" /\ r.phase = "sent" /\ r.id = d /\ r.level = l
              /\ r.list = <<>>
              /\ d \in DOMAIN shown
<1>1. PICK list \in List : list = shown
    BY ShapesFacts
<1>2. PICK r : r = [NoCall EXCEPT !.kind = "level", !.id = d, !.level = l]
    OBVIOUS
<1>3. /\ r \in Request /\ r.kind = "level" /\ r.phase = "sent" /\ r.id = d
      /\ r.level = l /\ r.list = <<>>
    <2>1. NoCall \in Request /\ NoCall.phase = "sent" /\ NoCall.list = <<>>
        BY NoCallFields
    <2> QED BY <1>2, <2>1 DEF Request, Kind
<1>4. PICK left : left = [list EXCEPT ![d].level = l]
    OBVIOUS
<1>5. d \in DOMAIN list
    BY <1>1 DEF HandleVisibilityChange
<1>6. /\ left \in List /\ DOMAIN left = DOMAIN list
      /\ \A x \in DOMAIN left :
            /\ left[x].parent = list[x].parent
            /\ left[x].level = IF x = d THEN l ELSE list[x].level
    <2>1. /\ [list EXCEPT ![d].level = l] \in List
          /\ DOMAIN [list EXCEPT ![d].level = l] = DOMAIN list
          /\ \A x \in DOMAIN list :
                /\ [list EXCEPT ![d].level = l][x].parent = list[x].parent
                /\ [list EXCEPT ![d].level = l][x].level =
                       IF x = d THEN l ELSE list[x].level
        BY <1>5, LevelSet
    <2> QED BY <1>4, <2>1
<1>7. Begin(c, r) /\ shown' = left
    BY <1>1, <1>2, <1>4 DEF HandleVisibilityChange
<1> QED BY <1>1, <1>3, <1>5, <1>6, <1>7

LEMMA VisibilityShapes ==
    ASSUME Shapes, NEW c \in Call, NEW d \in Department, NEW l \in Level,
           HandleVisibilityChange(c, d, l)
    PROVE  Shapes'
<1>1. PICK r \in Request, left \in List :
              /\ Begin(c, r) /\ shown' = left
              /\ DOMAIN left = DOMAIN shown
              /\ \A x \in DOMAIN left :
                    /\ left[x].parent = shown[x].parent
                    /\ left[x].level = IF x = d THEN l ELSE shown[x].level
              /\ r.kind = "level" /\ r.phase = "sent" /\ r.id = d /\ r.level = l
              /\ r.list = <<>>
              /\ d \in DOMAIN shown
    BY LevelRequest
<1>2. /\ Operate /\ UNCHANGED table /\ looped' = looped
      /\ searching' = searching /\ isLoading' = isLoading
    BY DEF HandleVisibilityChange
<1>3. /\ Given(shown, lastId) /\ lastId \in Nat /\ looped' \in BOOLEAN
      /\ searching' \in BOOLEAN /\ isLoading' \in BOOLEAN
      /\ DOMAIN shown \subseteq 1 .. lastId /\ Given(<<>>, lastId)
    BY <1>2, ShapesFacts, GivenNone DEF Shapes, Given
<1>4. Given(left, lastId)
    BY <1>1, <1>3, GivenPart
<1> QED BY <1>1, <1>2, <1>3, <1>4, BeginKept

LEMMA DragRequest ==
    ASSUME Shapes, NEW c \in Call, NEW d \in Department, NEW over \in Department,
           HandleDragEnd(c, d, over)
    PROVE  \E r \in Request, left \in List :
              /\ Begin(c, r) /\ shown' = left
              /\ DOMAIN left = DOMAIN shown
              /\ \A x \in DOMAIN left :
                    /\ left[x].parent = IF x = d THEN shown[over].parent ELSE shown[x].parent
                    /\ left[x].level = shown[x].level
              /\ r.kind = "reorder" /\ r.phase = "sent" /\ r.list = left
              /\ d \in DOMAIN shown /\ over \in DOMAIN shown
<1>1. PICK list \in List : list = shown
    BY ShapesFacts
<1>2. d \in DOMAIN list /\ over \in DOMAIN list
    BY <1>1 DEF HandleDragEnd
<1>3. PICK left : left = Dropped(list, d, over)
    OBVIOUS
<1>4. /\ left \in List /\ DOMAIN left = DOMAIN list
      /\ \A x \in DOMAIN left :
            /\ left[x].parent = IF x = d THEN list[over].parent ELSE list[x].parent
            /\ left[x].level = list[x].level
    <2>1. /\ Dropped(list, d, over) \in List
          /\ DOMAIN Dropped(list, d, over) = DOMAIN list
          /\ \A x \in DOMAIN list :
                /\ Dropped(list, d, over)[x].parent =
                       IF x = d THEN list[over].parent ELSE list[x].parent
                /\ Dropped(list, d, over)[x].level = list[x].level
        BY <1>2, DroppedIs
    <2> QED BY <1>3, <2>1
<1>5. PICK r : r = [NoCall EXCEPT !.kind = "reorder", !.list = left]
    OBVIOUS
<1>6. r \in Request /\ r.kind = "reorder" /\ r.phase = "sent" /\ r.list = left
    <2>1. NoCall \in Request /\ NoCall.phase = "sent"
        BY NoCallFields
    <2> QED BY <1>4, <1>5, <2>1 DEF Request, Kind
<1>7. shown' = left
    BY <1>1, <1>3 DEF HandleDragEnd
<1>8. Begin(c, r)
    BY <1>5, <1>7 DEF HandleDragEnd
<1> QED BY <1>1, <1>2, <1>4, <1>6, <1>7, <1>8

LEMMA DragShapes ==
    ASSUME Shapes, NEW c \in Call, NEW d \in Department, NEW over \in Department,
           HandleDragEnd(c, d, over)
    PROVE  Shapes'
<1>1. PICK r \in Request, left \in List :
              /\ Begin(c, r) /\ shown' = left
              /\ DOMAIN left = DOMAIN shown
              /\ \A x \in DOMAIN left :
                    left[x].parent = IF x = d THEN shown[over].parent ELSE shown[x].parent
              /\ r.kind = "reorder" /\ r.phase = "sent" /\ r.list = left
              /\ d \in DOMAIN shown /\ over \in DOMAIN shown
    BY DragRequest
<1>2. /\ Operate /\ UNCHANGED table
      /\ searching' = searching /\ isLoading' = isLoading
    BY DEF HandleDragEnd
<1>3. looped' \in BOOLEAN
    BY DEF HandleDragEnd, Shapes
<1>4. Given(left, lastId) /\ searching' \in BOOLEAN /\ isLoading' \in BOOLEAN
    BY <1>1, <1>2 DEF Shapes, Given
<1> QED BY <1>1, <1>2, <1>3, <1>4, BeginKept

LEMMA StaffShapes ==
    ASSUME Shapes, NEW d \in Department, Staff(d)
    PROVE  Shapes'
<1>1. ops' \in 0 .. MaxOps
    BY MaxOpsAssumption DEF Staff, Operate, Shapes
<1>2. staffed' \subseteq DOMAIN rows'
    BY DEF Staff, Shapes
<1> QED BY <1>1, <1>2 DEF Staff, page, Shapes

LEMMA ShapesStep == Shapes /\ [Next]_vars => Shapes'
<1> SUFFICES ASSUME Shapes, [Next]_vars PROVE Shapes'
    OBVIOUS
<1>1. ASSUME NEW c \in Call, NEW d \in Department, NEW l \in Level, NEW over \in Department,
             \/ Search(c) \/ Submit(c) \/ HandleDelete(c, d)
             \/ HandleVisibilityChange(c, d, l) \/ HandleDragEnd(c, d, over)
      PROVE  Shapes'
    BY <1>1, SearchShapes, SubmitShapes, HandleDeleteShapes, VisibilityShapes, DragShapes
<1>2. CASE Administer
    <2>1. PICK c \in Call :
            \/ Search(c)
            \/ Submit(c)
            \/ \E d \in Department :
                  \/ HandleDelete(c, d)
                  \/ \E level \in Level : HandleVisibilityChange(c, d, level)
                  \/ \E over \in Department : HandleDragEnd(c, d, over)
        BY <1>2 DEF Administer
    <2> QED BY <2>1, SearchShapes, SubmitShapes, HandleDeleteShapes, VisibilityShapes, DragShapes
<1>3. CASE Service
    BY <1>3, ListShapes, DeleteShapes, UpdateShapes, SaveShapes, ReorderShapes, CreateShapes,
       BatchShapes, RefuseCreateShapes DEF Service
<1>4. CASE Page
    BY <1>4, AnsweredShapes, ChangeShapes DEF Page
<1>5. ASSUME NEW d \in Department, Staff(d) PROVE Shapes'
    BY <1>5, StaffShapes
<1>6. CASE UNCHANGED vars
    BY <1>6 DEF vars, table, page, Shapes
<1> QED BY <1>2, <1>3, <1>4, <1>5, <1>6 DEF Next

LEMMA ShapesInit == Init => Shapes
<1> SUFFICES ASSUME Init PROVE Shapes
    OBVIOUS
<1>1. PICK first \in Call :
          calls = [x \in Call |-> IF x = first THEN Fetch ELSE NoCall]
    BY DEF Init
<1>2. lastId \in Nat /\ lastId \in 0 .. MaxDepartments /\ MaxDepartments \in Nat /\ 0 \in 0 .. MaxOps
    BY RowsAssumption, MaxOpsAssumption DEF Init
<1>3. Given(rows, lastId)
    <2>1. rows \in [1 .. FirstRows -> Row] /\ 1 .. FirstRows \in SUBSET Department
        BY RowsAssumption DEF Init, Row, Level, Department
    <2>2. rows \in List /\ DOMAIN rows = 1 .. FirstRows
        BY <2>1, ListOf
    <2> QED BY <2>2, <1>2 DEF Init, Given, None
<1>4. Carries(Fetch, lastId)
    <2>1. NoCall \in Request /\ NoCall.phase = "sent" /\ NoCall.list = <<>>
        BY NoCallFields
    <2>2. /\ Fetch \in Request /\ Fetch.kind = "fetch"
          /\ Fetch.list = <<>>
        BY <2>1 DEF Fetch, Request, Kind
    <2> QED BY <1>2, <2>2, GivenNone DEF Carries
<1>5. Carries(NoCall, lastId) /\ Given(<<>>, lastId)
    BY <1>2, NoCallCarries, GivenNone
<1>6. DOMAIN calls = Call /\ calls = [c \in Call |-> calls[c]]
    BY <1>1
<1>7. \A c \in Call : Carries(calls[c], lastId)
    BY <1>1, <1>4, <1>5
<1> QED BY <1>2, <1>3, <1>5, <1>6, <1>7 DEF Init, Shapes

LEMMA ShapesHold == Spec => []Shapes
BY ShapesInit, ShapesStep, PTL DEF Spec

(* The shapes of the table, the page and the requests; the ids in them     *)
(* were given, and the department of every user has a row: DeleteDepartment*)
(* and the import that replaces refuse to take one away that is in use.    *)
THEOREM TypeCorrect == Spec => []TypeOK
<1>1. Shapes => TypeOK
    BY DEF Shapes, TypeOK, Given, Carries
<1> QED BY <1>1, ShapesHold, PTL

-----------------------------------------------------------------------------
(* What each step of the service does to the table and to its request.     *)

Answered(c, list) == strayed' = TRUE \/ (Phased(c, "done", list) /\ strayed' = strayed)
Refused(c) ==
    /\ Phased(c, "failed", calls[c].list)
    /\ rows' = rows /\ lastId' = lastId /\ strayed' = strayed
SameRows(new, old, D) == \A x \in D : new[x] = old[x]

LEMMA AnsweredIs ==
    ASSUME Shapes, NEW c \in Call, NEW list \in List, Answer(c, list)
    PROVE  Answered(c, list)
BY ShapesFacts, AnswerIs DEF Answered

LEMMA RefusedIs ==
    ASSUME Shapes, NEW c \in Call, Refuse(c)
    PROVE  Refused(c)
BY ShapesFacts, RefuseIs DEF Refused

LEMMA ListEffect ==
    ASSUME Shapes, NEW c \in Call, ListDepartments(c)
    PROVE  Answered(c, rows) /\ rows' = rows /\ lastId' = lastId /\ rows \in List
<1>1. rows \in List /\ Answer(c, rows) /\ rows' = rows /\ lastId' = lastId
    BY ShapesFacts DEF ListDepartments
<1> QED BY <1>1, AnsweredIs

LEMMA DeleteEffect ==
    ASSUME Shapes, NEW c \in Call, DeleteDepartment(c)
    PROVE  \/ Refused(c) /\ calls[c].id \in staffed
           \/ \E left \in List :
                 /\ rows' = left /\ lastId' = lastId
                 /\ DOMAIN left = DOMAIN rows \ {calls[c].id}
                 /\ SameRows(left, rows, DOMAIN left)
                 /\ Answered(c, calls[c].list)
<1>1. CASE calls[c].id \in staffed
    BY <1>1, RefusedIs DEF DeleteDepartment
<1>2. CASE calls[c].id \notin staffed
    <2>1. PICK d \in Department, list \in List : d = calls[c].id /\ list = calls[c].list
        BY ShapesFacts, ListElements DEF Shapes, Carries, DeleteDepartment, Waits
    <2>2. PICK left : left = Without(rows, d)
        OBVIOUS
    <2>3. rows' = left /\ Answer(c, list) /\ lastId' = lastId
        BY <1>2, <2>1, <2>2 DEF DeleteDepartment
    <2>4. /\ left \in List /\ DOMAIN left = DOMAIN rows \ {d}
          /\ \A x \in DOMAIN left : left[x] = rows[x]
        BY <2>2, ShapesFacts, WithoutIs
    <2>5. Answered(c, list)
        BY <2>3, AnsweredIs
    <2> QED BY <2>1, <2>3, <2>4, <2>5 DEF SameRows
<1> QED BY <1>1, <1>2

LEMMA UpdateEffect ==
    ASSUME Shapes, NEW c \in Call, UpdateDepartment(c)
    PROVE  \/ Refused(c) /\ calls[c].id \notin DOMAIN rows
           \/ \E list \in List :
                 /\ Phased(c, "read", list) /\ DOMAIN list = {calls[c].id}
                 /\ calls[c].id \in DOMAIN rows /\ list[calls[c].id] = rows[calls[c].id]
                 /\ rows' = rows /\ lastId' = lastId /\ strayed' = strayed
<1>1. CASE calls[c].id \notin DOMAIN rows
    BY <1>1, RefusedIs DEF UpdateDepartment
<1>2. CASE calls[c].id \in DOMAIN rows
    <2>1. PICK d, list : d \in DOMAIN rows /\ d = calls[c].id /\ list = Restrict(rows, {d})
        BY <1>2
    <2>2. list \in List /\ DOMAIN list = {d} /\ list[d] = rows[d]
        BY <2>1, ShapesFacts, RestrictIs
    <2> QED BY <1>2, <2>1, <2>2, UpdateIs
<1> QED BY <1>1, <1>2

LEMMA SaveEffect ==
    ASSUME Shapes, NEW c \in Call, SaveDepartment(c)
    PROVE  \/ Refused(c) /\ calls[c].id \notin DOMAIN rows
           \/ \E new \in List :
                 /\ rows' = new /\ lastId' = lastId
                 /\ DOMAIN new = DOMAIN rows \cup {calls[c].id}
                 /\ SameRows(new, rows, DOMAIN rows \ {calls[c].id})
                 /\ new[calls[c].id].parent = calls[c].list[calls[c].id].parent
                 /\ new[calls[c].id].level = calls[c].level
                 /\ Answered(c, calls[c].list)
<1>1. Waits(c, "level", "read")
    BY DEF SaveDepartment
<1>2. CASE Refuse(c) /\ calls[c].id \notin DOMAIN rows
    BY <1>2, RefusedIs
<1>3. CASE /\ rows' = With(rows, calls[c].id, Saved(c)) /\ Answer(c, calls[c].list)
           /\ UNCHANGED lastId
    <2>1. PICK d \in Department, row \in Row, list \in List :
              /\ d = calls[c].id /\ row = Saved(c) /\ list = calls[c].list
              /\ row.parent = list[d].parent /\ row.level = calls[c].level
        BY <1>1, ShapesFacts, SavedIs
    <2>2. PICK new : new = With(rows, d, row)
        OBVIOUS
    <2>3. /\ new \in List /\ DOMAIN new = DOMAIN rows \cup {d} /\ new[d] = row
          /\ \A x \in DOMAIN rows : x # d => new[x] = rows[x]
        BY ZenonT(60), <2>2, ShapesFacts, WrittenIs
    <2>4. rows' = new /\ lastId' = lastId /\ Answer(c, list)
        BY <1>3, <2>1, <2>2
    <2>5. Answered(c, list)
        BY <2>4, AnsweredIs
    <2> QED BY <2>1, <2>3, <2>4, <2>5 DEF SameRows
<1> QED BY <1>2, <1>3 DEF SaveDepartment, Saved

LEMMA ReorderEffect ==
    ASSUME Shapes, NEW c \in Call, ReorderDepartments(c)
    PROVE  \/ Refused(c)
           \/ \E new \in List :
                 /\ rows' = new /\ lastId' = lastId /\ DOMAIN new = DOMAIN rows
                 /\ \A x \in DOMAIN rows :
                       /\ new[x].level = rows[x].level
                       /\ new[x].parent = IF x \in DOMAIN calls[c].list
                                          THEN calls[c].list[x].parent ELSE rows[x].parent
                 /\ Answered(c, calls[c].list)
<1>1. CASE Refuse(c)
    BY <1>1, RefusedIs
<1>2. CASE rows' = Reordered(calls[c].list) /\ Answer(c, calls[c].list)
    <2>1. PICK list \in List : list = calls[c].list
        BY ShapesFacts
    <2>2. PICK new : new = Reordered(list)
        OBVIOUS
    <2>3. /\ new \in List /\ DOMAIN new = DOMAIN rows
          /\ \A x \in DOMAIN rows :
                /\ new[x].level = rows[x].level
                /\ new[x].parent = IF x \in DOMAIN list THEN list[x].parent ELSE rows[x].parent
        BY <2>2, ShapesFacts, ReorderedIs
    <2>4. rows' = new /\ lastId' = lastId /\ Answer(c, list)
        BY <1>2, <2>1, <2>2 DEF ReorderDepartments
    <2>5. Answered(c, list)
        BY <2>4, AnsweredIs
    <2> QED BY <2>1, <2>3, <2>4, <2>5
<1> QED BY <1>1, <1>2 DEF ReorderDepartments

(* A department is added with an id that was not given.                    *)
Added(new, old, d, p) ==
    /\ new \in List /\ DOMAIN new = DOMAIN old \cup {d}
    /\ new[d].parent = p
    /\ SameRows(new, old, DOMAIN old \ {d})

LEMMA InsertedAdds ==
    ASSUME NEW list \in List, NEW d \in Department, NEW p \in Department \cup {None}
    PROVE  Added(Inserted(list, d, p), list, d, p)
<1>1. PICK new : new = Inserted(list, d, p)
    OBVIOUS
<1>2. /\ new \in List /\ DOMAIN new = DOMAIN list \cup {d} /\ new[d].parent = p
      /\ \A x \in DOMAIN list : x # d => new[x] = list[x]
    BY <1>1, InsertedIs
<1> QED BY <1>1, <1>2 DEF Added, SameRows

LEMMA CreateEffect ==
    ASSUME Shapes, NEW c \in Call, NEW p \in Department \cup {None}, CreateDepartment(c, p)
    PROVE  \E new \in List :
              /\ rows' = new /\ lastId' = lastId + 1 /\ lastId' \in Department
              /\ p \in 0 .. lastId
              /\ Added(new, rows, lastId + 1, p) /\ Answered(c, calls[c].list)
<1>a. PICK d : d = lastId + 1
    OBVIOUS
<1>1. PICK list \in List : list = calls[c].list
    BY ShapesFacts
<1>2. d \in Department /\ p \in 0 .. lastId
    BY <1>a, ShapesFacts DEF CreateDepartment, Department, None
<1>3. PICK new : new = Inserted(rows, d, p)
    OBVIOUS
<1>4. Added(new, rows, d, p)
    BY <1>2, <1>3, ShapesFacts, InsertedAdds
<1>5. rows' = new /\ lastId' = d /\ Answer(c, list)
    BY <1>a, <1>1, <1>3 DEF CreateDepartment
<1>6. Answered(c, list)
    BY <1>5, AnsweredIs
<1> QED BY <1>a, <1>1, <1>2, <1>4, <1>5, <1>6 DEF Added

LEMMA BatchEffect ==
    ASSUME Shapes, NEW c \in Call, NEW replace \in BOOLEAN, NEW children \in 0 .. 1,
           BatchCreateDepartments(c, replace, children)
    PROVE  \E kept \in {<<>>, rows}, one \in List, new \in List :
              /\ rows' = new /\ Added(one, kept, lastId + 1, None)
              /\ lastId + 1 \in Department
              /\ \/ new = one /\ lastId' = lastId + 1
                 \/ /\ lastId' = lastId + 2 /\ lastId + 2 \in Department
                    /\ \E p \in DOMAIN kept \cup {lastId + 1} : Added(new, one, lastId + 2, p)
              /\ Answered(c, calls[c].list)
<1>1. PICK kept \in {<<>>, rows}, p \in 0 .. lastId + 1 :
          /\ p \in DOMAIN kept \cup {lastId + 1} /\ p \in Department
          /\ lastId' = lastId + 1 + children /\ lastId' <= MaxDepartments
          /\ rows' = IF children = 0 THEN Inserted(kept, lastId + 1, None)
                     ELSE Inserted(Inserted(kept, lastId + 1, None), lastId + 2, p)
    BY BatchIs
<1>2. PICK root, one : root = lastId + 1 /\ one = Inserted(kept, root, None)
    OBVIOUS
<1>3. /\ root \in Department /\ None \in Department \cup {None} /\ kept \in List
      /\ children = 1 => lastId + 2 \in Department
    BY <1>1, <1>2, ShapesFacts, EmptyList DEF Department
<1>4. Added(one, kept, root, None) /\ one \in List
    BY <1>2, <1>3, InsertedAdds DEF Added
<1>5. PICK list \in List : list = calls[c].list
    BY ShapesFacts
<1>6. Answered(c, calls[c].list)
    <2>1. Answer(c, list)
        BY <1>5 DEF BatchCreateDepartments
    <2> QED BY <1>5, <2>1, AnsweredIs
<1>7. CASE children = 0
    <2>1. rows' = one /\ lastId' = lastId + 1
        BY <1>1, <1>2, <1>7, ShapesFacts
    <2> QED BY <1>2, <1>3, <1>4, <1>6, <2>1
<1>8. CASE children = 1
    <2>1. PICK d, new : d = lastId + 2 /\ new = Inserted(one, d, p)
        OBVIOUS
    <2>2. rows' = new /\ lastId' = lastId + 2 /\ d \in Department
        BY <1>1, <1>2, <1>3, <1>8, <2>1, ShapesFacts
    <2>3. Added(new, one, d, p)
        BY <1>1, <1>4, <2>1, <2>2, InsertedAdds
    <2>4. new \in List
        BY <2>3 DEF Added
    <2> QED BY <1>1, <1>2, <1>3, <1>4, <1>6, <2>1, <2>2, <2>3, <2>4
<1> QED BY <1>7, <1>8

LEMMA NoRowsButService ==
    ASSUME [Next]_vars, ~Service
    PROVE  rows' = rows /\ lastId' = lastId
<1>1. CASE Administer
    BY <1>1 DEF Administer, Search, Submit, HandleDelete, HandleVisibilityChange,
       HandleDragEnd, table
<1>2. CASE Page
    BY <1>2 DEF Page, ShowFetched, DeleteDone, RevertDelete, ChangeAnswered, Settled, table
<1>3. ASSUME NEW d \in Department, Staff(d) PROVE rows' = rows /\ lastId' = lastId
    BY <1>3 DEF Staff
<1> QED BY <1>1, <1>2, <1>3 DEF Next, vars, table

(* A department that was deleted comes back only by SaveDepartment: the    *)
(* list of a move, which may still have it, does not bring it back, nor    *)
(* does an import.                                                         *)
THEOREM DeletedStaysDeletedHolds == Spec => DeletedStaysDeleted
<1> DEFINE Kept == \A d \in DOMAIN rows' \ DOMAIN rows :
        d > lastId \/ \E c \in Call : Waits(c, "level", "read") /\ calls[c].id = d
<1>1. ASSUME Shapes, [Next]_vars PROVE Kept
    <2>1. CASE ~Service
        BY <1>1, <2>1, NoRowsButService
    <2>2. CASE Service
        <3>1. PICK c \in Call :
                 \/ ListDepartments(c) \/ DeleteDepartment(c) \/ UpdateDepartment(c)
                 \/ SaveDepartment(c) \/ ReorderDepartments(c)
                 \/ \E parent \in Department \cup {None} : CreateDepartment(c, parent)
                 \/ \E replace \in BOOLEAN, children \in 0 .. 1 :
                       BatchCreateDepartments(c, replace, children)
                 \/ RefuseCreate(c)
            BY <2>2 DEF Service
        <3>2. CASE ListDepartments(c)
            BY <3>2 DEF ListDepartments
        <3>3. CASE DeleteDepartment(c)
            <4>1. DOMAIN rows' \subseteq DOMAIN rows
                BY <1>1, <3>3, DeleteEffect DEF Refused
            <4> QED BY <4>1
        <3>4. CASE UpdateDepartment(c)
            <4>1. rows' = rows
                BY <1>1, <3>4, UpdateEffect DEF Refused
            <4> QED BY <4>1
        <3>5. CASE SaveDepartment(c)
            <4>1. DOMAIN rows' \subseteq DOMAIN rows \cup {calls[c].id}
                BY <1>1, <3>5, SaveEffect DEF Refused
            <4>2. Waits(c, "level", "read")
                BY <3>5 DEF SaveDepartment
            <4> QED BY <4>1, <4>2
        <3>6. CASE ReorderDepartments(c)
            <4>1. DOMAIN rows' = DOMAIN rows
                BY <1>1, <3>6, ReorderEffect DEF Refused
            <4> QED BY <4>1
        <3>7. ASSUME NEW p \in Department \cup {None}, CreateDepartment(c, p) PROVE Kept
            <4>1. DOMAIN rows' = DOMAIN rows \cup {lastId + 1}
                BY <1>1, <3>7, CreateEffect DEF Added
            <4> QED BY <1>1, <4>1, ShapesFacts
        <3>8. ASSUME NEW replace \in BOOLEAN, NEW children \in 0 .. 1,
                     BatchCreateDepartments(c, replace, children)
              PROVE  Kept
            <4>1. PICK kept \in {<<>>, rows}, one \in List, new \in List :
                     /\ rows' = new /\ Added(one, kept, lastId + 1, None)
                     /\ \/ new = one
                        \/ \E p \in DOMAIN kept \cup {lastId + 1} : Added(new, one, lastId + 2, p)
                BY <1>1, <3>8, BatchEffect
            <4>2. DOMAIN new \subseteq DOMAIN kept \cup {lastId + 1, lastId + 2}
                BY <4>1 DEF Added
            <4>3. DOMAIN kept \subseteq DOMAIN rows
                BY <4>1, EmptyList
            <4>4. lastId + 1 > lastId /\ lastId + 2 > lastId
                BY <1>1, ShapesFacts
            <4> QED BY <4>1, <4>2, <4>3, <4>4
        <3>9. CASE RefuseCreate(c)
            BY <3>9 DEF RefuseCreate, Refuse
        <3> QED BY <3>1, <3>2, <3>3, <3>4, <3>5, <3>6, <3>7, <3>8, <3>9
    <2> QED BY <2>1, <2>2
<1>2. Shapes /\ [Next]_vars => [Kept]_vars
    BY <1>1
<1> QED BY <1>2, ShapesHold, PTL DEF Spec, DeletedStaysDeleted

-----------------------------------------------------------------------------
(* The second part of the inductive invariant, for a page that has not     *)
(* strayed: the requests under way do not disturb each other, a list that  *)
(* was answered is what the table holds, and so is a row that was read.    *)

Busy(c) == calls[c].kind # "none"
Apart ==
    \A c, o \in Call : Busy(c) /\ Busy(o) /\ c # o => ~Disturb(calls[c], calls[o])

Fresh ==
    \A c \in Call : Waits(c, "fetch", "done") => calls[c].list = rows

ReadHolds ==
    \A c \in Call : Waits(c, "level", "read") /\ calls[c].id \in DOMAIN rows =>
        calls[c].list[calls[c].id] = rows[calls[c].id]

Peace == Apart /\ Fresh /\ ReadHolds

LEMMA DisturbSymmetric == \A r, s : Disturb(r, s) => Disturb(s, r)
BY DEF Disturb

LEMMA DisturbFields ==
    ASSUME NEW q, NEW r, NEW s, r.kind = s.kind, r.id = s.id
    PROVE  Disturb(q, r) = Disturb(q, s)
BY DEF Disturb

(* Which requests are not under way together.                              *)
LEMMA ApartFacts ==
    ASSUME Apart, NEW c \in Call, NEW o \in Call, c # o
    PROVE  /\ Busy(c) /\ calls[c].kind # "fetch" => calls[o].kind # "fetch"
           /\ calls[c].kind = "reorder" => calls[o].kind \notin {"reorder", "level"}
           /\ calls[c].kind = "level" => calls[o].kind # "reorder"
           /\ calls[c].kind = "level" /\ calls[o].kind \in {"level", "delete"} =>
                  calls[c].id # calls[o].id
           /\ calls[c].kind = "delete" /\ calls[o].kind = "level" => calls[c].id # calls[o].id
<1>1. Busy(c) /\ Busy(o) => ~Disturb(calls[c], calls[o])
    BY DEF Apart
<1> QED BY <1>1 DEF Disturb, Busy

LEMMA ApartNew ==
    ASSUME Apart, NEW c \in Call, Only(c),
           Busy(c)' => \A o \in Call \ {c} : Busy(o) => ~Disturb(calls[o], calls'[c])
    PROVE  Apart'
<1>1. ASSUME NEW a \in Call, NEW b \in Call, Busy(a)', Busy(b)', a # b
      PROVE  ~Disturb(calls'[a], calls'[b])
    <2>1. CASE b = c
        <3>1. calls'[a] = calls[a] /\ Busy(a)
            BY <1>1, <2>1 DEF Only, Busy
        <3> QED BY <1>1, <2>1, <3>1
    <2>2. CASE a = c
        <3>1. calls'[b] = calls[b] /\ Busy(b)
            BY <1>1, <2>2 DEF Only, Busy
        <3>2. ~Disturb(calls'[b], calls'[a])
            BY <1>1, <2>2, <3>1
        <3> QED BY <3>2, DisturbSymmetric
    <2>3. CASE a # c /\ b # c
        <3>1. calls'[a] = calls[a] /\ Busy(a) /\ calls'[b] = calls[b] /\ Busy(b)
            BY <1>1, <2>3 DEF Only, Busy
        <3> QED BY <1>1, <3>1 DEF Apart
    <2> QED BY <2>1, <2>2, <2>3
<1> QED BY <1>1 DEF Apart

LEMMA ApartPhased ==
    ASSUME Apart, NEW c \in Call, NEW phase, NEW list, Phased(c, phase, list), Busy(c)
    PROVE  Apart'
<1>1. /\ Only(c) /\ calls'[c].kind = calls[c].kind /\ calls'[c].id = calls[c].id
    BY DEF Phased
<1>2. ASSUME NEW o \in Call \ {c}, Busy(o) PROVE ~Disturb(calls[o], calls'[c])
    <2>1. ~Disturb(calls[o], calls[c])
        BY <1>2 DEF Apart
    <2> QED BY <1>1, <2>1, DisturbFields
<1> QED BY <1>1, <1>2, ApartNew

LEMMA ApartEnd ==
    ASSUME Apart, NEW c \in Call, Only(c), calls'[c] = NoCall
    PROVE  Apart'
<1>1. ~Busy(c)'
    BY NoCallFields DEF Busy
<1> QED BY <1>1, ApartNew

LEMMA BeginApart ==
    ASSUME Shapes, Apart, NEW c \in Call, NEW request \in Request, Begin(c, request), ~strayed'
    PROVE  Apart' /\ \A o \in Call \ {c} : Busy(o) => ~Disturb(calls[o], calls'[c])
<1>1. Only(c)
    BY ShapesFacts, BeginIs
<1>2. ASSUME NEW o \in Call \ {c}, Busy(o) PROVE ~Disturb(calls[o], calls'[c])
    <2>1. ~(\E x \in Underway : Disturb(calls[x], calls'[c]))
        BY DEF Begin
    <2> QED BY <1>2, <2>1 DEF Underway, Busy
<1> QED BY <1>1, <1>2, ApartNew

LEMMA RefetchApart ==
    ASSUME Shapes, Apart, NEW c \in Call, ChangeAnswered(c), Refetches(calls[c]), ~strayed'
    PROVE  Apart' /\ \A o \in Call \ {c} : Busy(o) => ~Disturb(calls[o], calls'[c])
<1>1. Only(c)
    BY RefetchIs
<1>2. ASSUME NEW o \in Call \ {c}, Busy(o) PROVE ~Disturb(calls[o], calls'[c])
    <2>1. ~(\E x \in Underway \ {c} : Disturb(calls[x], calls'[c]))
        BY DEF ChangeAnswered
    <2> QED BY <1>2, <2>1 DEF Underway, Busy
<1> QED BY <1>1, <1>2, ApartNew

(* A new list disturbs everything but another list.                        *)
LEMMA SearchAlone ==
    ASSUME Shapes, Apart, NEW c \in Call, Search(c), ~strayed'
    PROVE  /\ \A o \in Call \ {c} : calls[o].kind \in {"none", "fetch"}
           /\ calls'[c].kind = "fetch" /\ calls'[c].phase = "sent"
           /\ Only(c) /\ calls[c] = NoCall /\ Apart'
<1>1. PICK r : r = Fetch
    OBVIOUS
<1>2. r \in Request /\ r.kind = "fetch" /\ r.phase = "sent"
    BY <1>1, NoCallFields DEF Fetch, Request, Kind
<1>3. Begin(c, r)
    BY <1>1 DEF Search
<1>4. Only(c) /\ calls[c] = NoCall /\ calls'[c].kind = "fetch" /\ calls'[c].phase = "sent"
    BY <1>2, <1>3, ShapesFacts, BeginIs
<1>5. Apart' /\ \A o \in Call \ {c} : Busy(o) => ~Disturb(calls[o], calls'[c])
    BY <1>2, <1>3, BeginApart
<1>6. ASSUME NEW o \in Call \ {c} PROVE calls[o].kind \in {"none", "fetch"}
    BY <1>4, <1>5 DEF Disturb, Busy
<1> QED BY <1>4, <1>5, <1>6

LEMMA FreshKept ==
    ASSUME Fresh, NEW c \in Call, Only(c),
           rows' = rows \/ \A o \in Call \ {c} : calls[o].kind # "fetch",
           Waits(c, "fetch", "done")' => calls'[c].list = rows'
    PROVE  Fresh'
<1> SUFFICES ASSUME NEW o \in Call, Waits(o, "fetch", "done")'
             PROVE  calls'[o].list = rows'
    BY DEF Fresh
<1>1. CASE o = c
    BY <1>1
<1>2. CASE o # c
    <2>1. calls'[o] = calls[o]
        BY <1>2 DEF Only
    <2>2. Waits(o, "fetch", "done") /\ rows' = rows
        BY <1>2, <2>1 DEF Waits
    <2> QED BY <2>1, <2>2 DEF Fresh
<1> QED BY <1>1, <1>2

LEMMA ReadKept ==
    ASSUME ReadHolds, NEW c \in Call, Only(c),
           \A o \in Call \ {c} : Waits(o, "level", "read") /\ calls[o].id \in DOMAIN rows' =>
               calls[o].id \in DOMAIN rows /\ rows'[calls[o].id] = rows[calls[o].id],
           Waits(c, "level", "read")' /\ calls'[c].id \in DOMAIN rows' =>
               calls'[c].list[calls'[c].id] = rows'[calls'[c].id]
    PROVE  ReadHolds'
<1> SUFFICES ASSUME NEW o \in Call, Waits(o, "level", "read")', calls'[o].id \in DOMAIN rows'
             PROVE  calls'[o].list[calls'[o].id] = rows'[calls'[o].id]
    BY DEF ReadHolds
<1>1. CASE o = c
    BY <1>1
<1>2. CASE o # c
    <2>1. calls'[o] = calls[o]
        BY <1>2 DEF Only
    <2>2. Waits(o, "level", "read") /\ calls[o].id \in DOMAIN rows'
        BY <2>1 DEF Waits
    <2>3. calls[o].id \in DOMAIN rows /\ rows'[calls[o].id] = rows[calls[o].id]
        BY <1>2, <2>2
    <2> QED BY <2>1, <2>2, <2>3 DEF ReadHolds
<1> QED BY <1>1, <1>2

(* A step of the service, for one request.                                 *)
Serves(c) ==
    \/ ListDepartments(c) \/ DeleteDepartment(c) \/ UpdateDepartment(c)
    \/ SaveDepartment(c) \/ ReorderDepartments(c)
    \/ \E parent \in Department \cup {None} : CreateDepartment(c, parent)
    \/ \E replace \in BOOLEAN, children \in 0 .. 1 :
          BatchCreateDepartments(c, replace, children)
    \/ RefuseCreate(c)

LEMMA ServesIs ==
    ASSUME Shapes, NEW c \in Call, Serves(c), ~strayed'
    PROVE  /\ ~strayed /\ Busy(c) /\ Serve
           /\ \E phase, list : Phased(c, phase, list)
           /\ calls[c].phase \in {"sent", "read"}
<1>1. CASE ListDepartments(c)
    <2>1. \E list : Answered(c, list)
        BY <1>1, ListEffect
    <2> QED BY <1>1, <2>1 DEF Answered, ListDepartments, Waits, Busy
<1>2. CASE DeleteDepartment(c)
    <2>1. Refused(c) \/ Answered(c, calls[c].list)
        BY <1>2, DeleteEffect
    <2> QED BY <1>2, <2>1 DEF Answered, Refused, DeleteDepartment, Waits, Busy
<1>3. CASE UpdateDepartment(c)
    <2>1. Refused(c) \/ \E list : Phased(c, "read", list) /\ strayed' = strayed
        BY <1>3, UpdateEffect
    <2> QED BY <1>3, <2>1 DEF Refused, UpdateDepartment, Waits, Busy
<1>4. CASE SaveDepartment(c)
    <2>1. Refused(c) \/ Answered(c, calls[c].list)
        BY <1>4, SaveEffect
    <2> QED BY <1>4, <2>1 DEF Answered, Refused, SaveDepartment, Waits, Busy
<1>5. CASE ReorderDepartments(c)
    <2>1. Refused(c) \/ Answered(c, calls[c].list)
        BY <1>5, ReorderEffect
    <2> QED BY <1>5, <2>1 DEF Answered, Refused, ReorderDepartments, Waits, Busy
<1>6. ASSUME NEW p \in Department \cup {None}, CreateDepartment(c, p)
      PROVE  /\ Answered(c, calls[c].list) /\ Serve /\ Busy(c)
             /\ calls[c].phase = "sent"
    <2>1. Answered(c, calls[c].list)
        BY <1>6, CreateEffect
    <2> QED BY <1>6, <2>1 DEF CreateDepartment, Waits, Busy
<1>7. ASSUME NEW replace \in BOOLEAN, NEW children \in 0 .. 1,
             BatchCreateDepartments(c, replace, children)
      PROVE  /\ Answered(c, calls[c].list) /\ Serve /\ Busy(c)
             /\ calls[c].phase = "sent"
    <2>1. Answered(c, calls[c].list)
        BY <1>7, BatchEffect
    <2> QED BY <1>7, <2>1 DEF BatchCreateDepartments, Waits, Busy
<1>8. CASE RefuseCreate(c)
    <2>1. Refused(c)
        BY <1>8, RefusedIs DEF RefuseCreate
    <2> QED BY <1>8, <2>1 DEF Refused, RefuseCreate, Waits, Busy
<1>9. CASE \E parent \in Department \cup {None} : CreateDepartment(c, parent)
    BY <1>6, <1>9 DEF Answered
<1>10. CASE \E replace \in BOOLEAN, children \in 0 .. 1 :
                BatchCreateDepartments(c, replace, children)
    BY <1>7, <1>10 DEF Answered
<1> QED BY <1>1, <1>2, <1>3, <1>4, <1>5, <1>8, <1>9, <1>10 DEF Serves

(* New departments leave the rows that were there as they were, or take    *)
(* them all away.                                                          *)
LEMMA CreatesIs ==
    ASSUME Shapes, NEW c \in Call,
           \/ \E parent \in Department \cup {None} : CreateDepartment(c, parent)
           \/ \E replace \in BOOLEAN, children \in 0 .. 1 :
                 BatchCreateDepartments(c, replace, children)
    PROVE  /\ \A d \in DOMAIN rows' : d <= lastId => d \in DOMAIN rows /\ rows'[d] = rows[d]
           /\ rows' \in List /\ Answered(c, calls[c].list) /\ calls[c].kind = "create"
           /\ lastId' \in Nat /\ lastId <= lastId'
<1>1. /\ DOMAIN rows \subseteq 1 .. lastId /\ lastId \in Nat
      /\ lastId + 1 > lastId /\ lastId + 2 > lastId /\ lastId + 2 # lastId + 1
    BY ShapesFacts DEF Shapes, Given
<1>2. ASSUME NEW p \in Department \cup {None}, CreateDepartment(c, p)
      PROVE  /\ \A d \in DOMAIN rows' : d <= lastId => d \in DOMAIN rows /\ rows'[d] = rows[d]
             /\ rows' \in List /\ Answered(c, calls[c].list) /\ calls[c].kind = "create"
             /\ lastId' = lastId + 1
    <2>1. PICK new \in List : /\ rows' = new /\ lastId' = lastId + 1
                              /\ Added(new, rows, lastId + 1, p)
                              /\ Answered(c, calls[c].list)
        BY <1>2, CreateEffect
    <2>2. ASSUME NEW d \in DOMAIN new, d <= lastId
          PROVE  d \in DOMAIN rows /\ new[d] = rows[d]
        BY <1>1, <2>1, <2>2 DEF Added, SameRows
    <2> QED BY <1>2, <2>1, <2>2 DEF CreateDepartment, Waits
<1>3. ASSUME NEW replace \in BOOLEAN, NEW children \in 0 .. 1,
             BatchCreateDepartments(c, replace, children)
      PROVE  /\ \A d \in DOMAIN rows' : d <= lastId => d \in DOMAIN rows /\ rows'[d] = rows[d]
             /\ rows' \in List /\ Answered(c, calls[c].list) /\ calls[c].kind = "create"
             /\ lastId' \in {lastId + 1, lastId + 2}
    <2>1. PICK kept \in {<<>>, rows}, one \in List, new \in List :
              /\ rows' = new /\ Added(one, kept, lastId + 1, None)
              /\ \/ new = one /\ lastId' = lastId + 1
                 \/ /\ lastId' = lastId + 2
                    /\ \E p \in DOMAIN kept \cup {lastId + 1} : Added(new, one, lastId + 2, p)
              /\ Answered(c, calls[c].list)
        BY <1>3, BatchEffect
    <2>2. ASSUME NEW d \in DOMAIN new, d <= lastId
          PROVE  d \in DOMAIN rows /\ new[d] = rows[d]
        <3>1. d \in DOMAIN one /\ new[d] = one[d]
            BY <1>1, <2>1, <2>2 DEF Added, SameRows
        <3>2. d \in DOMAIN kept /\ one[d] = kept[d]
            BY <1>1, <2>1, <2>2, <3>1 DEF Added, SameRows
        <3>3. kept = rows
            BY <2>1, <3>2, EmptyList
        <3> QED BY <3>1, <3>2, <3>3
    <2> QED BY <1>3, <2>1, <2>2 DEF BatchCreateDepartments, Waits
<1> QED BY <1>1, <1>2, <1>3

LEMMA IdsGiven ==
    ASSUME Shapes, NEW c \in Call
    PROVE  /\ calls[c].kind = "level" => calls[c].id \in 1 .. lastId /\ calls[c].id <= lastId
           /\ calls[c].kind = "delete" => calls[c].id \in 1 .. lastId /\ calls[c].id <= lastId
           /\ DOMAIN rows \subseteq 1 .. lastId /\ DOMAIN shown \subseteq 1 .. lastId
           /\ DOMAIN calls[c].list \subseteq 1 .. lastId
BY ShapesFacts DEF Shapes, Carries, Given

LEMMA ServePeace ==
    ASSUME Shapes, Peace, NEW c \in Call, Serves(c), ~strayed'
    PROVE  Peace'
<1>1. /\ Busy(c) /\ searching' = searching /\ Only(c) /\ calls[c].phase \in {"sent", "read"}
      /\ calls'[c].kind = calls[c].kind /\ calls'[c].id = calls[c].id
    <2>1. /\ Busy(c) /\ Serve /\ calls[c].phase \in {"sent", "read"}
          /\ \E phase, list : Phased(c, phase, list)
        BY ServesIs
    <2> QED BY <2>1 DEF Phased, Serve, page
<1>2. Apart'
    <2>1. PICK phase, list : Phased(c, phase, list)
        BY ServesIs
    <2> QED BY <1>1, <2>1, ApartPhased DEF Peace
<1>a. \A o \in Call \ {c} : calls[c].kind # "fetch" => calls[o].kind # "fetch"
    BY <1>1, ApartFacts DEF Peace
<1>3. CASE ListDepartments(c)
    <2>1. Answered(c, rows) /\ rows' = rows
        BY <1>3, ListEffect
    <2>2. Phased(c, "done", rows)
        BY <2>1 DEF Answered
    <2>3. calls'[c].list = rows'
        BY <2>1, <2>2 DEF Phased
    <2>4. Fresh'
        BY <1>1, <2>1, <2>3, FreshKept DEF Peace
    <2>5. calls'[c].kind = "fetch"
        BY <1>1, <1>3 DEF ListDepartments, Waits
    <2>6. ReadHolds'
        BY <1>1, <2>1, <2>5, ReadKept DEF Peace, Waits
    <2> QED BY <1>2, <2>4, <2>6 DEF Peace
<1>4. ASSUME calls[c].kind # "fetch" PROVE Fresh'
    BY <1>1, <1>a, <1>4, FreshKept DEF Peace, Waits
<1>5. ASSUME calls[c].kind # "level",
             \A o \in Call \ {c} : Waits(o, "level", "read") /\ calls[o].id \in DOMAIN rows' =>
                 calls[o].id \in DOMAIN rows /\ rows'[calls[o].id] = rows[calls[o].id]
      PROVE  ReadHolds'
    BY <1>1, <1>5, ReadKept DEF Peace, Waits
<1>6. CASE DeleteDepartment(c)
    <2>1. calls[c].kind = "delete"
        BY <1>6 DEF DeleteDepartment, Waits
    <2>2. DOMAIN rows' \subseteq DOMAIN rows /\ SameRows(rows', rows, DOMAIN rows')
        BY <1>6, DeleteEffect DEF Refused, SameRows
    <2>3. Fresh' /\ ReadHolds'
        BY <1>4, <1>5, <2>1, <2>2 DEF SameRows
    <2> QED BY <1>2, <2>3 DEF Peace
<1>7. CASE UpdateDepartment(c)
    <2>1. calls[c].kind = "level"
        BY <1>7 DEF UpdateDepartment, Waits
    <2>2. CASE Refused(c)
        <3>1. rows' = rows /\ calls'[c].phase = "failed"
            BY <2>2 DEF Refused, Phased
        <3>2. ReadHolds'
            BY <1>1, <3>1, ReadKept DEF Peace, Waits
        <3> QED BY <1>2, <1>4, <2>1, <3>2 DEF Peace
    <2>3. CASE \E list \in List :
                  /\ Phased(c, "read", list) /\ DOMAIN list = {calls[c].id}
                  /\ calls[c].id \in DOMAIN rows /\ list[calls[c].id] = rows[calls[c].id]
                  /\ rows' = rows
        <3>1. PICK list \in List :
                  /\ Phased(c, "read", list)
                  /\ list[calls[c].id] = rows[calls[c].id] /\ rows' = rows
            BY <2>3
        <3>2. calls'[c].list[calls'[c].id] = rows'[calls'[c].id]
            BY <3>1 DEF Phased
        <3>3. ReadHolds'
            BY <1>1, <3>1, <3>2, ReadKept DEF Peace, Waits
        <3> QED BY <1>2, <1>4, <2>1, <3>3 DEF Peace
    <2> QED BY <1>7, <2>2, <2>3, UpdateEffect
<1>8. CASE SaveDepartment(c)
    <2>1. calls[c].kind = "level"
        BY <1>8 DEF SaveDepartment, Waits
    <2>2. calls'[c].phase # "read"
        BY <1>8, SaveEffect DEF Refused, Answered, Phased
    <2>3. ASSUME NEW o \in Call \ {c}, Waits(o, "level", "read"), calls[o].id \in DOMAIN rows'
          PROVE  calls[o].id \in DOMAIN rows /\ rows'[calls[o].id] = rows[calls[o].id]
        <3>1. calls[o].id # calls[c].id
            BY <2>1, <2>3, ApartFacts DEF Peace, Waits
        <3>2. CASE Refused(c)
            BY <2>3, <3>2 DEF Refused
        <3>3. CASE \E new \in List :
                      /\ rows' = new /\ DOMAIN new = DOMAIN rows \cup {calls[c].id}
                      /\ SameRows(new, rows, DOMAIN rows \ {calls[c].id})
            BY <2>3, <3>1, <3>3 DEF SameRows
        <3> QED BY <1>8, <3>2, <3>3, SaveEffect
    <2>4. ReadHolds'
        BY <1>1, <2>2, <2>3, ReadKept DEF Peace, Waits
    <2> QED BY <1>2, <1>4, <2>1, <2>4 DEF Peace
<1>9. CASE ReorderDepartments(c)
    <2>1. calls[c].kind = "reorder"
        BY <1>9 DEF ReorderDepartments, Waits
    <2>2. \A o \in Call \ {c} : calls[o].kind # "level"
        BY <2>1, ApartFacts DEF Peace
    <2>3. ReadHolds'
        BY <1>5, <2>1, <2>2 DEF Waits
    <2> QED BY <1>2, <1>4, <2>1, <2>3 DEF Peace
<1>10. CASE \/ \E parent \in Department \cup {None} : CreateDepartment(c, parent)
            \/ \E replace \in BOOLEAN, children \in 0 .. 1 :
                  BatchCreateDepartments(c, replace, children)
    <2>1. /\ \A d \in DOMAIN rows' : d <= lastId => d \in DOMAIN rows /\ rows'[d] = rows[d]
          /\ calls[c].kind = "create"
        BY <1>10, CreatesIs
    <2>2. \A o \in Call : calls[o].kind = "level" => calls[o].id <= lastId
        BY IdsGiven
    <2>3. ReadHolds'
        BY <1>5, <2>1, <2>2 DEF Waits
    <2> QED BY <1>2, <1>4, <2>1, <2>3 DEF Peace
<1>11. CASE RefuseCreate(c)
    <2>1. rows' = rows /\ calls[c].kind = "create"
        BY <1>11 DEF RefuseCreate, Refuse, Waits
    <2>2. ReadHolds'
        BY <1>5, <2>1
    <2> QED BY <1>2, <1>4, <2>1, <2>2 DEF Peace
<1> QED BY <1>3, <1>6, <1>7, <1>8, <1>9, <1>10, <1>11 DEF Serves

(* A request that is new, or over, or asks for the list again.             *)
LEMMA SamePeace ==
    ASSUME Peace, NEW c \in Call, Only(c), rows' = rows, Apart',
           calls'[c].phase = "sent"
    PROVE  Peace'
<1>1. Fresh'
    BY FreshKept DEF Peace, Waits
<1>2. ReadHolds'
    BY ReadKept DEF Peace, Waits
<1> QED BY <1>1, <1>2 DEF Peace

LEMMA BeginPeace ==
    ASSUME Shapes, Peace, NEW c \in Call, NEW r \in Request, Begin(c, r),
           r.phase = "sent", searching' = searching, rows' = rows, ~strayed'
    PROVE  Peace'
<1>1. Apart'
    BY BeginApart DEF Peace
<1>2. Only(c) /\ calls'[c].phase = "sent"
    <2>1. searching' \in BOOLEAN
        BY DEF Shapes
    <2> QED BY <2>1, ShapesFacts, BeginIs
<1> QED BY <1>1, <1>2, SamePeace

LEMMA EndPeace ==
    ASSUME Shapes, Peace, NEW c \in Call, End(c), NEW kind, NEW phase,
           Settled(c, kind, phase)
    PROVE  Peace'
<1>1. Only(c) /\ calls'[c] = NoCall
    BY ShapesFacts, EndIs
<1>2. searching' = searching /\ rows' = rows
    BY DEF Settled, table
<1>3. Apart'
    BY <1>1, <1>2, ApartEnd DEF Peace
<1> QED BY <1>1, <1>2, <1>3, NoCallFields, SamePeace

LEMMA SearchPeace ==
    ASSUME Shapes, Peace, NEW c \in Call, Search(c), ~strayed'
    PROVE  Peace'
<1>1. /\ calls'[c].kind = "fetch" /\ calls'[c].phase = "sent"
      /\ Apart' /\ Only(c) /\ rows' = rows
    BY SearchAlone DEF Peace, Search, table
<1> QED BY <1>1, SamePeace

SubmitRequest == [NoCall EXCEPT !.kind = "create"]
LEMMA SubmitRequestIs ==
    /\ SubmitRequest \in Request /\ SubmitRequest.kind = "create"
    /\ SubmitRequest.phase = "sent" /\ SubmitRequest.list = <<>>
<1>1. NoCall \in Request /\ NoCall.phase = "sent" /\ NoCall.list = <<>>
    BY NoCallFields
<1> QED BY <1>1 DEF SubmitRequest, Request, Kind

(* The steps of the administrator and of the page, for one request.        *)
Administers(c) ==
    \/ Search(c) \/ Submit(c)
    \/ \E d \in Department :
          \/ HandleDelete(c, d)
          \/ \E level \in Level : HandleVisibilityChange(c, d, level)
          \/ \E over \in Department : HandleDragEnd(c, d, over)
Answers(c) == ShowFetched(c) \/ DeleteDone(c) \/ RevertDelete(c) \/ ChangeAnswered(c)

LEMMA Steps ==
    ASSUME [Next]_vars
    PROVE  \/ \E c \in Call : Administers(c) \/ Serves(c) \/ Answers(c)
           \/ \E d \in Department : Staff(d)
           \/ UNCHANGED vars
BY DEF Next, Administer, Service, Page, Administers, Serves, Answers

LEMMA NotStrayedBefore ==
    ASSUME Shapes, [Next]_vars, ~strayed'
    PROVE  ~strayed
<1>1. ASSUME NEW c \in Call, Administers(c) PROVE ~strayed
    BY <1>1 DEF Administers, Search, Submit, HandleDelete, HandleVisibilityChange,
       HandleDragEnd, Begin
<1>2. ASSUME NEW c \in Call, Serves(c) PROVE ~strayed
    BY <1>2, ServesIs
<1>3. ASSUME NEW c \in Call, Answers(c) PROVE ~strayed
    BY <1>3 DEF Answers, ShowFetched, DeleteDone, RevertDelete, ChangeAnswered
<1>4. ASSUME NEW d \in Department, Staff(d) PROVE ~strayed
    BY <1>4 DEF Staff
<1> QED BY <1>1, <1>2, <1>3, <1>4, Steps DEF vars

LEMMA PeaceStep ==
    ASSUME Shapes, Peace, [Next]_vars, ~strayed'
    PROVE  Peace'
<1>1. ASSUME NEW c \in Call, Administers(c) PROVE Peace'
    <2>1. CASE Search(c)
        BY <2>1, SearchPeace
    <2>2. CASE Submit(c)
        <3>1. /\ Begin(c, SubmitRequest) /\ rows' = rows /\ searching' = searching
            BY <2>2 DEF Submit, SubmitRequest, table, page
        <3> QED BY <3>1, SubmitRequestIs, BeginPeace
    <2>3. ASSUME NEW d \in Department, HandleDelete(c, d) PROVE Peace'
        <3>1. rows' = rows /\ searching' = searching
            BY <2>3 DEF HandleDelete, table
        <3> QED BY <2>3, <3>1, DeleteRequest, BeginPeace
    <2>4. ASSUME NEW d \in Department, NEW l \in Level, HandleVisibilityChange(c, d, l)
          PROVE  Peace'
        <3>1. rows' = rows /\ searching' = searching
            BY <2>4 DEF HandleVisibilityChange, table
        <3> QED BY <2>4, <3>1, LevelRequest, BeginPeace
    <2>5. ASSUME NEW d \in Department, NEW over \in Department, HandleDragEnd(c, d, over)
          PROVE  Peace'
        <3>1. rows' = rows /\ searching' = searching
            BY <2>5 DEF HandleDragEnd, table
        <3> QED BY <2>5, <3>1, DragRequest, BeginPeace
    <2> QED BY <1>1, <2>1, <2>2, <2>3, <2>4, <2>5 DEF Administers
<1>2. ASSUME NEW c \in Call, Serves(c) PROVE Peace'
    BY <1>2, ServePeace
<1>3. ASSUME NEW c \in Call, Answers(c) PROVE Peace'
    <2>1. CASE ChangeAnswered(c) /\ Refetches(calls[c])
        <3>1. Apart' /\ Only(c) /\ calls'[c].phase = "sent"
            BY <2>1, RefetchApart, RefetchIs DEF Peace
        <3>2. rows' = rows
            BY <2>1 DEF ChangeAnswered, Settled, table
        <3> QED BY <3>1, <3>2, SamePeace
    <2>2. CASE ~(ChangeAnswered(c) /\ Refetches(calls[c]))
        <3>1. End(c) /\ \E kind, phase : Settled(c, kind, phase)
            BY <1>3, <2>2 DEF Answers, ShowFetched, DeleteDone, RevertDelete, ChangeAnswered
        <3> QED BY <3>1, EndPeace
    <2> QED BY <2>1, <2>2
<1>4. CASE (\E d \in Department : Staff(d)) \/ UNCHANGED vars
    <2>1. calls' = calls /\ rows' = rows /\ searching' = searching
        BY <1>4 DEF Staff, vars, table, page
    <2> QED BY <2>1 DEF Peace, Apart, Fresh, ReadHolds, Busy, Waits
<1> QED BY <1>1, <1>2, <1>3, <1>4, Steps

-----------------------------------------------------------------------------
(* The third part, for a page that has not strayed, neither waits for a    *)
(* list nor has to ask for one again: what the page shows, and what it may *)
(* put back, is what the table will hold once the requests under way are   *)
(* done.                                                                   *)

Fetching == \E c \in Call : calls[c].kind = "fetch"
Failing ==
    \E c \in Call : calls[c].kind \in {"level", "reorder"} /\ calls[c].phase = "failed"
Created == \E c \in Call : calls[c].kind = "create" /\ calls[c].phase = "done"
Rough == Fetching \/ Failing

Moves(c) == calls[c].kind = "reorder" /\ calls[c].phase = "sent"
Levels(c) == calls[c].kind = "level" /\ calls[c].phase \in {"sent", "read"}
Deletes(c) == calls[c].kind = "delete"

(* The department p is on the page, or its deletion is under way.          *)
Seen(p) == p \in DOMAIN shown \/ \E c \in Call : Deletes(c) /\ calls[c].id = p
ParentSeen(p) == p \in DOMAIN rows => Seen(p)

(* The parent of d in a list is the one the table has, or will have when   *)
(* the move under way is made.                                             *)
Placed(list, d) ==
    /\ \A c \in Call : Moves(c) /\ d \in DOMAIN calls[c].list =>
          list[d].parent = calls[c].list[d].parent
    /\ (\A c \in Call : Moves(c) => d \notin DOMAIN calls[c].list) =>
          list[d].parent = rows[d].parent

ShownKnown ==
    /\ \A d \in DOMAIN shown : d \in DOMAIN rows =>
          /\ Placed(shown, d)
          /\ shown[d].level = rows[d].level \/ \E c \in Call : Levels(c) /\ calls[c].id = d
    /\ \A d \in DOMAIN shown : ParentSeen(shown[d].parent)

LevelsKnown ==
    \A c \in Call : calls[c].kind = "level" =>
        /\ calls[c].id \in DOMAIN shown
        /\ Levels(c) => shown[calls[c].id].level = calls[c].level
        /\ calls[c].phase = "read" =>
              calls[c].list[calls[c].id].parent = shown[calls[c].id].parent

DeleteKnown(c) ==
    /\ calls[c].id \notin DOMAIN shown
    /\ calls[c].phase = "done" => calls[c].id \notin DOMAIN rows
    /\ calls[c].id \in DOMAIN rows =>
          /\ Placed(calls[c].list, calls[c].id)
          /\ calls[c].list[calls[c].id].level = rows[calls[c].id].level
    /\ ParentSeen(calls[c].list[calls[c].id].parent)
DeletesKnown ==
    /\ \A c, o \in Call : Deletes(c) /\ Deletes(o) /\ calls[c].id = calls[o].id => c = o
    /\ \A c \in Call : Deletes(c) => DeleteKnown(c)

Known == ShownKnown /\ LevelsKnown /\ DeletesKnown

(* The page has all that was not created since, and nothing that is gone.  *)
Complete ==
    /\ \A d \in DOMAIN rows : Seen(d)
    /\ DOMAIN shown \subseteq DOMAIN rows
    /\ \A c \in Call : Deletes(c) /\ calls[c].phase # "done" => calls[c].id \in DOMAIN rows

PageKnown == Rough \/ (Known /\ (Created \/ Complete))

-----------------------------------------------------------------------------
(* How the parts are kept when one request changes and no move begins or   *)
(* ends.                                                                   *)

LEMMA PlacedKept ==
    ASSUME NEW c \in Call, Only(c), ~Moves(c), ~Moves(c)', NEW d, NEW list,
           Placed(list, d), rows'[d].parent = rows[d].parent
    PROVE  /\ \A o \in Call : Moves(o)' /\ d \in DOMAIN calls'[o].list =>
                  list[d].parent = calls'[o].list[d].parent
           /\ (\A o \in Call : Moves(o)' => d \notin DOMAIN calls'[o].list) =>
                  list[d].parent = rows'[d].parent
<1>1. \A o \in Call : Moves(o)' => o # c /\ calls'[o] = calls[o] /\ Moves(o)
    BY DEF Only, Moves
<1>2. \A o \in Call : Moves(o) => o # c /\ calls'[o] = calls[o] /\ Moves(o)'
    BY DEF Only, Moves
<1> QED BY <1>1, <1>2 DEF Placed

LEMMA SeenKept ==
    ASSUME NEW c \in Call, Only(c), shown' = shown, NEW p, Seen(p),
           Deletes(c) => calls[c].id # p \/ (Deletes(c)' /\ calls'[c].id = calls[c].id)
    PROVE  Seen(p)'
<1>1. CASE p \in DOMAIN shown
    BY <1>1 DEF Seen
<1>2. CASE \E o \in Call : Deletes(o) /\ calls[o].id = p
    <2>1. PICK o \in Call : Deletes(o) /\ calls[o].id = p
        BY <1>2
    <2>2. Deletes(o)' /\ calls'[o].id = p
        BY <2>1 DEF Only, Deletes
    <2> QED BY <2>2 DEF Seen
<1> QED BY <1>1, <1>2 DEF Seen

LEMMA ShownKept ==
    ASSUME Shapes, ShownKnown, NEW c \in Call, Only(c), shown' = shown, searching' = searching,
           ~Moves(c), ~Moves(c)',
           Levels(c) => Levels(c)' /\ calls'[c].id = calls[c].id,
           \A d \in DOMAIN shown : d \in DOMAIN rows' =>
               d \in DOMAIN rows /\ rows'[d] = rows[d],
           \A p \in 0 .. lastId : p \in DOMAIN rows' /\ ParentSeen(p) => Seen(p)'
    PROVE  ShownKnown'
<1>1. ASSUME NEW d \in DOMAIN shown, d \in DOMAIN rows'
      PROVE  Placed(shown, d)'
    <2>1. Placed(shown, d) /\ rows'[d].parent = rows[d].parent
        BY <1>1 DEF ShownKnown
    <2>2. PICK list : list = shown
        OBVIOUS
    <2>3. Placed(list, d)
        BY <2>1, <2>2
    <2>4. /\ \A o \in Call : Moves(o)' /\ d \in DOMAIN calls'[o].list =>
                 list[d].parent = calls'[o].list[d].parent
          /\ (\A o \in Call : Moves(o)' => d \notin DOMAIN calls'[o].list) =>
                 list[d].parent = rows'[d].parent
        BY <2>1, <2>3, PlacedKept
    <2>5. shown' = list
        BY <2>2
    <2> QED BY <2>4, <2>5 DEF Placed
<1>2. ASSUME NEW d \in DOMAIN shown, d \in DOMAIN rows'
      PROVE  shown'[d].level = rows'[d].level \/ \E o \in Call : Levels(o)' /\ calls'[o].id = d
    <2>1. shown[d].level = rows[d].level \/ \E o \in Call : Levels(o) /\ calls[o].id = d
        BY <1>2 DEF ShownKnown
    <2>2. rows'[d] = rows[d]
        BY <1>2
    <2>3. ASSUME NEW o \in Call, Levels(o), calls[o].id = d
          PROVE  Levels(o)' /\ calls'[o].id = d
        BY <2>3 DEF Only, Levels
    <2> QED BY <2>1, <2>2, <2>3
<1>4. ASSUME NEW d \in DOMAIN shown'
      PROVE  ParentSeen(shown[d].parent)'
    <2>1. PICK p \in 0 .. lastId : p = shown[d].parent
        BY <1>4 DEF Shapes, Given
    <2>2. ParentSeen(p)
        BY <1>4, <2>1 DEF ShownKnown
    <2>3. p \in DOMAIN rows' => Seen(p)'
        BY <2>2
    <2>4. p = shown'[d].parent
        BY <2>1
    <2> QED BY <2>3, <2>4 DEF ParentSeen, Seen
<1> QED BY <1>1, <1>2, <1>4 DEF ShownKnown

LEMMA LevelsKept ==
    ASSUME LevelsKnown, NEW c \in Call, Only(c), shown' = shown,
           calls'[c].kind = "level" =>
               /\ calls[c].kind = "level" /\ calls'[c].id = calls[c].id
               /\ calls'[c].level = calls[c].level
               /\ Levels(c)' => Levels(c)
               /\ calls'[c].phase = "read" =>
                     calls'[c].list[calls[c].id].parent = shown[calls[c].id].parent
    PROVE  LevelsKnown'
<1> SUFFICES ASSUME NEW o \in Call, calls'[o].kind = "level"
             PROVE  /\ calls'[o].id \in DOMAIN shown'
                    /\ Levels(o)' => shown'[calls'[o].id].level = calls'[o].level
                    /\ calls'[o].phase = "read" =>
                          calls'[o].list[calls'[o].id].parent = shown'[calls'[o].id].parent
    BY DEF LevelsKnown
<1>1. CASE o = c
    BY <1>1 DEF LevelsKnown
<1>2. CASE o # c
    BY <1>2 DEF LevelsKnown, Only, Levels
<1> QED BY <1>1, <1>2

LEMMA DeleteKept ==
    ASSUME Shapes, NEW o \in Call, Deletes(o), DeleteKnown(o),
           NEW c \in Call, Only(c), ~Moves(c), ~Moves(c)',
           calls'[o].id = calls[o].id, calls'[o].list = calls[o].list,
           calls[o].id \notin DOMAIN shown', searching' = searching,
           calls'[o].phase = "done" => calls[o].id \notin DOMAIN rows',
           calls[o].id \in DOMAIN rows' =>
               calls[o].id \in DOMAIN rows /\ rows'[calls[o].id] = rows[calls[o].id],
           \A p \in 0 .. lastId : p \in DOMAIN rows' /\ ParentSeen(p) => Seen(p)'
    PROVE  DeleteKnown(o)'
<1>1. PICK d, list, p : d = calls[o].id /\ list = calls[o].list /\ p = list[d].parent
    OBVIOUS
<1>a. p \in 0 .. lastId
    BY <1>1 DEF Shapes, Carries, Deletes, Given
<1>2. calls'[o].id = d /\ calls'[o].list = list
    BY <1>1
<1>3. /\ d \notin DOMAIN shown
      /\ d \in DOMAIN rows => Placed(list, d) /\ list[d].level = rows[d].level
      /\ ParentSeen(p)
    BY <1>1 DEF DeleteKnown
<1>4. ASSUME d \in DOMAIN rows'
      PROVE  /\ \A x \in Call : Moves(x)' /\ d \in DOMAIN calls'[x].list =>
                    list[d].parent = calls'[x].list[d].parent
             /\ (\A x \in Call : Moves(x)' => d \notin DOMAIN calls'[x].list) =>
                    list[d].parent = rows'[d].parent
             /\ list[d].level = rows'[d].level
    <2>1. d \in DOMAIN rows /\ rows'[d] = rows[d]
        BY <1>1, <1>4
    <2>2. Placed(list, d) /\ list[d].level = rows[d].level /\ rows'[d].parent = rows[d].parent
        BY <1>3, <2>1
    <2>3. /\ \A x \in Call : Moves(x)' /\ d \in DOMAIN calls'[x].list =>
                    list[d].parent = calls'[x].list[d].parent
          /\ (\A x \in Call : Moves(x)' => d \notin DOMAIN calls'[x].list) =>
                    list[d].parent = rows'[d].parent
        BY <2>2, PlacedKept
    <2> QED BY <2>1, <2>2, <2>3
<1>5. d \in DOMAIN rows' => Placed(calls[o].list, calls[o].id)'
    <2>1. (Placed(calls[o].list, calls[o].id)') = 
              (/\ \A x \in Call : Moves(x)' /\ d \in DOMAIN calls'[x].list =>
                      list[d].parent = calls'[x].list[d].parent
               /\ (\A x \in Call : Moves(x)' => d \notin DOMAIN calls'[x].list) =>
                      list[d].parent = rows'[d].parent)
        BY <1>2 DEF Placed
    <2> QED BY <1>4, <2>1
<1>6. d \in DOMAIN rows' => calls'[o].list[calls'[o].id].level = rows'[calls'[o].id].level
    BY <1>2, <1>4
<1>7. (p \in DOMAIN rows' => Seen(p)')
    BY <1>a, <1>3
<1>8. calls'[o].list[calls'[o].id].parent = p
    BY <1>1, <1>2
<1>9. ParentSeen(calls[o].list[calls[o].id].parent)'
    BY <1>7, <1>8 DEF ParentSeen, Seen
<1>10. /\ calls'[o].id \notin DOMAIN shown'
       /\ calls'[o].phase = "done" => calls'[o].id \notin DOMAIN rows'
    BY <1>1, <1>2, <1>3
<1> QED BY <1>2, <1>5, <1>6, <1>9, <1>10 DEF DeleteKnown

LEMMA DeletesKept ==
    ASSUME Shapes, DeletesKnown, NEW c \in Call, Only(c), ~Moves(c), ~Moves(c)',
           DOMAIN shown' = DOMAIN shown, searching' = searching,
           Deletes(c)' => /\ Deletes(c)
                          /\ calls'[c].id = calls[c].id /\ calls'[c].list = calls[c].list
                          /\ calls'[c].phase = "done" => calls[c].id \notin DOMAIN rows',
           \A o \in Call : Deletes(o) /\ calls[o].id \in DOMAIN rows' =>
               calls[o].id \in DOMAIN rows /\ rows'[calls[o].id] = rows[calls[o].id],
           \A p \in 0 .. lastId : p \in DOMAIN rows' /\ ParentSeen(p) => Seen(p)'
    PROVE  DeletesKnown'
<1>1. ASSUME NEW o \in Call, Deletes(o)'
      PROVE  /\ Deletes(o) /\ calls'[o].id = calls[o].id /\ calls'[o].list = calls[o].list
             /\ calls'[o].phase = "done" => calls[o].id \notin DOMAIN rows'
    <2>1. CASE o = c
        BY <1>1, <2>1
    <2>2. CASE o # c
        <3>1. calls'[o] = calls[o] /\ Deletes(o)
            BY <1>1, <2>2 DEF Only, Deletes
        <3>2. DeleteKnown(o)
            BY <3>1 DEF DeletesKnown
        <3>3. calls[o].phase = "done" => calls[o].id \notin DOMAIN rows'
            BY <3>1, <3>2 DEF DeleteKnown
        <3> QED BY <3>1, <3>3
    <2> QED BY <2>1, <2>2
<1>2. ASSUME NEW o \in Call, Deletes(o)' PROVE DeleteKnown(o)'
    <2>1. Deletes(o) /\ DeleteKnown(o)
        BY <1>1, <1>2 DEF DeletesKnown
    <2>2. calls[o].id \notin DOMAIN shown'
        BY <2>1 DEF DeleteKnown
    <2> QED BY <1>1, <1>2, <2>1, <2>2, DeleteKept
<1>3. ASSUME NEW a \in Call, NEW b \in Call, Deletes(a)', Deletes(b)', calls'[a].id = calls'[b].id
      PROVE  a = b
    BY <1>1, <1>3 DEF DeletesKnown
<1> QED BY <1>2, <1>3 DEF DeletesKnown

LEMMA CompleteKept ==
    ASSUME Complete, NEW c \in Call, Only(c), DOMAIN shown' = DOMAIN shown,
           searching' = searching,
           DOMAIN rows' = DOMAIN rows,
           Deletes(c)' => /\ Deletes(c) /\ calls'[c].id = calls[c].id
                          /\ calls'[c].phase # "done" => calls[c].phase # "done",
           \A p \in DOMAIN rows : Seen(p) => Seen(p)'
    PROVE  Complete'
<1>1. ASSUME NEW d \in DOMAIN rows' PROVE Seen(d)'
    BY <1>1 DEF Complete
<1>2. DOMAIN shown' \subseteq DOMAIN rows'
    BY DEF Complete
<1>3. ASSUME NEW o \in Call, Deletes(o)', calls'[o].phase # "done"
      PROVE  calls'[o].id \in DOMAIN rows'
    <2>1. CASE o = c
        BY <1>3, <2>1 DEF Complete
    <2>2. CASE o # c
        <3>1. calls'[o] = calls[o] /\ Deletes(o)
            BY <1>3, <2>2 DEF Only, Deletes
        <3> QED BY <1>3, <3>1 DEF Complete
    <2> QED BY <2>1, <2>2
<1> QED BY <1>1, <1>2, <1>3 DEF Complete

(* Each step changes one request.                                          *)
LEMMA OneChanges ==
    ASSUME Shapes, NEW c \in Call, ~strayed',
           Administers(c) \/ Serves(c) \/ Answers(c)
    PROVE  Only(c)
<1>1. CASE Serves(c)
    BY <1>1, ServesIs DEF Phased
<1>2. CASE Administers(c)
    <2>1. \A r : Begin(c, r) => Only(c)
        BY DEF Begin, Only
    <2> QED BY <1>2, <2>1 DEF Administers, Search, Submit, HandleDelete,
              HandleVisibilityChange, HandleDragEnd
<1>3. CASE Answers(c)
    <2>1. End(c) => Only(c)
        BY DEF End, Only
    <2>2. ChangeAnswered(c) /\ Refetches(calls[c]) => Only(c)
        BY RefetchIs
    <2> QED BY <1>3, <2>1, <2>2 DEF Answers, ShowFetched, DeleteDone, RevertDelete, ChangeAnswered
<1> QED BY <1>1, <1>2, <1>3

(* The administrator's request was not there before.                       *)
LEMMA AdministersIs ==
    ASSUME NEW c \in Call, Administers(c)
    PROVE  calls[c] = NoCall
BY DEF Administers, Search, Submit, HandleDelete, HandleVisibilityChange, HandleDragEnd, Begin

(* A page that waits for a list, or has to ask for it, goes on so until    *)
(* the last list is shown; and after a creation it asks.                   *)
LEMMA RoughStays ==
    ASSUME Shapes, Peace, NEW c \in Call, ~strayed',
           Administers(c) \/ Serves(c) \/ Answers(c), Rough \/ Created
    PROVE  \/ Rough' \/ (~Rough /\ Created')
           \/ ShowFetched(c) /\ \A o \in Call \ {c} : calls'[o] = NoCall
<1>1. Only(c)
    BY OneChanges
<1>2. ASSUME NEW o \in Call \ {c}, calls[o].kind = "fetch" PROVE Fetching'
    BY <1>1, <1>2 DEF Only, Fetching
<1>3. ASSUME NEW o \in Call \ {c},
             calls[o].kind \in {"level", "reorder"}, calls[o].phase = "failed"
      PROVE  Failing'
    BY <1>1, <1>3 DEF Only, Failing
<1>4. ASSUME NEW o \in Call \ {c}, calls[o].kind = "create", calls[o].phase = "done"
      PROVE  Created'
    BY <1>1, <1>4 DEF Only, Created
<1>5. CASE Serves(c)
    <2>1. /\ calls'[c].kind = calls[c].kind /\ calls[c].phase \in {"sent", "read"}
        BY <1>5, ServesIs DEF Phased
    <2>2. Fetching => Fetching'
        BY <1>2, <2>1 DEF Fetching
    <2>3. Failing => Failing'
        BY <1>3, <2>1 DEF Failing
    <2>4. Created => Created'
        BY <1>4, <2>1 DEF Created
    <2> QED BY <2>2, <2>3, <2>4 DEF Rough
<1>6. CASE Administers(c)
    <2>1. calls[c].kind = "none"
        BY <1>6, AdministersIs, NoCallFields
    <2>2. (Fetching => Fetching') /\ (Failing => Failing') /\ (Created => Created')
        BY <1>2, <1>3, <1>4, <2>1 DEF Fetching, Failing, Created
    <2> QED BY <2>2 DEF Rough
<1>7. CASE Answers(c)
    <2>1. CASE ChangeAnswered(c) /\ Refetches(calls[c])
        <3>1. calls'[c].kind = "fetch"
            BY <2>1, RefetchIs
        <3> QED BY <3>1 DEF Rough, Fetching
    <2>2. CASE ShowFetched(c)
        <3>1. calls[c].kind = "fetch"
            BY <2>2 DEF ShowFetched, Settled, Waits
        <3>2. CASE \E o \in Call \ {c} : calls[o].kind = "fetch"
            BY <1>2, <3>2 DEF Rough
        <3>3. CASE \A o \in Call \ {c} : calls[o].kind # "fetch"
            <4>1. ASSUME NEW o \in Call \ {c} PROVE calls'[o] = NoCall
                <5>1. Busy(o) => calls[c].kind # "fetch"
                    BY <3>3, <4>1, ApartFacts DEF Peace, Busy
                <5>2. calls[o].kind = "none" /\ calls'[o] = calls[o]
                    BY <1>1, <3>1, <5>1 DEF Busy, Only
                <5> QED BY <5>2 DEF Shapes, Carries
            <4> QED BY <2>2, <4>1
        <3> QED BY <3>2, <3>3
    <2>3. CASE ~ShowFetched(c) /\ ~(ChangeAnswered(c) /\ Refetches(calls[c]))
        <3>1. calls[c].kind # "fetch"
            BY <1>7, <2>3 DEF Answers, DeleteDone, RevertDelete, ChangeAnswered, Settled, Waits
        <3>2. ~(calls[c].kind \in {"level", "reorder"} /\ calls[c].phase = "failed")
            BY <1>7, <2>3 DEF Answers, DeleteDone, RevertDelete, ChangeAnswered, Settled, Waits,
               Refetches
        <3>3. ~(calls[c].kind = "create" /\ calls[c].phase = "done")
            BY <1>7, <2>3 DEF Answers, DeleteDone, RevertDelete, ChangeAnswered, Settled, Waits,
               Refetches
        <3>4. (Fetching => Fetching') /\ (Failing => Failing') /\ (Created => Created')
            BY <1>2, <1>3, <1>4, <3>1, <3>2, <3>3 DEF Fetching, Failing, Created
        <3> QED BY <3>4 DEF Rough
    <2> QED BY <2>1, <2>2, <2>3
<1> QED BY <1>5, <1>6, <1>7

(* The last list of a search is shown.                                     *)
LEMMA FetchedKnown ==
    ASSUME Shapes, Peace, NEW c \in Call, ShowFetched(c), ~strayed',
           \A o \in Call \ {c} : calls'[o] = NoCall
    PROVE  Known' /\ Complete'
<1>1. /\ Waits(c, "fetch", "done") /\ shown' = calls[c].list /\ End(c)
      /\ rows' = rows /\ searching' = searching
    BY DEF ShowFetched, Settled, Waits, table
<1>6. shown' = rows
    BY <1>1 DEF Peace, Fresh
<1>7. \A o \in Call : calls'[o].kind = "none"
    <2>1. calls'[c] = NoCall
        BY <1>1, ShapesFacts, EndIs
    <2> QED BY <2>1, NoCallFields
<1>8. \A p : p \in DOMAIN shown' => Seen(p)'
    BY DEF Seen
<1>9. ShownKnown'
    <2>2. ASSUME NEW d \in DOMAIN shown', d \in DOMAIN rows' PROVE Placed(shown, d)'
        BY <1>1, <1>6, <1>7, <2>2 DEF Placed, Moves
    <2>3. ASSUME NEW d \in DOMAIN shown', d \in DOMAIN rows' PROVE shown'[d].level = rows'[d].level
        BY <1>1, <1>6, <2>3
    <2>4. ASSUME NEW d \in DOMAIN shown' PROVE ParentSeen(shown[d].parent)'
        BY <1>1, <1>6, <2>4 DEF ParentSeen, Seen
    <2> QED BY <2>2, <2>3, <2>4 DEF ShownKnown
<1>10. LevelsKnown'
    BY <1>7 DEF LevelsKnown
<1>11. DeletesKnown'
    BY <1>7 DEF DeletesKnown, Deletes
<1>12. Complete'
    <2>1. ASSUME NEW d \in DOMAIN rows' PROVE Seen(d)'
        BY <1>1, <1>6, <2>1 DEF Seen
    <2> QED BY <1>1, <1>6, <1>7, <2>1 DEF Complete, Deletes
<1> QED BY <1>9, <1>10, <1>11, <1>12 DEF Known

-----------------------------------------------------------------------------
(* The steps of the service.                                               *)

KnownAfter == Rough' \/ (Known' /\ (Complete => Complete' \/ Created'))

LEMMA CallFacts ==
    ASSUME Shapes, NEW c \in Call, Serves(c), ~strayed'
    PROVE  /\ Only(c) /\ calls'[c].kind = calls[c].kind /\ calls'[c].id = calls[c].id
           /\ calls'[c].level = calls[c].level
           /\ shown' = shown /\ searching' = searching
           /\ \A p : Seen(p) => Seen(p)'
<1>1. PICK phase, list : Phased(c, phase, list)
    BY ServesIs
<1>2. shown' = shown /\ searching' = searching
    BY ServesIs DEF Serve, page
<1>3. /\ Only(c) /\ calls'[c].kind = calls[c].kind /\ calls'[c].id = calls[c].id
      /\ calls'[c].level = calls[c].level
    BY <1>1 DEF Phased
<1>4. ASSUME NEW p, Seen(p) PROVE Seen(p)'
    BY <1>2, <1>3, <1>4, SeenKept DEF Deletes
<1> QED BY <1>2, <1>3, <1>4

(* A request that leaves the rows of the page, and their levels, as they   *)
(* were: a deletion that is refused or made, a row that is read, a         *)
(* creation.                                                               *)
LEMMA QuietServe ==
    ASSUME Shapes, Known, NEW c \in Call, Serves(c), ~strayed',
           ~Moves(c), ~Moves(c)', Levels(c) => Levels(c)',
           calls'[c].kind = "level" /\ calls'[c].phase = "read" =>
               calls'[c].list[calls[c].id].parent = shown[calls[c].id].parent,
           calls[c].kind = "level" => Levels(c),
           Deletes(c) => /\ calls'[c].list = calls[c].list
                         /\ calls'[c].phase = "done" => calls[c].id \notin DOMAIN rows',
           \A d \in DOMAIN rows' : d <= lastId => d \in DOMAIN rows /\ rows'[d] = rows[d]
    PROVE  Known'
<1>1. /\ Only(c) /\ calls'[c].kind = calls[c].kind /\ calls'[c].id = calls[c].id
      /\ calls'[c].level = calls[c].level
      /\ shown' = shown /\ searching' = searching
      /\ \A p : Seen(p) => Seen(p)'
    BY CallFacts
<1>2. lastId \in Nat
    BY ShapesFacts
<1>4. \A d \in DOMAIN shown : d <= lastId
    BY <1>2 DEF Shapes, Given
<1>5. \A d \in DOMAIN shown : d \in DOMAIN rows' => d \in DOMAIN rows /\ rows'[d] = rows[d]
    BY <1>4
<1>6. \A p \in 0 .. lastId : p \in DOMAIN rows' /\ ParentSeen(p) => Seen(p)'
    BY <1>1, <1>2 DEF ParentSeen
<1>7. ShownKnown'
    BY <1>1, <1>5, <1>6, ShownKept DEF Known
<1>8. LevelsKnown'
    BY <1>1, LevelsKept DEF Known
<1>9. ASSUME NEW o \in Call, Deletes(o), calls[o].id \in DOMAIN rows' 
      PROVE  calls[o].id \in DOMAIN rows /\ rows'[calls[o].id] = rows[calls[o].id]
    <2>1. calls[o].id <= lastId
        BY <1>9, IdsGiven DEF Deletes
    <2> QED BY <1>9, <2>1
<1>10. DeletesKnown'
    BY <1>1, <1>6, <1>9, DeletesKept DEF Known, Deletes
<1> QED BY <1>7, <1>8, <1>10 DEF Known

(* The same for what the page has of the table.                            *)
LEMMA QuietComplete ==
    ASSUME Shapes, NEW c \in Call, Serves(c), ~strayed', Complete,
           DOMAIN rows' = DOMAIN rows,
           Deletes(c) => (calls'[c].phase # "done" => calls[c].phase # "done")
    PROVE  Complete'
<1>1. /\ Only(c) /\ calls'[c].kind = calls[c].kind /\ calls'[c].id = calls[c].id
      /\ shown' = shown /\ searching' = searching
      /\ \A p : Seen(p) => Seen(p)'
    BY CallFacts
<1> QED BY <1>1, CompleteKept DEF Deletes

LEMMA RowsGiven ==
    ASSUME Shapes
    PROVE  \A d \in DOMAIN rows : d \in 1 .. lastId /\ d <= lastId
BY ShapesFacts DEF Shapes, Given

LEMMA DeleteServed ==
    ASSUME Shapes, Known, NEW c \in Call, DeleteDepartment(c), ~strayed'
    PROVE  KnownAfter
<1>1. Serves(c) /\ calls[c].kind = "delete" /\ calls[c].phase = "sent"
    BY DEF DeleteDepartment, Waits, Serves
<1>2. CASE Refused(c)
    <2>1. calls'[c].list = calls[c].list /\ calls'[c].phase = "failed" /\ rows' = rows
          /\ calls'[c].kind = "delete"
        BY <1>1, <1>2 DEF Refused, Phased
    <2>2. Known'
        BY <1>1, <2>1, QuietServe DEF Moves, Levels
    <2>3. Complete => Complete'
        BY <1>1, <2>1, QuietComplete
    <2> QED BY <2>2, <2>3 DEF KnownAfter
<1>3. CASE \E left \in List :
              /\ rows' = left /\ lastId' = lastId
              /\ DOMAIN left = DOMAIN rows \ {calls[c].id}
              /\ SameRows(left, rows, DOMAIN left)
              /\ Answered(c, calls[c].list)
    <2>1. /\ DOMAIN rows' = DOMAIN rows \ {calls[c].id}
          /\ \A d \in DOMAIN rows' : d \in DOMAIN rows /\ rows'[d] = rows[d]
          /\ calls'[c].list = calls[c].list /\ calls'[c].phase = "done"
          /\ calls'[c].kind = "delete"
        BY <1>1, <1>3 DEF Answered, Phased, SameRows
    <2>2. Known'
        BY <1>1, <2>1, QuietServe DEF Moves, Levels
    <2>3. ASSUME Complete PROVE Complete'
        <3>1. /\ Only(c) /\ calls'[c].id = calls[c].id /\ shown' = shown
              /\ searching' = searching /\ \A p : Seen(p) => Seen(p)'
            BY <1>1, CallFacts
        <3>2. ASSUME NEW d \in DOMAIN rows' PROVE Seen(d)'
            BY <2>1, <2>3, <3>1, <3>2 DEF Complete
        <3>3. DeleteKnown(c)
            BY <1>1 DEF Known, DeletesKnown, Deletes
        <3>4. DOMAIN shown' \subseteq DOMAIN rows'
            BY <2>1, <2>3, <3>1, <3>3 DEF Complete, DeleteKnown
        <3>5. ASSUME NEW o \in Call, Deletes(o)', calls'[o].phase # "done"
              PROVE  calls'[o].id \in DOMAIN rows'
            <4>1. o # c /\ calls'[o] = calls[o] /\ Deletes(o)
                BY <2>1, <3>1, <3>5 DEF Only, Deletes
            <4>2. calls[o].id # calls[c].id
                BY <1>1, <4>1 DEF Known, DeletesKnown, Deletes
            <4>3. calls[o].id \in DOMAIN rows
                BY <2>3, <3>5, <4>1 DEF Complete
            <4> QED BY <2>1, <4>1, <4>2, <4>3
        <3> QED BY <3>2, <3>4, <3>5 DEF Complete
    <2> QED BY <2>2, <2>3 DEF KnownAfter
<1> QED BY <1>2, <1>3, DeleteEffect

LEMMA UpdateServed ==
    ASSUME Shapes, Known, NEW c \in Call, UpdateDepartment(c), ~strayed',
           \A o \in Call : calls[o].kind # "reorder"
    PROVE  KnownAfter
<1>1. Serves(c) /\ calls[c].kind = "level" /\ calls[c].phase = "sent"
    BY DEF UpdateDepartment, Waits, Serves
<1>2. CASE Refused(c)
    <2>1. calls'[c].kind = "level" /\ calls'[c].phase = "failed"
        BY <1>1, <1>2 DEF Refused, Phased
    <2> QED BY <2>1 DEF KnownAfter, Rough, Failing
<1>3. CASE \E list \in List :
              /\ Phased(c, "read", list) /\ DOMAIN list = {calls[c].id}
              /\ calls[c].id \in DOMAIN rows /\ list[calls[c].id] = rows[calls[c].id]
              /\ rows' = rows /\ lastId' = lastId /\ strayed' = strayed
    <2>1. PICK list \in List :
              /\ Phased(c, "read", list)
              /\ calls[c].id \in DOMAIN rows /\ list[calls[c].id] = rows[calls[c].id]
              /\ rows' = rows
        BY <1>3
    <2>2. calls'[c].kind = "level" /\ calls'[c].phase = "read" /\ calls'[c].list = list
        BY <1>1, <2>1 DEF Phased
    <2>3. list[calls[c].id].parent = shown[calls[c].id].parent
        <3>1. calls[c].id \in DOMAIN shown
            BY <1>1 DEF Known, LevelsKnown
        <3>2. Placed(shown, calls[c].id)
            BY <2>1, <3>1 DEF Known, ShownKnown
        <3>3. shown[calls[c].id].parent = rows[calls[c].id].parent
            BY <3>2 DEF Placed, Moves
        <3> QED BY <2>1, <3>3
    <2>4. Known'
        BY <1>1, <2>1, <2>2, <2>3, QuietServe DEF Moves, Levels, Deletes
    <2>5. Complete => Complete'
        BY <1>1, <2>1, QuietComplete DEF Deletes
    <2> QED BY <2>4, <2>5 DEF KnownAfter
<1> QED BY <1>2, <1>3, UpdateEffect

LEMMA CreateServed ==
    ASSUME Shapes, Known, NEW c \in Call, ~strayed',
           \/ \E parent \in Department \cup {None} : CreateDepartment(c, parent)
           \/ \E replace \in BOOLEAN, children \in 0 .. 1 :
                 BatchCreateDepartments(c, replace, children)
    PROVE  KnownAfter
<1>1. Serves(c)
    BY DEF Serves
<1>2. /\ \A d \in DOMAIN rows' : d <= lastId => d \in DOMAIN rows /\ rows'[d] = rows[d]
      /\ Answered(c, calls[c].list) /\ calls[c].kind = "create"
    BY CreatesIs
<1>3. calls'[c].kind = "create" /\ calls'[c].phase = "done"
    BY <1>2 DEF Answered, Phased
<1>4. Known'
    BY <1>1, <1>2, <1>3, QuietServe DEF Moves, Levels, Deletes
<1> QED BY <1>3, <1>4 DEF KnownAfter, Created

LEMMA RefuseCreateServed ==
    ASSUME Shapes, Known, NEW c \in Call, ~strayed', RefuseCreate(c)
    PROVE  KnownAfter
<1>1. Serves(c) /\ calls[c].kind = "create"
    BY DEF Serves, RefuseCreate, Waits
<1>2. calls'[c].kind = "create" /\ rows' = rows
    BY <1>1, RefusedIs DEF RefuseCreate, Refused, Phased
<1>3. Known'
    BY <1>1, <1>2, QuietServe DEF Moves, Levels, Deletes
<1>4. Complete => Complete'
    BY <1>1, <1>2, QuietComplete DEF Deletes
<1> QED BY <1>3, <1>4 DEF KnownAfter

LEMMA SaveServed ==
    ASSUME Shapes, Peace, Known, NEW c \in Call, SaveDepartment(c), ~strayed'
    PROVE  KnownAfter
<1>1. /\ Serves(c) /\ calls[c].kind = "level" /\ calls[c].phase = "read" /\ Levels(c)
      /\ Waits(c, "level", "read")
    BY DEF SaveDepartment, Waits, Serves, Levels
<1>2. /\ Only(c) /\ calls'[c].kind = calls[c].kind /\ calls'[c].id = calls[c].id
      /\ calls'[c].level = calls[c].level
      /\ shown' = shown /\ searching' = searching
      /\ \A p : Seen(p) => Seen(p)'
    BY <1>1, CallFacts
<1>3. CASE Refused(c)
    <2>1. calls'[c].kind = "level" /\ calls'[c].phase = "failed"
        BY <1>1, <1>3 DEF Refused, Phased
    <2> QED BY <2>1 DEF KnownAfter, Rough, Failing
<1>4. CASE \E new \in List :
              /\ rows' = new /\ lastId' = lastId
              /\ DOMAIN new = DOMAIN rows \cup {calls[c].id}
              /\ SameRows(new, rows, DOMAIN rows \ {calls[c].id})
              /\ new[calls[c].id].parent = calls[c].list[calls[c].id].parent
              /\ new[calls[c].id].level = calls[c].level
              /\ Answered(c, calls[c].list)
    <2>a. PICK e : e = calls[c].id
        OBVIOUS
    <2>1. PICK new \in List :
              /\ e = calls[c].id /\ rows' = new /\ DOMAIN new = DOMAIN rows \cup {e}
              /\ \A d \in DOMAIN rows : d # e => new[d] = rows[d]
              /\ new[e].parent = calls[c].list[e].parent
              /\ new[e].level = calls[c].level
              /\ calls'[c].phase = "done"
        BY <1>4, <2>a DEF SameRows, Answered, Phased
    <2>2. \A o \in Call : calls[o].kind # "reorder" /\ ~Moves(o) /\ ~Moves(o)'
        <3>1. \A o \in Call : calls[o].kind # "reorder"
            BY <1>1, ApartFacts DEF Peace
        <3> QED BY <1>2, <3>1 DEF Moves, Only
    <2>3. /\ e \in DOMAIN shown /\ shown[e].level = calls[c].level
          /\ shown[e].parent = calls[c].list[e].parent
        BY <1>1, <2>1 DEF Known, LevelsKnown
    <2>4. ASSUME NEW d \in DOMAIN shown, d \in DOMAIN rows'
          PROVE  /\ shown[d].parent = rows'[d].parent
                 /\ shown[d].level = rows'[d].level
                        \/ \E o \in Call : Levels(o)' /\ calls'[o].id = d
        <3>1. CASE d = e
            BY <2>1, <2>3, <3>1
        <3>2. CASE d # e
            <4>1. d \in DOMAIN rows /\ rows'[d] = rows[d]
                BY <2>1, <2>4, <3>2
            <4>2. Placed(shown, d) /\ (shown[d].level = rows[d].level
                        \/ \E o \in Call : Levels(o) /\ calls[o].id = d)
                BY <2>4, <4>1 DEF Known, ShownKnown
            <4>3. shown[d].parent = rows[d].parent
                BY <2>2, <4>2 DEF Placed
            <4>4. ASSUME NEW o \in Call, Levels(o), calls[o].id = d
                  PROVE  Levels(o)' /\ calls'[o].id = d
                BY <1>2, <2>1, <3>2, <4>4 DEF Only, Levels
            <4> QED BY <4>1, <4>2, <4>3, <4>4
        <3> QED BY <3>1, <3>2
    <2>5. \A d \in DOMAIN shown : d \in DOMAIN rows' => Placed(shown, d)'
        BY <1>2, <2>2, <2>4 DEF Placed
    <2>6. \A p : p \in DOMAIN rows' /\ ParentSeen(p) => Seen(p)'
        <3>1. Seen(e)
            BY <2>3 DEF Seen
        <3> QED BY <1>2, <2>1, <3>1 DEF ParentSeen
    <2>7. ASSUME NEW d \in DOMAIN shown' PROVE ParentSeen(shown[d].parent)'
        <3>1. PICK p : p = shown[d].parent
            OBVIOUS
        <3>2. ParentSeen(p)
            BY <1>2, <2>7, <3>1 DEF Known, ShownKnown
        <3>3. p \in DOMAIN rows' => Seen(p)'
            BY <2>6, <3>2
        <3>4. p = shown'[d].parent
            BY <1>2, <3>1
        <3> QED BY <3>3, <3>4 DEF ParentSeen, Seen
    <2>8. ShownKnown'
        <3> QED BY <1>2, <2>4, <2>5, <2>7 DEF ShownKnown
    <2>9. LevelsKnown'
        BY <1>1, <1>2, <2>1, LevelsKept DEF Known, Levels
    <2>10. ASSUME NEW o \in Call, Deletes(o), calls[o].id \in DOMAIN rows'
           PROVE  calls[o].id \in DOMAIN rows /\ rows'[calls[o].id] = rows[calls[o].id]
        <3>1. calls[o].id # e
            BY <1>1, <2>1, <2>10, ApartFacts DEF Peace, Deletes
        <3> QED BY <2>1, <2>10, <3>1
    <2>11. DeletesKnown'
        BY <1>1, <1>2, <2>2, <2>6, <2>10, DeletesKept DEF Known, Deletes
    <2>12. ASSUME Complete PROVE Complete'
        <3>1. e \in DOMAIN rows
            BY <2>3, <2>12 DEF Complete
        <3>2. DOMAIN rows' = DOMAIN rows
            BY <2>1, <3>1
        <3> QED BY <1>1, <2>12, <3>2, QuietComplete DEF Deletes
    <2> QED BY <2>8, <2>9, <2>11, <2>12 DEF KnownAfter, Known
<1> QED BY <1>3, <1>4, SaveEffect

LEMMA ReorderServed ==
    ASSUME Shapes, Peace, Known, NEW c \in Call, ReorderDepartments(c), ~strayed'
    PROVE  KnownAfter
<1>1. Serves(c) /\ calls[c].kind = "reorder" /\ Moves(c)
    BY DEF ReorderDepartments, Waits, Serves, Moves
<1>2. /\ Only(c) /\ calls'[c].kind = calls[c].kind /\ calls'[c].id = calls[c].id
      /\ shown' = shown /\ searching' = searching
      /\ \A p : Seen(p) => Seen(p)'
    BY <1>1, CallFacts
<1>3. CASE Refused(c)
    <2>1. calls'[c].kind = "reorder" /\ calls'[c].phase = "failed"
        BY <1>1, <1>3 DEF Refused, Phased
    <2> QED BY <2>1 DEF KnownAfter, Rough, Failing
<1>4. CASE \E new \in List :
              /\ rows' = new /\ lastId' = lastId /\ DOMAIN new = DOMAIN rows
              /\ \A x \in DOMAIN rows :
                    /\ new[x].level = rows[x].level
                    /\ new[x].parent = IF x \in DOMAIN calls[c].list
                                       THEN calls[c].list[x].parent ELSE rows[x].parent
              /\ Answered(c, calls[c].list)
    <2>1. PICK new \in List :
              /\ rows' = new /\ DOMAIN new = DOMAIN rows
              /\ \A x \in DOMAIN rows :
                    /\ new[x].level = rows[x].level
                    /\ new[x].parent = IF x \in DOMAIN calls[c].list
                                       THEN calls[c].list[x].parent ELSE rows[x].parent
              /\ calls'[c].phase = "done"
        BY <1>4 DEF Answered, Phased
    <2>2. /\ \A o \in Call : Moves(o) => o = c
          /\ \A o \in Call : ~Moves(o)'
          /\ \A o \in Call : calls[o].kind # "level"
        <3>1. \A o \in Call : o # c => calls[o].kind \notin {"reorder", "level"}
            BY <1>1, ApartFacts DEF Peace
        <3> QED BY <1>1, <1>2, <2>1, <3>1 DEF Moves, Only
    <2>3. ASSUME NEW l, NEW d \in DOMAIN rows, Placed(l, d) PROVE l[d].parent = rows'[d].parent
        <3>1. CASE d \in DOMAIN calls[c].list
            BY <1>1, <2>1, <2>3, <3>1 DEF Placed
        <3>2. CASE d \notin DOMAIN calls[c].list
            BY <2>1, <2>2, <2>3, <3>2 DEF Placed
        <3> QED BY <3>1, <3>2
    <2>4. ASSUME NEW d \in DOMAIN shown, d \in DOMAIN rows'
          PROVE  /\ Placed(shown, d)'
                 /\ shown[d].level = rows'[d].level
        <3>1. PICK l : l = shown
            OBVIOUS
        <3>2. d \in DOMAIN rows /\ Placed(l, d)
            BY <2>1, <2>4, <3>1 DEF Known, ShownKnown
        <3>3. l[d].parent = rows'[d].parent
            BY <2>3, <3>2
        <3>4. shown[d].level = rows[d].level
            BY <2>2, <2>4, <3>2 DEF Known, ShownKnown, Levels
        <3> QED BY <1>2, <2>1, <2>2, <3>1, <3>2, <3>3, <3>4 DEF Placed
    <2>5. \A p : ParentSeen(p) => (p \in DOMAIN rows' => Seen(p)')
        BY <1>2, <2>1 DEF ParentSeen
    <2>6. ASSUME NEW d \in DOMAIN shown' PROVE ParentSeen(shown[d].parent)'
        <3>1. PICK p : p = shown[d].parent
            OBVIOUS
        <3>2. ParentSeen(p)
            BY <1>2, <2>6, <3>1 DEF Known, ShownKnown
        <3>3. p \in DOMAIN rows' => Seen(p)'
            BY <2>5, <3>2
        <3>4. p = shown'[d].parent
            BY <1>2, <3>1
        <3> QED BY <3>3, <3>4 DEF ParentSeen, Seen
    <2>7. ShownKnown'
        <3> QED BY <1>2, <2>4, <2>6 DEF ShownKnown
    <2>8. LevelsKnown'
        BY <1>1, <1>2, <2>1, LevelsKept DEF Known
    <2>9. ASSUME NEW o \in Call, Deletes(o)' PROVE DeleteKnown(o)' /\ calls'[o] = calls[o]
        <3>1. calls'[o] = calls[o] /\ Deletes(o)
            BY <1>1, <1>2, <2>9 DEF Only, Deletes
        <3>2. DeleteKnown(o)
            BY <3>1 DEF Known, DeletesKnown
        <3>3. PICK d, l, p : d = calls[o].id /\ l = calls[o].list /\ p = l[d].parent
            OBVIOUS
        <3>4. calls'[o].id = d /\ calls'[o].list = l /\ p = calls'[o].list[calls'[o].id].parent
            BY <3>1, <3>3
        <3>5. d \in DOMAIN rows' => /\ l[d].parent = rows'[d].parent
                                    /\ l[d].level = rows'[d].level
            BY <2>1, <2>3, <3>2, <3>3 DEF DeleteKnown
        <3>6. d \in DOMAIN rows' => Placed(calls[o].list, calls[o].id)'
            BY <2>2, <3>4, <3>5 DEF Placed
        <3>7. (p \in DOMAIN rows' => Seen(p)')
            <4>1. ParentSeen(p)
                BY <3>2, <3>3 DEF DeleteKnown
            <4> QED BY <1>2, <2>5, <4>1
        <3>8. ParentSeen(calls[o].list[calls[o].id].parent)'
            BY <3>4, <3>7 DEF ParentSeen, Seen
        <3>9. /\ calls'[o].id \notin DOMAIN shown'
              /\ calls'[o].phase = "done" => calls'[o].id \notin DOMAIN rows'
            BY <1>2, <2>1, <3>1, <3>2 DEF DeleteKnown
        <3> QED BY <3>1, <3>4, <3>5, <3>6, <3>8, <3>9 DEF DeleteKnown
    <2>10. DeletesKnown'
        <3>1. \A a, b \in Call : Deletes(a)' /\ Deletes(b)' /\ calls'[a].id = calls'[b].id => a = b
            <4>1. \A a \in Call : Deletes(a)' => Deletes(a) /\ calls'[a].id = calls[a].id
                BY <2>9 DEF Deletes
            <4> QED BY <4>1 DEF Known, DeletesKnown
        <3> QED BY <2>9, <3>1 DEF DeletesKnown
    <2>11. Complete => Complete'
        BY <1>1, <2>1, QuietComplete DEF Deletes
    <2> QED BY <2>7, <2>8, <2>10, <2>11 DEF KnownAfter, Known
<1> QED BY <1>3, <1>4, ReorderEffect

LEMMA ServesKnown ==
    ASSUME Shapes, Peace, Known, ~Rough, NEW c \in Call, Serves(c), ~strayed'
    PROVE  KnownAfter
<1>1. ~ListDepartments(c)
    BY DEF Rough, Fetching, ListDepartments, Waits
<1>2. UpdateDepartment(c) => \A o \in Call : calls[o].kind # "reorder"
    BY ApartFacts DEF Peace, UpdateDepartment, Waits
<1> QED BY <1>1, <1>2, DeleteServed, UpdateServed, SaveServed, ReorderServed, CreateServed,
           RefuseCreateServed DEF Serves

-----------------------------------------------------------------------------
(* The steps of the page and of the administrator.                         *)

(* A request ends, or one that is neither of a row nor of the order begins.*)
LEMMA QuietPage ==
    ASSUME Shapes, Known, NEW c \in Call, Only(c), shown' = shown, rows' = rows,
           searching' = searching, ~Moves(c), ~Levels(c),
           calls'[c].kind \notin {"level", "delete", "reorder"},
           Deletes(c) => calls[c].id \notin DOMAIN rows
    PROVE  Known' /\ (Complete => Complete')
<1>1. \A p : p \in DOMAIN rows /\ Seen(p) => Seen(p)'
    BY SeenKept
<1>2. \A p \in 0 .. lastId : p \in DOMAIN rows' /\ ParentSeen(p) => Seen(p)'
    BY <1>1 DEF ParentSeen
<1>3. ~Moves(c)' /\ ~Deletes(c)'
    BY DEF Moves, Deletes
<1>4. ShownKnown'
    BY <1>2, <1>3, ShownKept DEF Known
<1>5. LevelsKnown'
    BY LevelsKept DEF Known
<1>6. DeletesKnown'
    BY <1>2, <1>3, DeletesKept DEF Known
<1>7. Complete => Complete'
    BY <1>1, <1>3, CompleteKept
<1> QED BY <1>4, <1>5, <1>6, <1>7 DEF Known

(* A refused deletion puts the row back where it was.                      *)
LEMMA RevertKnown ==
    ASSUME Shapes, Known, NEW c \in Call, RevertDelete(c), ~strayed'
    PROVE  Known' /\ (Complete => Complete')
<1>1. /\ calls[c].kind = "delete" /\ calls[c].phase = "failed" /\ Deletes(c)
      /\ rows' = rows /\ searching' = searching /\ End(c)
      /\ shown' = calls[c].list /\ shown = Without(calls[c].list, calls[c].id)
    BY DEF RevertDelete, Reverted, Settled, Waits, table, Deletes
<1>2. /\ Only(c) /\ calls'[c] = NoCall /\ calls'[c].kind = "none"
    BY <1>1, ShapesFacts, EndIs, NoCallFields
<1>3. PICK old \in List : old = calls[c].list
    BY <1>1, ShapesFacts DEF Shapes, Carries
<1>a. PICK e \in Department : e = calls[c].id /\ e \in DOMAIN old
    BY <1>1, <1>3, ListElements DEF Shapes, Carries
<1>4. /\ DOMAIN shown = DOMAIN old \ {e} /\ \A x \in DOMAIN old : x # e => shown[x] = old[x]
      /\ shown' = old
    <2>1. shown = Without(old, e)
        BY <1>1, <1>3, <1>a
    <2>2. /\ DOMAIN Without(old, e) = DOMAIN old \ {e}
          /\ \A x \in DOMAIN old \ {e} : Without(old, e)[x] = old[x]
        BY WithoutIs
    <2> QED BY <1>1, <1>3, <2>1, <2>2
<1>5. DeleteKnown(c)
    BY <1>1 DEF Known, DeletesKnown
<1>8. ASSUME NEW p, Seen(p) PROVE Seen(p)'
    <2>1. CASE p \in DOMAIN shown
        BY <1>4, <2>1 DEF Seen
    <2>2. CASE p = e
        BY <1>4, <1>a, <2>2 DEF Seen
    <2>3. ASSUME NEW o \in Call, Deletes(o), calls[o].id = p, p # e
          PROVE  Deletes(o)' /\ calls'[o].id = p
        BY <1>2, <1>a, <2>3 DEF Only, Deletes
    <2> QED BY <1>8, <2>1, <2>2, <2>3 DEF Seen
<1>9. ASSUME NEW l, NEW x, Placed(l, x)
      PROVE  /\ \A o \in Call : Moves(o)' /\ x \in DOMAIN calls'[o].list =>
                    l[x].parent = calls'[o].list[x].parent
             /\ (\A o \in Call : Moves(o)' => x \notin DOMAIN calls'[o].list) =>
                    l[x].parent = rows'[x].parent
    <2>1. ~Moves(c) /\ ~Moves(c)'
        BY <1>1, <1>2 DEF Moves
    <2> QED BY <1>1, <1>2, <1>9, <2>1, PlacedKept
<1>10. ASSUME NEW x \in DOMAIN old, x \in DOMAIN rows
       PROVE  /\ Placed(shown, x)'
              /\ old[x].level = rows[x].level \/ \E o \in Call : Levels(o)' /\ calls'[o].id = x
    <2>1. CASE x = e
        <3>1. Placed(old, x) /\ old[x].level = rows[x].level
            BY <1>3, <1>5, <1>10, <1>a, <2>1 DEF DeleteKnown
        <3>2. Placed(shown, x)'
            BY <1>4, <1>9, <3>1 DEF Placed
        <3> QED BY <3>1, <3>2
    <2>2. CASE x # e
        <3>1. /\ Placed(shown, x) /\ shown[x] = old[x]
              /\ shown[x].level = rows[x].level \/ \E o \in Call : Levels(o) /\ calls[o].id = x
            BY <1>4, <1>10, <2>2 DEF Known, ShownKnown
        <3>2. Placed(old, x)
            BY <3>1 DEF Placed
        <3>3. Placed(shown, x)'
            BY <1>4, <1>9, <3>2 DEF Placed
        <3>4. ASSUME NEW o \in Call, Levels(o), calls[o].id = x
              PROVE  Levels(o)' /\ calls'[o].id = x
            BY <1>1, <1>2, <3>4 DEF Only, Levels
        <3> QED BY <3>1, <3>3, <3>4
    <2> QED BY <2>1, <2>2
<1>11. ASSUME NEW x \in DOMAIN shown' PROVE ParentSeen(shown[x].parent)'
    <2>1. PICK p : p = old[x].parent
        OBVIOUS
    <2>2. ParentSeen(p)
        <3>1. CASE x = e
            BY <1>1, <1>3, <1>5, <1>11, <1>a, <2>1, <3>1 DEF DeleteKnown
        <3>2. CASE x # e
            BY <1>1, <1>4, <1>11, <2>1, <3>2 DEF Known, ShownKnown
        <3> QED BY <3>1, <3>2
    <2>3. p \in DOMAIN rows' => Seen(p)'
        BY <1>1, <1>8, <2>2 DEF ParentSeen
    <2>4. p = shown'[x].parent
        BY <1>4, <2>1
    <2> QED BY <2>3, <2>4 DEF ParentSeen, Seen
<1>12. ShownKnown'
    <2> QED BY <1>1, <1>4, <1>10, <1>11 DEF ShownKnown
<1>13. LevelsKnown'
    <2> SUFFICES ASSUME NEW o \in Call, calls'[o].kind = "level"
                 PROVE  /\ calls'[o].id \in DOMAIN shown'
                        /\ Levels(o)' => shown'[calls'[o].id].level = calls'[o].level
                        /\ calls'[o].phase = "read" =>
                              calls'[o].list[calls'[o].id].parent = shown'[calls'[o].id].parent
        BY DEF LevelsKnown
    <2>1. calls'[o] = calls[o]
        BY <1>2 DEF Only
    <2>2. /\ calls[o].id \in DOMAIN shown
          /\ Levels(o) => shown[calls[o].id].level = calls[o].level
          /\ calls[o].phase = "read" =>
                calls[o].list[calls[o].id].parent = shown[calls[o].id].parent
        BY <2>1 DEF Known, LevelsKnown
    <2> QED BY <1>4, <2>1, <2>2 DEF Levels
<1>14. ASSUME NEW o \in Call, Deletes(o)' PROVE DeleteKnown(o)' /\ calls'[o] = calls[o]
    <2>1. o # c /\ calls'[o] = calls[o] /\ Deletes(o)
        BY <1>2, <1>14 DEF Only, Deletes
    <2>2. DeleteKnown(o) /\ calls[o].id # e
        BY <1>1, <1>a, <2>1 DEF Known, DeletesKnown
    <2>3. calls[o].id \notin DOMAIN shown'
        BY <1>4, <2>2 DEF DeleteKnown
    <2>4. calls'[o].phase = "done" => calls[o].id \notin DOMAIN rows'
        BY <1>1, <2>1, <2>2 DEF DeleteKnown
    <2>5. \A p \in 0 .. lastId : p \in DOMAIN rows' /\ ParentSeen(p) => Seen(p)'
        BY <1>1, <1>8 DEF ParentSeen
    <2>6. ~Moves(c) /\ ~Moves(c)'
        BY <1>1, <1>2 DEF Moves
    <2>7. DeleteKnown(o)'
        BY <1>1, <1>2, <2>1, <2>2, <2>3, <2>4, <2>5, <2>6, DeleteKept
    <2> QED BY <2>1, <2>7
<1>15. DeletesKnown'
    <2>1. \A a, b \in Call : Deletes(a)' /\ Deletes(b)' /\ calls'[a].id = calls'[b].id => a = b
        <3>1. \A a \in Call : Deletes(a)' => Deletes(a) /\ calls'[a].id = calls[a].id
            BY <1>14 DEF Deletes
        <3> QED BY <3>1 DEF Known, DeletesKnown
    <2> QED BY <1>14, <2>1 DEF DeletesKnown
<1>16. ASSUME Complete PROVE Complete'
    <2>1. e \in DOMAIN rows
        BY <1>1, <1>a, <1>16 DEF Complete
    <2>2. DOMAIN shown' \subseteq DOMAIN rows'
        BY <1>1, <1>4, <1>16, <2>1 DEF Complete
    <2>3. \A d1 \in DOMAIN rows' : Seen(d1)'
        BY <1>1, <1>8, <1>16 DEF Complete
    <2>4. ASSUME NEW o \in Call, Deletes(o)', calls'[o].phase # "done"
          PROVE  calls'[o].id \in DOMAIN rows'
        <3>1. calls'[o] = calls[o] /\ Deletes(o)
            BY <1>14, <2>4 DEF Deletes
        <3> QED BY <1>1, <1>16, <2>4, <3>1 DEF Complete
    <2> QED BY <2>2, <2>3, <2>4 DEF Complete
<1> QED BY <1>12, <1>13, <1>15, <1>16 DEF Known


(* What a new request is: nothing was under way in its place, and nothing  *)
(* that it disturbs is.                                                    *)
LEMMA NewIs ==
    ASSUME Shapes, Peace, NEW c \in Call, NEW r \in Request, Begin(c, r),
           r.kind # "none", searching' = searching, ~strayed'
    PROVE  /\ Only(c) /\ ~Moves(c) /\ ~Levels(c) /\ ~Deletes(c)
           /\ calls'[c].kind = r.kind /\ calls'[c].phase = r.phase
           /\ calls'[c].id = r.id /\ calls'[c].level = r.level /\ calls'[c].list = r.list
           /\ \A o \in Call : r.kind \in {"level", "delete"} /\ calls[o].kind = "level" =>
                  calls[o].id # r.id
           /\ \A o \in Call : r.kind = "level" /\ calls[o].kind = "delete" => calls[o].id # r.id
           /\ \A o \in Call : r.kind \in {"level", "reorder"} => calls[o].kind # "reorder"
           /\ \A o \in Call : r.kind = "reorder" => calls[o].kind # "level"
<1>1. /\ Only(c) /\ calls'[c].kind = r.kind /\ calls'[c].phase = r.phase
      /\ calls'[c].id = r.id /\ calls'[c].level = r.level /\ calls'[c].list = r.list
    <2>1. searching' \in BOOLEAN
        BY DEF Shapes
    <2> QED BY <2>1, ShapesFacts, BeginIs
<1>2. calls[c].kind = "none"
    BY NoCallFields DEF Begin
<1>3. \A o \in Call \ {c} : calls[o].kind # "none" => ~Disturb(calls[o], calls'[c])
    BY BeginApart DEF Peace, Busy
<1>4. ASSUME NEW o \in Call, o # c
      PROVE  /\ r.kind \in {"level", "delete"} /\ calls[o].kind = "level" => calls[o].id # r.id
             /\ r.kind = "level" /\ calls[o].kind = "delete" => calls[o].id # r.id
             /\ r.kind \in {"level", "reorder"} => calls[o].kind # "reorder"
             /\ r.kind = "reorder" => calls[o].kind # "level"
    <2>1. calls[o].kind # "none" => ~Disturb(calls[o], calls'[c])
        BY <1>3, <1>4
    <2>2. calls'[c].kind = r.kind /\ calls'[c].id = r.id
        BY <1>1
    <2> QED BY <2>1, <2>2 DEF Disturb
<1>5. ~Moves(c) /\ ~Levels(c) /\ ~Deletes(c)
    BY <1>2 DEF Moves, Levels, Deletes
<1> QED BY <1>1, <1>2, <1>4, <1>5

LEMMA HandleDeleteKnown ==
    ASSUME Shapes, Peace, Known, NEW c \in Call, NEW d \in Department, HandleDelete(c, d),
           ~strayed'
    PROVE  Known' /\ (Complete => Complete')
<1>1. PICK r \in Request, left \in List :
          /\ Begin(c, r) /\ shown' = left
          /\ DOMAIN left = DOMAIN shown \ {d}
          /\ \A x \in DOMAIN left : left[x] = shown[x]
          /\ r.kind = "delete" /\ r.phase = "sent" /\ r.id = d /\ r.list = shown
          /\ d \in DOMAIN shown
    BY DeleteRequest
<1>2. rows' = rows /\ searching' = searching
    BY DEF HandleDelete, table
<1>3. /\ Only(c) /\ ~Moves(c) /\ ~Levels(c) /\ ~Deletes(c)
      /\ calls'[c].kind = "delete" /\ calls'[c].phase = "sent"
      /\ calls'[c].id = d /\ calls'[c].list = shown
      /\ \A o \in Call : calls[o].kind = "level" => calls[o].id # d
    BY <1>1, <1>2, NewIs
<1>4. ~Moves(c)' /\ ~Levels(c)' /\ Deletes(c)'
    BY <1>3 DEF Moves, Levels, Deletes
<1>5. ASSUME NEW p, Seen(p) PROVE Seen(p)'
    <2>1. CASE p \in DOMAIN shown
        BY <1>1, <1>3, <1>4, <2>1 DEF Seen
    <2>2. ASSUME NEW o \in Call, Deletes(o), calls[o].id = p
          PROVE  Deletes(o)' /\ calls'[o].id = p
        BY <1>3, <2>2 DEF Only, Deletes
    <2> QED BY <1>5, <2>1, <2>2 DEF Seen
<1>6. ASSUME NEW x \in DOMAIN shown, x \in DOMAIN rows PROVE Placed(shown, x) /\ 
        (\A o \in Call : Moves(o)' /\ x \in DOMAIN calls'[o].list =>
                    shown[x].parent = calls'[o].list[x].parent) /\
        ((\A o \in Call : Moves(o)' => x \notin DOMAIN calls'[o].list) =>
                    shown[x].parent = rows'[x].parent)
    <2>1. Placed(shown, x) /\ rows'[x].parent = rows[x].parent
        BY <1>2, <1>6 DEF Known, ShownKnown
    <2>2. PICK list : list = shown
        OBVIOUS
    <2>3. Placed(list, x)
        BY <2>1, <2>2
    <2>4. /\ \A o \in Call : Moves(o)' /\ x \in DOMAIN calls'[o].list =>
                 list[x].parent = calls'[o].list[x].parent
          /\ (\A o \in Call : Moves(o)' => x \notin DOMAIN calls'[o].list) =>
                 list[x].parent = rows'[x].parent
        BY <1>3, <1>4, <2>1, <2>3, PlacedKept
    <2> QED BY <2>1, <2>2, <2>4
<1>7. ASSUME NEW x \in DOMAIN shown
      PROVE  shown[x].parent \in DOMAIN rows => Seen(shown[x].parent)
    BY <1>7 DEF Known, ShownKnown, ParentSeen
<1>8. ShownKnown'
    <2>2. ASSUME NEW x \in DOMAIN shown', x \in DOMAIN rows' PROVE Placed(shown, x)'
        <3>1. x \in DOMAIN shown /\ x \in DOMAIN rows /\ shown'[x].parent = shown[x].parent
            BY <1>1, <1>2, <2>2
        <3> QED BY <1>6, <3>1 DEF Placed
    <2>3. ASSUME NEW x \in DOMAIN shown', x \in DOMAIN rows'
          PROVE  shown'[x].level = rows'[x].level
                 \/ \E o \in Call : Levels(o)' /\ calls'[o].id = x
        <3>1. x \in DOMAIN shown /\ x \in DOMAIN rows /\ shown'[x] = shown[x]
            BY <1>1, <1>2, <2>3
        <3>2. shown[x].level = rows[x].level \/ \E o \in Call : Levels(o) /\ calls[o].id = x
            BY <3>1 DEF Known, ShownKnown
        <3>3. ASSUME NEW o \in Call, Levels(o), calls[o].id = x
              PROVE  Levels(o)' /\ calls'[o].id = x
            BY <1>3, <3>3 DEF Only, Levels
        <3> QED BY <1>2, <3>1, <3>2, <3>3
    <2>4. ASSUME NEW x \in DOMAIN shown' PROVE ParentSeen(shown[x].parent)'
        <3>1. PICK p : p = shown[x].parent
            OBVIOUS
        <3>2. p = shown'[x].parent /\ x \in DOMAIN shown
            BY <1>1, <2>4, <3>1
        <3>3. p \in DOMAIN rows' => Seen(p)'
            BY <1>2, <1>5, <1>7, <2>4, <3>1, <3>2
        <3> QED BY <3>2, <3>3 DEF ParentSeen, Seen
    <2> QED BY <2>2, <2>3, <2>4 DEF ShownKnown
<1>9. LevelsKnown'
    <2> SUFFICES ASSUME NEW o \in Call, calls'[o].kind = "level"
                 PROVE  /\ calls'[o].id \in DOMAIN shown'
                        /\ Levels(o)' => shown'[calls'[o].id].level = calls'[o].level
                        /\ calls'[o].phase = "read" =>
                              calls'[o].list[calls'[o].id].parent = shown'[calls'[o].id].parent
        BY DEF LevelsKnown
    <2>1. calls'[o] = calls[o]
        BY <1>3 DEF Only
    <2>2. /\ calls[o].id \in DOMAIN shown /\ calls[o].id # d
          /\ Levels(o) => shown[calls[o].id].level = calls[o].level
          /\ calls[o].phase = "read" =>
                calls[o].list[calls[o].id].parent = shown[calls[o].id].parent
        BY <1>3, <2>1 DEF Known, LevelsKnown
    <2> QED BY <1>1, <2>1, <2>2 DEF Levels
<1>10. ASSUME NEW o \in Call, Deletes(o)', o # c
       PROVE  DeleteKnown(o)' /\ Deletes(o) /\ calls'[o].id = calls[o].id /\ calls[o].id # d
    <2>1. calls'[o] = calls[o] /\ Deletes(o) /\ DeleteKnown(o)
        BY <1>3, <1>10 DEF Only, Deletes, Known, DeletesKnown
    <2>2. calls[o].id \notin DOMAIN shown' /\ calls[o].id # d
        BY <1>1, <2>1 DEF DeleteKnown
    <2>3. calls'[o].phase = "done" => calls[o].id \notin DOMAIN rows'
        BY <1>2, <2>1 DEF DeleteKnown
    <2>4. \A p \in 0 .. lastId : p \in DOMAIN rows' /\ ParentSeen(p) => Seen(p)'
        BY <1>2, <1>5 DEF ParentSeen
    <2>5. DeleteKnown(o)'
        BY <1>2, <1>3, <1>4, <2>1, <2>2, <2>3, <2>4, DeleteKept
    <2> QED BY <2>1, <2>2, <2>5
<1>11. DeleteKnown(c)'
    <2>1. /\ calls'[c].id \notin DOMAIN shown'
          /\ calls'[c].phase = "done" => calls'[c].id \notin DOMAIN rows'
        BY <1>1, <1>2, <1>3 DEF Known, ShownKnown
    <2>2. d \in DOMAIN rows => shown[d].level = rows[d].level
        BY <1>1, <1>3 DEF Known, ShownKnown, Levels
    <2>3. d \in DOMAIN rows => Placed(calls[c].list, calls[c].id)'
        BY <1>1, <1>3, <1>6 DEF Placed
    <2>4. PICK p : p = shown[d].parent
        OBVIOUS
    <2>5. (p \in DOMAIN rows' => Seen(p)')
        BY <1>1, <1>2, <1>5, <1>7, <2>4
    <2>6. calls'[c].list[calls'[c].id].parent = p
        BY <1>3, <2>4
    <2>7. ParentSeen(calls[c].list[calls[c].id].parent)'
        BY <2>5, <2>6 DEF ParentSeen, Seen
    <2>8. d \in DOMAIN rows => calls'[c].list[calls'[c].id].level = rows'[calls'[c].id].level
        BY <1>2, <1>3, <2>2
    <2> QED BY <1>2, <1>3, <2>1, <2>3, <2>7, <2>8 DEF DeleteKnown
<1>12. DeletesKnown'
    <2>1. ASSUME NEW a \in Call, NEW b \in Call, Deletes(a)', Deletes(b)',
                 calls'[a].id = calls'[b].id
          PROVE  a = b
        BY <1>3, <1>10, <2>1 DEF Known, DeletesKnown
    <2> QED BY <1>10, <1>11, <2>1 DEF DeletesKnown
<1>13. ASSUME Complete PROVE Complete'
    <2>1. \A x \in DOMAIN rows' : Seen(x)'
        BY <1>2, <1>5, <1>13 DEF Complete
    <2>2. DOMAIN shown' \subseteq DOMAIN rows' /\ d \in DOMAIN rows'
        BY <1>1, <1>2, <1>13 DEF Complete
    <2>3. ASSUME NEW o \in Call, Deletes(o)', calls'[o].phase # "done"
          PROVE  calls'[o].id \in DOMAIN rows'
        <3>1. CASE o = c
            BY <1>3, <2>2, <3>1
        <3>2. CASE o # c
            <4>1. calls'[o] = calls[o] /\ Deletes(o)
                BY <1>3, <2>3, <3>2 DEF Only, Deletes
            <4> QED BY <1>2, <1>13, <2>3, <4>1 DEF Complete
        <3> QED BY <3>1, <3>2
    <2> QED BY <2>1, <2>2, <2>3 DEF Complete
<1> QED BY <1>8, <1>9, <1>12, <1>13 DEF Known

LEMMA LevelKnown ==
    ASSUME Shapes, Peace, Known, NEW c \in Call, NEW d \in Department, NEW l \in Level,
           HandleVisibilityChange(c, d, l), ~strayed'
    PROVE  Known' /\ (Complete => Complete')
<1>1. PICK r \in Request, left \in List :
          /\ Begin(c, r) /\ shown' = left
          /\ DOMAIN left = DOMAIN shown
          /\ \A x \in DOMAIN left :
                /\ left[x].parent = shown[x].parent
                /\ left[x].level = IF x = d THEN l ELSE shown[x].level
          /\ r.kind = "level" /\ r.phase = "sent" /\ r.id = d /\ r.level = l
          /\ d \in DOMAIN shown
    BY LevelRequest
<1>2. rows' = rows /\ searching' = searching
    BY DEF HandleVisibilityChange, table
<1>3. /\ Only(c) /\ ~Moves(c) /\ ~Levels(c) /\ ~Deletes(c)
      /\ calls'[c].kind = "level" /\ calls'[c].phase = "sent"
      /\ calls'[c].id = d /\ calls'[c].level = l
      /\ \A o \in Call : calls[o].kind = "level" => calls[o].id # d
      /\ \A o \in Call : calls[o].kind # "reorder"
    BY <1>1, <1>2, NewIs
<1>4. ~Moves(c)' /\ Levels(c)' /\ ~Deletes(c)' /\ \A o \in Call : ~Moves(o) /\ ~Moves(o)'
    BY <1>3 DEF Moves, Levels, Deletes, Only
<1>5. ASSUME NEW p, Seen(p) PROVE Seen(p)'
    <2>1. CASE p \in DOMAIN shown
        BY <1>1, <2>1 DEF Seen
    <2>2. ASSUME NEW o \in Call, Deletes(o), calls[o].id = p
          PROVE  Deletes(o)' /\ calls'[o].id = p
        BY <1>3, <2>2 DEF Only, Deletes
    <2> QED BY <1>5, <2>1, <2>2 DEF Seen
<1>6. \A p \in 0 .. lastId : p \in DOMAIN rows' /\ ParentSeen(p) => Seen(p)'
    BY <1>2, <1>5 DEF ParentSeen
<1>7. ShownKnown'
    <2>2. ASSUME NEW x \in DOMAIN shown', x \in DOMAIN rows' PROVE Placed(shown, x)'
        <3>1. shown[x].parent = rows[x].parent
            BY <1>1, <1>2, <1>4, <2>2 DEF Known, ShownKnown, Placed
        <3>2. shown'[x].parent = rows'[x].parent
            BY <1>1, <1>2, <2>2, <3>1
        <3> QED BY <1>4, <3>2 DEF Placed
    <2>3. ASSUME NEW x \in DOMAIN shown', x \in DOMAIN rows'
          PROVE  shown'[x].level = rows'[x].level
                 \/ \E o \in Call : Levels(o)' /\ calls'[o].id = x
        <3>1. CASE x = d
            BY <1>3, <1>4, <3>1
        <3>2. CASE x # d
            <4>1. x \in DOMAIN shown /\ x \in DOMAIN rows /\ shown'[x].level = shown[x].level
                BY <1>1, <1>2, <2>3, <3>2
            <4>2. shown[x].level = rows[x].level \/ \E o \in Call : Levels(o) /\ calls[o].id = x
                BY <4>1 DEF Known, ShownKnown
            <4>3. ASSUME NEW o \in Call, Levels(o), calls[o].id = x
                  PROVE  Levels(o)' /\ calls'[o].id = x
                BY <1>3, <4>3 DEF Only, Levels
            <4> QED BY <1>2, <4>1, <4>2, <4>3
        <3> QED BY <3>1, <3>2
    <2>4. ASSUME NEW x \in DOMAIN shown' PROVE ParentSeen(shown[x].parent)'
        <3>1. PICK p : p = shown[x].parent
            OBVIOUS
        <3>2. p = shown'[x].parent /\ x \in DOMAIN shown
            BY <1>1, <2>4, <3>1
        <3>3. p \in DOMAIN rows' => Seen(p)'
            BY <1>2, <1>5, <2>4, <3>1, <3>2 DEF Known, ShownKnown, ParentSeen
        <3> QED BY <3>2, <3>3 DEF ParentSeen, Seen
    <2> QED BY <2>2, <2>3, <2>4 DEF ShownKnown
<1>8. LevelsKnown'
    <2> SUFFICES ASSUME NEW o \in Call, calls'[o].kind = "level"
                 PROVE  /\ calls'[o].id \in DOMAIN shown'
                        /\ Levels(o)' => shown'[calls'[o].id].level = calls'[o].level
                        /\ calls'[o].phase = "read" =>
                              calls'[o].list[calls'[o].id].parent = shown'[calls'[o].id].parent
        BY DEF LevelsKnown
    <2>1. CASE o = c
        BY <1>1, <1>3, <2>1
    <2>2. CASE o # c
        <3>1. calls'[o] = calls[o]
            BY <1>3, <2>2 DEF Only
        <3>2. /\ calls[o].id \in DOMAIN shown /\ calls[o].id # d
              /\ Levels(o) => shown[calls[o].id].level = calls[o].level
              /\ calls[o].phase = "read" =>
                    calls[o].list[calls[o].id].parent = shown[calls[o].id].parent
            BY <1>3, <3>1 DEF Known, LevelsKnown
        <3>3. /\ shown'[calls[o].id].parent = shown[calls[o].id].parent
              /\ shown'[calls[o].id].level = shown[calls[o].id].level
            BY <1>1, <3>2
        <3> QED BY <1>1, <3>1, <3>2, <3>3 DEF Levels
    <2> QED BY <2>1, <2>2
<1>9. DeletesKnown'
    BY <1>1, <1>2, <1>3, <1>4, <1>6, DeletesKept DEF Known
<1>10. Complete => Complete'
    BY <1>1, <1>2, <1>3, <1>4, <1>5, CompleteKept
<1> QED BY <1>7, <1>8, <1>9, <1>10 DEF Known

LEMMA DragKnown ==
    ASSUME Shapes, Peace, Known, NEW c \in Call, NEW d \in Department, NEW over \in Department,
           HandleDragEnd(c, d, over), ~strayed'
    PROVE  Known' /\ (Complete => Complete')
<1>1. PICK r \in Request, left \in List :
          /\ Begin(c, r) /\ shown' = left
          /\ DOMAIN left = DOMAIN shown
          /\ \A x \in DOMAIN left :
                /\ left[x].parent = IF x = d THEN shown[over].parent ELSE shown[x].parent
                /\ left[x].level = shown[x].level
          /\ r.kind = "reorder" /\ r.phase = "sent" /\ r.list = left
          /\ d \in DOMAIN shown /\ over \in DOMAIN shown
    BY DragRequest
<1>2. rows' = rows /\ searching' = searching /\ ~searching
    BY DEF HandleDragEnd, table
<1>3. /\ Only(c) /\ ~Moves(c) /\ ~Levels(c) /\ ~Deletes(c)
      /\ calls'[c].kind = "reorder" /\ calls'[c].phase = "sent" /\ calls'[c].list = left
      /\ \A o \in Call : calls[o].kind # "level" /\ calls[o].kind # "reorder"
    BY <1>1, <1>2, NewIs
<1>4. /\ Moves(c)' /\ ~Levels(c)' /\ ~Deletes(c)' 
      /\ \A o \in Call : ~Moves(o) /\ ~Levels(o) /\ (Moves(o)' => o = c)
      /\ \A o \in Call : calls'[o].kind # "level"
    BY <1>3 DEF Moves, Levels, Deletes, Only
<1>5. ASSUME NEW p, Seen(p) PROVE Seen(p)'
    <2>1. CASE p \in DOMAIN shown
        BY <1>1, <2>1 DEF Seen
    <2>2. ASSUME NEW o \in Call, Deletes(o), calls[o].id = p
          PROVE  Deletes(o)' /\ calls'[o].id = p
        BY <1>3, <2>2 DEF Only, Deletes
    <2> QED BY <1>5, <2>1, <2>2 DEF Seen
<1>6. ShownKnown'
    <2>1. ASSUME NEW x \in DOMAIN shown', x \in DOMAIN rows' PROVE Placed(shown, x)'
        BY <1>1, <1>3, <1>4, <2>1 DEF Placed
    <2>2. ASSUME NEW x \in DOMAIN shown', x \in DOMAIN rows' PROVE shown'[x].level = rows'[x].level
        <3>1. shown[x].level = rows[x].level
            BY <1>1, <1>2, <1>4, <2>2 DEF Known, ShownKnown
        <3> QED BY <1>1, <1>2, <2>2, <3>1
    <2>3. ASSUME NEW x \in DOMAIN shown' PROVE ParentSeen(shown[x].parent)'
        <3>1. PICK p, y : p = shown[y].parent /\ y = (IF x = d THEN over ELSE x)
            OBVIOUS
        <3>2. p = shown'[x].parent /\ y \in DOMAIN shown
            BY <1>1, <2>3, <3>1
        <3>3. p \in DOMAIN rows' => Seen(p)'
            BY <1>2, <1>5, <3>1, <3>2 DEF Known, ShownKnown, ParentSeen
        <3> QED BY <3>2, <3>3 DEF ParentSeen, Seen
    <2> QED BY <1>2, <2>1, <2>2, <2>3 DEF ShownKnown
<1>7. LevelsKnown'
    BY <1>4 DEF LevelsKnown
<1>8. ASSUME NEW o \in Call, Deletes(o)'
      PROVE  DeleteKnown(o)' /\ Deletes(o) /\ calls'[o].id = calls[o].id
    <2>1. calls'[o] = calls[o] /\ Deletes(o) /\ DeleteKnown(o)
        BY <1>3, <1>4, <1>8 DEF Only, Deletes, Known, DeletesKnown
    <2>2. PICK e, list, p : e = calls[o].id /\ list = calls[o].list /\ p = list[e].parent
        OBVIOUS
    <2>3. e \notin DOMAIN left /\ calls'[o].id = e /\ calls'[o].list = list
        BY <1>1, <2>1, <2>2 DEF DeleteKnown
    <2>4. e \in DOMAIN rows => list[e].parent = rows[e].parent /\ list[e].level = rows[e].level
        BY <1>4, <2>1, <2>2 DEF DeleteKnown, Placed
    <2>5. e \in DOMAIN rows => Placed(calls[o].list, calls[o].id)'
        BY <1>2, <1>3, <1>4, <2>3, <2>4 DEF Placed
    <2>6. p \in DOMAIN rows' => Seen(p)'
        BY <1>2, <1>5, <2>1, <2>2 DEF DeleteKnown, ParentSeen
    <2>7. ParentSeen(calls[o].list[calls[o].id].parent)'
        BY <2>2, <2>3, <2>6 DEF ParentSeen, Seen
    <2>8. /\ calls'[o].id \notin DOMAIN shown'
          /\ calls'[o].phase = "done" => calls'[o].id \notin DOMAIN rows'
        BY <1>1, <1>2, <2>1 DEF DeleteKnown
    <2>9. e \in DOMAIN rows => calls'[o].list[calls'[o].id].level = rows'[calls'[o].id].level
        BY <1>2, <2>3, <2>4
    <2> QED BY <1>2, <2>1, <2>3, <2>5, <2>7, <2>8, <2>9 DEF DeleteKnown
<1>9. DeletesKnown'
    <2>1. ASSUME NEW a \in Call, NEW b \in Call, Deletes(a)', Deletes(b)',
                 calls'[a].id = calls'[b].id
          PROVE  a = b
        BY <1>8, <2>1 DEF Known, DeletesKnown
    <2> QED BY <1>8, <2>1 DEF DeletesKnown
<1>10. Complete => Complete'
    BY <1>1, <1>2, <1>3, <1>4, <1>5, CompleteKept
<1> QED BY <1>6, <1>7, <1>9, <1>10 DEF Known

LEMMA SubmitKnown ==
    ASSUME Shapes, Peace, Known, NEW c \in Call, Submit(c), ~strayed'
    PROVE  Known' /\ (Complete => Complete')
<1>1. Begin(c, SubmitRequest) /\ rows' = rows /\ searching' = searching /\ shown' = shown
    BY DEF Submit, SubmitRequest, table, page
<1>2. PICK r \in Request : r = SubmitRequest
    BY SubmitRequestIs
<1>3. Begin(c, r) /\ r.kind = "create"
    BY <1>1, <1>2, SubmitRequestIs
<1>4. Only(c) /\ ~Moves(c) /\ ~Levels(c) /\ ~Deletes(c) /\ calls'[c].kind = "create"
    BY <1>1, <1>3, NewIs
<1> QED BY <1>1, <1>4, QuietPage

LEMMA AnswersKnown ==
    ASSUME Shapes, Peace, Known, ~Rough, NEW c \in Call, Answers(c), ~strayed'
    PROVE  Rough' \/ (Known' /\ (Complete => Complete'))
<1>1. ~ShowFetched(c)
    BY DEF ShowFetched, Settled, Waits, Rough, Fetching
<1>2. CASE RevertDelete(c)
    BY <1>2, RevertKnown
<1>3. CASE DeleteDone(c)
    <2>1. /\ calls[c].kind = "delete" /\ calls[c].phase = "done" /\ End(c)
          /\ rows' = rows /\ searching' = searching /\ shown' = shown
        BY <1>3 DEF DeleteDone, Settled, Waits, table
    <2>2. Only(c) /\ calls'[c].kind = "none"
        BY <2>1, ShapesFacts, EndIs, NoCallFields
    <2>3. calls[c].id \notin DOMAIN rows
        BY <2>1 DEF Known, DeletesKnown, DeleteKnown, Deletes
    <2> QED BY <2>1, <2>2, <2>3, QuietPage DEF Moves, Levels
<1>4. CASE ChangeAnswered(c) /\ Refetches(calls[c])
    BY <1>4, RefetchIs DEF Rough, Fetching
<1>5. CASE ChangeAnswered(c) /\ ~Refetches(calls[c])
    <2>1. /\ calls[c].kind \in {"level", "reorder", "create"}
          /\ calls[c].phase \in {"done", "failed"} /\ End(c)
          /\ rows' = rows /\ searching' = searching /\ shown' = shown
        BY <1>5 DEF ChangeAnswered, Settled, Waits, table
    <2>2. Only(c) /\ calls'[c].kind = "none"
        BY <2>1, ShapesFacts, EndIs, NoCallFields
    <2> QED BY <2>1, <2>2, QuietPage DEF Moves, Levels, Deletes
<1> QED BY <1>1, <1>2, <1>3, <1>4, <1>5 DEF Answers

LEMMA AdministersKnown ==
    ASSUME Shapes, Peace, Known, NEW c \in Call, Administers(c), ~strayed'
    PROVE  Rough' \/ (Known' /\ (Complete => Complete'))
<1>1. CASE Search(c)
    BY <1>1, SearchAlone DEF Peace, Rough, Fetching
<1> QED BY <1>1, SubmitKnown, HandleDeleteKnown, LevelKnown, DragKnown DEF Administers

LEMMA PageKnownStep ==
    ASSUME Shapes, Peace, PageKnown, [Next]_vars, ~strayed'
    PROVE  PageKnown'
<1>1. ASSUME NEW c \in Call, Administers(c) \/ Serves(c) \/ Answers(c) PROVE PageKnown'
    <2>1. CASE Rough
        <3>1. CASE Rough'
            BY <3>1 DEF PageKnown
        <3>2. CASE ShowFetched(c) /\ \A o \in Call \ {c} : calls'[o] = NoCall
            BY <3>2, FetchedKnown DEF PageKnown
        <3> QED BY <1>1, <2>1, <3>1, <3>2, RoughStays
    <2>2. CASE ~Rough
        <3>1. Known /\ (Created \/ Complete)
            BY <2>2 DEF PageKnown
        <3>2. Rough' \/ (Known' /\ (Complete => Complete' \/ Created'))
            BY <1>1, <2>2, <3>1, ServesKnown, AnswersKnown, AdministersKnown DEF KnownAfter
        <3>3. Created => Rough' \/ Created'
            <4>1. ~ShowFetched(c)
                BY <2>2 DEF ShowFetched, Settled, Waits, Rough, Fetching
            <4> QED BY <1>1, <4>1, RoughStays
        <3> QED BY <3>1, <3>2, <3>3 DEF PageKnown
    <2> QED BY <2>1, <2>2
<1>2. CASE (\E d \in Department : Staff(d)) \/ UNCHANGED vars
    <2>1. calls' = calls /\ rows' = rows /\ searching' = searching /\ shown' = shown
        BY <1>2 DEF Staff, vars, table, page
    <2>2. Rough' = Rough /\ Created' = Created
        BY <2>1 DEF Rough, Fetching, Failing, Created
    <2>3. Known => Known'
        BY <2>1 DEF Known, ShownKnown, LevelsKnown, DeletesKnown, DeleteKnown, Placed, ParentSeen,
           Seen, Moves, Levels, Deletes
    <2>4. Complete => Complete'
        BY <2>1 DEF Complete, Seen, Deletes
    <2> QED BY <2>2, <2>3, <2>4 DEF PageKnown
<1> QED BY <1>1, <1>2, Steps

LEMMA PageInit == Init => Peace /\ PageKnown
<1> SUFFICES ASSUME Init PROVE Peace /\ PageKnown
    OBVIOUS
<1>1. PICK first \in Call :
          calls = [x \in Call |-> IF x = first THEN Fetch ELSE NoCall]
    BY DEF Init
<1>2. /\ Fetch.kind = "fetch" /\ Fetch.phase = "sent"
      /\ NoCall.kind = "none" /\ NoCall.phase = "sent"
    BY DEF Fetch, NoCall
<1>3. /\ \A c \in Call : calls[c].phase = "sent"
      /\ \A c \in Call : Busy(c) => c = first
      /\ calls[first].kind = "fetch"
    BY <1>1, <1>2 DEF Busy
<1>4. Peace
    BY <1>3 DEF Peace, Apart, Fresh, ReadHolds, Waits, Init
<1>5. PageKnown
    BY <1>3 DEF PageKnown, Rough, Fetching
<1> QED BY <1>4, <1>5

Calm == Shapes /\ (strayed \/ (Peace /\ PageKnown))
LEMMA CalmHolds == Spec => []Calm
<1>1. Init => Calm
    BY ShapesInit, PageInit DEF Calm
<1>2. Calm /\ [Next]_vars => Calm'
    <2> SUFFICES ASSUME Calm, [Next]_vars PROVE Calm'
        OBVIOUS
    <2>1. Shapes'
        BY ShapesStep DEF Calm
    <2>2. ASSUME ~strayed' PROVE Peace' /\ PageKnown'
        <3>1. ~strayed
            BY <2>2, NotStrayedBefore DEF Calm
        <3> QED BY <2>2, <3>1, PeaceStep, PageKnownStep DEF Calm
    <2> QED BY <2>1, <2>2 DEF Calm
<1> QED BY <1>1, <1>2, PTL DEF Spec

LEMMA SameLists ==
    ASSUME NEW a \in List, NEW b \in List, DOMAIN a = DOMAIN b,
           \A d \in DOMAIN a : a[d].parent = b[d].parent /\ a[d].level = b[d].level
    PROVE  a = b
<1>1. ASSUME NEW d \in DOMAIN a PROVE a[d] = b[d]
    <2>1. a[d] \in Row /\ b[d] \in Row
        BY ListElements
    <2> QED BY <2>1 DEF Row
<1> QED BY <1>1, ListElements

(* Once every request was answered the page shows what the table holds:    *)
(* what setDepartments and the lists that handleDelete puts back leave in  *)
(* the page is, row by row, what ListDepartments would answer, unless the  *)
(* page strayed.                                                           *)
THEOREM PageShowsTableHolds == Spec => []PageShowsTable
<1>1. ASSUME Calm, Underway = {}, ~strayed PROVE shown = rows
    <2>1. \A c \in Call : calls[c].kind = "none"
        BY <1>1 DEF Underway
    <2>2. Shapes /\ Known /\ Complete
        BY <1>1, <2>1 DEF Calm, PageKnown, Rough, Fetching, Failing, Created
    <2>3. PICK a \in List, b \in List : a = shown /\ b = rows
        BY <2>2, ShapesFacts
    <2>4. \A d \in DOMAIN a : d \in DOMAIN b =>
              a[d].parent = b[d].parent /\ a[d].level = b[d].level
        BY <2>1, <2>2, <2>3 DEF Known, ShownKnown, Placed, Moves, Levels
    <2>5. DOMAIN a = DOMAIN b
        BY <2>1, <2>2, <2>3 DEF Known, ShownKnown, Complete, Seen, Deletes
    <2>6. a = b
        BY <2>4, <2>5, SameLists
    <2> QED BY <2>3, <2>6
<1>2. Calm => PageShowsTable
    BY <1>1 DEF PageShowsTable
<1> QED BY <1>2, CalmHolds, PTL
-----------------------------------------------------------------------------
(* The fourth part, as long as no department was dropped below itself: no  *)
(* department is above itself in the table, together with the rows that    *)
(* were read and are to be written back, nor will it be when a move under  *)
(* way is made.                                                            *)

Loop(S, E) == S # {} /\ \A x \in S : \E y \in S : <<x, y>> \in E
NoLoop(E) == \A S \in SUBSET Department : ~Loop(S, E)

Edges(list) == {<<d, list[d].parent>> : d \in DOMAIN list}
MovedEdges(list, items) ==
    {<<d, IF d \in DOMAIN items THEN items[d].parent ELSE list[d].parent>> : d \in DOMAIN list}
Reads(c) == calls[c].kind = "level" /\ calls[c].phase = "read"
ReadEdge(c) == <<calls[c].id, calls[c].list[calls[c].id].parent>>
ReadEdges == {ReadEdge(c) : c \in {o \in Call : Reads(o)}}

Forest ==
    /\ NoLoop(Edges(rows) \cup ReadEdges)
    /\ \A c \in Call : Moves(c) => NoLoop(MovedEdges(rows, calls[c].list))

LEMMA NoLoopPart ==
    ASSUME NEW E, NEW F, NoLoop(E),
           \A x, y \in Department : <<x, y>> \in F => <<x, y>> \in E
    PROVE  NoLoop(F)
<1> SUFFICES ASSUME NEW S \in SUBSET Department, Loop(S, F) PROVE FALSE
    BY DEF NoLoop
<1>1. Loop(S, E)
    BY DEF Loop
<1> QED BY <1>1 DEF NoLoop

(* New departments are below those that were there before them.            *)
LEMMA NoLoopNew ==
    ASSUME NEW n \in Nat, NEW E, NEW F, NoLoop(E),
           \A x, y \in Department : <<x, y>> \in F =>
               \/ x <= n /\ y <= n /\ <<x, y>> \in E
               \/ x \in {n + 1, n + 2} /\ y < x
    PROVE  NoLoop(F)
<1> SUFFICES ASSUME NEW S \in SUBSET Department, Loop(S, F) PROVE FALSE
    BY DEF NoLoop
<1>1. DEFINE T == {x \in S : x <= n}
<1>a. S \subseteq Int
    BY DEF Department
<1>b. ASSUME NEW x \in S PROVE x <= n \/ x \in {n + 1, n + 2}
    <2>1. PICK y \in S : <<x, y>> \in F
        BY DEF Loop
    <2> QED BY <2>1
<1>2. S \subseteq Int /\ \A x \in S : x <= n \/ x \in {n + 1, n + 2}
    BY <1>a, <1>b
<1>3. ASSUME n + 1 \in S PROVE T # {}
    <2>1. PICK y \in S : <<n + 1, y>> \in F
        BY <1>3 DEF Loop
    <2>2. y < n + 1
        BY <1>3, <2>1
    <2>3. y \in Int
        BY <1>2
    <2> QED BY <2>2, <2>3
<1>4. ASSUME n + 2 \in S PROVE T # {}
    <2>1. PICK y \in S : <<n + 2, y>> \in F
        BY <1>4 DEF Loop
    <2>2. y < n + 2 /\ y \in Int
        BY <1>2, <1>4, <2>1
    <2>3. y <= n \/ y = n + 1
        BY <2>2
    <2> QED BY <1>3, <2>3
<1>5. T # {}
    BY <1>2, <1>3, <1>4 DEF Loop
<1>6. ASSUME NEW x \in T PROVE \E y \in T : <<x, y>> \in E
    <2>1. x \in S /\ x <= n /\ x \in Int
        BY <1>2
    <2>2. PICK y \in S : <<x, y>> \in F
        BY <2>1 DEF Loop
    <2>3. y <= n /\ <<x, y>> \in E
        BY <2>1, <2>2
    <2> QED BY <2>3
<1>7. T \in SUBSET Department /\ Loop(T, E)
    BY <1>5, <1>6 DEF Loop
<1> QED BY <1>7 DEF NoLoop

LEMMA EdgesAre ==
    ASSUME NEW list, NEW x, NEW y
    PROVE  <<x, y>> \in Edges(list) <=> x \in DOMAIN list /\ list[x].parent = y
BY DEF Edges

LEMMA MovedEdgesAre ==
    ASSUME NEW list, NEW items, NEW x, NEW y
    PROVE  <<x, y>> \in MovedEdges(list, items) <=>
               /\ x \in DOMAIN list
               /\ y = IF x \in DOMAIN items THEN items[x].parent ELSE list[x].parent
BY DEF MovedEdges

LEMMA ReadEdgesAre ==
    ASSUME NEW x, NEW y
    PROVE  /\ <<x, y>> \in ReadEdges <=>
                  \E c \in Call : Reads(c) /\ x = calls[c].id /\ y = calls[c].list[x].parent
           /\ <<x, y>> \in ReadEdges' <=>
                  \E c \in Call : Reads(c)' /\ x = calls'[c].id /\ y = calls'[c].list[x].parent
BY DEF ReadEdges, ReadEdge, Reads

(* A step that leaves the rows it does not take away or add as they are.   *)
LEMMA ForestGrows ==
    ASSUME Shapes, Forest,
           \A d \in DOMAIN rows' : d <= lastId => d \in DOMAIN rows /\ rows'[d] = rows[d],
           \A d \in DOMAIN rows' : d > lastId =>
               d \in {lastId + 1, lastId + 2} /\ rows'[d].parent < d,
           \A o \in Call : Moves(o)' => Moves(o) /\ calls'[o].list = calls[o].list,
           \A o \in Call : Reads(o)' =>
               \/ Reads(o) /\ calls'[o].id = calls[o].id /\ calls'[o].list = calls[o].list
               \/ /\ calls'[o].id \in DOMAIN rows
                  /\ calls'[o].list[calls'[o].id] = rows[calls'[o].id]
    PROVE  Forest'
<1>0. PICK n \in Nat : n = lastId
    BY ShapesFacts
<1>1. PICK old, new : n = lastId /\ old = rows /\ new = rows'
    BY <1>0
<1>2. /\ DOMAIN old \subseteq 1 .. n
      /\ \A d \in DOMAIN old : d <= n /\ old[d].parent <= n
    BY <1>1 DEF Shapes, Given
<1>3. /\ \A d \in DOMAIN new : d <= n => d \in DOMAIN old /\ new[d] = old[d]
      /\ \A d \in DOMAIN new : d > n => d \in {n + 1, n + 2} /\ new[d].parent < d
    BY <1>1
<1>4. NoLoop(Edges(rows') \cup ReadEdges')
    <2>1. ASSUME NEW x \in Department, NEW y \in Department, <<x, y>> \in ReadEdges'
          PROVE  x <= n /\ y <= n /\ <<x, y>> \in Edges(old) \cup ReadEdges
        <3>1. PICK o \in Call : Reads(o)' /\ x = calls'[o].id /\ y = calls'[o].list[x].parent
            BY <2>1, ReadEdgesAre
        <3>2. CASE Reads(o) /\ calls'[o].id = calls[o].id /\ calls'[o].list = calls[o].list
            <4>1. <<x, y>> \in ReadEdges
                BY <3>1, <3>2, ReadEdgesAre
            <4>2. x \in 1 .. n /\ y \in 0 .. n
                BY <1>1, <3>1, <3>2 DEF Shapes, Carries, Given, Reads
            <4> QED BY <4>1, <4>2
        <3>3. CASE calls'[o].id \in DOMAIN rows /\ calls'[o].list[calls'[o].id] = rows[calls'[o].id]
            <4>1. x \in DOMAIN old /\ y = old[x].parent
                BY <1>1, <3>1, <3>3
            <4>2. <<x, y>> \in Edges(old)
                BY <4>1, EdgesAre
            <4> QED BY <1>2, <4>1, <4>2
        <3> QED BY <3>1, <3>2, <3>3
    <2>2. ASSUME NEW x \in Department, NEW y \in Department, <<x, y>> \in Edges(new)
          PROVE  \/ x <= n /\ y <= n /\ <<x, y>> \in Edges(old)
                 \/ x \in {n + 1, n + 2} /\ y < x
        <3>1. x \in DOMAIN new /\ y = new[x].parent /\ x \in Int
            BY <2>2, EdgesAre DEF Department
        <3>2. CASE x <= n
            <4>1. x \in DOMAIN old /\ y = old[x].parent
                BY <1>3, <3>1, <3>2
            <4> QED BY <1>2, <4>1, EdgesAre
        <3>3. CASE x > n
            BY <1>3, <3>1, <3>3
        <3> QED BY <3>1, <3>2, <3>3
    <2>3. PICK E, F : E = Edges(old) \cup ReadEdges /\ F = Edges(new) \cup ReadEdges'
        OBVIOUS
    <2>4. NoLoop(E)
        BY <1>1, <2>3 DEF Forest
    <2>5. \A x, y \in Department : <<x, y>> \in F =>
              \/ x <= n /\ y <= n /\ <<x, y>> \in E
              \/ x \in {n + 1, n + 2} /\ y < x
        BY <2>1, <2>2, <2>3
    <2>6. NoLoop(F)
        BY <2>4, <2>5, NoLoopNew
    <2> QED BY <1>1, <2>3, <2>6
<1>5. ASSUME NEW o \in Call, Moves(o)'
      PROVE  NoLoop(MovedEdges(rows', calls'[o].list))
    <2>1. PICK items : items = calls[o].list
        OBVIOUS
    <2>2. Moves(o) /\ calls'[o].list = items
        BY <1>5, <2>1
    <2>3. /\ DOMAIN items \subseteq 1 .. n
          /\ \A d \in DOMAIN items : d <= n /\ items[d].parent <= n
        BY <1>1, <2>1 DEF Shapes, Carries, Given
    <2>4. ASSUME NEW x \in Department, NEW y \in Department, <<x, y>> \in MovedEdges(new, items)
          PROVE  \/ x <= n /\ y <= n /\ <<x, y>> \in MovedEdges(old, items)
                 \/ x \in {n + 1, n + 2} /\ y < x
        <3>1. /\ x \in DOMAIN new /\ x \in Int
              /\ y = IF x \in DOMAIN items THEN items[x].parent ELSE new[x].parent
            BY <2>4, MovedEdgesAre DEF Department
        <3>2. CASE x <= n
            <4>1. x \in DOMAIN old /\ new[x] = old[x]
                BY <1>3, <3>1, <3>2
            <4>2. <<x, y>> \in MovedEdges(old, items)
                BY <3>1, <4>1, MovedEdgesAre
            <4>3. y <= n
                BY <1>2, <2>3, <3>1, <4>1
            <4> QED BY <3>2, <4>2, <4>3
        <3>3. CASE x > n
            <4>1. x \notin DOMAIN items
                BY <2>3, <3>1, <3>3
            <4> QED BY <1>3, <3>1, <3>3, <4>1
        <3> QED BY <3>1, <3>2, <3>3
    <2>5. NoLoop(MovedEdges(old, items))
        BY <1>1, <2>1, <2>2 DEF Forest
    <2>6. PICK E, F : E = MovedEdges(old, items) /\ F = MovedEdges(new, items)
        OBVIOUS
    <2>7. NoLoop(F)
        BY <2>4, <2>5, <2>6, NoLoopNew
    <2> QED BY <1>1, <2>2, <2>6, <2>7
<1> QED BY <1>4, <1>5 DEF Forest, Moves

(* What is created is new, and below what was there or was created before. *)
LEMMA CreatesBelow ==
    ASSUME Shapes, NEW c \in Call,
           \/ \E parent \in Department \cup {None} : CreateDepartment(c, parent)
           \/ \E replace \in BOOLEAN, children \in 0 .. 1 :
                 BatchCreateDepartments(c, replace, children)
    PROVE  \A d \in DOMAIN rows' : d > lastId =>
               d \in {lastId + 1, lastId + 2} /\ rows'[d].parent < d
<1>1. /\ DOMAIN rows \subseteq 1 .. lastId /\ lastId \in Nat
      /\ lastId + 1 > lastId /\ lastId + 2 > lastId /\ lastId + 2 # lastId + 1
    BY ShapesFacts DEF Shapes, Given
<1>2. ASSUME NEW p \in Department \cup {None}, CreateDepartment(c, p),
             NEW d \in DOMAIN rows', d > lastId
      PROVE  d \in {lastId + 1, lastId + 2} /\ rows'[d].parent < d
    <2>1. PICK new \in List : /\ rows' = new /\ p \in 0 .. lastId
                              /\ Added(new, rows, lastId + 1, p)
        BY <1>2, CreateEffect
    <2>2. d = lastId + 1 /\ new[d].parent = p
        BY <1>1, <1>2, <2>1 DEF Added
    <2> QED BY <1>1, <2>1, <2>2
<1>3. ASSUME NEW replace \in BOOLEAN, NEW children \in 0 .. 1,
             BatchCreateDepartments(c, replace, children),
             NEW d \in DOMAIN rows', d > lastId
      PROVE  d \in {lastId + 1, lastId + 2} /\ rows'[d].parent < d
    <2>1. PICK kept \in {<<>>, rows}, one \in List, new \in List :
              /\ rows' = new /\ Added(one, kept, lastId + 1, None)
              /\ \/ new = one
                 \/ \E p \in DOMAIN kept \cup {lastId + 1} : Added(new, one, lastId + 2, p)
        BY <1>3, BatchEffect
    <2>2. DOMAIN kept \subseteq 1 .. lastId
        BY <1>1, <2>1, EmptyList
    <2>3. /\ DOMAIN one = DOMAIN kept \cup {lastId + 1} /\ one[lastId + 1].parent = 0
        BY <2>1 DEF Added, None
    <2>4. CASE new = one
        <3>1. d = lastId + 1
            BY <1>1, <1>3, <2>1, <2>2, <2>3, <2>4
        <3> QED BY <1>1, <2>1, <2>3, <2>4, <3>1
    <2>5. ASSUME NEW p \in DOMAIN kept \cup {lastId + 1}, Added(new, one, lastId + 2, p)
          PROVE  d \in {lastId + 1, lastId + 2} /\ rows'[d].parent < d
        <3>1. /\ DOMAIN new = DOMAIN one \cup {lastId + 2} /\ new[lastId + 2].parent = p
              /\ \A x \in DOMAIN one : x # lastId + 2 => new[x] = one[x]
            BY <2>5 DEF Added, SameRows
        <3>2. p < lastId + 2
            BY <1>1, <2>2, <2>5
        <3>3. d = lastId + 1 \/ d = lastId + 2
            BY <1>1, <1>3, <2>1, <2>2, <2>3, <3>1
        <3> QED BY <1>1, <2>1, <2>3, <3>1, <3>2, <3>3
    <2> QED BY <2>1, <2>4, <2>5
<1> QED BY <1>2, <1>3

LEMMA ForestQuiet ==
    ASSUME Shapes, Forest, NEW c \in Call, Only(c), ~Moves(c)', ~Reads(c)',
           \A d \in DOMAIN rows' : d <= lastId => d \in DOMAIN rows /\ rows'[d] = rows[d],
           \A d \in DOMAIN rows' : d > lastId =>
               d \in {lastId + 1, lastId + 2} /\ rows'[d].parent < d
    PROVE  Forest'
<1>1. ASSUME NEW o \in Call, Moves(o)' PROVE Moves(o) /\ calls'[o].list = calls[o].list
    BY <1>1 DEF Only, Moves
<1>2. ASSUME NEW o \in Call, Reads(o)'
      PROVE  Reads(o) /\ calls'[o].id = calls[o].id /\ calls'[o].list = calls[o].list
    BY <1>2 DEF Only, Reads
<1> QED BY <1>1, <1>2, ForestGrows

LEMMA SaveForest ==
    ASSUME Shapes, Peace, Forest, NEW c \in Call, SaveDepartment(c), ~Refused(c), ~strayed'
    PROVE  Forest'
<1>1. PICK new, d :
          /\ new \in List /\ rows' = new /\ d = calls[c].id
          /\ DOMAIN new = DOMAIN rows \cup {d}
          /\ SameRows(new, rows, DOMAIN rows \ {d})
          /\ new[d].parent = calls[c].list[d].parent
          /\ Answered(c, calls[c].list)
    BY SaveEffect
<1>2. Only(c) /\ calls'[c].kind = "level" /\ calls'[c].phase = "done" /\ Reads(c)
    BY <1>1 DEF Answered, Phased, SaveDepartment, Waits, Reads
<1>3. PICK old : old = rows
    OBVIOUS
<1>4. ASSUME NEW x \in Department, NEW y \in Department, <<x, y>> \in Edges(new) \cup ReadEdges'
      PROVE  <<x, y>> \in Edges(old) \cup ReadEdges
    <2>1. CASE <<x, y>> \in Edges(new)
        <3>1. x \in DOMAIN new /\ new[x].parent = y
            BY <2>1, EdgesAre
        <3>2. CASE x = d
            <4>1. Reads(c) /\ x = calls[c].id /\ y = calls[c].list[x].parent
                BY <1>1, <1>2, <3>1, <3>2
            <4> QED BY <4>1, ReadEdgesAre
        <3>3. CASE x # d
            <4>1. x \in DOMAIN old /\ old[x].parent = y
                BY <1>1, <1>3, <3>1, <3>3 DEF SameRows
            <4> QED BY <4>1, EdgesAre
        <3> QED BY <3>2, <3>3
    <2>2. CASE <<x, y>> \in ReadEdges'
        <3>1. PICK o \in Call : Reads(o)' /\ x = calls'[o].id /\ y = calls'[o].list[x].parent
            BY <2>2, ReadEdgesAre
        <3>2. calls'[o] = calls[o]
            BY <1>2, <3>1 DEF Only, Reads
        <3>3. Reads(o) /\ x = calls[o].id /\ y = calls[o].list[x].parent
            BY <3>1, <3>2 DEF Reads
        <3> QED BY <3>3, ReadEdgesAre
    <2> QED BY <1>4, <2>1, <2>2
<1>5. NoLoop(Edges(rows') \cup ReadEdges')
    <2>1. PICK E, F : E = Edges(old) \cup ReadEdges /\ F = Edges(new) \cup ReadEdges'
        OBVIOUS
    <2>2. NoLoop(E)
        BY <1>3, <2>1 DEF Forest
    <2>3. NoLoop(F)
        BY <1>4, <2>1, <2>2, NoLoopPart
    <2> QED BY <1>1, <2>1, <2>3
<1>6. \A o \in Call : ~Moves(o)'
    <2>1. \A o \in Call \ {c} : calls[o].kind # "reorder"
        BY <1>2, ApartFacts DEF Peace, Reads
    <2> QED BY <1>2, <2>1 DEF Moves, Only
<1> QED BY <1>5, <1>6 DEF Forest, Moves

LEMMA ReorderForest ==
    ASSUME Shapes, Peace, Forest, NEW c \in Call, ReorderDepartments(c), ~Refused(c), ~strayed'
    PROVE  Forest'
<1>1. PICK new, items :
          /\ new \in List /\ rows' = new /\ items = calls[c].list /\ DOMAIN new = DOMAIN rows
          /\ \A x \in DOMAIN rows :
                new[x].parent = IF x \in DOMAIN items THEN items[x].parent ELSE rows[x].parent
          /\ Answered(c, calls[c].list)
    BY ReorderEffect
<1>2. Only(c) /\ calls'[c].kind = "reorder" /\ calls'[c].phase = "done" /\ Moves(c)
    BY <1>1 DEF Answered, Phased, ReorderDepartments, Waits, Moves
<1>3. \A o \in Call \ {c} : calls[o].kind \notin {"reorder", "level"}
    BY <1>2, ApartFacts DEF Peace, Moves
<1>4. \A o \in Call : ~Moves(o)' /\ ~Reads(o)'
    BY <1>2, <1>3 DEF Moves, Reads, Only
<1>5. PICK old : old = rows
    OBVIOUS
<1>6. ASSUME NEW x \in Department, NEW y \in Department, <<x, y>> \in Edges(new) \cup ReadEdges'
      PROVE  <<x, y>> \in MovedEdges(old, items)
    <2>1. <<x, y>> \notin ReadEdges'
        BY <1>4, ReadEdgesAre
    <2>2. x \in DOMAIN new /\ new[x].parent = y
        BY <1>6, <2>1, EdgesAre
    <2>3. /\ x \in DOMAIN old
          /\ y = IF x \in DOMAIN items THEN items[x].parent ELSE old[x].parent
        BY <1>1, <1>5, <2>2
    <2> QED BY <2>3, MovedEdgesAre
<1>7. NoLoop(Edges(rows') \cup ReadEdges')
    <2>1. PICK E, F : E = MovedEdges(old, items) /\ F = Edges(new) \cup ReadEdges'
        OBVIOUS
    <2>2. NoLoop(E)
        BY <1>1, <1>2, <1>5, <2>1 DEF Forest
    <2>3. NoLoop(F)
        BY <1>6, <2>1, <2>2, NoLoopPart
    <2> QED BY <1>1, <2>1, <2>3
<1> QED BY <1>4, <1>7 DEF Forest, Moves

LEMMA ServeForest ==
    ASSUME Shapes, Peace, Forest, NEW c \in Call, Serves(c), ~strayed'
    PROVE  Forest'
<1>1. Only(c) /\ \A d \in DOMAIN rows : d <= lastId /\ ~(d > lastId)
    BY OneChanges, RowsGiven, ShapesFacts
<1>2. ASSUME Refused(c) PROVE Forest'
    <2>1. rows' = rows /\ calls'[c].phase = "failed"
        BY <1>2 DEF Refused, Phased
    <2> QED BY <1>1, <2>1, ForestQuiet DEF Moves, Reads
<1>3. CASE ListDepartments(c)
    <2>1. rows' = rows /\ calls[c].kind = "fetch"
        BY <1>3 DEF ListDepartments, Waits
    <2>2. calls'[c].kind = "fetch"
        BY <2>1, CallFacts
    <2> QED BY <1>1, <2>1, <2>2, ForestQuiet DEF Moves, Reads
<1>4. CASE DeleteDepartment(c) /\ ~Refused(c)
    <2>1. \A d \in DOMAIN rows' : d \in DOMAIN rows /\ rows'[d] = rows[d]
        BY <1>4, DeleteEffect DEF SameRows
    <2>2. calls'[c].kind = "delete"
        BY <1>4, CallFacts DEF DeleteDepartment, Waits
    <2> QED BY <1>1, <2>1, <2>2, ForestQuiet DEF Moves, Reads
<1>5. CASE UpdateDepartment(c) /\ ~Refused(c)
    <2>1. PICK list \in List :
                 /\ Phased(c, "read", list)
                 /\ calls[c].id \in DOMAIN rows /\ list[calls[c].id] = rows[calls[c].id]
                 /\ rows' = rows
        BY <1>5, UpdateEffect
    <2>2. ASSUME NEW o \in Call, Moves(o)' PROVE Moves(o) /\ calls'[o].list = calls[o].list
        <3>1. o # c
            BY <2>1, <2>2 DEF Moves, Phased
        <3> QED BY <1>1, <2>2, <3>1 DEF Only, Moves
    <2>3. ASSUME NEW o \in Call, Reads(o)'
          PROVE  \/ Reads(o) /\ calls'[o].id = calls[o].id /\ calls'[o].list = calls[o].list
                 \/ /\ calls'[o].id \in DOMAIN rows
                    /\ calls'[o].list[calls'[o].id] = rows[calls'[o].id]
        <3>1. CASE o = c
            BY <2>1, <3>1 DEF Phased
        <3>2. CASE o # c
            BY <1>1, <2>3, <3>2 DEF Only, Reads
        <3> QED BY <3>1, <3>2
    <2> QED BY <1>1, <2>1, <2>2, <2>3, ForestGrows
<1>6. CASE SaveDepartment(c) /\ ~Refused(c)
    BY <1>6, SaveForest
<1>7. CASE ReorderDepartments(c) /\ ~Refused(c)
    BY <1>7, ReorderForest
<1>8. CASE \/ \E parent \in Department \cup {None} : CreateDepartment(c, parent)
           \/ \E replace \in BOOLEAN, children \in 0 .. 1 :
                 BatchCreateDepartments(c, replace, children)
    <2>1. /\ \A d \in DOMAIN rows' : d <= lastId => d \in DOMAIN rows /\ rows'[d] = rows[d]
          /\ calls[c].kind = "create"
        BY <1>8, CreatesIs
    <2>2. \A d \in DOMAIN rows' : d > lastId =>
              d \in {lastId + 1, lastId + 2} /\ rows'[d].parent < d
        BY <1>8, CreatesBelow
    <2>3. calls'[c].kind = "create"
        BY <2>1, CallFacts
    <2> QED BY <1>1, <2>1, <2>2, <2>3, ForestQuiet DEF Moves, Reads
<1>9. CASE RefuseCreate(c)
    BY <1>2, <1>9, RefusedIs DEF RefuseCreate
<1> QED BY <1>2, <1>3, <1>4, <1>5, <1>6, <1>7, <1>8, <1>9 DEF Serves

(* What is known of the list with the departments that are being deleted.  *)
LEMMA WholeIs ==
    ASSUME NEW x
    PROVE  /\ x \in DOMAIN Whole <=> Seen(x)
           /\ x \in DOMAIN shown => x \in DOMAIN Whole /\ Whole[x] = shown[x]
           /\ x \in DOMAIN Whole /\ x \notin DOMAIN shown =>
                 \E o \in Call : Deletes(o) /\ calls[o].id = x /\ Whole[x] = calls[o].list[x]
<1>1. x \in DOMAIN Whole <=> Seen(x)
    BY DEF Whole, Hidden, Seen, Deletes
<1>2. x \in DOMAIN shown => x \in DOMAIN Whole /\ Whole[x] = shown[x]
    BY DEF Whole
<1>3. ASSUME x \in DOMAIN Whole, x \notin DOMAIN shown
      PROVE  \E o \in Call : Deletes(o) /\ calls[o].id = x /\ Whole[x] = calls[o].list[x]
    <2>1. PICK o : o = CHOOSE c \in Hidden : calls[c].id = x
        OBVIOUS
    <2>2. \E c \in Hidden : calls[c].id = x
        BY <1>3 DEF Whole
    <2>3. o \in Hidden /\ calls[o].id = x
        BY <2>1, <2>2
    <2>4. Whole[x] = calls[o].list[x]
        BY <1>3, <2>1 DEF Whole
    <2> QED BY <2>3, <2>4 DEF Hidden, Deletes
<1> QED BY <1>1, <1>2, <1>3

(* A department on the page, or being deleted, that the table holds has    *)
(* the parent there that it has on the page, when no move is under way.    *)
LEMMA WholeKnown ==
    ASSUME Known, ~searching, \A o \in Call : ~Moves(o), NEW x \in DOMAIN Whole, x \in DOMAIN rows
    PROVE  Whole[x].parent = rows[x].parent /\ ParentSeen(Whole[x].parent)
<1>1. CASE x \in DOMAIN shown
    <2>1. Whole[x] = shown[x]
        BY <1>1, WholeIs
    <2>2. shown[x].parent = rows[x].parent /\ ParentSeen(shown[x].parent)
        BY <1>1 DEF Known, ShownKnown, Placed
    <2> QED BY <2>1, <2>2
<1>2. CASE x \notin DOMAIN shown
    <2>1. PICK o \in Call : Deletes(o) /\ calls[o].id = x /\ Whole[x] = calls[o].list[x]
        BY <1>2, WholeIs
    <2>2. calls[o].list[x].parent = rows[x].parent /\ ParentSeen(calls[o].list[x].parent)
        BY <2>1 DEF Known, DeletesKnown, DeleteKnown, Placed
    <2> QED BY <2>1, <2>2
<1> QED BY <1>1, <1>2

(* A department that is not dropped below itself closes no loop.           *)
LEMMA DragForest ==
    ASSUME Shapes, Peace, PageKnown, Forest,
           NEW c \in Call, NEW d \in Department, NEW over \in Department,
           HandleDragEnd(c, d, over), ~strayed', ~looped'
    PROVE  Forest'
<1>1. PICK r \in Request, left \in List :
          /\ Begin(c, r) /\ shown' = left
          /\ DOMAIN left = DOMAIN shown
          /\ \A x \in DOMAIN left :
                left[x].parent = IF x = d THEN shown[over].parent ELSE shown[x].parent
          /\ r.kind = "reorder" /\ r.phase = "sent" /\ r.list = left
          /\ d \in DOMAIN shown /\ over \in DOMAIN shown
    BY DragRequest
<1>2. rows' = rows /\ searching' = searching /\ ~searching /\ d \notin Above(Whole, over)
    BY DEF HandleDragEnd, table
<1>3. /\ Only(c) /\ calls'[c].kind = "reorder" /\ calls'[c].list = left
      /\ \A o \in Call : calls[o].kind # "level" /\ calls[o].kind # "reorder"
    BY <1>1, <1>2, NewIs
<1>4. \A o \in Call : ~Moves(o) /\ ~Reads(o) /\ ~Reads(o)' /\ (Moves(o)' => o = c)
    BY <1>3 DEF Moves, Reads, Only
<1>5. Known
    <2>1. ~Failing
        BY <1>3 DEF Failing
    <2>2. ~Fetching
        <3>1. \A o \in Call \ {c} : Busy(o) => ~Disturb(calls[o], calls'[c])
            BY <1>1, <1>2, BeginApart DEF Peace
        <3>2. \A o \in Call \ {c} : calls[o].kind # "fetch"
            BY <1>3, <3>1 DEF Disturb, Busy
        <3>3. calls[c].kind = "none"
            BY <1>1, NoCallFields DEF Begin
        <3> QED BY <3>2, <3>3 DEF Fetching
    <2> QED BY <2>1, <2>2 DEF PageKnown, Rough
<1>6. PICK old, whole, p : old = rows /\ whole = Whole /\ p = shown[over].parent
    OBVIOUS
<1>7. PICK U \in SUBSET Department :
          UpClosed(whole, U) /\ Up(whole, over) \in U \cup {None} /\ d \notin U
    BY <1>2, <1>6 DEF Above
<1>8. p \in U \cup {None}
    <2>1. over \in DOMAIN whole /\ whole[over].parent = p
        BY <1>1, <1>6, WholeIs
    <2> QED BY <1>7, <2>1 DEF Up
<1>9. NoLoop(Edges(old))
    <2>1. PICK E, F : E = Edges(old) \cup ReadEdges /\ F = Edges(old)
        OBVIOUS
    <2> QED BY <1>6, <2>1, NoLoopPart DEF Forest
<1>10. ASSUME NEW x, x \in DOMAIN old, x \in DOMAIN left, x # d
       PROVE  left[x].parent = old[x].parent
    <2>1. shown[x].parent = rows[x].parent
        BY <1>1, <1>4, <1>5, <1>6, <1>10 DEF Known, ShownKnown, Placed
    <2> QED BY <1>1, <1>6, <1>10, <2>1
<1>11. NoLoop(MovedEdges(old, left))
    <2> SUFFICES ASSUME NEW S \in SUBSET Department, Loop(S, MovedEdges(old, left))
                 PROVE  FALSE
        BY DEF NoLoop
    <2>1. ASSUME NEW x \in S, x # d PROVE \E y \in S : x \in DOMAIN old /\ old[x].parent = y
        <3>1. PICK y \in S : <<x, y>> \in MovedEdges(old, left)
            BY DEF Loop
        <3>2. x \in DOMAIN old /\ y = IF x \in DOMAIN left THEN left[x].parent ELSE old[x].parent
            BY <3>1, MovedEdgesAre
        <3> QED BY <1>10, <2>1, <3>2
    <2>2. CASE d \notin S
        <3>1. ASSUME NEW x \in S PROVE \E y \in S : <<x, y>> \in Edges(old)
            <4>1. PICK y \in S : x \in DOMAIN old /\ old[x].parent = y
                BY <2>1, <2>2
            <4>2. <<x, y>> \in Edges(old)
                BY <4>1, EdgesAre
            <4> QED BY <4>2
        <3>2. Loop(S, Edges(old))
            BY <3>1 DEF Loop
        <3> QED BY <1>9, <3>2 DEF NoLoop
    <2>3. CASE d \in S
        <3>1. p \in S
            <4>1. PICK y \in S : <<d, y>> \in MovedEdges(old, left)
                BY <2>3 DEF Loop
            <4>2. y = left[d].parent
                BY <1>1, <4>1, MovedEdgesAre
            <4> QED BY <1>1, <1>6, <4>1, <4>2
        <3>2. p \in U /\ p # d
            <4>1. p # None
                BY <3>1 DEF Department, None
            <4> QED BY <1>7, <1>8, <4>1
        <3>3. p \in DOMAIN whole
            <4>1. p \in DOMAIN rows
                BY <1>6, <2>1, <3>1, <3>2
            <4>2. Seen(p)
                BY <1>1, <1>2, <1>5, <1>6, <4>1 DEF Known, ShownKnown, ParentSeen
            <4> QED BY <1>6, <4>2, WholeIs
        <3>4. PICK Q : Q = {x \in S : x \in U /\ x \in DOMAIN whole}
            OBVIOUS
        <3>5. ASSUME NEW x \in Q PROVE \E y \in Q : <<x, y>> \in Edges(old)
            <4>1. x \in S /\ x \in U /\ x \in DOMAIN whole /\ x # d
                BY <1>7, <3>4
            <4>2. PICK y \in S : x \in DOMAIN old /\ old[x].parent = y
                BY <2>1, <4>1
            <4>3. whole[x].parent = y /\ ParentSeen(y)
                BY <1>2, <1>4, <1>5, <1>6, <4>1, <4>2, WholeKnown
            <4>4. y \in U
                <5>1. Up(whole, x) = y /\ y # None
                    BY <4>1, <4>2, <4>3 DEF Up, Department, None
                <5> QED BY <1>7, <4>1, <5>1 DEF UpClosed
            <4>5. y # d
                BY <1>7, <4>4
            <4>6. y \in DOMAIN rows
                BY <1>6, <2>1, <4>2, <4>5
            <4>7. y \in DOMAIN whole
                BY <1>6, <4>3, <4>6, WholeIs DEF ParentSeen
            <4>8. y \in Q /\ <<x, y>> \in Edges(old)
                BY <3>4, <4>2, <4>4, <4>7, EdgesAre
            <4> QED BY <4>8
        <3>6. Q \in SUBSET Department /\ Loop(Q, Edges(old))
            BY <3>1, <3>2, <3>3, <3>4, <3>5 DEF Loop
        <3> QED BY <1>9, <3>6 DEF NoLoop
    <2> QED BY <2>2, <2>3
<1>12. NoLoop(Edges(rows') \cup ReadEdges')
    <2>1. ASSUME NEW x \in Department, NEW y \in Department, <<x, y>> \in ReadEdges' PROVE FALSE
        BY <1>4, <2>1, ReadEdgesAre
    <2>2. PICK E, F : E = Edges(old) /\ F = Edges(old) \cup ReadEdges'
        OBVIOUS
    <2>3. NoLoop(F)
        BY <1>9, <2>1, <2>2, NoLoopPart
    <2> QED BY <1>2, <1>6, <2>2, <2>3
<1>13. ASSUME NEW o \in Call, Moves(o)' PROVE NoLoop(MovedEdges(rows', calls'[o].list))
    BY <1>2, <1>3, <1>4, <1>6, <1>11, <1>13
<1> QED BY <1>12, <1>13 DEF Forest, Moves

LEMMA OtherForest ==
    ASSUME Shapes, Peace, Forest, NEW c \in Call, ~strayed',
           Administers(c) \/ Answers(c),
           \A d \in Department : \A over \in Department : ~HandleDragEnd(c, d, over)
    PROVE  Forest'
<1>1. Only(c)
    BY OneChanges
<1>2. /\ \A d \in DOMAIN rows' : d <= lastId => d \in DOMAIN rows /\ rows'[d] = rows[d]
      /\ \A d \in DOMAIN rows' : d > lastId =>
            d \in {lastId + 1, lastId + 2} /\ rows'[d].parent < d
    <2>1. rows' = rows
        BY DEF Administers, Answers, Search, Submit, HandleDelete, HandleVisibilityChange,
           ShowFetched, DeleteDone, RevertDelete, ChangeAnswered, Settled, table
    <2>2. \A d \in DOMAIN rows : d <= lastId /\ ~(d > lastId)
        BY RowsGiven, ShapesFacts
    <2> QED BY <2>1, <2>2
<1>3. ~Moves(c)' /\ ~Reads(c)'
    <2>1. CASE Search(c)
        BY <2>1, SearchAlone DEF Peace, Moves, Reads
    <2>2. CASE Submit(c)
        <3>1. Begin(c, SubmitRequest) /\ searching' = searching
            BY <2>2 DEF Submit, SubmitRequest, page
        <3>2. PICK r \in Request : r = SubmitRequest
            BY SubmitRequestIs
        <3>3. Begin(c, r) /\ r.kind = "create"
            BY <3>1, <3>2, SubmitRequestIs
        <3>4. calls'[c].kind = "create"
            BY <3>1, <3>3, NewIs
        <3> QED BY <3>4 DEF Moves, Reads
    <2>3. ASSUME NEW d \in Department, HandleDelete(c, d) PROVE ~Moves(c)' /\ ~Reads(c)'
        <3>1. PICK r \in Request, left \in List :
                  /\ Begin(c, r) /\ shown' = left
                  /\ DOMAIN left = DOMAIN shown \ {d}
                  /\ \A x \in DOMAIN left : left[x] = shown[x]
                  /\ r.kind = "delete" /\ r.phase = "sent" /\ r.id = d /\ r.list = shown
                  /\ d \in DOMAIN shown
            BY <2>3, DeleteRequest
        <3>2. searching' = searching
            BY <2>3 DEF HandleDelete
        <3>3. calls'[c].kind = "delete"
            BY <3>1, <3>2, NewIs
        <3> QED BY <3>3 DEF Moves, Reads
    <2>4. ASSUME NEW d \in Department, NEW l \in Level, HandleVisibilityChange(c, d, l)
          PROVE  ~Moves(c)' /\ ~Reads(c)'
        <3>1. PICK r \in Request : Begin(c, r) /\ r.kind = "level" /\ r.phase = "sent"
            BY <2>4, LevelRequest
        <3>2. searching' = searching
            BY <2>4 DEF HandleVisibilityChange
        <3>3. calls'[c].kind = "level" /\ calls'[c].phase = "sent"
            BY <3>1, <3>2, NewIs
        <3> QED BY <3>3 DEF Moves, Reads
    <2>5. CASE ChangeAnswered(c) /\ Refetches(calls[c])
        BY <2>5, RefetchIs DEF Moves, Reads
    <2>6. CASE Answers(c) /\ ~(ChangeAnswered(c) /\ Refetches(calls[c]))
        <3>1. End(c)
            BY <2>6 DEF Answers, ShowFetched, DeleteDone, RevertDelete, ChangeAnswered
        <3>2. calls'[c].kind = "none"
            BY <3>1, ShapesFacts, EndIs, NoCallFields
        <3> QED BY <3>2 DEF Moves, Reads
    <2> QED BY <2>1, <2>2, <2>3, <2>4, <2>5, <2>6 DEF Administers
<1> QED BY <1>1, <1>2, <1>3, ForestQuiet

LEMMA ForestStep ==
    ASSUME Shapes, Peace, PageKnown, Forest, [Next]_vars, ~strayed', ~looped'
    PROVE  Forest'
<1>1. ASSUME NEW c \in Call, Serves(c) PROVE Forest'
    BY <1>1, ServeForest
<1>2. ASSUME NEW c \in Call, NEW d \in Department, NEW over \in Department,
             HandleDragEnd(c, d, over)
      PROVE  Forest'
    BY <1>2, DragForest
<1>3. ASSUME NEW c \in Call, Administers(c) \/ Answers(c) PROVE Forest'
    BY <1>2, <1>3, OtherForest
<1>4. CASE (\E d \in Department : Staff(d)) \/ UNCHANGED vars
    <2>1. calls' = calls /\ rows' = rows
        BY <1>4 DEF Staff, vars, table
    <2> QED BY <2>1 DEF Forest, ReadEdges, ReadEdge, Reads, Moves, NoLoop, Loop, Edges,
           MovedEdges
<1> QED BY <1>1, <1>3, <1>4, Steps

LEMMA ForestInit == Init => Forest
<1> SUFFICES ASSUME Init PROVE Forest
    OBVIOUS
<1>1. PICK first \in Call :
          calls = [x \in Call |-> IF x = first THEN Fetch ELSE NoCall]
    BY DEF Init
<1>2. \A c \in Call : ~Moves(c) /\ ~Reads(c)
    BY <1>1 DEF Fetch, NoCall, Moves, Reads
<1>3. PICK old, F : old = rows /\ F = Edges(old) \cup ReadEdges
    OBVIOUS
<1>4. ASSUME NEW x \in Department, NEW y \in Department, <<x, y>> \in F PROVE FALSE
    <2>1. <<x, y>> \in Edges(old)
        BY <1>2, <1>3, <1>4, ReadEdgesAre
    <2>2. x \in DOMAIN old /\ old[x].parent = y
        BY <2>1, EdgesAre
    <2>3. y = None
        BY <1>3, <2>2 DEF Init
    <2> QED BY <2>3 DEF Department, None
<1>5. NoLoop(F)
    BY <1>4 DEF NoLoop, Loop
<1> QED BY <1>2, <1>3, <1>5 DEF Forest

LEMMA ForestHolds == Spec => [](Calm /\ (strayed \/ looped \/ Forest))
<1> DEFINE Inv == Calm /\ (strayed \/ looped \/ Forest)
<1>1. Init => Inv
    BY ShapesInit, PageInit, ForestInit DEF Calm
<1>2. Inv /\ [Next]_vars => Inv'
    <2> SUFFICES ASSUME Inv, [Next]_vars PROVE Inv'
        OBVIOUS
    <2>1. Shapes'
        BY ShapesStep DEF Calm
    <2>2. ASSUME ~strayed' PROVE ~strayed /\ Peace' /\ PageKnown'
        <3>1. ~strayed
            BY <2>2, NotStrayedBefore DEF Calm
        <3> QED BY <2>2, <3>1, PeaceStep, PageKnownStep DEF Calm
    <2>3. ASSUME ~looped' PROVE ~looped
        <3>1. ASSUME NEW c \in Call, Administers(c) PROVE ~looped
            BY <2>3, <3>1 DEF Administers, Search, Submit, HandleDelete,
               HandleVisibilityChange, HandleDragEnd
        <3>2. ASSUME NEW c \in Call, Serves(c) PROVE ~looped
            BY <2>3, <3>2 DEF Serves, ListDepartments, DeleteDepartment, UpdateDepartment,
               SaveDepartment, ReorderDepartments, CreateDepartment, BatchCreateDepartments,
               RefuseCreate, Serve
        <3>3. ASSUME NEW c \in Call, Answers(c) PROVE ~looped
            BY <2>3, <3>3 DEF Answers, ShowFetched, DeleteDone, RevertDelete, ChangeAnswered,
               Settled
        <3> QED BY <2>3, <3>1, <3>2, <3>3, Steps DEF Staff, vars
    <2>4. ASSUME ~strayed', ~looped' PROVE Forest'
        BY <2>2, <2>3, <2>4, ForestStep DEF Calm
    <2> QED BY <2>1, <2>2, <2>4 DEF Calm
<1> QED BY <1>1, <1>2, PTL DEF Spec

(* What is above itself is on a loop.                                      *)
LEMMA NotAboveItself ==
    ASSUME NEW list, NoLoop(Edges(list)), NEW d \in Department,
           \A x \in DOMAIN list : list[x].parent \in Department \cup {None}
    PROVE  d \notin Above(list, d)
<1> SUFFICES ASSUME d \in Above(list, d) PROVE FALSE
    OBVIOUS
<1>1. PICK C : C = {x \in Department : d \in Above(list, x)}
    OBVIOUS
<1>2. ASSUME NEW x \in C PROVE \E y \in C : <<x, y>> \in Edges(list)
    <2>1. \A S \in SUBSET Department :
              UpClosed(list, S) /\ Up(list, x) \in S \cup {None} => d \in S
        BY <1>1 DEF Above
    <2>2. Up(list, x) # None
        <3>1. {} \in SUBSET Department /\ UpClosed(list, {})
            BY DEF UpClosed
        <3> QED BY <2>1, <3>1
    <2>3. PICK p : p = Up(list, x)
        OBVIOUS
    <2>4. x \in DOMAIN list /\ p = list[x].parent /\ p \in Department
        BY <2>2, <2>3 DEF Up
    <2>5. ASSUME p # d PROVE d \in Above(list, p)
        <3> SUFFICES ASSUME NEW S \in SUBSET Department, UpClosed(list, S),
                            Up(list, p) \in S \cup {None}
                     PROVE  d \in S
            BY DEF Above
        <3>1. PICK T : T = S \cup {p}
            OBVIOUS
        <3>2. T \in SUBSET Department /\ UpClosed(list, T)
            BY <2>4, <3>1 DEF UpClosed
        <3>3. d \in T
            BY <2>1, <2>3, <3>1, <3>2
        <3> QED BY <2>5, <3>1, <3>3
    <2>6. p \in C
        BY <1>1, <2>4, <2>5
    <2>7. <<x, p>> \in Edges(list)
        BY <2>4, EdgesAre
    <2> QED BY <2>6, <2>7
<1>3. C \in SUBSET Department /\ Loop(C, Edges(list))
    BY <1>1, <1>2 DEF Loop
<1> QED BY <1>3 DEF NoLoop

(* As long as no department is dropped below itself, and the page does not *)
(* stray, no department is above itself in the table: neither a row that   *)
(* UpdateDepartment saves as it read it, nor a move of a list that is not  *)
(* the newest, nor a creation below a department that is gone closes a     *)
(* loop that buildTree would not show.                                     *)
THEOREM TableIsForestHolds == Spec => []TableIsForest
<1>1. ASSUME Shapes, Forest, NEW d \in DOMAIN rows PROVE d \notin Above(rows, d)
    <2>1. PICK list : list = rows
        OBVIOUS
    <2>2. NoLoop(Edges(list))
        <3>1. PICK E, F : E = Edges(list) \cup ReadEdges /\ F = Edges(list)
            OBVIOUS
        <3> QED BY <1>1, <2>1, <3>1, NoLoopPart DEF Forest
    <2>3. list \in List /\ d \in DOMAIN list
        BY <1>1, <2>1, ShapesFacts
    <2>4. /\ \A x \in DOMAIN list : list[x].parent \in Department \cup {None}
          /\ d \in Department
        BY <2>3, ListElements, RowFields
    <2> QED BY <2>1, <2>2, <2>4, NotAboveItself
<1>2. Calm /\ (strayed \/ looped \/ Forest) => TableIsForest
    BY <1>1 DEF Calm, TableIsForest
<1> QED BY <1>2, ForestHolds, PTL
=====
