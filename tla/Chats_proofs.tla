----------------------------- MODULE Chats_proofs -----------------------------
(***************************************************************************)
(* Proofs about Chats, for any number of questions, pages and operations.  *)
(***************************************************************************)
EXTENDS Chats, SequenceTheorems, FiniteSetTheorems, TLAPS

-----------------------------------------------------------------------------
(* The parts of the inductive invariant.  A question under way is one of   *)
(* its own, and knows its chat as soon as it is stored.                    *)
Active(a) == asks[a].phase # "none"

Calls ==
    \A a \in Ask :
        /\ Active(a) => asks[a].question \in 1 .. asked
        /\ asks[a].phase \in {"opened", "asking", "answered"} => asks[a].active # NoChat
        /\ asks[a].phase = "sent" => asks[a].active = asks[a].chat
        /\ asks[a].chat # NoChat => asks[a].active = asks[a].chat
        /\ \A b \in Ask : a # b /\ Active(a) /\ Active(b)
                              => asks[a].question # asks[b].question

(* A page is asked of a chat.                                              *)
Loading(l) == loads[l].phase # "none"
PagesOfChats ==
    /\ \A l \in Load : Loading(l) => loads[l].chat # NoChat
    /\ more.phase # "none" => more.chat # NoChat

(* The chat that a question is about to open is new.                       *)
Opening(a) == asks[a].phase = "sent" /\ asks[a].chat = NoChat
Used(c) ==
    \/ c \in chats \/ c \in listed \/ deleting[c] # "none" \/ stored[c] # <<>> \/ c = current
    \/ Asking(c)
NewIsUnused ==
    \A c \in Chat : Used(c) => /\ c <= asked
                               /\ \A a \in Ask : Opening(a) => asks[a].question # c

(* What is asked or shown is there, or was lost in a race; so is a chat    *)
(* that is being deleted, unless it is not shown.  A chat that is asked    *)
(* while it is being deleted is in a race.                                 *)
Known(c) == c \in chats \/ c \in raced
AskedIsKnown == \A c \in Chat : Asking(c) => Known(c)
ShownIsKnown == current # NoChat => Known(current) \/ deleting[current] # "none"
DeletingIsKnown ==
    \A c \in Chat : deleting[c] \in {"sent", "failed"} =>
        /\ Known(c) \/ c # current
        /\ deleting[c] = "sent" /\ Asking(c) => c \in raced

IInv == /\ TypeOK /\ Calls /\ PagesOfChats /\ NewIsUnused
        /\ AskedIsKnown /\ ShownIsKnown /\ DeletingIsKnown
        /\ InputNeverStuck /\ OrphansOnlyByRace

-----------------------------------------------------------------------------
(* The invariant of NothingHidden.  Stored messages are in the order in    *)
(* which they were made; what is shown or is about to be was stored or     *)
(* said before.                                                            *)
InOrder(s) == \A i, j \in 1 .. Len(s) : i < j => s[i].made < s[j].made
AllBy(s, n) == \A i \in 1 .. Len(s) : s[i].made <= n
FirstBy(page, n) == page # <<>> => page[1].made <= n
Sorted ==
    /\ \A c \in Chat : InOrder(stored[c]) /\ AllBy(stored[c], said)
    /\ FirstBy(shown, said) /\ FirstBy(more.messages, said)
    /\ \A l \in Load : FirstBy(loads[l].messages, said)

(* Without a call that crossed a change of chat, at most one question or   *)
(* one opening is under way, about the chat that is shown.                 *)
OneCall ==
    /\ \A a, b \in Ask : Active(a) /\ Active(b) => a = b
    /\ \A l, k \in Load : Loading(l) /\ Loading(k) => l = k
    /\ \A a \in Ask : Active(a) => /\ isLoading
                                   /\ asks[a].chat = current
                                   /\ <<asks[a].question, "user">> \in SayingSet(shown)
    /\ \A l \in Load : Loading(l) => /\ isLoading /\ hasMore /\ shown = <<>>
                                     /\ more.phase = "none"
                                     /\ loads[l].chat = current
                                     /\ \A a \in Ask : ~Active(a)
    /\ more.phase # "none" => /\ more.chat = current /\ current # NoChat
                              /\ shown # <<>>
                              /\ more.first = shown[1].made

Says(m) == <<m.question, m.role>>
Messages(c) == {stored[c][i] : i \in 1 .. Len(stored[c])}

(* A page has every message from its first one on, and all of them when it *)
(* is not full.                                                            *)
PageCovers(page, m) ==
    ~FullPage(page) \/ m.made >= page[1].made => Says(m) \in SayingSet(page)
LoadsCover ==
    \A l \in Load : loads[l].phase = "read" =>
        \A m \in Messages(current) : PageCovers(loads[l].messages, m)
MoreCovers ==
    more.phase = "read" =>
        \A m \in Messages(current) :
            m.made < more.first => PageCovers(more.messages, m)

(* What is shown has every message from its first one on; or the answer    *)
(* that is there is about to come.                                         *)
Coming(c, m) == \E a \in Ask : /\ asks[a].phase = "answered" /\ asks[a].active = c
                               /\ Says(m) = <<asks[a].question, "assistant">>
ShownCovers ==
    current # NoChat =>
        \A m \in Messages(current) :
            ~hasMore \/ (shown # <<>> /\ m.made >= shown[1].made)
                => Says(m) \in SayingSet(shown) \/ Coming(current, m)

(* A chat that is new has its question, and the answer when it is there.   *)
NewCovers ==
    \A a \in Ask : Active(a) /\ asks[a].chat = NoChat /\ asks[a].active # NoChat =>
        \A m \in Messages(asks[a].active) :
            \/ Says(m) = <<asks[a].question, "user">>
            \/ asks[a].phase = "answered" /\ Says(m) = <<asks[a].question, "assistant">>

Covered == ShownCovers /\ NewCovers /\ LoadsCover /\ MoreCovers
Paged == mixed \/ (OneCall /\ Covered)

-----------------------------------------------------------------------------
LEMMA Constants ==
    /\ NoAsk \in AskState /\ NoPage \in Page
    /\ NoAsk.phase = "none" /\ NoAsk.chat = NoChat /\ NoAsk.active = NoChat
    /\ NoPage.phase = "none" /\ NoPage.messages = <<>>
    /\ NoChat \notin Chat /\ Question = Chat /\ Chat \subseteq Nat
<1>1. NoPage \in Page
    BY EmptySeq DEF NoPage, Page
<1> QED BY <1>1, BoundsAssumption DEF NoAsk, AskState, NoPage, Chat, NoChat, Question

(* A page is the end of what it is made from.                              *)
LEMMA LastPageType ==
    ASSUME NEW S, NEW s \in Seq(S)
    PROVE  /\ LastPage(s) \in Seq(S) /\ Len(LastPage(s)) <= PageSize
           /\ Len(LastPage(s)) < PageSize => LastPage(s) = s
           /\ \A i \in 1 .. Len(LastPage(s)) :
                 LastPage(s)[i] = s[Len(s) - Len(LastPage(s)) + i]
           /\ Len(LastPage(s)) <= Len(s)
<1>1. Len(s) \in Nat /\ PageSize \in Nat \ {0} /\ \A i \in 1 .. Len(s) : s[i] \in S
    BY LenProperties, ElementOfSeq, PageSizeAssumption
<1>2. CASE Len(s) <= PageSize
    BY <1>1, <1>2 DEF LastPage
<1>3. CASE Len(s) > PageSize
    <2> DEFINE k == Len(s) - PageSize + 1
    <2>1. /\ k \in 1 .. Len(s) /\ Len(s) - k + 1 = PageSize
          /\ LastPage(s) = SubSeq(s, k, Len(s))
        BY <1>1, <1>3 DEF LastPage
    <2>2. \A i \in k .. Len(s) : s[i] \in S
        BY <1>1, <2>1
    <2> HIDE DEF k
    <2>3. /\ SubSeq(s, k, Len(s)) \in Seq(S)
          /\ Len(SubSeq(s, k, Len(s))) = PageSize
          /\ \A i \in 1 .. PageSize : SubSeq(s, k, Len(s))[i] = s[k + i - 1]
        <3>1. k \in Int /\ Len(s) \in Int
            BY <1>1, <2>1
        <3> QED BY <1>1, <2>1, <2>2, <3>1, SubSeqProperties
    <2>4. \A i \in 1 .. PageSize : k + i - 1 = Len(s) - PageSize + i
        BY <1>1 DEF k
    <2> QED BY <1>1, <1>3, <2>1, <2>3, <2>4
<1> QED BY <1>1, <1>2, <1>3

(* The messages made before the n-th.                                      *)
Earlier(s, n) == SubSeq(s, 1, Cardinality({i \in DOMAIN s : s[i].made < n}))

(* The first messages of a chat, as many as a set of its positions has.    *)
LEMMA FirstPart ==
    ASSUME NEW s \in Seq(Message), NEW A \in SUBSET (DOMAIN s)
    PROVE  /\ SubSeq(s, 1, Cardinality(A)) \in Seq(Message)
           /\ Cardinality(A) \in 0 .. Len(s)
           /\ Len(SubSeq(s, 1, Cardinality(A))) = Cardinality(A)
           /\ \A i \in 1 .. Len(SubSeq(s, 1, Cardinality(A))) :
                 SubSeq(s, 1, Cardinality(A))[i] = s[i]
<1> DEFINE k == Cardinality(A)
<1>1. Len(s) \in Nat /\ DOMAIN s = 1 .. Len(s) /\ \A i \in 1 .. Len(s) : s[i] \in Message
    <2>1. Len(s) \in Nat /\ DOMAIN s = 1 .. Len(s)
        BY LenProperties
    <2> QED BY <2>1, ElementOfSeq
<1>2. IsFiniteSet(1 .. Len(s)) /\ Cardinality(1 .. Len(s)) = Len(s)
    <2>1. 1 \in Int /\ Len(s) \in Int /\ (IF 1 > Len(s) THEN 0 ELSE Len(s) - 1 + 1) = Len(s)
        BY <1>1
    <2> QED BY <2>1, FS_Interval
<1>3. A \in SUBSET (1 .. Len(s))
    BY <1>1
<1>4. IsFiniteSet(A) /\ k <= Len(s)
    BY <1>2, <1>3, FS_Subset
<1>5. k \in Nat
    BY <1>4, FS_CardinalityType
<1>6. k \in 0 .. Len(s)
    BY <1>1, <1>4, <1>5
<1> HIDE DEF k
<1>7. /\ SubSeq(s, 1, k) \in Seq(Message)
      /\ Len(SubSeq(s, 1, k)) = IF 1 <= k THEN k - 1 + 1 ELSE 0
      /\ \A i \in 1 .. k - 1 + 1 : SubSeq(s, 1, k)[i] = s[1 + i - 1]
    <2>1. 1 \in Int /\ k \in Int /\ \A i \in 1 .. k : s[i] \in Message
        BY <1>1, <1>6
    <2> QED BY <2>1, SubSeqProperties
<1>8. /\ SubSeq(s, 1, k) \in Seq(Message) /\ Len(SubSeq(s, 1, k)) = k
      /\ \A i \in 1 .. Len(SubSeq(s, 1, k)) : SubSeq(s, 1, k)[i] = s[i]
    BY <1>5, <1>7
<1> QED BY <1>6, <1>8 DEF k

LEMMA EarlierType ==
    ASSUME NEW s \in Seq(Message), NEW n \in Nat
    PROVE  /\ Earlier(s, n) \in Seq(Message)
           /\ Cardinality({i \in DOMAIN s : s[i].made < n}) \in 0 .. Len(s)
           /\ Len(Earlier(s, n)) = Cardinality({i \in DOMAIN s : s[i].made < n})
           /\ \A i \in 1 .. Len(Earlier(s, n)) : Earlier(s, n)[i] = s[i]
<1> DEFINE A == {i \in DOMAIN s : s[i].made < n}
<1>1. A \in SUBSET (DOMAIN s)
    OBVIOUS
<1> HIDE DEF A
<1>2. Earlier(s, n) = SubSeq(s, 1, Cardinality(A))
    BY DEF Earlier, A
<1>3. /\ Earlier(s, n) \in Seq(Message) /\ Cardinality(A) \in 0 .. Len(s)
      /\ Len(Earlier(s, n)) = Cardinality(A)
      /\ \A i \in 1 .. Len(Earlier(s, n)) : Earlier(s, n)[i] = s[i]
    BY <1>1, <1>2, FirstPart
<1> QED BY <1>3 DEF A

LEMMA OlderType ==
    ASSUME NEW s \in Seq(Message), NEW t \in Nat
    PROVE  /\ Older(s, t) \in Seq(Message) /\ Len(Older(s, t)) \in 0 .. Len(s)
           /\ \A i \in 1 .. Len(Older(s, t)) : Older(s, t)[i] = s[i]
<1> DEFINE A == {i \in DOMAIN s : s[i].time < t}
<1>1. A \in SUBSET (DOMAIN s)
    OBVIOUS
<1> HIDE DEF A
<1>2. Older(s, t) = SubSeq(s, 1, Cardinality(A))
    BY DEF Older, A
<1> QED BY <1>1, <1>2, FirstPart

(* Rows in the order of their dates are the rows of the chat.              *)
LEMMA ByTimeType ==
    ASSUME NEW s \in Seq(Message), NEW rows \in ByTime(s)
    PROVE  /\ rows \in Seq(Message) /\ Len(rows) = Len(s)
           /\ \A i \in 1 .. Len(rows) : \E j \in 1 .. Len(s) : rows[i] = s[j]
<1>1. PICK p \in [1 .. Len(s) -> 1 .. Len(s)] : rows = [i \in 1 .. Len(s) |-> s[p[i]]]
    BY DEF ByTime
<1>2. Len(s) \in Nat /\ \A i \in 1 .. Len(s) : s[i] \in Message
    BY LenProperties, ElementOfSeq
<1>3. rows \in [1 .. Len(s) -> Message] /\ \A i \in 1 .. Len(s) : rows[i] = s[p[i]]
    BY <1>1, <1>2
<1>4. rows \in Seq(Message) /\ DOMAIN rows = 1 .. Len(s)
    BY <1>2, <1>3, SeqDef
<1>5. Len(rows) = Len(s)
    BY <1>2, <1>4, LenProperties
<1> QED BY <1>1, <1>3, <1>4, <1>5

(* A function on 1 .. n that keeps the order is the identity.              *)
LEMMA InPlace ==
    ASSUME NEW n \in Nat, NEW p \in [1 .. n -> 1 .. n],
           \A i, j \in 1 .. n : i < j => p[i] < p[j]
    PROVE  \A i \in 1 .. n : p[i] = i
<1> TAKE i \in 1 .. n
<1>1. i \in Int /\ p[i] \in Int /\ n \in Int /\ p[i] \in 1 .. n
    OBVIOUS
<1>2. i <= p[i]
    <2> DEFINE f == [j \in 1 .. i |-> p[j]]
    <2>1. \A j \in 1 .. i : j \in 1 .. n /\ (j < i \/ j = i)
        BY <1>1
    <2>2. ASSUME NEW j \in 1 .. i PROVE p[j] \in 1 .. p[i]
        <3>1. j \in 1 .. n /\ p[j] \in 1 .. n /\ (p[j] < p[i] \/ j = i)
            BY <2>1
        <3> QED BY <1>1, <3>1
    <2>3. f \in [1 .. i -> 1 .. p[i]]
        BY <2>2
    <2>4. \A j, k \in 1 .. i : p[j] = p[k] => j = k
        <3>1. ASSUME NEW j \in 1 .. i, NEW k \in 1 .. i, p[j] = p[k] PROVE j = k
            <4>1. j \in 1 .. n /\ k \in 1 .. n /\ p[j] \in Int
                BY <2>1
            <4> QED BY <3>1, <4>1
        <3> QED BY <3>1
    <2>5. f \in Injection(1 .. i, 1 .. p[i])
        BY <2>3, <2>4, Zenon DEF Injection, IsInjective
    <2>6. IsFiniteSet(1 .. p[i]) /\ Cardinality(1 .. i) = i /\ Cardinality(1 .. p[i]) = p[i]
        <3>1. /\ 1 \in Int /\ (IF 1 > i THEN 0 ELSE i - 1 + 1) = i
              /\ (IF 1 > p[i] THEN 0 ELSE p[i] - 1 + 1) = p[i]
            BY <1>1
        <3> QED BY <1>1, <3>1, FS_Interval
    <2> QED BY <2>5, <2>6, FS_Injection
<1>3. p[i] <= i
    <2> DEFINE f == [j \in i .. n |-> p[j]]
    <2>1. \A j \in i .. n : j \in 1 .. n /\ (i < j \/ i = j)
        BY <1>1
    <2>2. ASSUME NEW j \in i .. n PROVE p[j] \in p[i] .. n
        <3>1. j \in 1 .. n /\ p[j] \in 1 .. n /\ (p[i] < p[j] \/ j = i)
            BY <2>1
        <3> QED BY <1>1, <3>1
    <2>3. f \in [i .. n -> p[i] .. n]
        BY <2>2
    <2>4. \A j, k \in i .. n : p[j] = p[k] => j = k
        <3>1. ASSUME NEW j \in i .. n, NEW k \in i .. n, p[j] = p[k] PROVE j = k
            <4>1. j \in 1 .. n /\ k \in 1 .. n /\ p[j] \in Int
                BY <2>1
            <4> QED BY <3>1, <4>1
        <3> QED BY <3>1
    <2>5. f \in Injection(i .. n, p[i] .. n)
        BY <2>3, <2>4, Zenon DEF Injection, IsInjective
    <2>6. /\ IsFiniteSet(p[i] .. n)
          /\ Cardinality(i .. n) = n - i + 1 /\ Cardinality(p[i] .. n) = n - p[i] + 1
        <3>1. /\ (IF i > n THEN 0 ELSE n - i + 1) = n - i + 1
              /\ (IF p[i] > n THEN 0 ELSE n - p[i] + 1) = n - p[i] + 1
            BY <1>1
        <3> QED BY <1>1, <3>1, FS_Interval
    <2>7. n - i + 1 <= n - p[i] + 1
        BY <2>5, <2>6, FS_Injection
    <2> QED BY <1>1, <2>7
<1> QED BY <1>1, <1>2, <1>3

(* Rows whose dates follow their order are read as they were inserted, and *)
(* then the older ones are the earlier ones.                               *)
LEMMA ByTimeDated ==
    ASSUME NEW s \in Seq(Message), Dated(s), NEW rows \in ByTime(s) PROVE rows = s
<1>1. PICK p \in [1 .. Len(s) -> 1 .. Len(s)] :
         rows = [i \in 1 .. Len(s) |-> s[p[i]]] /\ Sorts(p, s)
    BY DEF ByTime
<1>2. /\ Len(s) \in Nat /\ DOMAIN s = 1 .. Len(s) /\ s = [i \in 1 .. Len(s) |-> s[i]]
      /\ \A i \in 1 .. Len(s) : s[i].time \in Nat
    <2>1. Len(s) \in Nat /\ DOMAIN s = 1 .. Len(s) /\ s \in [1 .. Len(s) -> Message]
        BY LenProperties
    <2> QED BY <2>1 DEF Message
<1>3. ASSUME NEW i \in 1 .. Len(s), NEW j \in 1 .. Len(s), i < j PROVE p[i] < p[j]
    <2>1. /\ p[i] \in 1 .. Len(s) /\ p[j] \in 1 .. Len(s)
          /\ \/ s[p[i]].time < s[p[j]].time
             \/ s[p[i]].time = s[p[j]].time /\ p[i] < p[j]
        BY <1>1, <1>2, <1>3 DEF Sorts
    <2>2. CASE s[p[i]].time < s[p[j]].time
        <3>1. ~(s[p[j]].time <= s[p[i]].time)
            BY <1>2, <2>1, <2>2
        <3>2. ~(p[j] < p[i]) /\ p[i] # p[j]
            BY <1>2, <2>1, <2>2, <3>1 DEF Dated
        <3> QED BY <2>1, <3>2
    <2> QED BY <2>1, <2>2
<1>4. \A i \in 1 .. Len(s) : p[i] = i
    BY <1>2, <1>3, InPlace
<1>5. [i \in 1 .. Len(s) |-> s[p[i]]] = [i \in 1 .. Len(s) |-> s[i]]
    BY <1>4
<1> QED BY <1>1, <1>2, <1>5

LEMMA OlderIsEarlier ==
    ASSUME NEW s \in Seq(Message), NEW n, NEW t, DatedBefore(s, n, t)
    PROVE  Older(s, t) = Earlier(s, n)
<1>1. DOMAIN s = 1 .. Len(s)
    BY LenProperties
<1>2. {i \in DOMAIN s : s[i].time < t} = {i \in DOMAIN s : s[i].made < n}
    BY <1>1 DEF DatedBefore
<1> QED BY <1>2 DEF Older, Earlier

LEMMA SayType ==
    ASSUME TypeOK, NEW q \in Chat, NEW role \in {"user", "assistant", "error"},
           NEW now \in Now
    PROVE  Say(q, role, now) \in Message /\ Says(Say(q, role, now)) = <<q, role>>
           /\ Say(q, role, now).made = said + 1
BY Constants DEF TypeOK, Say, Says, Message, Now

(* The clock goes on, stands still or is set back.                         *)
LEMMA TickType ==
    ASSUME TypeOK, NEW now \in Now, Tick(now)
    PROVE  clock' \in Nat /\ slips' \in 0 .. MaxSlips /\ said' \in Nat /\ said' = said + 1
BY BoundsAssumption DEF TypeOK, Tick, Slip, Now

LEMMA OpsType == TypeOK /\ Operate => ops' \in 0 .. MaxOps
BY BoundsAssumption DEF TypeOK, Operate

LEMMA QuestionType ==
    ASSUME TypeOK, Calls, NEW a \in Ask, Active(a)
    PROVE  asks[a].question \in Chat
BY BoundsAssumption DEF TypeOK, Calls, Chat, Question

LEMMA InitTypes == Init => TypeOK
<1> SUFFICES ASSUME Init PROVE TypeOK
    OBVIOUS
<1>1. <<>> \in Seq(Message)
    BY EmptySeq
<1>2. asks \in [Ask -> AskState] /\ loads \in [Load -> Page] /\ more \in Page
    BY Constants DEF Init
<1>3. stored \in [Chat -> Seq(Message)] /\ shown \in Seq(Message)
    BY <1>1 DEF Init
<1>4. /\ asked \in 0 .. MaxQuestions /\ ops \in 0 .. MaxOps
      /\ clock \in Nat /\ slips \in 0 .. MaxSlips /\ said \in Nat
    BY BoundsAssumption DEF Init
<1> QED BY <1>2, <1>3, <1>4 DEF Init, TypeOK

LEMMA QuestionsType == ASSUME TypeOK, Calls, Questions PROVE TypeOK'
<1> USE Constants DEF table, commands, panel, times
<1>1. ASSUME NEW a \in Ask, SendMessage(a) PROVE TypeOK'
    <2>1. asked' = asked + 1 /\ asked' \in Chat /\ asked' \in 0 .. MaxQuestions
        BY <1>1, BoundsAssumption DEF SendMessage, CanAsk, TypeOK, Chat, Question
    <2>2. Sent(asked') \in AskState
        BY <2>1 DEF Sent, AskState, TypeOK
    <2>3. /\ shown' \in Seq(Message)
          /\ clock' \in Nat /\ slips' \in 0 .. MaxSlips /\ said' \in Nat
        <3>1. PICK now \in Now : shown' = Append(shown, Say(asked', "user", now)) /\ Tick(now)
            BY <1>1 DEF SendMessage
        <3>2. Say(asked', "user", now) \in Message /\ shown \in Seq(Message)
            BY <2>1, SayType DEF TypeOK
        <3> QED BY <3>1, <3>2, TickType, AppendProperties
    <2>4. raced' \subseteq Chat
        BY <1>1 DEF SendMessage, TypeOK
    <2>5. asks' \in [Ask -> AskState]
        BY <1>1, <2>2 DEF SendMessage, TypeOK
    <2> QED BY <1>1, <2>1, <2>3, <2>4, <2>5 DEF SendMessage, TypeOK
<1>2. ASSUME NEW a \in Ask, Fails(a) PROVE asks' \in [Ask -> AskState]
    BY <1>2 DEF Fails, TypeOK, AskState
<1>3. ASSUME NEW a \in Ask, OpenChat(a) PROVE TypeOK'
    <2>1. asks[a].question \in Chat
        BY <1>3, QuestionType DEF OpenChat, Active
    <2>2. asks' \in [Ask -> AskState] /\ chats' \subseteq Chat
        <3>1. CASE Fails(a) /\ UNCHANGED chats
            BY <1>2, <3>1 DEF TypeOK
        <3>2. CASE /\ chats' = chats \cup {asks[a].question}
                   /\ asks' = [asks EXCEPT ![a].phase = "opened",
                                           ![a].active = asks[a].question]
            BY <2>1, <3>2 DEF TypeOK, AskState
        <3> QED BY <1>3, <3>1, <3>2 DEF OpenChat
    <2> QED BY <1>3, <2>2 DEF OpenChat, TypeOK
<1>4. ASSUME NEW c, NEW q \in Chat, NEW role \in {"user", "assistant"},
             SaveMessage(c, q, role)
      PROVE  /\ stored' \in [Chat -> Seq(Message)]
             /\ clock' \in Nat /\ slips' \in 0 .. MaxSlips /\ said' \in Nat
    <2>1. ASSUME NEW now \in Now, Tick(now),
                 stored' = [stored EXCEPT ![c] = Append(@, Say(q, role, now))]
          PROVE  /\ stored' \in [Chat -> Seq(Message)]
                 /\ clock' \in Nat /\ slips' \in 0 .. MaxSlips /\ said' \in Nat
        <3>1. Say(q, role, now) \in Message /\ (c \in Chat => stored[c] \in Seq(Message))
            BY SayType DEF TypeOK
        <3>2. c \in Chat => Append(stored[c], Say(q, role, now)) \in Seq(Message)
            BY <3>1, AppendProperties
        <3>3. stored' \in [Chat -> Seq(Message)]
            BY <2>1, <3>2 DEF TypeOK
        <3> QED BY <2>1, <3>3, TickType
    <2> QED BY <1>4, <2>1 DEF SaveMessage, TypeOK
<1>5. ASSUME NEW a \in Ask, SaveQuestion(a) PROVE TypeOK'
    <2>1. /\ stored' \in [Chat -> Seq(Message)]
          /\ clock' \in Nat /\ slips' \in 0 .. MaxSlips /\ said' \in Nat
        BY <1>4, <1>5, QuestionType DEF SaveQuestion, Active
    <2>2. asks' \in [Ask -> AskState]
        BY <1>5 DEF SaveQuestion, TypeOK, AskState
    <2> QED BY <1>5, <2>1, <2>2 DEF SaveQuestion, TypeOK
<1>6. ASSUME NEW a \in Ask, SaveAnswer(a) PROVE TypeOK'
    <2>1. /\ stored' \in [Chat -> Seq(Message)]
          /\ clock' \in Nat /\ slips' \in 0 .. MaxSlips /\ said' \in Nat
        BY <1>4, <1>6, QuestionType DEF SaveAnswer, Active
    <2>2. asks' \in [Ask -> AskState]
        BY <1>6 DEF SaveAnswer, TypeOK, AskState
    <2> QED BY <1>6, <2>1, <2>2 DEF SaveAnswer, TypeOK
<1>7. ASSUME NEW a \in Ask, ModelFails(a) PROVE TypeOK'
    BY <1>2, <1>7 DEF ModelFails, TypeOK
<1>8. ASSUME NEW a \in Ask, ShowAnswer(a) \/ ShowError(a) PROVE TypeOK'
    <2>0. Active(a) /\ asks[a] \in AskState
        BY <1>8 DEF ShowAnswer, ShowError, Active, TypeOK
    <2>1. asks[a].question \in Chat /\ asks[a] \in AskState
        BY <2>0, QuestionType
    <2>2. /\ shown' \in Seq(Message)
          /\ clock' \in Nat /\ slips' \in 0 .. MaxSlips /\ said' \in Nat
        <3>1. PICK role \in {"assistant", "error"}, now \in Now :
                  shown' = Append(shown, Say(asks[a].question, role, now)) /\ Tick(now)
            BY <1>8 DEF ShowAnswer, ShowError
        <3>2. Say(asks[a].question, role, now) \in Message /\ shown \in Seq(Message)
            BY <2>1, SayType DEF TypeOK
        <3> QED BY <3>1, <3>2, TickType, AppendProperties
    <2>3. asks[a].active \in Chat \cup {NoChat}
        BY <2>1 DEF AskState
    <2>4. current' \in {current, asks[a].active} /\ asks' = [asks EXCEPT ![a] = NoAsk]
        BY <1>8 DEF ShowAnswer, ShowError
    <2>5. current' \in Chat \cup {NoChat} /\ asks' \in [Ask -> AskState]
        BY <2>3, <2>4 DEF TypeOK
    <2>6. listed' \subseteq Chat
        BY <1>8 DEF ShowAnswer, ShowError, LoadChats, TypeOK
    <2> QED BY <1>8, <2>2, <2>5, <2>6 DEF ShowAnswer, ShowError, TypeOK
<1> QED BY <1>1, <1>3, <1>5, <1>6, <1>7, <1>8 DEF Questions

LEMMA PagesType == ASSUME TypeOK, PagesOfChats, Pages PROVE TypeOK'
<1> USE Constants DEF table, commands, panel, times
<1>1. ASSUME NEW l \in Load, NEW c \in Chat, SelectChat(l, c) PROVE TypeOK'
    <2>1. loads' \in [Load -> Page]
        BY <1>1 DEF SelectChat, TypeOK, Page
    <2>2. mixed' \in BOOLEAN /\ raced' \subseteq Chat
        BY <1>1 DEF SelectChat, Busy, TypeOK
    <2> QED BY <1>1, <2>1, <2>2, OpsType, EmptySeq DEF SelectChat, TypeOK
<1>2. ASSUME NEW c \in Chat, NEW rows \in ByTime(stored[c])
      PROVE  /\ LastPage(rows) \in Seq(Message)
             /\ \A t \in Nat : LastPage(Older(rows, t)) \in Seq(Message)
    <2>1. rows \in Seq(Message)
        BY ByTimeType DEF TypeOK
    <2>2. \A t \in Nat : Older(rows, t) \in Seq(Message)
        BY <2>1, OlderType
    <2> QED BY <2>1, <2>2, LastPageType
<1>3. ASSUME NEW l \in Load, ReadPage(l) PROVE TypeOK'
    <2>1. loads[l].chat \in Chat /\ loads[l] \in Page
        BY <1>3 DEF ReadPage, Loading, PagesOfChats, TypeOK, Page
    <2>2. PICK rows \in ByTime(stored[loads[l].chat]) :
              loads' = [loads EXCEPT ![l].phase = "read", ![l].messages = LastPage(rows)]
        BY <1>3 DEF ReadPage
    <2>3. LastPage(rows) \in Seq(Message)
        BY <1>2, <2>1
    <2>4. loads' \in [Load -> Page]
        BY <2>2, <2>3 DEF TypeOK, Page
    <2>5. mixed' \in BOOLEAN
        BY <1>3 DEF ReadPage
    <2> QED BY <1>3, <2>4, <2>5 DEF ReadPage, TypeOK
<1>4. ASSUME NEW l \in Load, ShowPage(l) PROVE TypeOK'
    <2>1. loads[l].messages \in Seq(Message)
        BY DEF TypeOK, Page
    <2>2. hasMore' \in BOOLEAN
        BY <1>4 DEF ShowPage, FullPage, TypeOK
    <2> QED BY <1>4, <2>1, <2>2 DEF ShowPage, TypeOK
<1>5. CASE LoadMore
    <2>1. shown \in Seq(Message) /\ shown # <<>> /\ current \in Chat
        BY <1>5 DEF LoadMore, CanLoadMore, TypeOK
    <2>2. Len(shown) \in Nat \ {0}
        BY <2>1, EmptySeq
    <2>3. shown[1] \in Message
        BY <2>1, <2>2, ElementOfSeq
    <2>4. shown[1].made \in Nat /\ shown[1].time \in Nat
        BY <2>3 DEF Message
    <2>5. more' \in Page
        BY <1>5, <2>1, <2>4, EmptySeq DEF LoadMore, Page
    <2> QED BY <1>5, <2>5, OpsType DEF LoadMore, TypeOK
<1>6. CASE ReadMore
    <2>1. more.chat \in Chat /\ more.before \in Nat
        BY <1>6 DEF ReadMore, PagesOfChats, TypeOK, Page
    <2>2. PICK rows \in ByTime(stored[more.chat]) :
              more' = [more EXCEPT !.phase = "read",
                                   !.messages = LastPage(Older(rows, more.before))]
        BY <1>6 DEF ReadMore
    <2>3. LastPage(Older(rows, more.before)) \in Seq(Message)
        BY <1>2, <2>1
    <2>4. more' \in Page
        BY <2>2, <2>3 DEF TypeOK, Page
    <2>5. mixed' \in BOOLEAN
        BY <1>6 DEF ReadMore
    <2> QED BY <1>6, <2>4, <2>5 DEF ReadMore, TypeOK
<1>7. CASE ShowMore
    <2>1. more.messages \in Seq(Message) /\ shown \in Seq(Message)
        BY DEF TypeOK, Page
    <2>2. more.messages \o shown \in Seq(Message)
        BY <2>1, ConcatProperties
    <2>3. hasMore' \in BOOLEAN /\ shown' \in Seq(Message)
        BY <1>7, <2>2 DEF ShowMore, FullPage, TypeOK
    <2> QED BY <1>7, <2>3 DEF ShowMore, TypeOK
<1> QED BY <1>1, <1>3, <1>4, <1>5, <1>6, <1>7 DEF Pages

LEMMA RestType ==
    ASSUME TypeOK, Deletions \/ Refresh \/ CreateNewChat \/ Restart PROVE TypeOK'
<1> USE Constants DEF table, commands, panel, times
<1>0. <<>> \in Seq(Message)
    BY EmptySeq
<1>1. ASSUME NEW c \in Chat, DeleteChat(c) PROVE TypeOK'
    BY <1>1, OpsType DEF DeleteChat, TypeOK
<1>2. ASSUME NEW c \in Chat, DeleteRows(c) PROVE TypeOK'
    <2>1. stored' \in [Chat -> Seq(Message)]
        <3>1. stored' = stored \/ stored' = [stored EXCEPT ![c] = <<>>]
            BY <1>2 DEF DeleteRows
        <3> QED BY ZenonT(60), <1>0, <3>1 DEF TypeOK
    <2>2. chats' \subseteq Chat
        BY <1>2 DEF DeleteRows, TypeOK
    <2>3. deleting' \in [Chat -> {"none", "sent", "done", "failed"}]
        BY <1>2 DEF DeleteRows, TypeOK
    <2> QED BY <1>2, <2>1, <2>2, <2>3 DEF DeleteRows, TypeOK
<1>3. ASSUME NEW c \in Chat, ChatDeleted(c) PROVE TypeOK'
    BY <1>0, <1>3 DEF ChatDeleted, Deselect, LoadChats, Busy, TypeOK
<1>4. CASE Refresh
    BY <1>4, OpsType DEF Refresh, TypeOK
<1>5. CASE CreateNewChat
    BY <1>0, <1>5, OpsType DEF CreateNewChat, Busy, TypeOK
<1>6. CASE Restart
    BY <1>0, <1>6, OpsType DEF Restart, TypeOK
<1> QED BY <1>1, <1>2, <1>3, <1>4, <1>5, <1>6 DEF Deletions

LEMMA NextTypes == ASSUME TypeOK, Calls, PagesOfChats, [Next]_vars PROVE TypeOK'
<1>1. CASE UNCHANGED vars
    BY <1>1 DEF vars, table, commands, panel, times, TypeOK
<1>2. CASE Next
    BY <1>2, QuestionsType, PagesType, RestType DEF Next
<1> QED BY <1>1, <1>2

-----------------------------------------------------------------------------
(* A call of the panel changes one question, as the cases below say.       *)
LEMMA OneAsk ==
    ASSUME TypeOK, NEW a \in Ask, NEW call, asks' = [asks EXCEPT ![a] = call]
    PROVE  asks'[a] = call /\ \A b \in Ask \ {a} : asks'[b] = asks[b]
BY DEF TypeOK

LEMMA OnePhase ==
    ASSUME TypeOK, NEW a \in Ask, NEW phase, asks' = [asks EXCEPT ![a].phase = phase]
    PROVE  /\ asks'[a].phase = phase /\ asks'[a].chat = asks[a].chat
           /\ asks'[a].active = asks[a].active /\ asks'[a].question = asks[a].question
           /\ \A b \in Ask \ {a} : asks'[b] = asks[b]
BY DEF TypeOK, AskState

(* What a step may do to one question, and to no other: it begins, it goes *)
(* on, it opens its chat, or it ends.                                      *)
Begins(a) ==
    /\ ~Active(a) /\ asks'[a].phase = "sent" /\ asks'[a].chat = current
    /\ asks'[a].active = current /\ asks'[a].question = asked + 1
    /\ asked' = asked + 1
GoesOn(a) ==
    /\ Active(a) /\ asks'[a].phase \in {"asking", "answered", "failed"}
    /\ asks'[a].chat = asks[a].chat /\ asks'[a].active = asks[a].active
    /\ asks'[a].question = asks[a].question
    /\ asks'[a].phase # "failed" => asks[a].active # NoChat
    /\ asked' = asked
Opens(a) ==
    /\ Opening(a) /\ asks'[a].phase = "opened"
    /\ asks'[a].chat = NoChat /\ asks'[a].active = asks[a].question
    /\ asks'[a].question = asks[a].question
    /\ asked' = asked
Ends(a) ==
    /\ asks'[a] = NoAsk
    /\ asked' = asked
AskStep(a) ==
    /\ Begins(a) \/ GoesOn(a) \/ Opens(a) \/ Ends(a)
    /\ \A b \in Ask \ {a} : asks'[b] = asks[b]

LEMMA CallsKept ==
    ASSUME TypeOK, Calls,
           \/ \E a \in Ask : AskStep(a)
           \/ UNCHANGED <<asks, asked>>
           \/ (\A a \in Ask : asks'[a] = NoAsk) /\ asked' = asked
    PROVE  Calls'
<1>0. asked \in Nat /\ \A a \in Ask : asks[a] \in AskState
    BY BoundsAssumption DEF TypeOK
<1>1. ASSUME NEW a \in Ask, AskStep(a) PROVE Calls'
    <2>1. \A b \in Ask \ {a} : asks'[b] = asks[b]
        BY <1>1 DEF AskStep
    <2>2. CASE Begins(a)
        <3>1. \A b \in Ask : Active(b) => asks[b].question # asked + 1
            BY <1>0 DEF Calls
        <3>2. asked' \in Nat /\ asked + 1 \in 1 .. asked' /\ 1 .. asked \subseteq 1 .. asked'
            BY <1>0, <2>2 DEF Begins
        <3> QED BY <2>1, <2>2, <3>1, <3>2 DEF Calls, Begins, Active
    <2>3. CASE GoesOn(a)
        BY <2>1, <2>3 DEF Calls, GoesOn, Active
    <2>4. CASE Opens(a)
        <3>1. asks[a].question # NoChat /\ Active(a)
            BY <2>4 DEF Opens, Opening, Active, Calls, NoChat
        <3> QED BY <2>1, <2>4, <3>1 DEF Calls, Opens, Active
    <2>5. CASE Ends(a)
        BY <2>1, <2>5, Constants DEF Calls, Ends, Active
    <2> QED BY <1>1, <2>2, <2>3, <2>4, <2>5 DEF AskStep
<1>2. CASE UNCHANGED <<asks, asked>>
    BY <1>2 DEF Calls, Active
<1>3. CASE (\A a \in Ask : asks'[a] = NoAsk) /\ asked' = asked
    BY <1>3, Constants DEF Calls, Active
<1> QED BY <1>1, <1>2, <1>3

(* The actions on a question take these steps.                             *)
LEMMA QuestionSteps ==
    ASSUME TypeOK, Calls, NEW a \in Ask
    PROVE  /\ SendMessage(a) => Begins(a) /\ AskStep(a)
           /\ OpenChat(a) => (Opens(a) \/ GoesOn(a)) /\ AskStep(a)
           /\ SaveQuestion(a) \/ SaveAnswer(a) \/ ModelFails(a) => GoesOn(a) /\ AskStep(a)
           /\ ShowAnswer(a) \/ ShowError(a) => Ends(a) /\ AskStep(a)
<1>1. ASSUME SendMessage(a) PROVE Begins(a) /\ AskStep(a)
    <2>1. asks[a] = NoAsk /\ asked' = asked + 1 /\ asks' = [asks EXCEPT ![a] = Sent(asked')]
        BY <1>1 DEF SendMessage
    <2>2. asks'[a] = Sent(asked') /\ \A b \in Ask \ {a} : asks'[b] = asks[b]
        BY <2>1, OneAsk
    <2> QED BY <2>1, <2>2, Constants DEF Begins, AskStep, Sent, Active
<1>2. ASSUME Fails(a), Active(a), asked' = asked PROVE GoesOn(a) /\ AskStep(a)
    <2>1. /\ asks'[a].phase = "failed" /\ asks'[a].chat = asks[a].chat
          /\ asks'[a].active = asks[a].active /\ asks'[a].question = asks[a].question
          /\ \A b \in Ask \ {a} : asks'[b] = asks[b]
        BY <1>2, OnePhase DEF Fails
    <2> QED BY <1>2, <2>1 DEF GoesOn, AskStep
<1>3. ASSUME OpenChat(a) PROVE (Opens(a) \/ GoesOn(a)) /\ AskStep(a)
    <2>1. Opening(a) /\ Active(a) /\ asked' = asked
        BY <1>3 DEF OpenChat, Opening, Active
    <2>2. CASE Fails(a)
        BY <1>2, <2>1, <2>2
    <2>3. CASE asks' = [asks EXCEPT ![a].phase = "opened", ![a].active = asks[a].question]
        <3>1. /\ asks'[a].phase = "opened" /\ asks'[a].chat = asks[a].chat
              /\ asks'[a].active = asks[a].question /\ asks'[a].question = asks[a].question
              /\ \A b \in Ask \ {a} : asks'[b] = asks[b]
            BY <2>3 DEF TypeOK, AskState
        <3> QED BY <2>1, <3>1 DEF Opens, Opening, AskStep
    <2> QED BY <1>3, <2>2, <2>3 DEF OpenChat
<1>4. ASSUME SaveQuestion(a) \/ SaveAnswer(a) PROVE GoesOn(a) /\ AskStep(a)
    <2>1. Active(a) /\ asked' = asked
        BY <1>4 DEF SaveQuestion, SaveAnswer, Active
    <2>2. asks[a].active # NoChat
        BY <1>4 DEF SaveQuestion, SaveAnswer, Calls
    <2>3. PICK phase \in {"asking", "answered"} : asks' = [asks EXCEPT ![a].phase = phase]
        BY <1>4 DEF SaveQuestion, SaveAnswer
    <2>4. /\ asks'[a].phase = phase /\ asks'[a].chat = asks[a].chat
          /\ asks'[a].active = asks[a].active /\ asks'[a].question = asks[a].question
          /\ \A b \in Ask \ {a} : asks'[b] = asks[b]
        BY <2>3, OnePhase
    <2> QED BY <2>1, <2>2, <2>4 DEF GoesOn, AskStep
<1>5. ASSUME ModelFails(a) PROVE GoesOn(a) /\ AskStep(a)
    BY <1>2, <1>5 DEF ModelFails, Active
<1>6. ASSUME ShowAnswer(a) \/ ShowError(a) PROVE Ends(a) /\ AskStep(a)
    <2>1. asks' = [asks EXCEPT ![a] = NoAsk] /\ asked' = asked
        BY <1>6 DEF ShowAnswer, ShowError
    <2>2. asks'[a] = NoAsk /\ \A b \in Ask \ {a} : asks'[b] = asks[b]
        BY <2>1, OneAsk
    <2> QED BY <2>1, <2>2 DEF Ends, AskStep
<1> QED BY <1>1, <1>3, <1>4, <1>5, <1>6

LEMMA PagesOfChatsKept == ASSUME TypeOK, PagesOfChats, [Next]_vars PROVE PagesOfChats'
<1> USE DEF table, commands, panel, times
<1>1. ASSUME NEW l \in Load, NEW c \in Chat, SelectChat(l, c) PROVE PagesOfChats'
    <2>1. /\ \A k \in Load : loads'[k] = loads[k] \/ loads'[k].chat = c
          /\ UNCHANGED more
        BY <1>1, Constants DEF SelectChat, TypeOK, Page
    <2> QED BY <2>1, Constants DEF PagesOfChats, Loading
<1>2. ASSUME NEW l \in Load, ReadPage(l) PROVE PagesOfChats'
    <2>1. /\ \A k \in Load : loads'[k].chat = loads[k].chat
          /\ \A k \in Load : Loading(k)' => Loading(k)
          /\ UNCHANGED more
        <3>1. PICK page : loads' = [loads EXCEPT ![l].phase = "read", ![l].messages = page]
            BY <1>2 DEF ReadPage
        <3> QED BY <1>2, <3>1 DEF ReadPage, TypeOK, Page, Loading
    <2> QED BY <2>1 DEF PagesOfChats
<1>3. ASSUME NEW l \in Load, ShowPage(l) PROVE PagesOfChats'
    BY <1>3, Constants DEF ShowPage, TypeOK, PagesOfChats, Loading
<1>4. CASE LoadMore \/ ReadMore \/ ShowMore
    <2>1. UNCHANGED loads
        BY <1>4 DEF LoadMore, ReadMore, ShowMore
    <2>2. more'.phase # "none" => more'.chat # NoChat
        <3>1. CASE LoadMore
            BY <3>1 DEF LoadMore, CanLoadMore
        <3>2. CASE ReadMore
            <4>1. more.phase # "none" /\ more'.chat = more.chat
                BY <3>2 DEF ReadMore, TypeOK, Page
            <4> QED BY <4>1 DEF PagesOfChats
        <3>3. CASE ShowMore
            BY <3>3, Constants DEF ShowMore
        <3> QED BY <1>4, <3>1, <3>2, <3>3
    <2> QED BY <2>1, <2>2 DEF PagesOfChats, Loading
<1>5. CASE Restart
    BY <1>5, Constants DEF Restart, PagesOfChats, Loading
<1>6. CASE Questions \/ Deletions \/ Refresh \/ CreateNewChat \/ UNCHANGED vars
    <2>1. UNCHANGED <<loads, more>>
        BY <1>6 DEF Questions, SendMessage, OpenChat, SaveQuestion, SaveAnswer, ModelFails,
                    ShowAnswer, ShowError, Deletions, DeleteChat, DeleteRows, ChatDeleted,
                    Refresh, CreateNewChat, vars
    <2> QED BY <2>1 DEF PagesOfChats, Loading
<1> QED BY <1>1, <1>2, <1>3, <1>4, <1>5, <1>6 DEF Next, Pages

-----------------------------------------------------------------------------
Rest == /\ NewIsUnused /\ AskedIsKnown /\ ShownIsKnown /\ DeletingIsKnown
        /\ InputNeverStuck /\ OrphansOnlyByRace

LEMMA InitRest == Init => Calls /\ PagesOfChats /\ Rest
<1> SUFFICES ASSUME Init PROVE Calls /\ PagesOfChats /\ Rest
    OBVIOUS
<1>1. \A a \in Ask : asks[a].phase = "none" /\ asks[a].chat = NoChat
    BY Constants DEF Init
<1>2. Calls /\ PagesOfChats
    BY <1>1, Constants DEF Init, Calls, Active, PagesOfChats, Loading
<1>3. \A c \in Chat : ~Used(c) /\ ~Asking(c) /\ stored[c] = <<>> /\ deleting[c] = "none"
    BY <1>1, Constants DEF Init, Used, Asking
<1>4. current = NoChat /\ isLoading = FALSE
    BY DEF Init
<1> QED BY <1>2, <1>3, <1>4
        DEF Rest, NewIsUnused, AskedIsKnown, ShownIsKnown, DeletingIsKnown, InputNeverStuck,
            OrphansOnlyByRace

(* Chats that a step leaves as they are, and makes no new use of.  The     *)
(* panel may come to show one that was asked or is in the list.            *)
Chosen(c) == c \in chats \/ c \in raced' \/ deleting[c] = "done"
LEMMA SameRest ==
    ASSUME TypeOK, Rest, UNCHANGED <<chats, deleting>>, raced \subseteq raced',
           listed' \subseteq listed \cup chats, asked' = asked, InputNeverStuck',
           \A c \in Chat : stored'[c] # <<>> => stored[c] # <<>> \/ Asking(c),
           \A c \in Chat : Asking(c)' => Asking(c),
           \A c \in Chat : c = current' =>
               (c = current \/ Asking(c) \/ (c \in listed /\ Chosen(c))),
           \A a \in Ask : Opening(a)' => Opening(a) /\ asks'[a].question = asks[a].question,
           current' \in Chat \cup {NoChat}
    PROVE  Rest'
<1>1. \A c \in Chat : Used(c)' => Used(c)
    BY DEF Used
<1>2. NewIsUnused'
    BY <1>1 DEF Rest, NewIsUnused
<1>3. AskedIsKnown' /\ OrphansOnlyByRace'
    BY DEF Rest, AskedIsKnown, OrphansOnlyByRace, Known
<1>4. ShownIsKnown'
    BY DEF Rest, AskedIsKnown, ShownIsKnown, Known, Chosen
<1>5. DeletingIsKnown'
    BY DEF Rest, AskedIsKnown, DeletingIsKnown, Known, Chosen
<1> QED BY <1>2, <1>3, <1>4, <1>5 DEF Rest

LEMMA SendRest == ASSUME TypeOK, Calls, Rest, NEW a \in Ask, SendMessage(a) PROVE Rest'
<1> USE DEF table, commands, panel, times
<1>1. /\ ~Active(a) /\ asks'[a].phase = "sent" /\ asks'[a].active = current
      /\ asks'[a].question = asked + 1
      /\ asked' = asked + 1 /\ \A b \in Ask \ {a} : asks'[b] = asks[b]
    BY QuestionSteps DEF Begins, AskStep
<1>2. UNCHANGED <<chats, stored, deleting, listed, current>> /\ asked \in Nat
    BY BoundsAssumption DEF SendMessage, TypeOK
<1>3. raced' = IF current # NoChat /\ deleting[current] # "none"
               THEN raced \cup {current} ELSE raced
    BY DEF SendMessage
<1>4. \A c \in Chat : Asking(c)' => Asking(c) \/ c = current
    BY <1>1 DEF Asking
<1>5. NewIsUnused'
    <2>1. \A c \in Chat : Used(c)' => Used(c)
        BY <1>2, <1>4 DEF Used
    <2>2. \A c \in Chat : c \in Nat
        BY Constants
    <2>3. \A c \in Chat : Used(c) => c <= asked /\ c <= asked' /\ c # asked + 1
        BY <1>1, <1>2, <2>2 DEF Rest, NewIsUnused
    <2>4. \A b \in Ask : Opening(b)' => Opening(b) \/ asks'[b].question = asked + 1
        BY <1>1 DEF Opening
    <2>5. \A b \in Ask : Opening(b) => asks'[b] = asks[b]
        BY <1>1 DEF Opening, Active
    <2> QED BY <2>1, <2>3, <2>4, <2>5 DEF Rest, NewIsUnused
<1>6. AskedIsKnown' /\ ShownIsKnown' /\ DeletingIsKnown' /\ OrphansOnlyByRace'
    BY <1>2, <1>3, <1>4, Constants
    DEF Rest, AskedIsKnown, ShownIsKnown, DeletingIsKnown, OrphansOnlyByRace, Known
<1>7. InputNeverStuck'
    BY <1>1 DEF InputNeverStuck
<1> QED BY <1>5, <1>6, <1>7 DEF Rest

LEMMA StillAsking ==
    ASSUME TypeOK, Rest, NEW a \in Ask, asks'[a].phase # "none"
    PROVE  InputNeverStuck'
BY DEF InputNeverStuck

LEMMA OpenRest == ASSUME TypeOK, Calls, Rest, NEW a \in Ask, OpenChat(a) PROVE Rest'
<1> USE DEF table, commands, panel, times
<1>0. Opening(a) /\ UNCHANGED <<stored, deleting, listed, current, raced, asked>>
    BY DEF OpenChat, Opening
<1>1. CASE Opens(a) /\ AskStep(a) /\ chats' = chats \cup {asks[a].question}
    <2> DEFINE q == asks[a].question
    <2>1. /\ asks'[a].phase = "opened" /\ asks'[a].active = q
          /\ \A b \in Ask \ {a} : asks'[b] = asks[b]
        BY <1>1 DEF Opens, AskStep
    <2>2. q \in Chat /\ q <= asked /\ asked \in Nat
        BY <1>0, QuestionType, BoundsAssumption DEF Active, Opening, Calls, TypeOK
    <2>3. ~Used(q)
        BY <1>0, <2>2 DEF Rest, NewIsUnused
    <2>4. \A c \in Chat : Asking(c)' => Asking(c) \/ c = q
        BY <2>1 DEF Asking
    <2>5. \A c \in Chat : Used(c)' => Used(c) \/ c = q
        BY <1>0, <1>1, <2>4 DEF Used
    <2>6. \A b \in Ask : Opening(b)' => /\ Opening(b) /\ asks'[b].question = asks[b].question
                                        /\ asks[b].question # q
        BY <1>0, <2>1 DEF Opening, Calls, Active
    <2>7. NewIsUnused'
        BY <1>0, <2>2, <2>5, <2>6 DEF Rest, NewIsUnused
    <2>8. deleting[q] = "none"
        BY <2>3 DEF Used
    <2>9. AskedIsKnown' /\ ShownIsKnown' /\ DeletingIsKnown' /\ OrphansOnlyByRace'
        BY <1>0, <1>1, <2>4, <2>8
        DEF Rest, AskedIsKnown, ShownIsKnown, DeletingIsKnown, OrphansOnlyByRace, Known
    <2> QED BY <2>1, <2>7, <2>9, StillAsking DEF Rest
<1>2. CASE GoesOn(a) /\ AskStep(a) /\ UNCHANGED chats
    <2>1. /\ asks'[a].phase \in {"asking", "answered", "failed"}
          /\ asks'[a].active = asks[a].active
          /\ \A b \in Ask \ {a} : asks'[b] = asks[b]
        BY <1>2 DEF GoesOn, AskStep
    <2>2. \A c \in Chat : Asking(c)' => Asking(c)
        BY <1>0, <2>1 DEF Asking, Opening
    <2>3. \A b \in Ask : Opening(b)' => Opening(b) /\ asks'[b].question = asks[b].question
        BY <2>1 DEF Opening
    <2>4. current' \in Chat \cup {NoChat}
        BY <1>0 DEF TypeOK
    <2> QED BY <1>0, <1>2, <2>1, <2>2, <2>3, <2>4, StillAsking, SameRest
<1>3. \/ Opens(a) /\ chats' = chats \cup {asks[a].question}
      \/ GoesOn(a) /\ UNCHANGED chats
    <2>1. CASE Fails(a) /\ UNCHANGED chats
        <3>1. asks'[a].phase = "failed"
            BY <2>1, OnePhase DEF Fails
        <3> QED BY <2>1, <3>1, QuestionSteps DEF Opens
    <2>2. CASE /\ chats' = chats \cup {asks[a].question}
               /\ asks' = [asks EXCEPT ![a].phase = "opened", ![a].active = asks[a].question]
        <3>1. asks'[a].phase = "opened"
            BY <2>2 DEF TypeOK, AskState
        <3> QED BY <2>2, <3>1, QuestionSteps DEF GoesOn
    <2> QED BY <2>1, <2>2 DEF OpenChat
<1> QED BY <1>1, <1>2, <1>3, QuestionSteps

LEMMA SaveRest ==
    ASSUME TypeOK, Calls, Rest, NEW a \in Ask, SaveQuestion(a) \/ SaveAnswer(a) \/ ModelFails(a)
    PROVE  Rest'
<1> USE DEF table, commands, panel, times
<1>1. /\ Active(a) /\ asks'[a].phase \in {"asking", "answered", "failed"}
      /\ asks'[a].active = asks[a].active
      /\ \A b \in Ask \ {a} : asks'[b] = asks[b]
    BY QuestionSteps DEF GoesOn, AskStep
<1>2. UNCHANGED <<chats, deleting, raced, asked, listed, current>>
    BY DEF SaveQuestion, SaveAnswer, ModelFails
<1>3. \A c \in Chat : stored'[c] # <<>> => stored[c] # <<>> \/ Asking(c)
    <2>1. \A c \in Chat : stored'[c] = stored[c] \/ c = asks[a].active
        BY DEF SaveQuestion, SaveAnswer, ModelFails, SaveMessage, TypeOK
    <2> QED BY <1>1, <2>1 DEF Asking, Active
<1>4. \A c \in Chat : Asking(c)' => Asking(c)
    BY <1>1 DEF Asking, Active
<1>5. \A b \in Ask : Opening(b)' => Opening(b) /\ asks'[b].question = asks[b].question
    BY <1>1 DEF Opening
<1>6. current' \in Chat \cup {NoChat}
    BY <1>2 DEF TypeOK
<1> QED BY <1>1, <1>2, <1>3, <1>4, <1>5, <1>6, StillAsking, SameRest

LEMMA ShowRest ==
    ASSUME TypeOK, Calls, Rest, NEW a \in Ask, ShowAnswer(a) \/ ShowError(a)
    PROVE  Rest'
<1> USE DEF table, commands, panel, times
<1>1. asks'[a] = NoAsk /\ \A b \in Ask \ {a} : asks'[b] = asks[b]
    BY QuestionSteps DEF Ends, AskStep
<1>2. UNCHANGED <<chats, stored, deleting, raced, asked>> /\ isLoading' = FALSE
    BY DEF ShowAnswer, ShowError
<1>3. current' = current \/ current' = asks[a].active
    BY DEF ShowAnswer, ShowError
<1>4. asks[a].phase # "none" /\ asks[a].active \in Chat \cup {NoChat}
    BY DEF ShowAnswer, ShowError, TypeOK, AskState
<1>5. \A c \in Chat : Asking(c)' => Asking(c)
    BY <1>1, Constants DEF Asking
<1>6. \A b \in Ask : Opening(b)' => Opening(b) /\ asks'[b].question = asks[b].question
    BY <1>1, Constants DEF Opening
<1>7. /\ current' \in Chat \cup {NoChat} /\ (current' # current => Asking(current'))
      /\ listed' \subseteq listed \cup chats
    BY <1>3, <1>4 DEF TypeOK, Asking, ShowAnswer, ShowError, LoadChats
<1>8. InputNeverStuck'
    BY <1>2 DEF InputNeverStuck
<1> QED BY <1>2, <1>5, <1>6, <1>7, <1>8, SameRest

LEMMA PagesRest ==
    ASSUME TypeOK, Rest, Pages \/ CreateNewChat \/ Refresh
    PROVE  Rest'
<1> USE DEF table, commands, panel, times
<1>1. UNCHANGED <<chats, stored, asks, deleting, asked>> /\ raced \subseteq raced'
      /\ listed' \subseteq listed \cup chats
    BY DEF Pages, SelectChat, ReadPage, ShowPage, LoadMore, ReadMore, ShowMore, CreateNewChat,
           Refresh
<1>2. InputNeverStuck'
    <2>1. ASSUME NEW l \in Load, NEW c \in Chat, SelectChat(l, c) PROVE InputNeverStuck'
        <3>1. loads'[l].phase = "sent"
            BY <2>1, Constants DEF SelectChat, TypeOK, Page
        <3> QED BY <3>1 DEF InputNeverStuck
    <2>2. ASSUME NEW l \in Load, ReadPage(l) PROVE InputNeverStuck'
        <3>1. loads'[l].phase = "read"
            <4>1. PICK page : loads' = [loads EXCEPT ![l].phase = "read", ![l].messages = page]
                BY <2>2 DEF ReadPage
            <4> QED BY <4>1 DEF TypeOK, Page
        <3> QED BY <3>1 DEF InputNeverStuck
    <2>3. ASSUME NEW l \in Load, ShowPage(l) PROVE InputNeverStuck'
        BY <2>3 DEF ShowPage, InputNeverStuck
    <2>4. CASE LoadMore \/ ReadMore \/ ShowMore \/ CreateNewChat \/ Refresh
        BY <2>4 DEF LoadMore, ReadMore, ShowMore, CreateNewChat, Refresh, Rest,
                    InputNeverStuck
    <2> QED BY <2>1, <2>2, <2>3, <2>4 DEF Pages
<1>3. /\ current' \in Chat \cup {NoChat}
      /\ \A c \in Chat : c = current' => (c = current \/ (c \in listed /\ Chosen(c)))
    <2>1. ASSUME NEW l \in Load, NEW c \in Chat, SelectChat(l, c)
          PROVE  current' = c /\ c \in listed /\ Chosen(c)
        BY <2>1 DEF SelectChat, Chosen
    <2>2. CASE UNCHANGED current \/ current' = NoChat
        BY <2>2, Constants DEF TypeOK
    <2>3. \/ \E l \in Load, c \in Chat : SelectChat(l, c)
          \/ UNCHANGED current \/ current' = NoChat
        BY DEF Pages, ReadPage, ShowPage, LoadMore, ReadMore, ShowMore, CreateNewChat, Refresh
    <2> QED BY <2>1, <2>2, <2>3
<1>4. /\ \A c \in Chat : Asking(c)' => Asking(c)
      /\ \A a \in Ask : Opening(a)' => Opening(a) /\ asks'[a].question = asks[a].question
    BY <1>1 DEF Asking, Opening
<1> QED BY <1>1, <1>2, <1>3, <1>4, SameRest

LEMMA DeletionsRest == ASSUME TypeOK, Rest, NEW c \in Chat,
                              DeleteChat(c) \/ DeleteRows(c) \/ ChatDeleted(c)
                       PROVE  Rest'
<1> USE DEF table, commands, panel, times
<1>1. UNCHANGED <<asks, loads, isLoading, asked>>
    BY DEF DeleteChat, DeleteRows, ChatDeleted
<1>2. /\ InputNeverStuck'
      /\ \A x \in Chat : Asking(x)' = Asking(x)
      /\ \A a \in Ask : Opening(a)' = Opening(a)
    BY <1>1 DEF Rest, InputNeverStuck, Asking, Opening
<1>3. ASSUME \A x \in Chat : Used(x)' => Used(x) PROVE NewIsUnused'
    BY <1>1, <1>2, <1>3 DEF Rest, NewIsUnused
<1>4. CASE DeleteChat(c)
    <2>1. /\ c \in listed /\ deleting' = [deleting EXCEPT ![c] = "sent"]
          /\ deleting[c] = "none"
          /\ raced' = IF Asking(c) THEN raced \cup {c} ELSE raced
          /\ UNCHANGED <<chats, stored, listed, current>>
        BY <1>4 DEF DeleteChat
    <2>2. deleting'[c] = "sent" /\ \A x \in Chat \ {c} : deleting'[x] = deleting[x]
        BY <2>1 DEF TypeOK
    <2>3. NewIsUnused'
        BY <1>2, <1>3, <2>1, <2>2 DEF Used
    <2>4. AskedIsKnown' /\ ShownIsKnown' /\ OrphansOnlyByRace'
        BY <1>2, <2>1, <2>2
        DEF Rest, AskedIsKnown, ShownIsKnown, OrphansOnlyByRace, Known, TypeOK
    <2>5. DeletingIsKnown'
        BY <1>2, <2>1, <2>2, Constants DEF Rest, ShownIsKnown, DeletingIsKnown, Known
    <2> QED BY <1>2, <2>3, <2>4, <2>5 DEF Rest
<1>5. CASE DeleteRows(c)
    <2>1. /\ deleting[c] = "sent" /\ UNCHANGED <<listed, current, raced>>
          /\ \/ /\ stored' = [stored EXCEPT ![c] = <<>>] /\ chats' = chats \ {c}
                /\ deleting' = [deleting EXCEPT ![c] = "done"]
             \/ /\ stored' \in {stored, [stored EXCEPT ![c] = <<>>]} /\ UNCHANGED chats
                /\ deleting' = [deleting EXCEPT ![c] = "failed"]
        BY <1>5 DEF DeleteRows
    <2>2. /\ \A x \in Chat \ {c} : deleting'[x] = deleting[x] /\ stored'[x] = stored[x]
          /\ stored'[c] \in {stored[c], <<>>}
          /\ \/ stored'[c] = <<>> /\ chats' = chats \ {c} /\ deleting'[c] = "done"
             \/ UNCHANGED chats /\ deleting'[c] = "failed"
        BY <2>1 DEF TypeOK
    <2>3. (c = current => Known(c)) /\ (Asking(c) => c \in raced)
        BY <2>1 DEF Rest, DeletingIsKnown
    <2>4. NewIsUnused'
        BY <1>2, <1>3, <2>1, <2>2, <2>3 DEF Used
    <2>5. AskedIsKnown' /\ DeletingIsKnown' /\ OrphansOnlyByRace'
        BY <1>2, <2>1, <2>2, <2>3
        DEF Rest, AskedIsKnown, DeletingIsKnown, OrphansOnlyByRace, Known
    <2>6. ShownIsKnown'
        BY <2>1, <2>2 DEF Rest, ShownIsKnown, Known, TypeOK
    <2> QED BY <1>2, <2>4, <2>5, <2>6 DEF Rest
<1>6. CASE ChatDeleted(c)
    <2>1. /\ deleting' = [deleting EXCEPT ![c] = "none"]
          /\ UNCHANGED <<chats, stored, raced>> /\ listed' \subseteq listed \cup chats
          /\ \/ deleting[c] = "done" /\ current' = IF current = c THEN NoChat ELSE current
             \/ deleting[c] = "failed" /\ UNCHANGED current
        BY <1>6 DEF ChatDeleted, Deselect, LoadChats
    <2>2. deleting'[c] = "none" /\ \A x \in Chat \ {c} : deleting'[x] = deleting[x]
        BY <2>1 DEF TypeOK
    <2>3. NewIsUnused'
        BY <1>2, <1>3, <2>1, <2>2, Constants DEF Used
    <2>4. AskedIsKnown' /\ DeletingIsKnown' /\ OrphansOnlyByRace'
        BY <1>2, <2>1, <2>2, Constants
        DEF Rest, AskedIsKnown, DeletingIsKnown, OrphansOnlyByRace, Known
    <2>5. ShownIsKnown'
        BY <2>1, <2>2 DEF Rest, ShownIsKnown, DeletingIsKnown, Known, TypeOK
    <2> QED BY <1>2, <2>3, <2>4, <2>5 DEF Rest
<1> QED BY <1>4, <1>5, <1>6

LEMMA RestartRest == ASSUME TypeOK, Rest, Restart PROVE Rest'
<1> USE DEF table, commands, panel, times
<1>1. /\ UNCHANGED <<chats, stored, raced, asked>> /\ isLoading' = FALSE /\ current' = NoChat
      /\ listed' \subseteq chats
      /\ \A a \in Ask : asks'[a] = NoAsk
      /\ \A c \in Chat : deleting'[c] = "none"
    BY DEF Restart
<1>2. /\ \A c \in Chat : ~Asking(c)'
      /\ \A a \in Ask : ~Opening(a)'
    BY <1>1, Constants DEF Asking, Opening
<1>3. \A c \in Chat : Used(c)' => Used(c)
    BY <1>1, <1>2, Constants DEF Used
<1> QED BY <1>1, <1>2, <1>3
        DEF Rest, NewIsUnused, AskedIsKnown, ShownIsKnown, DeletingIsKnown, InputNeverStuck,
            OrphansOnlyByRace

LEMMA NextIInv == IInv /\ [Next]_vars => IInv'
<1> SUFFICES ASSUME IInv, [Next]_vars PROVE IInv'
    OBVIOUS
<1> USE DEF table, commands, panel, times
<1>0. TypeOK /\ Calls /\ PagesOfChats /\ Rest
    BY DEF IInv, Rest
<1>1. TypeOK' /\ PagesOfChats'
    BY <1>0, NextTypes, PagesOfChatsKept
<1>2. Calls'
    <2>1. CASE Questions
        BY <1>0, <2>1, QuestionSteps, CallsKept DEF Questions
    <2>2. CASE Restart
        BY <1>0, <2>2, CallsKept DEF Restart
    <2>3. CASE Pages \/ Deletions \/ Refresh \/ CreateNewChat \/ UNCHANGED vars
        <3>1. UNCHANGED <<asks, asked>>
            BY <2>3 DEF Pages, SelectChat, ReadPage, ShowPage, LoadMore, ReadMore, ShowMore,
                        Deletions, DeleteChat, DeleteRows, ChatDeleted, Refresh,
                        CreateNewChat, vars
        <3> QED BY <1>0, <3>1, CallsKept
    <2> QED BY <2>1, <2>2, <2>3 DEF Next
<1>3. Rest'
    <2>1. CASE UNCHANGED vars
        <3>1. InputNeverStuck' /\ current' \in Chat \cup {NoChat}
            BY <1>0, <2>1 DEF vars, Rest, InputNeverStuck, TypeOK
        <3> QED BY <1>0, <2>1, <3>1, SameRest DEF vars, Asking, Opening
    <2>2. CASE Next
        BY <1>0, <2>2, SendRest, OpenRest, SaveRest, ShowRest, PagesRest, DeletionsRest,
           RestartRest DEF Next, Questions, Deletions
    <2> QED BY <2>1, <2>2
<1> QED BY <1>1, <1>2, <1>3 DEF IInv, Rest

LEMMA Invariant == Spec => []IInv
<1>1. Init => IInv
    BY InitTypes, InitRest DEF IInv, Rest
<1> QED BY <1>1, NextIInv, PTL DEF Spec

(* Every chat, message, call and page keeps its shape.                     *)
THEOREM TypeCorrect == Spec => []TypeOK
<1>1. IInv => TypeOK
    BY DEF IInv
<1> QED BY <1>1, Invariant, PTL

(* Whatever crosses or fails, the form is enabled again once nothing is    *)
(* under way (sendMessage, selectChat).                                    *)
THEOREM InputNeverStuckHolds == Spec => []InputNeverStuck
<1>1. IInv => InputNeverStuck
    BY DEF IInv
<1> QED BY <1>1, Invariant, PTL

(* Messages of a chat that is gone come only from a question that was      *)
(* asked while the chat was being deleted, or after it was opened from a   *)
(* list that a failed loading had left as it was (ask_ai, delete_rag_chat, *)
(* deleteChat).                                                            *)
THEOREM OrphansOnlyByRaceHolds == Spec => []OrphansOnlyByRace
<1>1. IInv => OrphansOnlyByRace
    BY DEF IInv
<1> QED BY <1>1, Invariant, PTL

-----------------------------------------------------------------------------
(* What is said by a list of messages.                                     *)
LEMMA SayingAppend ==
    ASSUME NEW s \in Seq(Message), NEW m \in Message
    PROVE  /\ SayingSet(s) \subseteq SayingSet(Append(s, m))
           /\ Says(m) \in SayingSet(Append(s, m))
           /\ Append(s, m) # <<>>
           /\ s # <<>> => Append(s, m)[1] = s[1]
           /\ s = <<>> => Append(s, m)[1] = m
<1>1. /\ Len(s) \in Nat /\ (s # <<>> => Len(s) # 0) /\ (s = <<>> => Len(s) = 0)
    BY LenProperties, EmptySeq
<1>2. /\ Append(s, m) # <<>> /\ Len(Append(s, m)) = Len(s) + 1
      /\ \A i \in 1 .. Len(s) : Append(s, m)[i] = s[i]
      /\ Append(s, m)[Len(s) + 1] = m
    BY AppendProperties
<1>3. 1 .. Len(s) \subseteq 1 .. Len(s) + 1 /\ Len(s) + 1 \in 1 .. Len(s) + 1
    BY <1>1
<1>4. SayingSet(s) \subseteq SayingSet(Append(s, m))
    BY <1>2, <1>3 DEF SayingSet
<1>5. Says(m) \in SayingSet(Append(s, m))
    BY <1>2, <1>3 DEF SayingSet, Says
<1>6. s # <<>> => Append(s, m)[1] = s[1]
    BY <1>1, <1>2
<1>7. s = <<>> => Append(s, m)[1] = m
    BY <1>1, <1>2
<1> QED BY <1>2, <1>4, <1>5, <1>6, <1>7

LEMMA SayingConcat ==
    ASSUME NEW s \in Seq(Message), NEW t \in Seq(Message)
    PROVE  /\ SayingSet(s) \subseteq SayingSet(s \o t)
           /\ SayingSet(t) \subseteq SayingSet(s \o t)
           /\ s # <<>> => s \o t # <<>> /\ (s \o t)[1] = s[1]
           /\ s = <<>> => s \o t = t
<1>1. /\ Len(s) \in Nat /\ Len(t) \in Nat
      /\ (s # <<>> => Len(s) # 0)
    BY LenProperties, EmptySeq
<1>2. /\ Len(s \o t) = Len(s) + Len(t) /\ s \o t \in Seq(Message)
      /\ \A i \in 1 .. Len(s) + Len(t) :
            (s \o t)[i] = IF i <= Len(s) THEN s[i] ELSE t[i - Len(s)]
    BY ConcatProperties
<1>3. ASSUME NEW i \in 1 .. Len(s)
      PROVE  i \in 1 .. Len(s) + Len(t) /\ (s \o t)[i] = s[i]
    BY <1>1, <1>2
<1>4. ASSUME NEW i \in 1 .. Len(t)
      PROVE  i + Len(s) \in 1 .. Len(s) + Len(t) /\ (s \o t)[i + Len(s)] = t[i]
    <2>1. i + Len(s) \in 1 .. Len(s) + Len(t) /\ ~(i + Len(s) <= Len(s))
          /\ i + Len(s) - Len(s) = i
        BY <1>1
    <2> QED BY <1>2, <2>1
<1>5. SayingSet(s) \subseteq SayingSet(s \o t)
    BY <1>2, <1>3 DEF SayingSet
<1>6. SayingSet(t) \subseteq SayingSet(s \o t)
    BY <1>2, <1>4 DEF SayingSet
<1>7. s # <<>> => s \o t # <<>> /\ (s \o t)[1] = s[1]
    <2>1. SUFFICES ASSUME s # <<>> PROVE s \o t # <<>> /\ (s \o t)[1] = s[1]
        OBVIOUS
    <2>2. 1 \in 1 .. Len(s) /\ Len(s) + Len(t) # 0
        BY <1>1, <2>1
    <2>3. Len(<<>>) = 0
        BY EmptySeq
    <2> QED BY <1>2, <1>3, <2>2, <2>3
<1>8. s = <<>> => s \o t = t
    BY ConcatEmptySeq
<1> QED BY <1>5, <1>6, <1>7, <1>8

(* The last page of a chat has all from its first message on.              *)
LEMMA LastPageCovers ==
    ASSUME NEW s \in Seq(Message), InOrder(s), NEW i \in 1 .. Len(s)
    PROVE  PageCovers(LastPage(s), s[i])
<1> DEFINE p == LastPage(s)
<1>1. /\ p \in Seq(Message) /\ Len(p) <= PageSize /\ Len(p) <= Len(s)
      /\ Len(p) < PageSize => p = s
      /\ \A j \in 1 .. Len(p) : p[j] = s[Len(s) - Len(p) + j]
    BY LastPageType
<1>2. Len(s) \in Nat /\ Len(p) \in Nat /\ PageSize \in Nat \ {0}
    BY <1>1, LenProperties, PageSizeAssumption
<1>3. \A j \in 1 .. Len(s) : s[j].made \in Nat
    <2>1. \A j \in 1 .. Len(s) : s[j] \in Message
        BY ElementOfSeq
    <2> QED BY <2>1 DEF Message
<1> HIDE DEF p
<1>4. CASE ~FullPage(p)
    <2>1. p = s
        BY <1>1, <1>2, <1>4 DEF FullPage
    <2> QED BY <2>1 DEF PageCovers, Says, SayingSet, p
<1>5. CASE FullPage(p) /\ s[i].made >= p[1].made
    <2> DEFINE k == Len(s) - Len(p)
    <2>1. Len(p) = PageSize /\ k \in 0 .. Len(s) - 1
        BY <1>1, <1>2, <1>5 DEF FullPage
    <2>2. p[1] = s[k + 1] /\ k + 1 \in 1 .. Len(s)
        BY <1>1, <1>2, <2>1
    <2>3. i >= k + 1
        BY <1>2, <1>3, <1>5, <2>1, <2>2 DEF InOrder
    <2>4. i - k \in 1 .. Len(p) /\ k + (i - k) = i
        BY <1>2, <2>1, <2>3
    <2>5. p[i - k] = s[i]
        BY <1>1, <2>4
    <2>6. Says(s[i]) \in SayingSet(p)
        BY <2>4, <2>5 DEF Says, SayingSet
    <2> QED BY <2>6 DEF PageCovers, p
<1>6. CASE FullPage(p) /\ ~(s[i].made >= p[1].made)
    BY <1>6 DEF PageCovers, p
<1> QED BY <1>4, <1>5, <1>6

(* The older messages of a chat are its first ones.                        *)
LEMMA EarlierIsFirst ==
    ASSUME NEW s \in Seq(Message), InOrder(s), NEW time \in Nat
    PROVE  /\ InOrder(Earlier(s, time))
           /\ \A i \in 1 .. Len(s) : s[i].made < time =>
                 i \in 1 .. Len(Earlier(s, time)) /\ Earlier(s, time)[i] = s[i]
<1> DEFINE A == {i \in DOMAIN s : s[i].made < time}
           k == Cardinality(A)
<1>1. /\ k \in 0 .. Len(s) /\ Len(Earlier(s, time)) = k
      /\ \A i \in 1 .. k : Earlier(s, time)[i] = s[i]
    BY EarlierType
<1>2. Len(s) \in Nat /\ DOMAIN s = 1 .. Len(s)
    BY LenProperties
<1>3. \A j \in 1 .. Len(s) : s[j].made \in Nat
    <2>1. \A j \in 1 .. Len(s) : s[j] \in Message
        BY ElementOfSeq
    <2> QED BY <2>1 DEF Message
<1>4. ASSUME NEW i \in 1 .. Len(s), s[i].made < time PROVE i <= k
    <2>1. \A j \in 1 .. i : j \in 1 .. Len(s) /\ s[j].made < time
        BY <1>2, <1>3, <1>4 DEF InOrder
    <2>2. 1 .. i \in SUBSET A
        BY <1>2, <2>1
    <2>3. IsFiniteSet(1 .. Len(s)) /\ A \in SUBSET (1 .. Len(s))
        BY <1>2, FS_Interval
    <2>4. IsFiniteSet(A)
        BY <2>3, FS_Subset
    <2>5. Cardinality(1 .. i) <= k
        BY <2>2, <2>4, FS_Subset
    <2>6. Cardinality(1 .. i) = i
        <3>1. 1 \in Int /\ i \in Int /\ (IF 1 > i THEN 0 ELSE i - 1 + 1) = i
            BY <1>2
        <3> QED BY <3>1, FS_Interval
    <2> QED BY <2>5, <2>6
<1> HIDE DEF k
<1>5. InOrder(Earlier(s, time))
    <2>1. 1 .. k \subseteq 1 .. Len(s)
        BY <1>1, <1>2
    <2> QED BY <1>1, <2>1 DEF InOrder
<1>6. \A i \in 1 .. Len(s) : i <= k => i \in 1 .. k
    BY <1>1, <1>2
<1> QED BY <1>1, <1>4, <1>5, <1>6

-----------------------------------------------------------------------------
(* Times.                                                                  *)
LEMMA First ==
    ASSUME NEW s \in Seq(Message), s # <<>>
    PROVE  1 \in 1 .. Len(s) /\ s[1] \in Message /\ s[1].made \in Nat
<1>1. Len(s) \in Nat /\ Len(s) # 0
    BY LenProperties, EmptySeq
<1>2. 1 \in 1 .. Len(s)
    BY <1>1
<1>3. s[1] \in Message
    BY <1>2, ElementOfSeq
<1> QED BY <1>2, <1>3 DEF Message

LEMMA AppendSorted ==
    ASSUME NEW s \in Seq(Message), NEW m \in Message, NEW n \in Nat,
           InOrder(s), AllBy(s, n), m.made = n + 1
    PROVE  InOrder(Append(s, m)) /\ AllBy(Append(s, m), n + 1)
<1>1. Len(s) \in Nat /\ \A i \in 1 .. Len(s) : s[i].made \in Nat
    <2>1. Len(s) \in Nat /\ \A i \in 1 .. Len(s) : s[i] \in Message
        BY LenProperties, ElementOfSeq
    <2> QED BY <2>1 DEF Message
<1>2. /\ Len(Append(s, m)) = Len(s) + 1 /\ Append(s, m)[Len(s) + 1] = m
      /\ \A i \in 1 .. Len(s) : Append(s, m)[i] = s[i]
    BY AppendProperties
<1>3. \A i \in 1 .. Len(s) : Append(s, m)[i].made <= n
    BY <1>2 DEF AllBy
<1>4. \A i \in 1 .. Len(s) + 1 : i \in 1 .. Len(s) \/ i = Len(s) + 1
    BY <1>1
<1>5. AllBy(Append(s, m), n + 1)
    <2>1. ASSUME NEW i \in 1 .. Len(s) + 1 PROVE Append(s, m)[i].made <= n + 1
        <3>1. CASE i \in 1 .. Len(s)
            BY <1>1, <1>2, <1>3, <3>1
        <3>2. CASE i = Len(s) + 1
            BY <1>2, <3>2
        <3> QED BY <1>4, <3>1, <3>2
    <2> QED BY <1>2, <2>1 DEF AllBy
<1>6. InOrder(Append(s, m))
    <2>1. ASSUME NEW i \in 1 .. Len(s) + 1, NEW j \in 1 .. Len(s) + 1, i < j
          PROVE  Append(s, m)[i].made < Append(s, m)[j].made
        <3>1. i \in 1 .. Len(s)
            BY <1>1, <2>1
        <3>2. CASE j \in 1 .. Len(s)
            BY <1>2, <2>1, <3>1, <3>2 DEF InOrder
        <3>3. CASE j = Len(s) + 1
            BY <1>1, <1>2, <1>3, <3>1, <3>3
        <3> QED BY <1>4, <3>2, <3>3
    <2> QED BY <1>2, <2>1 DEF InOrder
<1> QED BY <1>5, <1>6

LEMMA LastPageFirst ==
    ASSUME NEW s \in Seq(Message), NEW n \in Nat, AllBy(s, n)
    PROVE  FirstBy(LastPage(s), n)
<1> SUFFICES ASSUME LastPage(s) # <<>> PROVE LastPage(s)[1].made <= n
    BY DEF FirstBy
<1>1. /\ LastPage(s) \in Seq(Message) /\ Len(LastPage(s)) <= Len(s)
      /\ \A i \in 1 .. Len(LastPage(s)) :
            LastPage(s)[i] = s[Len(s) - Len(LastPage(s)) + i]
    BY LastPageType
<1>2. Len(s) \in Nat /\ Len(LastPage(s)) \in Nat /\ 1 \in 1 .. Len(LastPage(s))
    BY <1>1, LenProperties, First
<1>3. Len(s) - Len(LastPage(s)) + 1 \in 1 .. Len(s)
    BY <1>1, <1>2
<1> QED BY <1>1, <1>2, <1>3 DEF AllBy

LEMMA EarlierSorted ==
    ASSUME NEW s \in Seq(Message), NEW t \in Nat, NEW n, InOrder(s), AllBy(s, n)
    PROVE  Earlier(s, t) \in Seq(Message) /\ InOrder(Earlier(s, t)) /\ AllBy(Earlier(s, t), n)
<1>1. /\ Earlier(s, t) \in Seq(Message)
      /\ Len(Earlier(s, t)) \in 0 .. Len(s)
      /\ \A i \in 1 .. Len(Earlier(s, t)) : Earlier(s, t)[i] = s[i]
    BY EarlierType
<1>2. 1 .. Len(Earlier(s, t)) \subseteq 1 .. Len(s)
    BY <1>1, LenProperties
<1> QED BY <1>1, <1>2, EarlierIsFirst DEF AllBy

(* A later moment.                                                         *)
LEMMA Later ==
    ASSUME NEW s \in Seq(Message), NEW n \in Nat, NEW k \in Nat, n <= k
    PROVE  (AllBy(s, n) => AllBy(s, k)) /\ (FirstBy(s, n) => FirstBy(s, k))
<1>1. \A i \in 1 .. Len(s) : s[i].made \in Nat
    <2>1. \A i \in 1 .. Len(s) : s[i] \in Message
        BY ElementOfSeq
    <2> QED BY <2>1 DEF Message
<1>2. AllBy(s, n) => AllBy(s, k)
    BY <1>1 DEF AllBy
<1>3. FirstBy(s, n) => FirstBy(s, k)
    BY First DEF FirstBy
<1> QED BY <1>2, <1>3

(* What a page begins with was made before it was read, in whatever order  *)
(* the rows come.                                                          *)
LEMMA RowsFirst ==
    ASSUME NEW s \in Seq(Message), NEW n \in Nat, AllBy(s, n), NEW rows \in ByTime(s)
    PROVE  rows \in Seq(Message) /\ AllBy(rows, n) /\ FirstBy(LastPage(rows), n)
<1>1. rows \in Seq(Message) /\ AllBy(rows, n)
    BY ByTimeType DEF AllBy
<1> QED BY <1>1, LastPageFirst

LEMMA OlderFirst ==
    ASSUME NEW s \in Seq(Message), NEW n \in Nat, AllBy(s, n), NEW rows \in ByTime(s),
           NEW t \in Nat
    PROVE  FirstBy(LastPage(Older(rows, t)), n)
<1>1. rows \in Seq(Message) /\ AllBy(rows, n)
    BY RowsFirst
<1>2. /\ Older(rows, t) \in Seq(Message) /\ Len(Older(rows, t)) \in 0 .. Len(rows)
      /\ \A i \in 1 .. Len(Older(rows, t)) : Older(rows, t)[i] = rows[i]
    BY <1>1, OlderType
<1>3. 1 .. Len(Older(rows, t)) \subseteq 1 .. Len(rows)
    BY <1>1, <1>2, LenProperties
<1>4. AllBy(Older(rows, t), n)
    BY <1>1, <1>2, <1>3 DEF AllBy
<1> QED BY <1>2, <1>4, LastPageFirst

(* A page that leaves the panel unmixed has the rows in their order.       *)
LEMMA ReadInOrder ==
    ASSUME TypeOK, PagesOfChats, ~mixed', NEW l \in Load, ReadPage(l)
    PROVE  /\ ~mixed
           /\ loads' = [loads EXCEPT ![l].phase = "read",
                                     ![l].messages = LastPage(stored[loads[l].chat])]
<1>1. stored[loads[l].chat] \in Seq(Message)
    BY DEF ReadPage, Loading, PagesOfChats, TypeOK, Page
<1>2. ~mixed /\ Dated(stored[loads[l].chat])
    BY DEF ReadPage, TypeOK
<1>3. PICK rows \in ByTime(stored[loads[l].chat]) :
          loads' = [loads EXCEPT ![l].phase = "read", ![l].messages = LastPage(rows)]
    BY DEF ReadPage
<1> QED BY <1>1, <1>2, <1>3, ByTimeDated

LEMMA ReadEarlier ==
    ASSUME TypeOK, PagesOfChats, ~mixed', ReadMore
    PROVE  /\ ~mixed
           /\ more' = [more EXCEPT !.phase = "read",
                            !.messages = LastPage(Earlier(stored[more.chat], more.first))]
<1>1. stored[more.chat] \in Seq(Message)
    BY DEF ReadMore, PagesOfChats, TypeOK, Page
<1>2. ~mixed /\ DatedBefore(stored[more.chat], more.first, more.before)
    BY DEF ReadMore, TypeOK
<1>3. PICK rows \in ByTime(stored[more.chat]) :
          more' = [more EXCEPT !.phase = "read",
                               !.messages = LastPage(Older(rows, more.before))]
    BY DEF ReadMore
<1>4. rows = stored[more.chat]
    BY <1>1, <1>2, ByTimeDated DEF DatedBefore
<1> QED BY <1>1, <1>2, <1>3, <1>4, OlderIsEarlier

LEMMA InitSorted == Init => Sorted
<1> SUFFICES ASSUME Init PROVE Sorted
    OBVIOUS
<1>1. \A c \in Chat : stored[c] = <<>>
    BY DEF Init
<1>2. InOrder(<<>>) /\ AllBy(<<>>, said)
    <2>1. Len(<<>>) = 0 /\ 1 .. 0 = {}
        BY EmptySeq
    <2> QED BY <2>1 DEF InOrder, AllBy
<1>3. shown = <<>> /\ more.messages = <<>> /\ \A l \in Load : loads[l].messages = <<>>
    BY Constants DEF Init
<1> QED BY <1>1, <1>2, <1>3 DEF Sorted, FirstBy

(* What a step makes of the stored messages.                               *)
LEMMA StoredSorted ==
    ASSUME TypeOK, Sorted, said' \in {said, said + 1},
           \A c \in Chat : \/ stored'[c] \in {stored[c], <<>>}
                           \/ \E m \in Message : /\ stored'[c] = Append(stored[c], m)
                                                 /\ m.made = said + 1
                                                 /\ said' = said + 1
    PROVE  \A c \in Chat : InOrder(stored'[c]) /\ AllBy(stored'[c], said')
<1> TAKE c \in Chat
<1>1. said \in Nat /\ said' \in Nat /\ said <= said' /\ stored[c] \in Seq(Message)
    BY DEF TypeOK
<1>2. InOrder(stored[c]) /\ AllBy(stored[c], said)
    BY DEF Sorted
<1>3. CASE stored'[c] = stored[c]
    BY <1>1, <1>2, <1>3, Later
<1>4. CASE stored'[c] = <<>>
    <2>1. Len(<<>>) = 0 /\ 1 .. 0 = {}
        BY EmptySeq
    <2> QED BY <1>4, <2>1 DEF InOrder, AllBy
<1>5. ASSUME NEW m \in Message, stored'[c] = Append(stored[c], m), m.made = said + 1,
             said' = said + 1
      PROVE  InOrder(stored'[c]) /\ AllBy(stored'[c], said')
    BY <1>1, <1>2, <1>5, AppendSorted
<1> QED BY <1>3, <1>4, <1>5

(* What a step makes of the pages.                                         *)
LEMMA PagesSorted ==
    ASSUME TypeOK, Sorted, said' \in {said, said + 1}
    PROVE  /\ shown' = shown => FirstBy(shown', said')
           /\ more'.messages = more.messages => FirstBy(more'.messages, said')
           /\ \A l \in Load : loads'[l].messages = loads[l].messages
                                 => FirstBy(loads'[l].messages, said')
<1>1. said \in Nat /\ said' \in Nat /\ said <= said'
    BY DEF TypeOK
<1>2. shown \in Seq(Message) /\ more.messages \in Seq(Message)
      /\ \A l \in Load : loads[l].messages \in Seq(Message)
    BY DEF TypeOK, Page
<1> QED BY <1>1, <1>2, Later DEF Sorted

LEMMA SortedKept ==
    ASSUME TypeOK, Calls, PagesOfChats, Sorted, [Next]_vars PROVE Sorted'
<1> USE DEF table, commands, panel, times
<1>0. said \in Nat /\ shown \in Seq(Message)
    BY SMTT(40) DEF TypeOK
<1>1. said' \in {said, said + 1}
    BY DEF Next, Questions, SendMessage, OpenChat, SaveQuestion, SaveAnswer, ModelFails,
           ShowAnswer, ShowError, SaveMessage, Pages, SelectChat, ReadPage, ShowPage,
           LoadMore, ReadMore, ShowMore, Deletions, DeleteChat, DeleteRows, ChatDeleted,
           Refresh, CreateNewChat, Restart, Tick, vars
<1>2. \A c \in Chat : InOrder(stored'[c]) /\ AllBy(stored'[c], said')
    <2>1. ASSUME NEW a \in Ask, SaveQuestion(a) \/ SaveAnswer(a), NEW c \in Chat
          PROVE  \/ stored'[c] = stored[c]
                 \/ \E m \in Message : /\ stored'[c] = Append(stored[c], m)
                                       /\ m.made = said + 1 /\ said' = said + 1
        <3>1. PICK role \in {"user", "assistant"} :
                  SaveMessage(asks[a].active, asks[a].question, role)
            BY <2>1 DEF SaveQuestion, SaveAnswer
        <3>2. asks[a].question \in Chat
            BY <2>1, QuestionType DEF SaveQuestion, SaveAnswer, Active
        <3>3. CASE UNCHANGED stored
            BY <3>3
        <3>4. ASSUME NEW now \in Now, Tick(now),
                     stored' = [stored EXCEPT ![asks[a].active] =
                                   Append(@, Say(asks[a].question, role, now))]
              PROVE  \/ stored'[c] = stored[c]
                     \/ \E m \in Message : /\ stored'[c] = Append(stored[c], m)
                                           /\ m.made = said + 1 /\ said' = said + 1
            <4> DEFINE m == Say(asks[a].question, role, now)
            <4>1. m \in Message /\ m.made = said + 1
                BY <3>2, SayType
            <4>2. stored' = [stored EXCEPT ![asks[a].active] = Append(@, m)]
                BY <3>4
            <4> HIDE DEF m
            <4> QED BY <3>4, <4>1, <4>2, TickType DEF TypeOK
        <3> QED BY <3>1, <3>3, <3>4 DEF SaveMessage
    <2>2. ASSUME NEW d \in Chat, DeleteRows(d), NEW c \in Chat
          PROVE  stored'[c] \in {stored[c], <<>>}
        BY <2>2 DEF DeleteRows, TypeOK
    <2>3. CASE \/ \E a \in Ask : SaveQuestion(a) \/ SaveAnswer(a)
               \/ \E d \in Chat : DeleteRows(d)
        BY <1>1, <2>1, <2>2, <2>3, StoredSorted
    <2>4. CASE UNCHANGED stored
        BY SMTT(40), <1>1, <2>4, StoredSorted
    <2>5. \/ \E a \in Ask : SaveQuestion(a) \/ SaveAnswer(a)
          \/ \E d \in Chat : DeleteRows(d)
          \/ UNCHANGED stored
        BY DEF Next, Questions, SendMessage, OpenChat, ModelFails, ShowAnswer, ShowError,
               Pages, SelectChat, ReadPage, ShowPage, LoadMore, ReadMore, ShowMore,
               Deletions, DeleteChat, ChatDeleted, Refresh, CreateNewChat, Restart, vars
    <2> QED BY <2>3, <2>4, <2>5
<1>3. FirstBy(shown', said')
    <2>1. ASSUME NEW m \in Message, shown' = Append(shown, m), m.made = said + 1,
                 said' = said + 1
          PROVE  FirstBy(shown', said')
        <3>1. CASE shown = <<>>
            BY <1>0, <2>1, <3>1, SayingAppend DEF FirstBy
        <3>2. CASE shown # <<>>
            <4>1. Append(shown, m)[1] = shown[1] /\ shown[1].made \in Nat
                  /\ shown[1].made <= said
                BY <1>0, <3>2, First, SayingAppend DEF Sorted, FirstBy
            <4> QED BY <1>0, <2>1, <4>1 DEF FirstBy
        <3> QED BY <3>1, <3>2
    <2>2. ASSUME NEW a \in Ask, SendMessage(a) \/ ShowAnswer(a) \/ ShowError(a)
          PROVE  FirstBy(shown', said')
        <3>1. PICK q \in Chat, role \in {"user", "assistant", "error"}, now \in Now :
                  shown' = Append(shown, Say(q, role, now)) /\ Tick(now)
            <4>1. CASE SendMessage(a)
                <5>1. asked' \in Chat
                    BY <4>1, BoundsAssumption DEF SendMessage, CanAsk, TypeOK, Chat, Question
                <5> QED BY <4>1, <5>1 DEF SendMessage
            <4>2. CASE ShowAnswer(a) \/ ShowError(a)
                <5>1. asks[a].question \in Chat
                    BY <4>2, QuestionType DEF ShowAnswer, ShowError, Active
                <5> QED BY <4>2, <5>1 DEF ShowAnswer, ShowError
            <4> QED BY <2>2, <4>1, <4>2
        <3> QED BY <2>1, <3>1, SayType, TickType
    <2>3. ASSUME NEW l \in Load, ShowPage(l) PROVE FirstBy(shown', said')
        BY <1>1, <2>3, PagesSorted DEF ShowPage, Sorted
    <2>4. CASE ShowMore
        <3>1. CASE UNCHANGED shown
            BY <1>1, <3>1, PagesSorted
        <3>2. CASE shown' = more.messages \o shown
            <4>1. more.messages \in Seq(Message) /\ UNCHANGED said
                BY <2>4 DEF TypeOK, Page, ShowMore
            <4>2. \/ more.messages = <<>> /\ shown' = shown
                  \/ more.messages # <<>> /\ shown'[1] = more.messages[1]
                BY SMTT(40), <1>0, <3>2, <4>1, SayingConcat
            <4> QED BY <4>1, <4>2 DEF FirstBy, Sorted
        <3> QED BY <2>4, <3>1, <3>2 DEF ShowMore
    <2>5. CASE shown' = <<>>
        BY <2>5 DEF FirstBy
    <2>6. CASE UNCHANGED shown
        BY <1>1, <2>6, PagesSorted
    <2>7. \/ \E a \in Ask : SendMessage(a) \/ ShowAnswer(a) \/ ShowError(a)
          \/ \E l \in Load : ShowPage(l)
          \/ ShowMore
          \/ shown' = <<>> \/ UNCHANGED shown
        BY DEF Next, Questions, OpenChat, SaveQuestion, SaveAnswer, ModelFails, Pages,
               SelectChat, ReadPage, LoadMore, ReadMore, Deletions, DeleteChat, DeleteRows,
               ChatDeleted, Deselect, Refresh, CreateNewChat, Restart, vars
    <2> QED BY <2>2, <2>3, <2>4, <2>5, <2>6, <2>7
<1>4. FirstBy(more'.messages, said')
    <2>1. CASE ReadMore
        <3>1. /\ more.chat \in Chat /\ more.before \in Nat
              /\ stored[more.chat] \in Seq(Message) /\ AllBy(stored[more.chat], said)
            BY <2>1 DEF ReadMore, PagesOfChats, TypeOK, Page, Sorted
        <3>2. PICK rows \in ByTime(stored[more.chat]) :
                  more' = [more EXCEPT !.phase = "read",
                                       !.messages = LastPage(Older(rows, more.before))]
            BY <2>1 DEF ReadMore
        <3>3. FirstBy(LastPage(Older(rows, more.before)), said)
            BY <1>0, <3>1, OlderFirst
        <3>4. more'.messages = LastPage(Older(rows, more.before)) /\ UNCHANGED said
            BY <2>1, <3>2 DEF ReadMore, TypeOK, Page
        <3> QED BY <3>3, <3>4
    <2>2. CASE more'.messages = <<>>
        BY <2>2 DEF FirstBy
    <2>3. CASE UNCHANGED more
        BY <1>1, <2>3, PagesSorted
    <2>4. ReadMore \/ more'.messages = <<>> \/ UNCHANGED more
        <3>1. LoadMore \/ ShowMore \/ Restart => more'.messages = <<>>
            BY Constants DEF LoadMore, ShowMore, Restart
        <3> QED BY <3>1
            DEF Next, Questions, SendMessage, OpenChat, SaveQuestion, SaveAnswer, ModelFails,
                ShowAnswer, ShowError, Pages, SelectChat, ReadPage, ShowPage, Deletions,
                DeleteChat, DeleteRows, ChatDeleted, Refresh, CreateNewChat, vars
    <2> QED BY <2>1, <2>2, <2>3, <2>4
<1>5. ASSUME NEW k \in Load PROVE FirstBy(loads'[k].messages, said')
    <2>1. ASSUME NEW l \in Load, ReadPage(l) PROVE FirstBy(loads'[k].messages, said')
        <3>1. loads[l].chat \in Chat /\ UNCHANGED said
            BY <2>1 DEF ReadPage, Loading, PagesOfChats, TypeOK, Page
        <3>2. /\ stored[loads[l].chat] \in Seq(Message)
              /\ AllBy(stored[loads[l].chat], said)
            BY <3>1 DEF Sorted, TypeOK
        <3>5. PICK rows \in ByTime(stored[loads[l].chat]) :
                  loads' = [loads EXCEPT ![l].phase = "read", ![l].messages = LastPage(rows)]
            BY <2>1 DEF ReadPage
        <3>3. FirstBy(LastPage(rows), said)
            BY <1>0, <3>2, RowsFirst
        <3>4. \/ loads'[k].messages = LastPage(rows)
              \/ loads'[k].messages = loads[k].messages
            BY <3>5 DEF TypeOK, Page
        <3> QED BY <1>1, <3>1, <3>3, <3>4, PagesSorted
    <2>2. CASE loads'[k].messages = <<>>
        BY <2>2 DEF FirstBy
    <2>3. CASE loads'[k].messages = loads[k].messages
        BY <1>1, <2>3, PagesSorted
    <2>4. \/ \E l \in Load : ReadPage(l)
          \/ loads'[k].messages = <<>> \/ loads'[k].messages = loads[k].messages
        <3>1. ASSUME NEW l \in Load, (\E c \in Chat : SelectChat(l, c)) \/ ShowPage(l)
              PROVE  loads'[k].messages = <<>> \/ loads'[k].messages = loads[k].messages
            <4>1. PICK page : page.messages = <<>> /\ loads' = [loads EXCEPT ![l] = page]
                <5>1. \A c \in Chat : [NoPage EXCEPT !.phase = "sent", !.chat = c].messages = <<>>
                    BY DEF NoPage
                <5> QED BY <3>1, <5>1, Constants DEF SelectChat, ShowPage
            <4> QED BY <4>1 DEF TypeOK
        <3>2. CASE Restart
            BY <3>2, Constants DEF Restart
        <3> QED BY <3>1, <3>2
            DEF Next, Questions, SendMessage, OpenChat, SaveQuestion, SaveAnswer, ModelFails,
                ShowAnswer, ShowError, Pages, LoadMore, ReadMore, ShowMore,
                Deletions, DeleteChat, DeleteRows, ChatDeleted, Refresh, CreateNewChat, vars
    <2> QED BY <2>1, <2>2, <2>3, <2>4
<1> QED BY <1>2, <1>3, <1>4, <1>5 DEF Sorted

-----------------------------------------------------------------------------
(* The messages of a chat, as a set.                                       *)
LEMMA MessagesType ==
    ASSUME TypeOK, NEW c \in Chat, NEW m \in Messages(c)
    PROVE  m \in Message /\ m.made \in Nat /\ (Sorted => m.made <= said)
<1>1. PICK i \in 1 .. Len(stored[c]) : m = stored[c][i]
    BY DEF Messages
<1>2. m \in Message
    BY <1>1, ElementOfSeq DEF TypeOK
<1> QED BY <1>1, <1>2 DEF Message, Sorted, AllBy

LEMMA MessagesAppend ==
    ASSUME TypeOK, NEW c \in Chat, NEW m \in Message, stored'[c] = Append(stored[c], m)
    PROVE  Messages(c)' = Messages(c) \cup {m}
<1> DEFINE s == stored[c]
<1>1. s \in Seq(Message) /\ Len(s) \in Nat
    BY LenProperties DEF TypeOK
<1>2. /\ Len(Append(s, m)) = Len(s) + 1 /\ Append(s, m)[Len(s) + 1] = m
      /\ \A i \in 1 .. Len(s) : Append(s, m)[i] = s[i]
    BY <1>1, AppendProperties
<1>3. 1 .. Len(s) + 1 = 1 .. Len(s) \cup {Len(s) + 1}
    BY <1>1
<1>4. Messages(c)' = {Append(s, m)[i] : i \in 1 .. Len(s) + 1}
    BY <1>2 DEF Messages
<1>5. Messages(c) = {Append(s, m)[i] : i \in 1 .. Len(s)}
    BY <1>2 DEF Messages
<1> QED BY <1>2, <1>3, <1>4, <1>5

LEMMA MessagesNone ==
    ASSUME NEW c \in Chat
    PROVE  /\ stored[c] = <<>> => Messages(c) = {}
           /\ stored'[c] = <<>> => Messages(c)' = {}
           /\ stored'[c] = stored[c] => Messages(c)' = Messages(c)
<1>1. Len(<<>>) = 0 /\ 1 .. 0 = {}
    BY EmptySeq
<1> QED BY <1>1 DEF Messages

(* A panel that was just filled, with nothing or with a page under way.    *)
LEMMA FreshPaged ==
    ASSUME \A a \in Ask : ~Active(a)', more'.phase = "none",
           \/ \A l \in Load : ~Loading(l)'
           \/ \E l \in Load : /\ loads'[l].phase = "sent" /\ loads'[l].chat = current'
                              /\ isLoading' /\ hasMore' /\ shown' = <<>>
                              /\ \A k \in Load \ {l} : ~Loading(k)',
           current' = NoChat \/ (hasMore' /\ shown' = <<>>)
    PROVE  Paged'
<1>1. OneCall'
    <2>1. CASE \A l \in Load : ~Loading(l)'
        BY <2>1 DEF OneCall
    <2>2. CASE \E l \in Load : /\ loads'[l].phase = "sent" /\ loads'[l].chat = current'
                               /\ isLoading' /\ hasMore' /\ shown' = <<>>
                               /\ \A k \in Load \ {l} : ~Loading(k)'
        BY <2>2 DEF OneCall
    <2> QED BY <2>1, <2>2
<1>2. ShownCovers' /\ NewCovers' /\ MoreCovers'
    BY DEF ShownCovers, NewCovers, MoreCovers
<1>3. LoadsCover'
    BY DEF LoadsCover, Loading
<1> QED BY <1>1, <1>2, <1>3 DEF Paged, Covered

LEMMA ResetPaged ==
    ASSUME TypeOK,
           \/ \E l \in Load, c \in Chat : SelectChat(l, c)
           \/ CreateNewChat \/ Restart
           \/ \E c \in Chat : ChatDeleted(c) /\ mixed' = Busy /\ current' = NoChat
    PROVE  Paged'
<1> USE DEF table, commands, panel, times
<1> SUFFICES ASSUME ~mixed' PROVE Paged'
    BY DEF Paged
<1>1. CASE Restart
    BY <1>1, Constants, FreshPaged DEF Restart, Active, Loading
<1>2. ASSUME mixed' = Busy, current' = NoChat, UNCHANGED <<asks, loads, more>> PROVE Paged'
    BY <1>2, FreshPaged DEF Busy, Active, Loading
<1>3. ASSUME NEW l \in Load, NEW c \in Chat, SelectChat(l, c) PROVE Paged'
    <2>1. /\ ~Busy /\ UNCHANGED <<asks, more>>
          /\ current' = c /\ isLoading' /\ hasMore' /\ shown' = <<>>
        BY <1>3 DEF SelectChat
    <2>2. /\ loads'[l].phase = "sent" /\ loads'[l].chat = c
          /\ \A k \in Load \ {l} : loads'[k] = loads[k]
        BY <1>3, Constants DEF SelectChat, TypeOK, Page
    <2> QED BY <2>1, <2>2, FreshPaged DEF Busy, Active, Loading
<1> QED BY <1>1, <1>2, <1>3 DEF CreateNewChat, ChatDeleted

(* A step that changes neither the calls nor the panel, and puts no        *)
(* message into a chat.                                                    *)
LEMMA SamePaged ==
    ASSUME TypeOK, PagesOfChats, Paged,
           UNCHANGED <<asks, loads, more, current, shown, isLoading, hasMore, mixed>>,
           \A c \in Chat : Messages(c)' \subseteq Messages(c),
           \A a \in Ask : asks[a].active \in Chat \cup {NoChat}
    PROVE  Paged'
<1> SUFFICES ASSUME ~mixed PROVE OneCall' /\ Covered'
    BY DEF Paged
<1>0. OneCall /\ Covered /\ current \in Chat \cup {NoChat}
    BY DEF Paged, TypeOK
<1>1. UNCHANGED <<asks, loads, more, current, shown, isLoading, hasMore>>
    OBVIOUS
<1>2. OneCall'
    BY <1>0, <1>1 DEF OneCall, Active, Loading
<1>3. ShownCovers'
    BY <1>0, <1>1 DEF Covered, ShownCovers, Coming
<1>4. NewCovers'
    BY <1>0, <1>1 DEF Covered, NewCovers, Active
<1>5. LoadsCover' /\ MoreCovers'
    <2>1. /\ \A l \in Load : loads[l].phase = "read" => current \in Chat
          /\ more.phase = "read" => current \in Chat
        BY <1>0 DEF OneCall, PagesOfChats, Loading
    <2> QED BY <1>0, <1>1, <2>1 DEF Covered, LoadsCover, MoreCovers
<1> QED BY <1>2, <1>3, <1>4, <1>5 DEF Covered

(* What a question that is under way says, and what it keeps away.         *)
LEMMA UnderWay ==
    ASSUME OneCall, NEW a \in Ask, Active(a)
    PROVE  /\ isLoading /\ asks[a].chat = current
           /\ <<asks[a].question, "user">> \in SayingSet(shown)
           /\ \A b \in Ask \ {a} : ~Active(b)
           /\ \A l \in Load : ~Loading(l)
           /\ asks[a].phase # "answered" => \A c \in Chat : \A m : ~Coming(c, m)
<1>1. \A b \in Ask \ {a} : ~Active(b)
    BY DEF OneCall
<1>2. \A l \in Load : ~Loading(l)
    BY DEF OneCall
<1>3. asks[a].phase # "answered" => \A c \in Chat : \A m : ~Coming(c, m)
    BY <1>1 DEF Coming, Active
<1> QED BY <1>1, <1>2, <1>3 DEF OneCall

LEMMA NoneComing ==
    ASSUME \A a \in Ask : ~Active(a) PROVE \A c \in Chat : \A m : ~Coming(c, m)
BY DEF Coming, Active

(* One more message is shown.                                              *)
LEMMA ShowOne ==
    ASSUME TypeOK, Sorted, NEW m \in Message, m.made = said + 1,
           shown' = Append(shown, m), NEW c \in Chat, NEW n \in Messages(c),
           hasMore' = hasMore,
           ~hasMore' \/ (shown' # <<>> /\ n.made >= shown'[1].made)
    PROVE  ~hasMore \/ (shown # <<>> /\ n.made >= shown[1].made)
<1>1. shown \in Seq(Message) /\ said \in Nat /\ n.made \in Nat /\ n.made <= said
    BY MessagesType DEF TypeOK
<1>2. CASE shown = <<>>
    <2>1. shown'[1] = m
        BY <1>1, <1>2, SayingAppend
    <2>2. ~(n.made >= shown'[1].made)
        BY <1>1, <2>1
    <2> QED BY <2>2
<1>3. CASE shown # <<>>
    BY <1>1, <1>3, SayingAppend
<1> QED BY <1>2, <1>3

LEMMA SendPaged ==
    ASSUME TypeOK, Calls, PagesOfChats, Sorted, Paged, NEW a \in Ask, SendMessage(a)
    PROVE  Paged'
<1> USE DEF table, commands, panel, times
<1>0. UNCHANGED <<stored, loads, more, current, hasMore, mixed>>
    BY DEF SendMessage
<1> SUFFICES ASSUME ~mixed PROVE OneCall' /\ Covered'
    BY <1>0 DEF Paged
<1>1. /\ OneCall /\ Covered /\ current \in Chat \cup {NoChat} /\ shown \in Seq(Message)
    BY DEF Paged, TypeOK
<1>2. /\ ~isLoading /\ isLoading' /\ \A b \in Ask : ~Active(b)
      /\ \A l \in Load : ~Loading(l)
    <2>1. ~isLoading /\ isLoading'
        BY DEF SendMessage, CanAsk
    <2> QED BY <1>1, <2>1 DEF OneCall
<1>3. /\ asks'[a].phase = "sent" /\ asks'[a].chat = current /\ asks'[a].active = current
      /\ asks'[a].question = asked' /\ \A b \in Ask \ {a} : asks'[b] = asks[b]
    BY QuestionSteps DEF Begins, AskStep
<1>13. PICK now \in Now : shown' = Append(shown, Say(asked', "user", now))
    BY DEF SendMessage
<1> DEFINE m == Say(asked', "user", now)
<1>4. m \in Message /\ Says(m) = <<asked', "user">> /\ m.made = said + 1
    <2>1. asked' \in Chat
        BY BoundsAssumption DEF SendMessage, CanAsk, TypeOK, Chat, Question
    <2> QED BY <2>1, SayType
<1>5. shown' = Append(shown, m)
    BY <1>13
<1> HIDE DEF m
<1>6. /\ SayingSet(shown) \subseteq SayingSet(shown') /\ Says(m) \in SayingSet(shown')
      /\ shown' # <<>> /\ (shown # <<>> => shown'[1] = shown[1])
    BY <1>1, <1>4, <1>5, SayingAppend
<1>7. \A b \in Ask : Active(b)' => b = a
    BY <1>2, <1>3 DEF Active
<1>8. OneCall'
    <2>1. more'.phase # "none" => /\ more'.chat = current' /\ current' # NoChat
                                  /\ shown' # <<>> /\ more'.first = shown'[1].made
        BY <1>0, <1>1, <1>6 DEF OneCall
    <2>2. \A l \in Load : ~Loading(l)'
        BY <1>0, <1>2 DEF Loading
    <2> QED BY <1>0, <1>2, <1>3, <1>4, <1>6, <1>7, <2>1, <2>2 DEF OneCall
<1>9. ShownCovers'
    <2>1. ASSUME current # NoChat, NEW n \in Messages(current),
                 ~hasMore' \/ (shown' # <<>> /\ n.made >= shown'[1].made)
          PROVE  Says(n) \in SayingSet(shown')
        <3>1. current \in Chat
            BY <1>1, <2>1
        <3>2. ~hasMore \/ (shown # <<>> /\ n.made >= shown[1].made)
            BY <1>0, <1>4, <1>5, <2>1, <3>1, ShowOne
        <3>3. ~Coming(current, n)
            BY <1>2, <3>1, NoneComing
        <3> QED BY <1>1, <1>6, <2>1, <3>2, <3>3 DEF Covered, ShownCovers
    <2>2. Messages(current)' = Messages(current)
        BY <1>0 DEF Messages
    <2> QED BY <1>0, <2>1, <2>2 DEF ShownCovers
<1>10. NewCovers'
    BY <1>3, <1>7 DEF NewCovers
<1>11. LoadsCover' /\ MoreCovers'
    BY <1>0, <1>1 DEF Covered, LoadsCover, MoreCovers, Messages
<1> QED BY <1>8, <1>9, <1>10, <1>11 DEF Covered

LEMMA OpenPaged ==
    ASSUME TypeOK, Calls, NewIsUnused, PagesOfChats, Sorted, Paged, NEW a \in Ask, OpenChat(a)
    PROVE  Paged'
<1> USE DEF table, commands, panel, times
<1>0. UNCHANGED <<stored, loads, more, current, shown, isLoading, hasMore, mixed>>
    BY DEF OpenChat
<1> SUFFICES ASSUME ~mixed PROVE OneCall' /\ Covered'
    BY <1>0 DEF Paged
<1>1. /\ OneCall /\ Covered /\ Opening(a) /\ Active(a) /\ asks[a].question \in Chat
    BY QuestionType DEF Paged, OpenChat, Opening, Active
<1>2. /\ asks'[a].phase \notin {"none", "answered"}
      /\ asks'[a].chat = asks[a].chat /\ asks'[a].question = asks[a].question
      /\ asks'[a].active \in {asks[a].question, NoChat}
      /\ \A b \in Ask \ {a} : asks'[b] = asks[b]
    <2>1. CASE Opens(a) /\ AskStep(a)
        BY <2>1 DEF Opens, Opening, AskStep
    <2>2. CASE GoesOn(a) /\ AskStep(a)
        <3>1. asks'[a].phase = "failed"
            BY <2>2, OnePhase DEF GoesOn, OpenChat, Fails, TypeOK, AskState
        <3>2. asks[a].active = NoChat
            BY <1>1 DEF Calls, Opening
        <3> QED BY <2>2, <3>1, <3>2 DEF GoesOn, AskStep
    <2> QED BY <2>1, <2>2, QuestionSteps
<1>3. current = NoChat /\ more.phase = "none"
    BY <1>1, UnderWay DEF OneCall, Opening
<1>4. OneCall'
    BY <1>0, <1>1, <1>2 DEF OneCall, Active, Loading
<1>5. NewCovers'
    <2>1. PICK q \in Chat : q = asks[a].question
        BY <1>1
    <2>2. stored'[q] = <<>>
        BY <1>0, <1>1, <2>1 DEF NewIsUnused, Used
    <2>3. Messages(q)' = {}
        BY <2>2, MessagesNone
    <2>4. \A b \in Ask : Active(b)' => b = a
        BY <1>1, <1>2, UnderWay DEF Active
    <2> QED BY <1>2, <2>1, <2>3, <2>4 DEF NewCovers
<1>6. ShownCovers' /\ MoreCovers'
    BY <1>0, <1>3 DEF ShownCovers, MoreCovers
<1>7. LoadsCover'
    BY <1>0, <1>1, UnderWay DEF LoadsCover, Loading
<1> QED BY <1>4, <1>5, <1>6, <1>7 DEF Covered

LEMMA SavePaged ==
    ASSUME TypeOK, Calls, PagesOfChats, Sorted, Paged, NEW a \in Ask,
           SaveQuestion(a) \/ SaveAnswer(a) \/ ModelFails(a)
    PROVE  Paged'
<1> USE DEF table, commands, panel, times
<1>0. UNCHANGED <<loads, more, current, shown, isLoading, hasMore, mixed>>
    BY DEF SaveQuestion, SaveAnswer, ModelFails
<1> SUFFICES ASSUME ~mixed PROVE OneCall' /\ Covered'
    BY <1>0 DEF Paged
<1>1. /\ OneCall /\ Covered /\ Active(a) /\ asks[a].phase # "answered"
      /\ asks[a].question \in Chat /\ asks[a].active \in Chat
    <2>1. Active(a) /\ asks[a].phase # "answered"
        BY DEF SaveQuestion, SaveAnswer, ModelFails, Active
    <2>2. asks[a].active \in Chat
        BY DEF SaveQuestion, SaveAnswer, ModelFails, Calls, TypeOK, AskState
    <2> QED BY <2>1, <2>2, QuestionType DEF Paged
<1>12. PICK c \in Chat, q \in Chat : c = asks[a].active /\ q = asks[a].question
    BY <1>1
<1>2. /\ asks'[a].phase \in {"asking", "answered", "failed"}
      /\ asks'[a].chat = asks[a].chat /\ asks'[a].question = q /\ asks'[a].active = c
      /\ \A b \in Ask \ {a} : asks'[b] = asks[b]
    BY <1>12, QuestionSteps DEF GoesOn, AskStep
<1>3. \E m \in Message :
         /\ Messages(c)' = Messages(c) \/ Messages(c)' = Messages(c) \cup {m}
         /\ m.made = said + 1
         /\ \/ Says(m) = <<q, "user">>
            \/ asks'[a].phase = "answered" /\ Says(m) = <<q, "assistant">>
    <2>1. ASSUME NEW role \in {"user", "assistant"}, SaveMessage(c, q, role)
          PROVE  \E m \in Message :
                 /\ m.made = said + 1 /\ Says(m) = <<q, role>>
                 /\ Messages(c)' = Messages(c) \/ Messages(c)' = Messages(c) \cup {m}
        <3>6. PICK now \in Now : \/ UNCHANGED stored
                                \/ stored' = [stored EXCEPT ![c] = Append(@, Say(q, role, now))]
            <4>1. clock \in Now
                BY DEF Now, TypeOK
            <4> QED BY <2>1, <4>1 DEF SaveMessage
        <3> DEFINE m == Say(q, role, now)
        <3>1. m \in Message /\ m.made = said + 1 /\ Says(m) = <<q, role>>
            BY <1>1, SayType
        <3>2. UNCHANGED stored \/ stored' = [stored EXCEPT ![c] = Append(@, m)]
            BY <3>6
        <3> HIDE DEF m
        <3>3. stored'[c] = stored[c] \/ stored'[c] = Append(stored[c], m)
            BY <1>1, <3>2 DEF TypeOK
        <3>4. \A x \in Chat : stored'[x] = Append(stored[x], m)
                                 => Messages(x)' = Messages(x) \cup {m}
            BY <3>1, MessagesAppend
        <3>5. \A x \in Chat : stored'[x] = stored[x] => Messages(x)' = Messages(x)
            BY MessagesNone
        <3> QED BY <1>1, <3>1, <3>3, <3>4, <3>5
    <2>2. CASE SaveQuestion(a)
        BY <1>12, <2>1, <2>2 DEF SaveQuestion
    <2>3. CASE SaveAnswer(a)
        <3>1. asks'[a].phase = "answered"
            BY <2>3, OnePhase DEF SaveAnswer
        <3> QED BY <1>12, <2>1, <2>3, <3>1 DEF SaveAnswer
    <2>4. CASE ModelFails(a)
        <3>1. Messages(c)' = Messages(c)
            BY <2>4 DEF ModelFails, Messages
        <3>2. clock \in Now
            BY DEF Now, TypeOK
        <3> QED BY <1>1, <3>1, <3>2, SayType
    <2> QED BY <2>2, <2>3, <2>4
<1>4. \A b \in Ask : /\ Active(b)' <=> Active(b)
                    /\ asks'[b].chat = asks[b].chat /\ asks'[b].question = asks[b].question
    BY <1>1, <1>12, <1>2 DEF Active
<1>5. OneCall'
    BY <1>0, <1>1, <1>4 DEF OneCall, Loading
<1>6. asks[a].chat = current /\ <<q, "user">> \in SayingSet(shown)
      /\ (\A x \in Chat : \A m : ~Coming(x, m)) /\ \A b \in Ask : Active(b) => b = a
    BY <1>1, <1>12, UnderWay
<1>7. NewCovers'
    <2>1. SUFFICES ASSUME asks[a].chat = NoChat, NEW n \in Messages(c)'
                   PROVE  \/ Says(n) = <<q, "user">>
                          \/ asks'[a].phase = "answered" /\ Says(n) = <<q, "assistant">>
        BY <1>2, <1>4, <1>6 DEF NewCovers
    <2>2. c # NoChat
        BY Constants
    <2>3. \A m \in Messages(c) : Says(m) = <<q, "user">>
        BY <1>1, <1>12, <2>1, <2>2 DEF Covered, NewCovers
    <2> QED BY <1>3, <2>1, <2>3
<1>8. ShownCovers'
    <2>1. SUFFICES ASSUME current # NoChat, NEW n \in Messages(current)',
                          ~hasMore \/ (shown # <<>> /\ n.made >= shown[1].made)
                   PROVE  Says(n) \in SayingSet(shown) \/ Coming(current, n)'
        BY <1>0 DEF ShownCovers
    <2>2. c = current
        BY <1>6, <1>12, <2>1 DEF Calls
    <2>3. \A m \in Messages(c) : ~hasMore \/ (shown # <<>> /\ m.made >= shown[1].made)
                                     => Says(m) \in SayingSet(shown)
        BY <1>1, <1>6, <2>1, <2>2 DEF Covered, ShownCovers
    <2>4. n \in Messages(c)'
        BY <1>0, <2>1, <2>2
    <2>5. PICK m \in Message :
             /\ Messages(c)' = Messages(c) \/ Messages(c)' = Messages(c) \cup {m}
             /\ \/ Says(m) = <<q, "user">>
                \/ asks'[a].phase = "answered" /\ Says(m) = <<q, "assistant">>
        BY <1>3
    <2>6. CASE n \in Messages(c)
        BY <2>1, <2>3, <2>6
    <2>7. CASE n = m
        <3>1. CASE Says(m) = <<q, "user">>
            BY <1>6, <2>7, <3>1
        <3>2. CASE asks'[a].phase = "answered" /\ Says(m) = <<q, "assistant">>
            BY <1>0, <1>2, <2>2, <2>7, <3>2 DEF Coming
        <3> QED BY <2>5, <3>1, <3>2
    <2> QED BY <2>4, <2>5, <2>6, <2>7
<1>9. MoreCovers'
    <2>1. SUFFICES ASSUME more.phase = "read", NEW n \in Messages(current)',
                          n.made < more.first
                   PROVE  PageCovers(more.messages, n)
        BY <1>0 DEF MoreCovers
    <2>2. current # NoChat /\ shown # <<>> /\ more.first = shown[1].made
        BY <1>1, <2>1 DEF OneCall
    <2>3. c = current
        BY <1>6, <1>12, <2>2 DEF Calls
    <2>4. more.first \in Nat /\ more.first <= said /\ said \in Nat
        BY <2>2, First DEF TypeOK, Sorted, FirstBy
    <2>5. n \in Messages(c)'
        BY <1>0, <2>1, <2>3
    <2>6. n \in Messages(c)
        <3>1. \A m \in Message : m.made = said + 1 => m # n
            BY <2>1, <2>4
        <3> QED BY <1>3, <2>5, <3>1
    <2> QED BY <1>1, <2>1, <2>3, <2>6 DEF Covered, MoreCovers
<1>10. LoadsCover'
    BY <1>0, <1>1, UnderWay DEF LoadsCover, Loading
<1> QED BY <1>5, <1>7, <1>8, <1>9, <1>10 DEF Covered

LEMMA ShowPaged ==
    ASSUME TypeOK, Calls, PagesOfChats, Sorted, Paged, NEW a \in Ask,
           ShowAnswer(a) \/ ShowError(a)
    PROVE  Paged'
<1> USE DEF table, commands, panel, times
<1>0. UNCHANGED <<stored, loads, more, hasMore, mixed>> /\ isLoading' = FALSE
    BY DEF ShowAnswer, ShowError
<1> SUFFICES ASSUME ~mixed PROVE OneCall' /\ Covered'
    BY <1>0 DEF Paged
<1>1. /\ OneCall /\ Covered /\ Active(a) /\ asks[a].question \in Chat
      /\ shown \in Seq(Message) /\ asks[a].active \in Chat \cup {NoChat}
      /\ current \in Chat \cup {NoChat}
    BY QuestionType DEF Paged, ShowAnswer, ShowError, Active, TypeOK, AskState
<1>2. /\ asks[a].chat = current /\ <<asks[a].question, "user">> \in SayingSet(shown)
      /\ \A b \in Ask \ {a} : ~Active(b)
      /\ \A l \in Load : ~Loading(l)
    BY <1>1, UnderWay
<1>3. \A b \in Ask : ~Active(b)'
    <2>1. asks'[a] = NoAsk /\ \A b \in Ask \ {a} : asks'[b] = asks[b]
        BY QuestionSteps DEF Ends, AskStep
    <2> QED BY <1>2, <2>1, Constants DEF Active
<1>4. PICK m \in Message :
         /\ shown' = Append(shown, m) /\ m.made = said + 1
         /\ asks[a].phase = "answered" => Says(m) = <<asks[a].question, "assistant">>
    <2>1. PICK role \in {"assistant", "error"}, now \in Now :
             /\ shown' = Append(shown, Say(asks[a].question, role, now))
             /\ asks[a].phase = "answered" => role = "assistant"
        BY DEF ShowAnswer, ShowError
    <2> QED BY <1>1, <2>1, SayType
<1>5. /\ SayingSet(shown) \subseteq SayingSet(shown') /\ Says(m) \in SayingSet(shown')
      /\ shown' # <<>> /\ (shown # <<>> => shown'[1] = shown[1])
    BY <1>1, <1>4, SayingAppend
<1>6. \/ current' = current
      \/ /\ current = NoChat /\ asks[a].phase = "answered" /\ current' = asks[a].active
         /\ current' \in Chat
    <2>1. CASE ShowError(a)
        BY <2>1 DEF ShowError
    <2>2. CASE ShowAnswer(a)
        BY <1>1, <1>2, <2>2 DEF ShowAnswer, Calls
    <2> QED BY <2>1, <2>2
<1>7. OneCall'
    <2>1. more'.phase # "none" => /\ more'.chat = current' /\ current' # NoChat
                                  /\ shown' # <<>> /\ more'.first = shown'[1].made
        BY <1>0, <1>1, <1>5, <1>6 DEF OneCall
    <2>2. \A l \in Load : ~Loading(l)'
        BY <1>0, <1>2 DEF Loading
    <2> QED BY <1>3, <2>1, <2>2 DEF OneCall
<1>8. ShownCovers'
    <2>1. SUFFICES ASSUME NEW c \in Chat, c = current', NEW n \in Messages(c),
                          ~hasMore' \/ (shown' # <<>> /\ n.made >= shown'[1].made)
                   PROVE  Says(n) \in SayingSet(shown')
        <3>1. current' \in Chat \cup {NoChat}
            BY <1>1, <1>6
        <3>2. \A c \in Chat : Messages(c)' = Messages(c)
            BY <1>0 DEF Messages
        <3>3. \A c \in Chat : c = current' => Messages(current)' = Messages(c)'
            BY DEF Messages
        <3> QED BY <3>1, <3>2, <3>3 DEF ShownCovers
    <2>2. ~hasMore \/ (shown # <<>> /\ n.made >= shown[1].made)
        BY <1>0, <1>4, <2>1, ShowOne
    <2>3. CASE current' = current
        <3>1. Says(n) \in SayingSet(shown) \/ Coming(c, n)
            BY <1>1, <2>1, <2>2, <2>3, Constants DEF Covered, ShownCovers
        <3>2. Coming(c, n) => Says(n) = Says(m)
            BY <1>2, <1>4 DEF Coming, Active
        <3> QED BY <1>5, <3>1, <3>2
    <2>4. CASE /\ current = NoChat /\ asks[a].phase = "answered"
               /\ current' = asks[a].active /\ current' \in Chat
        <3>1. \/ Says(n) = <<asks[a].question, "user">>
              \/ Says(n) = <<asks[a].question, "assistant">>
            BY <1>1, <1>2, <2>1, <2>4, Constants DEF Covered, NewCovers
        <3> QED BY <1>2, <1>4, <1>5, <2>4, <3>1
    <2> QED BY <1>6, <2>3, <2>4
<1>9. NewCovers'
    BY <1>3 DEF NewCovers
<1>10. LoadsCover'
    BY <1>0, <1>2 DEF LoadsCover, Loading
<1>11. MoreCovers'
    <2>1. more.phase = "read" => current # NoChat /\ current' = current
        BY <1>1, <1>6 DEF OneCall
    <2> QED BY <1>0, <1>1, <2>1 DEF Covered, MoreCovers, Messages
<1> QED BY <1>7, <1>8, <1>9, <1>10, <1>11 DEF Covered

LEMMA LoadsPaged ==
    ASSUME TypeOK, PagesOfChats, Sorted, Paged, NEW l \in Load, ReadPage(l) \/ ShowPage(l)
    PROVE  Paged'
<1> USE DEF table, commands, panel, times
<1>0. UNCHANGED <<stored, asks, more, current>>
    BY DEF ReadPage, ShowPage
<1> SUFFICES ASSUME ~mixed' PROVE OneCall' /\ Covered'
    BY DEF Paged
<1>7. ~mixed
    BY ReadInOrder DEF ShowPage
<1>1. /\ OneCall /\ Covered /\ Loading(l)
    BY <1>7 DEF Paged, ReadPage, ShowPage, Loading
<1>2. /\ isLoading /\ hasMore /\ shown = <<>> /\ more.phase = "none"
      /\ loads[l].chat = current /\ current \in Chat
      /\ \A a \in Ask : ~Active(a)
      /\ \A k \in Load \ {l} : ~Loading(k)
    BY <1>1 DEF OneCall, PagesOfChats, TypeOK
<1>3. NewCovers' /\ MoreCovers' /\ \A a \in Ask : ~Active(a)'
    BY <1>0, <1>2 DEF NewCovers, MoreCovers, Active
<1>4. CASE ReadPage(l)
    <2>1. /\ loads'[l].phase = "read" /\ loads'[l].chat = loads[l].chat
          /\ loads'[l].messages = LastPage(stored[loads[l].chat])
          /\ \A k \in Load \ {l} : loads'[k] = loads[k]
          /\ UNCHANGED <<shown, isLoading, hasMore>>
        <3>1. loads' = [loads EXCEPT ![l].phase = "read",
                                     ![l].messages = LastPage(stored[loads[l].chat])]
            BY <1>4, ReadInOrder
        <3> QED BY <1>4, <3>1 DEF ReadPage, TypeOK, Page
    <2>2. OneCall'
        BY <1>0, <1>2, <1>3, <2>1 DEF OneCall, Loading
    <2>3. ShownCovers'
        BY <1>2, <2>1 DEF ShownCovers
    <2>4. LoadsCover'
        <3>1. \A n \in Messages(current) : PageCovers(LastPage(stored[current]), n)
            <4>1. TAKE n \in Messages(current)
            <4>2. PICK i \in 1 .. Len(stored[current]) : n = stored[current][i]
                BY DEF Messages
            <4>3. stored[current] \in Seq(Message) /\ InOrder(stored[current])
                BY <1>2 DEF TypeOK, Sorted
            <4> QED BY <4>2, <4>3, LastPageCovers
        <3>2. Messages(current)' = Messages(current)
            BY <1>0 DEF Messages
        <3> QED BY <1>2, <2>1, <3>1, <3>2 DEF LoadsCover, Loading
    <2> QED BY <1>3, <2>2, <2>3, <2>4 DEF Covered
<1>5. CASE ShowPage(l)
    <2>1. /\ loads[l].phase = "read"
          /\ \/ shown' = loads[l].messages /\ hasMore' = FullPage(loads[l].messages)
             \/ UNCHANGED <<shown, hasMore>>
        BY <1>5 DEF ShowPage
    <2>2. \A k \in Load : ~Loading(k)'
        BY <1>2, <1>5, Constants DEF ShowPage, Loading, TypeOK
    <2>3. OneCall' /\ LoadsCover'
        BY <1>0, <1>2, <1>3, <2>2 DEF OneCall, LoadsCover, Loading
    <2>4. ShownCovers'
        <3>1. CASE UNCHANGED <<shown, hasMore>>
            BY <1>2, <3>1 DEF ShownCovers
        <3>2. CASE shown' = loads[l].messages /\ hasMore' = FullPage(loads[l].messages)
            <4>1. \A n \in Messages(current) : PageCovers(shown', n)
                BY <1>1, <2>1, <3>2 DEF Covered, LoadsCover
            <4>2. Messages(current)' = Messages(current)
                BY <1>0 DEF Messages
            <4> QED BY <1>0, <3>2, <4>1, <4>2 DEF ShownCovers, PageCovers
        <3> QED BY <2>1, <3>1, <3>2
    <2> QED BY <1>3, <2>3, <2>4 DEF Covered
<1> QED BY <1>4, <1>5

LEMMA MorePaged ==
    ASSUME TypeOK, PagesOfChats, Sorted, Paged, LoadMore \/ ReadMore \/ ShowMore
    PROVE  Paged'
<1> USE DEF table, commands, panel, times
<1>0. UNCHANGED <<stored, asks, loads, current, isLoading>>
    BY DEF LoadMore, ReadMore, ShowMore
<1> SUFFICES ASSUME ~mixed' PROVE OneCall' /\ Covered'
    BY DEF Paged
<1>12. ~mixed
    BY ReadEarlier DEF LoadMore, ShowMore
<1>1. OneCall /\ Covered /\ shown \in Seq(Message)
    BY <1>12 DEF Paged, TypeOK
<1>2. /\ shown # <<>> /\ current \in Chat
      /\ more.phase # "none" => more.chat = current /\ more.first = shown[1].made
    BY <1>1 DEF OneCall, TypeOK, LoadMore, CanLoadMore, ReadMore, ShowMore
<1>3. \A l \in Load : ~Loading(l)
    BY <1>1, <1>2 DEF OneCall
<1>4. LoadsCover' /\ \A l \in Load : ~Loading(l)'
    BY <1>0, <1>3 DEF LoadsCover, Loading
<1>5. /\ Messages(current)' = Messages(current)
      /\ \A c \in Chat : Messages(c)' = Messages(c)
    BY <1>0 DEF Messages
<1>6. NewCovers'
    <2>1. \A a \in Ask : asks[a].active \in Chat \cup {NoChat}
        BY DEF TypeOK, AskState
    <2> QED BY <1>0, <1>1, <1>5, <2>1 DEF Covered, NewCovers, Active
<1>7. ASSUME UNCHANGED shown, more'.phase = "none" \/ (/\ more'.chat = current
                                                      /\ more'.first = shown[1].made)
      PROVE  OneCall'
    BY <1>0, <1>1, <1>2, <1>4, <1>7, Constants DEF OneCall, Active
<1>8. ASSUME UNCHANGED <<shown, hasMore>> PROVE ShownCovers'
    BY <1>0, <1>1, <1>5, <1>8 DEF Covered, ShownCovers, Coming
<1>9. CASE LoadMore
    <2>1. /\ UNCHANGED <<shown, hasMore>> /\ more'.phase = "sent"
          /\ more'.chat = current /\ more'.first = shown[1].made
        BY <1>9 DEF LoadMore
    <2>2. MoreCovers'
        BY <2>1 DEF MoreCovers
    <2> QED BY <1>4, <1>6, <1>7, <1>8, <2>1, <2>2 DEF Covered
<1>10. CASE ReadMore
    <2>1. /\ UNCHANGED <<shown, hasMore>> /\ more.phase = "sent"
          /\ more'.chat = more.chat /\ more'.first = more.first
          /\ more'.messages = LastPage(Earlier(stored[more.chat], more.first))
        <3>1. more' = [more EXCEPT !.phase = "read",
                            !.messages = LastPage(Earlier(stored[more.chat], more.first))]
            BY <1>10, ReadEarlier
        <3> QED BY <1>10, <3>1 DEF ReadMore, TypeOK, Page
    <2>2. more'.chat = current /\ more'.first = shown[1].made
        BY <1>2, <2>1
    <2>3. MoreCovers'
        <3> DEFINE s == stored[current]
                   t == more.first
        <3>1. ASSUME NEW n \in Messages(current), n.made < t
              PROVE  PageCovers(LastPage(Earlier(s, t)), n)
            <4>1. PICK i \in 1 .. Len(s) : n = s[i]
                BY DEF Messages
            <4>2. s \in Seq(Message) /\ InOrder(s) /\ AllBy(s, said) /\ t \in Nat
                BY <1>2 DEF TypeOK, Sorted, Page
            <4>3. Earlier(s, t) \in Seq(Message) /\ InOrder(Earlier(s, t))
                BY <4>2, EarlierSorted
            <4>4. i \in 1 .. Len(Earlier(s, t)) /\ Earlier(s, t)[i] = n
                BY <3>1, <4>1, <4>2, EarlierIsFirst
            <4> QED BY <4>3, <4>4, LastPageCovers
        <3> QED BY <1>2, <1>5, <2>1, <3>1 DEF MoreCovers
    <2> QED BY <1>4, <1>6, <1>7, <1>8, <2>1, <2>2, <2>3 DEF Covered
<1>11. CASE ShowMore
    <2>1. /\ more.phase = "read" /\ more'.phase = "none"
          /\ \/ /\ shown' = more.messages \o shown
                /\ hasMore' = FullPage(more.messages)
             \/ UNCHANGED <<shown, hasMore>>
        BY <1>11, Constants DEF ShowMore
    <2>2. MoreCovers'
        BY <2>1 DEF MoreCovers
    <2>3. CASE UNCHANGED <<shown, hasMore>>
        BY <1>4, <1>6, <1>7, <1>8, <2>1, <2>2, <2>3 DEF Covered
    <2>4. CASE shown' = more.messages \o shown /\ hasMore' = FullPage(more.messages)
        <3> DEFINE page == more.messages
        <3>1. /\ SayingSet(page) \subseteq SayingSet(shown')
              /\ SayingSet(shown) \subseteq SayingSet(shown')
              /\ page # <<>> => shown'[1] = page[1]
              /\ page = <<>> => shown' = shown
            BY <1>1, <2>4, SayingConcat DEF TypeOK, Page
        <3> HIDE DEF page
        <3>2. OneCall'
            BY <1>0, <1>1, <1>4, <2>1, <3>1 DEF OneCall, Active
        <3>3. ShownCovers'
            <4>1. SUFFICES ASSUME NEW n \in Messages(current),
                                  ~FullPage(page) \/ n.made >= shown'[1].made
                           PROVE  Says(n) \in SayingSet(shown') \/ Coming(current, n)
                BY <1>0, <1>5, <2>4 DEF ShownCovers, Coming, page
            <4>2. n.made \in Nat /\ shown[1].made \in Nat
                BY <1>1, <1>2, First, MessagesType
            <4>3. CASE n.made >= shown[1].made
                BY <1>1, <1>2, <3>1, <4>3, Constants DEF Covered, ShownCovers
            <4>4. CASE n.made < shown[1].made
                <5>1. PageCovers(page, n)
                    BY <1>1, <1>2, <2>1, <4>4 DEF Covered, MoreCovers, page
                <5>2. page = <<>> => ~(n.made >= shown'[1].made)
                    BY <3>1, <4>2, <4>4
                <5>3. ~FullPage(page) \/ n.made >= page[1].made
                    BY <3>1, <4>1, <5>2
                <5> QED BY <3>1, <5>1, <5>3 DEF PageCovers
            <4> QED BY <4>2, <4>3, <4>4
        <3> QED BY <1>4, <1>6, <2>2, <3>2, <3>3 DEF Covered
    <2> QED BY <2>1, <2>3, <2>4
<1> QED BY <1>9, <1>10, <1>11

LEMMA PagedKept ==
    ASSUME TypeOK, Calls, NewIsUnused, PagesOfChats, Sorted, Paged, [Next]_vars
    PROVE  Paged'
<1> USE DEF table, commands, panel, times
<1>1. \A a \in Ask : asks[a].active \in Chat \cup {NoChat}
    BY DEF TypeOK, AskState
<1>2. ASSUME NEW c \in Chat, DeleteChat(c) \/ DeleteRows(c) \/ ChatDeleted(c) PROVE Paged'
    <2>1. CASE ChatDeleted(c) /\ mixed' = Busy /\ current' = NoChat
        BY <2>1, ResetPaged
    <2>2. CASE ~(ChatDeleted(c) /\ mixed' = Busy /\ current' = NoChat)
        <3>1. UNCHANGED <<asks, loads, more, current, shown, isLoading, hasMore, mixed>>
            BY <1>2, <2>2 DEF DeleteChat, DeleteRows, ChatDeleted, Deselect
        <3>2. \A x \in Chat : stored'[x] = stored[x] \/ stored'[x] = <<>>
            BY <1>2 DEF DeleteChat, DeleteRows, ChatDeleted, TypeOK
        <3>3. \A x \in Chat : Messages(x)' \subseteq Messages(x)
            BY <3>2, MessagesNone
        <3> QED BY <1>1, <3>1, <3>3, SamePaged
    <2> QED BY <2>1, <2>2
<1>3. CASE UNCHANGED vars
    <2>1. \A x \in Chat : Messages(x)' \subseteq Messages(x)
        BY <1>3 DEF vars, Messages
    <2> QED BY <1>1, <1>3, <2>1, SamePaged DEF vars
<1>4. CASE Questions
    BY <1>4, SendPaged, OpenPaged, SavePaged, ShowPaged DEF Questions
<1>5. CASE Pages
    BY <1>5, ResetPaged, LoadsPaged, MorePaged DEF Pages
<1>6. CASE CreateNewChat \/ Restart
    BY <1>6, ResetPaged
<1>7. CASE Refresh
    <2>1. \A x \in Chat : Messages(x)' \subseteq Messages(x)
        BY <1>7 DEF Refresh, Messages
    <2>2. UNCHANGED <<asks, loads, more, current, shown, isLoading, hasMore, mixed>>
        BY <1>7 DEF Refresh
    <2> QED BY <1>1, <2>1, <2>2, SamePaged
<1> QED BY <1>2, <1>3, <1>4, <1>5, <1>6, <1>7 DEF Next, Deletions

LEMMA InitPaged == Init => Paged
<1> SUFFICES ASSUME Init PROVE OneCall /\ Covered
    BY DEF Paged
<1>1. /\ \A a \in Ask : ~Active(a)
      /\ \A l \in Load : ~Loading(l)
      /\ more.phase = "none" /\ current = NoChat
    BY Constants DEF Init, Active, Loading
<1> QED BY <1>1 DEF OneCall, Covered, ShownCovers, NewCovers, LoadsCover, MoreCovers, Loading

(* When nothing is under way and the panel asks for no more, everything    *)
(* that is stored is shown, unless a page was read of messages whose dates *)
(* do not follow the order in which they were made (get_rag_messages,      *)
(* selectChat, loadMoreMessages).                                          *)
THEOREM NothingHiddenHolds == Spec => []NothingHidden
<1>1. Init => Sorted /\ Paged
    BY InitSorted, InitPaged
<1>2. IInv /\ Sorted /\ Paged /\ [Next]_vars => Sorted' /\ Paged'
    BY SortedKept, PagedKept DEF IInv
<1>3. IInv /\ Paged => NothingHidden
    <2> SUFFICES ASSUME IInv, Paged, Settled, ~hasMore
                 PROVE  SayingSet(stored[current]) \subseteq SayingSet(shown)
        BY DEF NothingHidden
    <2>1. /\ Covered /\ current # NoChat /\ current \in Chat
          /\ \A a \in Ask : ~Active(a)
        BY DEF Settled, Busy, Paged, Active, IInv, TypeOK
    <2>2. \A m \in Messages(current) : Says(m) \in SayingSet(shown)
        BY <2>1, NoneComing DEF Covered, ShownCovers
    <2> QED BY <2>2 DEF Messages, SayingSet, Says
<1> QED BY <1>1, <1>2, <1>3, Invariant, PTL DEF Spec

-----------------------------------------------------------------------------
(* The invariant of ShownIsTail.  A message is stored once, by its own     *)
(* question.                                                               *)
Rows(s, n) ==
    /\ \A k, l \in 1 .. Len(s) : Says(s[k]) = Says(s[l]) => k = l
    /\ \A k \in 1 .. Len(s) : s[k].question <= n /\ s[k].role # "error"
Unsaid(s, q, phase) ==
    \A k \in 1 .. Len(s) : s[k].question = q =>
        phase \notin {"sent", "opened"} /\ (phase = "asking" => s[k].role # "assistant")
StoredOnce ==
    /\ \A c \in Chat : Rows(stored[c], asked)
    /\ \A a \in Ask : Active(a) =>
          \A c \in Chat : Unsaid(stored[c], asks[a].question, asks[a].phase)

(* What is shown of a chat has the order of the chat, and is not older     *)
(* there than the first message shown.                                     *)
Fits(v, s) ==
    \A i \in 1 .. Len(v), k \in 1 .. Len(s) : Says(v[i]) = Says(s[k]) =>
        /\ s[k].made >= v[1].made
        /\ \A j \in 1 .. Len(v), l \in 1 .. Len(s) :
              i < j /\ Says(v[j]) = Says(s[l]) => k < l
PartOf(page, s) ==
    \A i \in 1 .. Len(page), k \in 1 .. Len(s) : Says(page[i]) = Says(s[k]) => page[i] = s[k]
Lacks(s, q) == \A i \in 1 .. Len(s) : s[i].question # q
Before(s, t) == \A i \in 1 .. Len(s) : s[i].made < t
By(s, n) == \A i \in 1 .. Len(s) : s[i].question <= n

(* The question that is under way is the last message shown; its rows are  *)
(* later than that, and the answer is the last row.                        *)
EndsWith(v, q) ==
    /\ v # <<>> /\ Says(v[Len(v)]) = <<q, "user">>
    /\ \A i \in 1 .. Len(v) : i < Len(v) => v[i].question # q
After(s, q, t) ==
    \A k \in 1 .. Len(s) : s[k].question = q =>
        s[k].made > t /\ (s[k].role = "assistant" => k = Len(s))

IsPage(page) ==
    /\ InOrder(page) /\ AllBy(page, said) /\ By(page, asked)
    /\ current # NoChat => PartOf(page, stored[current])
Awaits(a) ==
    /\ EndsWith(shown, asks[a].question)
    /\ more.phase = "read" => Lacks(more.messages, asks[a].question)
    /\ asks[a].active # NoChat =>
          After(stored[asks[a].active], asks[a].question, shown[Len(shown)].made)
ShownFits ==
    /\ InOrder(shown) /\ AllBy(shown, said) /\ By(shown, asked)
    /\ current # NoChat => Fits(shown, stored[current])
    /\ \A l \in Load : loads[l].phase = "read" => IsPage(loads[l].messages)
    /\ more.phase = "read" => IsPage(more.messages) /\ Before(more.messages, more.first)
    /\ \A a \in Ask : Active(a) => Awaits(a)

-----------------------------------------------------------------------------
(* Sequences of messages.                                                  *)

LEMMA SeqFacts ==
    ASSUME NEW s \in Seq(Message)
    PROVE  /\ Len(s) \in Nat /\ (s # <<>> => Len(s) \in 1 .. Len(s) /\ 1 \in 1 .. Len(s))
           /\ \A i \in 1 .. Len(s) : /\ s[i] \in Message /\ s[i].made \in Nat
                                     /\ s[i].question \in Nat
<1>1. Len(s) \in Nat /\ (s # <<>> => Len(s) # 0)
    BY LenProperties, EmptySeq
<1>2. \A i \in 1 .. Len(s) : s[i] \in Message
    BY ElementOfSeq
<1>3. \A i \in 1 .. Len(s) : s[i].made \in Nat /\ s[i].question \in Nat
    BY <1>2, Constants DEF Message
<1> QED BY <1>1, <1>2, <1>3

LEMMA AppendIs ==
    ASSUME NEW s \in Seq(Message), NEW m \in Message
    PROVE  /\ Append(s, m) \in Seq(Message) /\ Append(s, m) # <<>>
           /\ Len(Append(s, m)) = Len(s) + 1 /\ Append(s, m)[Len(s) + 1] = m
           /\ \A i \in 1 .. Len(s) : Append(s, m)[i] = s[i]
           /\ \A i \in 1 .. Len(s) + 1 : i \in 1 .. Len(s) \/ i = Len(s) + 1
BY AppendProperties, SayingAppend, LenProperties

LEMMA EmptyFits ==
    ASSUME NEW s, NEW n, NEW q
    PROVE  /\ InOrder(<<>>) /\ AllBy(<<>>, n) /\ By(<<>>, n) /\ Rows(<<>>, n)
           /\ Fits(<<>>, s) /\ Fits(s, <<>>) /\ PartOf(s, <<>>) /\ After(<<>>, q, n)
           /\ \A phase : Unsaid(<<>>, q, phase)
<1>1. Len(<<>>) = 0 /\ 1 .. 0 = {}
    BY EmptySeq
<1> QED BY <1>1 DEF InOrder, AllBy, By, Rows, Fits, PartOf, After, Unsaid

(* One more message is shown that is not stored.                           *)
LEMMA ShowUnstored ==
    ASSUME NEW v \in Seq(Message), NEW s \in Seq(Message), NEW m \in Message,
           Fits(v, s), \A k \in 1 .. Len(s) : Says(s[k]) # Says(m)
    PROVE  Fits(Append(v, m), s)
<1> DEFINE w == Append(v, m)
<1>1. /\ Len(w) = Len(v) + 1 /\ w[Len(v) + 1] = m /\ (v # <<>> => w[1] = v[1])
      /\ \A i \in 1 .. Len(v) : w[i] = v[i]
      /\ \A i \in 1 .. Len(w) : i \in 1 .. Len(v) \/ i = Len(v) + 1
    BY AppendIs, SeqFacts
<1>2. v = <<>> => 1 .. Len(v) = {}
    BY EmptySeq
<1> HIDE DEF w
<1>3. ASSUME NEW i \in 1 .. Len(w), NEW k \in 1 .. Len(s), Says(w[i]) = Says(s[k])
      PROVE  i \in 1 .. Len(v) /\ Says(v[i]) = Says(s[k]) /\ w[1] = v[1]
    <2>1. i \in 1 .. Len(v)
        BY <1>1, <1>3
    <2> QED BY <1>1, <1>2, <1>3, <2>1
<1>4. ASSUME NEW i \in 1 .. Len(w), NEW k \in 1 .. Len(s), Says(w[i]) = Says(s[k])
      PROVE  /\ s[k].made >= w[1].made
             /\ \A j \in 1 .. Len(w), l \in 1 .. Len(s) :
                   i < j /\ Says(w[j]) = Says(s[l]) => k < l
    BY <1>3, <1>4 DEF Fits
<1>5. Fits(w, s)
    BY <1>4 DEF Fits
<1> QED BY <1>5 DEF w

(* One more message is stored, that is not shown or is the last one shown. *)
LEMMA StoreOne ==
    ASSUME NEW v \in Seq(Message), NEW s \in Seq(Message), NEW m \in Message, NEW n \in Nat,
           Fits(v, s), AllBy(v, n), m.made = n + 1,
           \A i \in 1 .. Len(v) : i < Len(v) => Says(v[i]) # Says(m)
    PROVE  Fits(v, Append(s, m))
<1> DEFINE w == Append(s, m)
<1>1. /\ Len(w) = Len(s) + 1 /\ w[Len(s) + 1] = m
      /\ \A k \in 1 .. Len(s) : w[k] = s[k]
      /\ \A k \in 1 .. Len(w) : k \in 1 .. Len(s) \/ k = Len(s) + 1
    BY AppendIs
<1>2. Len(s) \in Nat /\ Len(v) \in Nat /\ \A i \in 1 .. Len(v) : v[i].made \in Nat /\ 1 \in 1 .. Len(v)
    BY SeqFacts
<1> HIDE DEF w
<1>3. ASSUME NEW i \in 1 .. Len(v), NEW k \in 1 .. Len(w), Says(v[i]) = Says(w[k])
      PROVE  w[k].made >= v[1].made
    <2>1. CASE k \in 1 .. Len(s)
        BY <1>1, <1>3, <2>1 DEF Fits
    <2>2. CASE k = Len(s) + 1
        <3>1. v[1].made <= n /\ v[1].made \in Nat /\ w[k].made = n + 1
            BY <1>1, <1>2, <2>2 DEF AllBy
        <3> QED BY <3>1
    <2> QED BY <1>1, <2>1, <2>2
<1>4. ASSUME NEW i \in 1 .. Len(v), NEW k \in 1 .. Len(w), Says(v[i]) = Says(w[k]),
             NEW j \in 1 .. Len(v), NEW l \in 1 .. Len(w), i < j, Says(v[j]) = Says(w[l])
      PROVE  k < l
    <2>1. Says(v[i]) # Says(m)
        BY SMTT(40), <1>2, <1>4
    <2>2. k \in 1 .. Len(s) /\ w[k] = s[k]
        BY <1>1, <1>4, <2>1
    <2>3. CASE l \in 1 .. Len(s)
        BY <1>1, <1>4, <2>2, <2>3 DEF Fits
    <2>4. CASE l = Len(s) + 1
        BY <1>2, <2>2, <2>4
    <2> QED BY <1>1, <2>3, <2>4
<1>5. Fits(v, w)
    BY <1>3, <1>4 DEF Fits
<1> QED BY <1>5 DEF w

(* The answer is shown, which is the last row if it is stored.             *)
LEMMA ShowLast ==
    ASSUME NEW v \in Seq(Message), NEW s \in Seq(Message), NEW m \in Message, NEW q,
           Fits(v, s), InOrder(v), EndsWith(v, q), After(s, q, v[Len(v)].made),
           Says(m) = <<q, "assistant">>
    PROVE  Fits(Append(v, m), s)
<1> DEFINE w == Append(v, m)
<1>1. /\ Len(w) = Len(v) + 1 /\ w[Len(v) + 1] = m /\ w[1] = v[1]
      /\ \A i \in 1 .. Len(v) : w[i] = v[i]
      /\ \A i \in 1 .. Len(w) : i \in 1 .. Len(v) \/ i = Len(v) + 1
    BY AppendIs, SeqFacts DEF EndsWith
<1>2. /\ Len(s) \in Nat /\ Len(v) \in Nat /\ Len(v) \in 1 .. Len(v) /\ 1 \in 1 .. Len(v)
      /\ \A i \in 1 .. Len(v) : v[i].made \in Nat
      /\ \A k \in 1 .. Len(s) : s[k].made \in Nat
    BY SeqFacts DEF EndsWith
<1> HIDE DEF w
<1>3. v[1].made <= v[Len(v)].made
    BY <1>2 DEF InOrder
<1>4. \A i \in 1 .. Len(v) : Says(v[i]) # Says(m)
    <2>1. ASSUME NEW i \in 1 .. Len(v) PROVE v[i].question # q \/ Says(v[i]) = <<q, "user">>
        BY <1>2 DEF EndsWith
    <2> QED BY <2>1 DEF Says
<1>5. ASSUME NEW k \in 1 .. Len(s), Says(s[k]) = Says(m)
      PROVE  k = Len(s) /\ s[k].made >= v[1].made
    <2>1. s[k].question = q /\ s[k].role = "assistant"
        BY <1>5 DEF Says
    <2>2. k = Len(s) /\ s[k].made > v[Len(v)].made
        BY <2>1 DEF After
    <2> QED BY <1>2, <1>3, <2>2
<1>6. ASSUME NEW i \in 1 .. Len(w), NEW k \in 1 .. Len(s), Says(w[i]) = Says(s[k])
      PROVE  s[k].made >= w[1].made
    BY <1>1, <1>5, <1>6 DEF Fits
<1>7. ASSUME NEW i \in 1 .. Len(w), NEW k \in 1 .. Len(s), Says(w[i]) = Says(s[k]),
             NEW j \in 1 .. Len(w), NEW l \in 1 .. Len(s), i < j, Says(w[j]) = Says(s[l])
      PROVE  k < l
    <2>1. i \in 1 .. Len(v) /\ w[i] = v[i]
        BY <1>1, <1>2, <1>7
    <2>2. CASE j \in 1 .. Len(v)
        BY <1>1, <1>7, <2>1, <2>2 DEF Fits
    <2>3. CASE j = Len(v) + 1
        <3>1. l = Len(s)
            BY <1>1, <1>5, <1>7, <2>3
        <3>2. k # l
            BY <1>1, <1>4, <1>7, <2>1, <2>3
        <3> QED BY <1>2, <3>1, <3>2
    <2> QED BY <1>1, <2>2, <2>3
<1>8. Fits(w, s)
    BY <1>6, <1>7 DEF Fits
<1> QED BY <1>8 DEF w

(* The panel takes a chat that its question has opened.                    *)
LEMMA ShowOpened ==
    ASSUME NEW v \in Seq(Message), NEW s \in Seq(Message), NEW q, InOrder(v), EndsWith(v, q),
           After(s, q, v[Len(v)].made), \A k \in 1 .. Len(s) : s[k].question = q
    PROVE  Fits(v, s)
<1>1. /\ Len(v) \in Nat /\ Len(v) \in 1 .. Len(v) /\ 1 \in 1 .. Len(v)
      /\ \A i \in 1 .. Len(v) : v[i].made \in Nat
      /\ \A k \in 1 .. Len(s) : s[k].made \in Nat
    BY SeqFacts DEF EndsWith
<1>2. v[1].made <= v[Len(v)].made
    BY <1>1 DEF InOrder
<1>3. ASSUME NEW i \in 1 .. Len(v), NEW k \in 1 .. Len(s), Says(v[i]) = Says(s[k])
      PROVE  s[k].made >= v[1].made /\ \A j \in 1 .. Len(v) : ~(i < j)
    <2>1. s[k].question = q /\ s[k].made > v[Len(v)].made
        BY DEF After
    <2>2. v[i].question = q
        BY <1>3, <2>1 DEF Says
    <2>3. ~(i < Len(v))
        BY <2>2 DEF EndsWith
    <2> QED BY <1>1, <1>2, <2>1, <2>3
<1> QED BY <1>3 DEF Fits

(* A page replaces what is shown.                                          *)
LEMMA PageFits ==
    ASSUME NEW page \in Seq(Message), NEW s \in Seq(Message), InOrder(page), InOrder(s),
           PartOf(page, s)
    PROVE  Fits(page, s)
<1>1. /\ \A i \in 1 .. Len(page) : /\ page[i].made \in Nat /\ i >= 1
                                   /\ 1 \in 1 .. Len(page)
      /\ \A k \in 1 .. Len(s) : s[k].made \in Nat
    BY SeqFacts
<1>2. ASSUME NEW i \in 1 .. Len(page), NEW k \in 1 .. Len(s), Says(page[i]) = Says(s[k])
      PROVE  s[k].made >= page[1].made
    <2>1. s[k] = page[i]
        BY <1>2 DEF PartOf
    <2>2. page[1].made \in Nat /\ page[i].made \in Nat
        BY <1>1
    <2>3. CASE i = 1
        BY <2>1, <2>2, <2>3
    <2>4. CASE 1 < i
        <3>1. page[1].made < page[i].made
            BY <1>1, <2>4 DEF InOrder
        <3> QED BY <2>1, <2>2, <3>1
    <2>5. i = 1 \/ 1 < i
        OBVIOUS
    <2> QED BY <2>3, <2>4, <2>5
<1>3. ASSUME NEW i \in 1 .. Len(page), NEW k \in 1 .. Len(s), Says(page[i]) = Says(s[k]),
             NEW j \in 1 .. Len(page), NEW l \in 1 .. Len(s), i < j, Says(page[j]) = Says(s[l])
      PROVE  k < l
    <2>1. s[k] = page[i] /\ s[l] = page[j]
        BY <1>3 DEF PartOf
    <2>2. s[k].made < s[l].made
        BY <1>3, <2>1 DEF InOrder
    <2> QED BY <1>1, <2>2 DEF InOrder
<1> QED BY <1>2, <1>3 DEF Fits

LEMMA ConcatIs ==
    ASSUME NEW p \in Seq(Message), NEW v \in Seq(Message)
    PROVE  /\ p \o v \in Seq(Message) /\ Len(p \o v) = Len(p) + Len(v)
           /\ \A i \in 1 .. Len(p \o v) :
                 \/ i \in 1 .. Len(p) /\ (p \o v)[i] = p[i]
                 \/ /\ i - Len(p) \in 1 .. Len(v) /\ i > Len(p)
                    /\ (p \o v)[i] = v[i - Len(p)]
<1>1. Len(p) \in Nat /\ Len(v) \in Nat
    BY SeqFacts
<1>2. /\ p \o v \in Seq(Message) /\ Len(p \o v) = Len(p) + Len(v)
      /\ \A i \in 1 .. Len(p) + Len(v) :
            (p \o v)[i] = IF i <= Len(p) THEN p[i] ELSE v[i - Len(p)]
    BY ConcatProperties
<1>3. \A i \in 1 .. Len(p) + Len(v) :
          IF i <= Len(p) THEN i \in 1 .. Len(p) ELSE i - Len(p) \in 1 .. Len(v) /\ i > Len(p)
    BY <1>1
<1> QED BY <1>2, <1>3

(* A page of older messages is put before what is shown.                   *)
LEMMA MoreFits ==
    ASSUME NEW p \in Seq(Message), NEW v \in Seq(Message), NEW s \in Seq(Message),
           v # <<>>, InOrder(p), InOrder(v), InOrder(s), Before(p, v[1].made)
    PROVE  /\ InOrder(p \o v)
           /\ \A n \in Nat : AllBy(p, n) /\ AllBy(v, n) => AllBy(p \o v, n)
           /\ \A n \in Nat : By(p, n) /\ By(v, n) => By(p \o v, n)
           /\ PartOf(p, s) /\ Fits(v, s) => Fits(p \o v, s)
<1> DEFINE w == p \o v
<1>1. \A i \in 1 .. Len(w) :
          \/ i \in 1 .. Len(p) /\ w[i] = p[i]
          \/ i - Len(p) \in 1 .. Len(v) /\ i > Len(p) /\ w[i] = v[i - Len(p)]
    BY ConcatIs
<1>2. /\ Len(p) \in Nat /\ Len(v) \in Nat /\ 1 \in 1 .. Len(v) /\ Len(w) = Len(p) + Len(v)
      /\ \A i \in 1 .. Len(p) : p[i].made \in Nat
      /\ \A i \in 1 .. Len(v) : v[i].made \in Nat
      /\ \A i \in 1 .. Len(s) : s[i].made \in Nat
    BY SeqFacts, ConcatIs
<1> HIDE DEF w
<1>3. \A j \in 1 .. Len(v) : v[1].made <= v[j].made
    BY <1>2 DEF InOrder
<1>4. ASSUME NEW i \in 1 .. Len(w), NEW j \in 1 .. Len(w), i < j
      PROVE  w[i].made < w[j].made
    <2>1. CASE j \in 1 .. Len(p) /\ w[j] = p[j]
        <3>1. i \in 1 .. Len(p) /\ w[i] = p[i]
            BY <1>1, <1>2, <1>4, <2>1
        <3> QED BY <1>4, <2>1, <3>1 DEF InOrder
    <2>2. CASE j - Len(p) \in 1 .. Len(v) /\ w[j] = v[j - Len(p)]
        <3>1. CASE i \in 1 .. Len(p) /\ w[i] = p[i]
            BY <1>2, <1>3, <2>2, <3>1 DEF Before
        <3>2. CASE i - Len(p) \in 1 .. Len(v) /\ w[i] = v[i - Len(p)]
            <4>1. i - Len(p) < j - Len(p)
                BY <1>2, <1>4
            <4> QED BY <2>2, <3>2, <4>1 DEF InOrder
        <3> QED BY <1>1, <3>1, <3>2
    <2> QED BY <1>1, <2>1, <2>2
<1>5. InOrder(w)
    BY <1>4 DEF InOrder
<1>6. \A n \in Nat : /\ AllBy(p, n) /\ AllBy(v, n) => AllBy(w, n)
                     /\ By(p, n) /\ By(v, n) => By(w, n)
    BY <1>1 DEF AllBy, By
<1>7. ASSUME PartOf(p, s), Fits(v, s)
      PROVE  Fits(w, s)
    <2>1. ASSUME NEW i \in 1 .. Len(w), NEW k \in 1 .. Len(s), Says(w[i]) = Says(s[k])
          PROVE  s[k].made >= w[1].made
        <3>1. CASE i \in 1 .. Len(p) /\ w[i] = p[i]
            <4>1. s[k].made = w[i].made
                BY <1>7, <2>1, <3>1 DEF PartOf
            <4>2. 1 \in 1 .. Len(w) /\ (i = 1 \/ 1 < i)
                BY <1>2
            <4>3. i = 1 \/ w[1].made < w[i].made
                BY <1>5, <4>2 DEF InOrder
            <4>4. w[1].made \in Nat /\ w[i].made \in Nat
                BY <1>1, <1>2, <4>2
            <4> QED BY <4>1, <4>3, <4>4
        <3>2. CASE i - Len(p) \in 1 .. Len(v) /\ w[i] = v[i - Len(p)]
            <4>1. s[k].made >= v[1].made
                BY <1>7, <2>1, <3>2 DEF Fits
            <4>2. w[1].made <= v[1].made /\ w[1].made \in Nat
                <5>1. 1 \in 1 .. Len(w)
                    BY <1>2
                <5>2. CASE 1 \in 1 .. Len(p) /\ w[1] = p[1]
                    BY <1>2, <5>2 DEF Before
                <5>3. CASE 1 - Len(p) \in 1 .. Len(v) /\ w[1] = v[1 - Len(p)]
                    <6>1. 1 - Len(p) = 1
                        BY <1>2, <5>3
                    <6> QED BY <1>2, <5>3, <6>1
                <5> QED BY <1>1, <5>1, <5>2, <5>3
            <4> QED BY <1>2, <4>1, <4>2
        <3> QED BY <1>1, <3>1, <3>2
    <2>2. ASSUME NEW i \in 1 .. Len(w), NEW k \in 1 .. Len(s), Says(w[i]) = Says(s[k]),
                 NEW j \in 1 .. Len(w), NEW l \in 1 .. Len(s), i < j, Says(w[j]) = Says(s[l])
          PROVE  k < l
        <3>1. CASE i - Len(p) \in 1 .. Len(v) /\ w[i] = v[i - Len(p)] /\ i > Len(p)
            <4>1. j - Len(p) \in 1 .. Len(v) /\ w[j] = v[j - Len(p)] /\ i - Len(p) < j - Len(p)
                BY <1>1, <1>2, <2>2, <3>1
            <4> QED BY <1>7, <2>2, <3>1, <4>1 DEF Fits
        <3>2. CASE i \in 1 .. Len(p) /\ w[i] = p[i]
            <4>1. s[k] = p[i]
                BY <1>7, <2>2, <3>2 DEF PartOf
            <4>2. s[k].made < s[l].made
                <5>1. CASE j \in 1 .. Len(p) /\ w[j] = p[j]
                    <6>1. s[l] = p[j]
                        BY <1>7, <2>2, <5>1 DEF PartOf
                    <6> QED BY <2>2, <3>2, <4>1, <5>1, <6>1 DEF InOrder
                <5>2. CASE j - Len(p) \in 1 .. Len(v) /\ w[j] = v[j - Len(p)]
                    <6>1. s[l].made >= v[1].made
                        BY <1>7, <2>2, <5>2 DEF Fits
                    <6>2. s[k].made < v[1].made
                        BY <3>2, <4>1 DEF Before
                    <6>3. s[k].made \in Nat /\ s[l].made \in Nat /\ v[1].made \in Nat
                        BY <1>2
                    <6> QED BY <6>1, <6>2, <6>3
                <5> QED BY <1>1, <5>1, <5>2
            <4> QED BY <1>2, <4>2 DEF InOrder
        <3> QED BY <1>1, <3>1, <3>2
    <2> QED BY <2>1, <2>2 DEF Fits
<1> QED BY <1>5, <1>6, <1>7 DEF w

(* What is read of a chat is part of it.                                   *)
LEMMA PageIsPart ==
    ASSUME NEW s \in Seq(Message), NEW n \in Nat, NEW q \in Nat, InOrder(s), AllBy(s, n), Rows(s, q)
    PROVE  LET page == LastPage(s)
           IN  InOrder(page) /\ AllBy(page, n) /\ By(page, q) /\ PartOf(page, s)
<1> DEFINE page == LastPage(s)
           d == Len(s) - Len(page)
<1>1. /\ Len(page) \in Nat /\ Len(page) <= Len(s) /\ Len(s) \in Nat
      /\ \A i \in 1 .. Len(page) : page[i] = s[d + i]
    BY LastPageType, SeqFacts
<1> HIDE DEF page
<1>2. \A i \in 1 .. Len(page) : d + i \in 1 .. Len(s)
    BY <1>1
<1>3. \A i, j \in 1 .. Len(page) : i < j => d + i < d + j
    BY <1>1
<1> HIDE DEF d
<1>4. InOrder(page)
    BY <1>1, <1>2, <1>3 DEF InOrder
<1>5. AllBy(page, n) /\ By(page, q)
    BY <1>1, <1>2 DEF AllBy, By, Rows
<1>6. PartOf(page, s)
    BY <1>1, <1>2 DEF PartOf, Rows
<1> QED BY <1>4, <1>5, <1>6 DEF page

-----------------------------------------------------------------------------
(* Each message is stored once.                                            *)

LEMMA RowsAppend ==
    ASSUME NEW s \in Seq(Message), NEW m \in Message, NEW n \in Nat, Rows(s, n),
           m.question <= n, m.role # "error", \A k \in 1 .. Len(s) : Says(s[k]) # Says(m)
    PROVE  Rows(Append(s, m), n)
<1> DEFINE w == Append(s, m)
<1>1. /\ Len(w) = Len(s) + 1 /\ w[Len(s) + 1] = m
      /\ \A i \in 1 .. Len(s) : w[i] = s[i]
      /\ \A i \in 1 .. Len(w) : i \in 1 .. Len(s) \/ i = Len(s) + 1
    BY AppendIs
<1> HIDE DEF w
<1>2. \A k, l \in 1 .. Len(w) : Says(w[k]) = Says(w[l]) => k = l
    BY <1>1 DEF Rows
<1>3. \A k \in 1 .. Len(w) : w[k].question <= n /\ w[k].role # "error"
    BY <1>1 DEF Rows
<1>4. Rows(w, n)
    BY <1>2, <1>3 DEF Rows
<1> QED BY <1>4 DEF w

(* One question goes on, and stores one message at most.                   *)
LEMMA StoredStep ==
    ASSUME TypeOK, Calls, StoredOnce, NEW a \in Ask, Active(a), asked' = asked,
           \A b \in Ask \ {a} : asks'[b] = asks[b],
           asks'[a].question = asks[a].question,
           NEW m \in Message, m.question = asks[a].question, m.role # "error",
           \A c \in Chat : stored'[c] \in {stored[c], Append(stored[c], m)},
           \A c \in Chat : stored'[c] # stored[c] =>
               \A k \in 1 .. Len(stored[c]) : Says(stored[c][k]) # Says(m),
           \A c \in Chat : Unsaid(stored'[c], asks[a].question, asks'[a].phase)
    PROVE  StoredOnce'
<1>1. asked \in Nat /\ asks[a].question <= asked /\ \A c \in Chat : stored[c] \in Seq(Message)
    BY BoundsAssumption DEF TypeOK, Calls
<1>2. ASSUME NEW c \in Chat PROVE Rows(stored'[c], asked)
    <2>1. stored[c] \in Seq(Message) /\ Rows(stored[c], asked)
        BY <1>1 DEF StoredOnce
    <2>2. CASE stored'[c] = stored[c]
        BY <2>1, <2>2
    <2>3. CASE stored'[c] # stored[c]
        <3>1. stored'[c] = Append(stored[c], m)
            BY <2>3
        <3>2. Rows(Append(stored[c], m), asked)
            BY <1>1, <2>1, <2>3, RowsAppend
        <3> QED BY <3>1, <3>2
    <2> QED BY <2>2, <2>3
<1>3. ASSUME NEW b \in Ask, asks'[b].phase # "none", NEW c \in Chat
      PROVE  Unsaid(stored'[c], asks'[b].question, asks'[b].phase)
    <2>1. CASE b = a
        BY <2>1
    <2>2. CASE b # a
        <3>1. asks'[b] = asks[b] /\ Active(b) /\ asks[b].question # m.question
            BY <1>3, <2>2 DEF Calls, Active
        <3>2. Unsaid(stored[c], asks[b].question, asks[b].phase)
            BY <3>1 DEF StoredOnce
        <3>3. Unsaid(Append(stored[c], m), asks[b].question, asks[b].phase)
            <4> DEFINE w == Append(stored[c], m)
            <4>1. /\ w[Len(stored[c]) + 1] = m
                  /\ Len(w) = Len(stored[c]) + 1 /\ Len(stored[c]) \in Nat
                  /\ \A k \in 1 .. Len(stored[c]) : w[k] = stored[c][k]
                  /\ \A k \in 1 .. Len(w) : k \in 1 .. Len(stored[c]) \/ k = Len(stored[c]) + 1
                BY <1>1, AppendIs, SeqFacts
            <4> HIDE DEF w
            <4>2. ASSUME NEW k \in 1 .. Len(w), w[k].question = asks[b].question
                  PROVE  /\ asks[b].phase \notin {"sent", "opened"}
                         /\ asks[b].phase = "asking" => w[k].role # "assistant"
                <5>1. k \in 1 .. Len(stored[c]) /\ w[k] = stored[c][k]
                    BY <3>1, <4>1, <4>2
                <5>2. stored[c][k].question = asks[b].question
                    BY <4>2, <5>1
                <5> QED BY <3>2, <5>1, <5>2 DEF Unsaid
            <4>3. Unsaid(w, asks[b].question, asks[b].phase)
                BY <4>2 DEF Unsaid
            <4> QED BY <4>3 DEF w
        <3> QED BY <3>1, <3>2, <3>3
    <2> QED BY <2>1, <2>2
<1> QED BY <1>2, <1>3 DEF StoredOnce, Active

(* What SaveMessage and the failures do is such a step.                    *)
LEMMA SaveOnce ==
    ASSUME TypeOK, Calls, StoredOnce, NEW a \in Ask,
           OpenChat(a) \/ SaveQuestion(a) \/ SaveAnswer(a) \/ ModelFails(a)
    PROVE  StoredOnce'
<1> USE DEF table, commands, panel, times
<1>1. Active(a) /\ asked' = asked /\ asks[a].question \in Chat
    BY QuestionType DEF OpenChat, SaveQuestion, SaveAnswer, ModelFails, Active
<1>2. /\ asks'[a].question = asks[a].question /\ \A b \in Ask \ {a} : asks'[b] = asks[b]
    BY QuestionSteps DEF GoesOn, Opens, AskStep
<1> DEFINE q == asks[a].question
<1>3. \A c \in Chat : Unsaid(stored[c], q, asks[a].phase) /\ stored[c] \in Seq(Message)
    BY <1>1 DEF StoredOnce, TypeOK
<1>4. ASSUME asks'[a].phase \in {"opened", "failed"}, UNCHANGED stored,
             asks'[a].phase = "opened" => asks[a].phase = "sent"
      PROVE  StoredOnce'
    <2>1. \E m \in Message : m.question = q /\ m.role = "user"
        <3>1. clock \in Now
            BY DEF Now, TypeOK
        <3> QED BY <1>1, <3>1, SayType DEF Say
    <2>2. \A c \in Chat : Unsaid(stored'[c], q, asks'[a].phase)
        BY <1>3, <1>4 DEF Unsaid
    <2> QED BY <1>1, <1>2, <1>4, <2>1, <2>2, StoredStep
<1>5. CASE OpenChat(a)
    <2>1. CASE Fails(a)
        <3>1. asks'[a].phase = "failed" /\ UNCHANGED stored
            BY <1>5, <2>1, OnePhase DEF Fails, OpenChat
        <3> QED BY <1>4, <3>1
    <2>2. CASE asks' = [asks EXCEPT ![a].phase = "opened", ![a].active = asks[a].question]
        <3>1. asks'[a].phase = "opened" /\ asks[a].phase = "sent" /\ UNCHANGED stored
            BY <1>5, <2>2 DEF OpenChat, TypeOK, AskState
        <3> QED BY <1>4, <3>1
    <2> QED BY <1>5, <2>1, <2>2 DEF OpenChat
<1>6. CASE ModelFails(a)
    <2>1. asks'[a].phase = "failed" /\ UNCHANGED stored
        BY <1>6, OnePhase DEF Fails, ModelFails
    <2> QED BY <1>4, <2>1
<1>7. ASSUME NEW role \in {"user", "assistant"}, SaveMessage(asks[a].active, q, role),
             asks'[a].phase \in {"asking", "answered"},
             asks'[a].phase = "asking" => /\ role = "user"
                                          /\ asks[a].phase \in {"sent", "opened"},
             asks'[a].phase = "answered" => role = "assistant" /\ asks[a].phase = "asking"
      PROVE  StoredOnce'
    <2>7. PICK now \in Now :
              \/ UNCHANGED stored
              \/ stored' = [stored EXCEPT ![asks[a].active] = Append(@, Say(q, role, now))]
        <3>1. clock \in Now
            BY DEF Now, TypeOK
        <3> QED BY <1>7, <3>1 DEF SaveMessage
    <2> DEFINE m == Say(q, role, now)
    <2>1. m \in Message /\ m.question = q /\ m.role = role /\ Says(m) = <<q, role>>
        BY <1>1, SayType DEF Say
    <2>2. UNCHANGED stored \/ stored' = [stored EXCEPT ![asks[a].active] = Append(@, m)]
        BY <2>7
    <2> HIDE DEF m
    <2>3. \A c \in Chat : stored'[c] \in {stored[c], Append(stored[c], m)}
        BY <2>2 DEF TypeOK
    <2>4. \A c \in Chat : \A k \in 1 .. Len(stored[c]) :
              stored[c][k].question = q => asks'[a].phase = "answered" /\ stored[c][k].role # role
        BY <1>3, <1>7 DEF Unsaid
    <2>5. \A c \in Chat : \A k \in 1 .. Len(stored[c]) : Says(stored[c][k]) # Says(m)
        BY <2>1, <2>4 DEF Says
    <2>6. ASSUME NEW c \in Chat PROVE Unsaid(stored'[c], q, asks'[a].phase)
        <3>1. Unsaid(stored[c], q, asks'[a].phase)
            BY <1>7, <2>4 DEF Unsaid
        <3>2. Unsaid(Append(stored[c], m), q, asks'[a].phase)
            <4> DEFINE w == Append(stored[c], m)
            <4>1. /\ Len(w) = Len(stored[c]) + 1 /\ w[Len(stored[c]) + 1] = m
                  /\ \A k \in 1 .. Len(stored[c]) : w[k] = stored[c][k]
                  /\ \A k \in 1 .. Len(w) : k \in 1 .. Len(stored[c]) \/ k = Len(stored[c]) + 1
                BY <1>3, <2>1, AppendIs
            <4> HIDE DEF w
            <4>2. Unsaid(w, q, asks'[a].phase)
                BY <1>7, <2>1, <3>1, <4>1 DEF Unsaid
            <4> QED BY <4>2 DEF w
        <3> QED BY <2>3, <3>1, <3>2
    <2> QED BY <1>1, <1>2, <2>1, <2>3, <2>5, <2>6, StoredStep
<1>8. CASE SaveQuestion(a)
    <2>1. asks'[a].phase = "asking"
        BY <1>8, OnePhase DEF SaveQuestion
    <2> QED BY <1>7, <1>8, <2>1 DEF SaveQuestion
<1>9. CASE SaveAnswer(a)
    <2>1. asks'[a].phase = "answered"
        BY <1>9, OnePhase DEF SaveAnswer
    <2> QED BY <1>7, <1>9, <2>1 DEF SaveAnswer
<1> QED BY <1>5, <1>6, <1>8, <1>9

LEMMA StoredOnceKept ==
    ASSUME TypeOK, Calls, StoredOnce, [Next]_vars PROVE StoredOnce'
<1> USE DEF table, commands, panel, times
<1>0. asked \in Nat /\ \A c \in Chat : stored[c] \in Seq(Message) /\ Rows(stored[c], asked)
    BY BoundsAssumption DEF TypeOK, StoredOnce
<1>1. ASSUME NEW a \in Ask, SendMessage(a) PROVE StoredOnce'
    <2>1. /\ UNCHANGED stored /\ asked' = asked + 1 /\ asks'[a].question = asked + 1
          /\ \A b \in Ask \ {a} : asks'[b] = asks[b]
        BY <1>1, QuestionSteps DEF SendMessage, Begins, AskStep
    <2>2. ASSUME NEW c \in Chat
          PROVE  /\ Rows(stored[c], asked + 1)
                 /\ \A phase : Unsaid(stored[c], asked + 1, phase)
        <3>1. \A k \in 1 .. Len(stored[c]) :
                  /\ stored[c][k].question \in Nat /\ stored[c][k].question <= asked
            BY <1>0, SeqFacts DEF Rows
        <3>2. \A k \in 1 .. Len(stored[c]) :
                  /\ stored[c][k].question <= asked + 1 /\ stored[c][k].question # asked + 1
            BY <1>0, <3>1
        <3> QED BY <1>0, <3>2 DEF Rows, Unsaid
    <2>3. ASSUME NEW b \in Ask, asks'[b].phase # "none", NEW c \in Chat
          PROVE  Unsaid(stored'[c], asks'[b].question, asks'[b].phase)
        BY <2>1, <2>2, <2>3 DEF StoredOnce, Active
    <2> QED BY <2>1, <2>2, <2>3 DEF StoredOnce, Active
<1>2. ASSUME asked' = asked, \A c \in Chat : stored'[c] \in {stored[c], <<>>},
             \A b \in Ask : asks'[b] \in {asks[b], NoAsk}
      PROVE  StoredOnce'
    <2>1. \A c \in Chat : Rows(stored'[c], asked)
        BY <1>0, <1>2, EmptyFits
    <2>2. ASSUME NEW b \in Ask, asks'[b].phase # "none", NEW c \in Chat
          PROVE  Unsaid(stored'[c], asks'[b].question, asks'[b].phase)
        <3>1. asks'[b] = asks[b] /\ Active(b)
            BY <1>2, <2>2, Constants DEF Active
        <3> QED BY <1>2, <3>1, EmptyFits DEF StoredOnce
    <2> QED BY <1>2, <2>1, <2>2 DEF StoredOnce, Active
<1>3. ASSUME NEW a \in Ask, ShowAnswer(a) \/ ShowError(a) PROVE StoredOnce'
    <2>1. asked' = asked /\ UNCHANGED stored /\ \A b \in Ask : asks'[b] \in {asks[b], NoAsk}
        BY <1>3, QuestionSteps DEF ShowAnswer, ShowError, Ends, AskStep
    <2> QED BY <1>2, <2>1
<1>4. CASE Questions
    BY <1>1, <1>3, <1>4, SaveOnce DEF Questions
<1>5. CASE Pages \/ CreateNewChat \/ UNCHANGED vars
    <2>1. UNCHANGED <<stored, asks, asked>>
        BY <1>5 DEF Pages, SelectChat, ReadPage, ShowPage, LoadMore, ReadMore, ShowMore,
                    CreateNewChat, vars
    <2> QED BY <1>2, <2>1
<1>6. CASE Restart
    <2>1. UNCHANGED <<stored, asked>> /\ \A b \in Ask : asks'[b] = NoAsk
        BY <1>6 DEF Restart
    <2> QED BY <1>2, <2>1
<1>7. ASSUME NEW c \in Chat, DeleteChat(c) \/ DeleteRows(c) \/ ChatDeleted(c) PROVE StoredOnce'
    <2>1. UNCHANGED <<asks, asked>> /\ \A x \in Chat : stored'[x] \in {stored[x], <<>>}
        BY <1>7 DEF DeleteChat, DeleteRows, ChatDeleted, TypeOK
    <2> QED BY <1>2, <2>1
<1>8. CASE Refresh
    BY <1>2, <1>8 DEF Refresh
<1> QED BY <1>4, <1>5, <1>6, <1>7, <1>8 DEF Next, Deletions

-----------------------------------------------------------------------------
(* What is shown stays the end of the chat.                                *)

LEMMA TailTypes ==
    ASSUME TypeOK
    PROVE  /\ said \in Nat /\ asked \in Nat /\ shown \in Seq(Message)
           /\ more.messages \in Seq(Message) /\ more.first \in Nat
           /\ \A l \in Load : loads[l].messages \in Seq(Message)
           /\ \A c \in Chat : stored[c] \in Seq(Message)
           /\ current \in Chat \cup {NoChat}
           /\ \A a \in Ask : asks[a].active \in Chat \cup {NoChat}
BY BoundsAssumption DEF TypeOK, Page, AskState

LEMMA PageLater ==
    ASSUME NEW p \in Seq(Message), NEW n \in Nat, NEW k \in Nat, n <= k
    PROVE  (AllBy(p, n) => AllBy(p, k)) /\ (By(p, n) => By(p, k))
<1>1. \A i \in 1 .. Len(p) : p[i].made \in Nat /\ p[i].question \in Nat
    BY SeqFacts
<1> QED BY <1>1 DEF AllBy, By

(* A page that was read stays one while its chat does not get its          *)
(* messages again.                                                         *)
LEMMA PagesStay ==
    ASSUME TypeOK, ShownFits, said' \in {said, said + 1}, asked' \in {asked, asked + 1},
           UNCHANGED <<more, loads, current>>,
           current # NoChat => \A page \in Seq(Message) :
               /\ PartOf(page, stored[current])
               /\ \/ more.phase = "read" /\ page = more.messages
                  \/ \E l \in Load : loads[l].phase = "read" /\ page = loads[l].messages
               => PartOf(page, stored'[current])
    PROVE  /\ \A l \in Load : loads'[l].phase = "read" => IsPage(loads[l].messages)'
           /\ more'.phase = "read" => IsPage(more.messages)' /\ Before(more'.messages, more'.first)
<1>1. said' \in Nat /\ said <= said' /\ asked' \in Nat /\ asked <= asked'
    BY TailTypes
<1>2. ASSUME NEW page \in Seq(Message), IsPage(page),
             \/ more.phase = "read" /\ page = more.messages
             \/ \E l \in Load : loads[l].phase = "read" /\ page = loads[l].messages
      PROVE  /\ InOrder(page) /\ AllBy(page, said') /\ By(page, asked')
             /\ current # NoChat => PartOf(page, stored'[current])
    BY <1>1, <1>2, TailTypes, PageLater DEF IsPage
<1>3. ASSUME NEW l \in Load, loads'[l].phase = "read" PROVE IsPage(loads[l].messages)'
    <2>1. IsPage(loads[l].messages) /\ loads[l].messages \in Seq(Message)
        BY <1>3, TailTypes DEF ShownFits
    <2> QED BY <1>2, <1>3, <2>1 DEF IsPage
<1>4. ASSUME more'.phase = "read"
      PROVE  IsPage(more.messages)' /\ Before(more'.messages, more'.first)
    <2>1. IsPage(more.messages) /\ more.messages \in Seq(Message)
          /\ Before(more.messages, more.first)
        BY <1>4, TailTypes DEF ShownFits
    <2> QED BY <1>2, <1>4, <2>1 DEF IsPage
<1> QED BY <1>3, <1>4

(* One more message is shown.                                              *)
LEMMA TailShows ==
    ASSUME TypeOK, ShownFits, NEW m \in Message, m.made = said + 1, said' = said + 1,
           asked' \in {asked, asked + 1}, m.question <= asked', shown' = Append(shown, m)
    PROVE  InOrder(shown') /\ AllBy(shown', said') /\ By(shown', asked')
<1>1. InOrder(shown') /\ AllBy(shown', said')
    BY TailTypes, AppendSorted DEF ShownFits
<1>2. asked' \in Nat /\ asked <= asked'
    BY TailTypes
<1>3. By(shown, asked')
    BY <1>2, TailTypes, PageLater DEF ShownFits
<1>4. By(shown', asked')
    BY <1>3, TailTypes, AppendIs DEF By
<1> QED BY <1>1, <1>4

LEMMA SendTail ==
    ASSUME TypeOK, Calls, Sorted, StoredOnce, OneCall, ShownFits, NEW a \in Ask, SendMessage(a)
    PROVE  ShownFits'
<1> USE DEF table, commands, panel, times
<1>1. /\ UNCHANGED <<stored, loads, more, current>> /\ said' = said + 1 /\ asked' = asked + 1
      /\ asks'[a].question = asked + 1 /\ asks'[a].active = current
      /\ \A b \in Ask \ {a} : asks'[b] = asks[b]
    BY QuestionSteps DEF SendMessage, Begins, AskStep, Tick
<1>2. (\A b \in Ask : ~Active(b)) /\ (\A l \in Load : ~Loading(l))
    BY DEF SendMessage, CanAsk, OneCall
<1>3. PICK m \in Message :
          /\ m.made = said + 1 /\ shown' = Append(shown, m) /\ m.question = asked + 1
          /\ Says(m) = <<asked + 1, "user">>
    <2>1. asked' \in Chat
        BY BoundsAssumption DEF SendMessage, CanAsk, TypeOK, Chat, Question
    <2>2. PICK now \in Now : shown' = Append(shown, Say(asked', "user", now))
        BY DEF SendMessage
    <2> QED BY <1>1, <2>1, <2>2, SayType DEF Say
<1>4. InOrder(shown') /\ AllBy(shown', said') /\ By(shown', asked')
    BY <1>1, <1>3, TailShows, TailTypes
<1>5. ASSUME NEW c \in Chat
      PROVE  /\ \A k \in 1 .. Len(stored[c]) : stored[c][k].question # asked + 1
             /\ stored[c] \in Seq(Message)
    <2>1. stored[c] \in Seq(Message) /\ asked \in Nat
        BY TailTypes
    <2>2. \A k \in 1 .. Len(stored[c]) :
              stored[c][k].question \in Nat /\ stored[c][k].question <= asked
        BY <2>1, SeqFacts DEF StoredOnce, Rows
    <2> QED BY <2>1, <2>2
<1>6. current' # NoChat => Fits(shown', stored'[current'])
    <2>1. ASSUME NEW c \in Chat, c = current PROVE Fits(shown', stored[c])
        <3>1. \A k \in 1 .. Len(stored[c]) : Says(stored[c][k]) # Says(m)
            BY <1>3, <1>5 DEF Says
        <3>2. Fits(shown, stored[c]) /\ shown \in Seq(Message)
            BY <2>1, TailTypes, Constants DEF ShownFits
        <3> QED BY <1>3, <1>5, <3>1, <3>2, ShowUnstored
    <2> QED BY <1>1, <2>1, TailTypes
<1>7. /\ \A l \in Load : loads'[l].phase = "read" => IsPage(loads[l].messages)'
      /\ more'.phase = "read" => IsPage(more.messages)' /\ Before(more'.messages, more'.first)
    BY <1>1, PagesStay
<1>8. Awaits(a)'
    <2>1. EndsWith(shown', asked + 1)
        <3>1. \A i \in 1 .. Len(shown) : shown[i].question # asked + 1
            <4>1. \A i \in 1 .. Len(shown) :
                      shown[i].question \in Nat /\ shown[i].question <= asked
                BY TailTypes, SeqFacts DEF ShownFits, By
            <4> QED BY <4>1, TailTypes
        <3>2. /\ shown' # <<>> /\ Len(shown') = Len(shown) + 1 /\ shown'[Len(shown) + 1] = m
              /\ \A i \in 1 .. Len(shown) : shown'[i] = shown[i]
              /\ \A i \in 1 .. Len(shown') : i \in 1 .. Len(shown) \/ i = Len(shown) + 1
            BY <1>3, TailTypes, AppendIs
        <3> QED BY <1>3, <3>1, <3>2 DEF EndsWith
    <2>2. more.phase = "read" => Lacks(more.messages, asked + 1)
        <3>1. ASSUME more.phase = "read", NEW i \in 1 .. Len(more.messages)
              PROVE  more.messages[i].question # asked + 1
            <4>1. /\ more.messages[i].question \in Nat /\ asked \in Nat
                  /\ more.messages[i].question <= asked
                BY <3>1, TailTypes, SeqFacts DEF ShownFits, IsPage, By
            <4> QED BY <4>1
        <3> QED BY <3>1 DEF Lacks
    <2>3. \A c \in Chat : \A t : After(stored[c], asked + 1, t)
        BY <1>5 DEF After
    <2>4. asks'[a].active # NoChat =>
              After(stored'[asks'[a].active], asks'[a].question, shown'[Len(shown')].made)
        BY <1>1, <2>3, TailTypes
    <2> QED BY <1>1, <2>1, <2>2, <2>4 DEF Awaits
<1>9. \A b \in Ask : Active(b)' => Awaits(b)'
    BY <1>1, <1>2, <1>8 DEF Active
<1> QED BY <1>1, <1>4, <1>6, <1>7, <1>9 DEF ShownFits

LEMMA OpenTail ==
    ASSUME TypeOK, Calls, StoredOnce, OneCall, ShownFits, NEW a \in Ask, OpenChat(a)
    PROVE  ShownFits'
<1> USE DEF table, commands, panel, times
<1>1. /\ UNCHANGED <<stored, loads, more, current, shown, said, asked>> /\ Active(a)
      /\ asks[a].phase = "sent"
    BY DEF OpenChat, Active
<1>2. asks'[a].question = asks[a].question /\ \A b \in Ask \ {a} : asks'[b] = asks[b]
    BY QuestionSteps DEF GoesOn, Opens, AskStep
<1>3. /\ \A l \in Load : loads'[l].phase = "read" => IsPage(loads[l].messages)'
      /\ more'.phase = "read" => IsPage(more.messages)' /\ Before(more'.messages, more'.first)
    BY <1>1, PagesStay
<1>4. \A c \in Chat : \A t : After(stored[c], asks[a].question, t)
    BY <1>1 DEF StoredOnce, Unsaid, After
<1>5. asks'[a].active \in Chat \cup {NoChat}
    <2>1. asks[a].question \in Chat
        BY <1>1, QuestionType
    <2> QED BY <2>1, QuestionSteps, TailTypes DEF GoesOn, Opens
<1>6. Awaits(a)'
    BY <1>1, <1>2, <1>4, <1>5 DEF ShownFits, Awaits
<1>7. \A b \in Ask : Active(b)' => Awaits(b)'
    BY <1>1, <1>2, <1>6 DEF OneCall, Active
<1> QED BY <1>1, <1>3, <1>7 DEF ShownFits

LEMMA SaveTail ==
    ASSUME TypeOK, Calls, StoredOnce, OneCall, ShownFits, NEW a \in Ask,
           SaveQuestion(a) \/ SaveAnswer(a) \/ ModelFails(a)
    PROVE  ShownFits'
<1> USE DEF table, commands, panel, times
<1>1. /\ UNCHANGED <<loads, more, current, shown, asked>> /\ Active(a)
      /\ asks[a].active \in Chat \cup {NoChat} /\ asks[a].question \in Chat
    BY TailTypes, QuestionType DEF SaveQuestion, SaveAnswer, ModelFails, Active
<1>2. /\ asks'[a].question = asks[a].question /\ asks'[a].active = asks[a].active
      /\ \A b \in Ask \ {a} : asks'[b] = asks[b]
    BY QuestionSteps DEF GoesOn, AskStep
<1>3. /\ \A b \in Ask \ {a} : ~Active(b) /\ ~Active(b)'
      /\ \A l \in Load : ~Loading(l)
      /\ asks[a].chat = current /\ Awaits(a)
    BY <1>1, <1>2 DEF OneCall, Active, ShownFits
<1> DEFINE q == asks[a].question
           t == shown[Len(shown)].made
<1>4. CASE stored' = stored /\ said' \in {said, said + 1}
    <2>1. /\ \A l \in Load : loads'[l].phase = "read" => IsPage(loads[l].messages)'
          /\ more'.phase = "read" => IsPage(more.messages)' /\ Before(more'.messages, more'.first)
        BY <1>1, <1>4, PagesStay
    <2>2. \A b \in Ask : Active(b)' => Awaits(b)'
        BY <1>1, <1>2, <1>3, <1>4 DEF Awaits
    <2>3. AllBy(shown, said')
        BY <1>4, TailTypes, PageLater DEF ShownFits
    <2> QED BY <1>1, <1>4, <2>1, <2>2, <2>3 DEF ShownFits
<1>5. ASSUME NEW role \in {"user", "assistant"}, NEW now \in Now,
             asks[a].active \in Chat, said' = said + 1,
             stored' = [stored EXCEPT ![asks[a].active] = Append(@, Say(q, role, now))],
             \A k \in 1 .. Len(stored[asks[a].active]) :
                 stored[asks[a].active][k].question = q =>
                     role = "assistant" /\ stored[asks[a].active][k].role # "assistant"
      PROVE  ShownFits'
    <2> DEFINE c == asks[a].active
               m == Say(q, role, now)
               s == stored[c]
               w == Append(s, m)
    <2>1. m \in Message /\ m.made = said + 1 /\ m.question = q /\ Says(m) = <<q, role>>
        BY <1>1, SayType DEF Say
    <2>2. /\ s \in Seq(Message) /\ stored'[c] = w
          /\ \A x \in Chat \ {c} : stored'[x] = stored[x]
        BY <1>5, TailTypes DEF TypeOK
    <2> HIDE DEF m
    <2>3. /\ Len(w) = Len(s) + 1 /\ w[Len(s) + 1] = m
          /\ \A k \in 1 .. Len(s) : w[k] = s[k]
          /\ \A k \in 1 .. Len(w) : k \in 1 .. Len(s) \/ k = Len(s) + 1
        BY <2>1, <2>2, AppendIs
    <2>4. EndsWith(shown, q) /\ After(s, q, t) /\ (more.phase = "read" => Lacks(more.messages, q))
        BY <1>3, <1>5, Constants DEF Awaits
    <2>5. current # NoChat => current = c
        BY <1>3 DEF Calls
    <2>6. current # NoChat => Fits(shown, stored'[current])
        <3>1. \A i \in 1 .. Len(shown) : i < Len(shown) => Says(shown[i]) # Says(m)
            BY <2>1, <2>4 DEF EndsWith, Says
        <3>2. current # NoChat => Fits(shown, s)
            BY <2>5 DEF ShownFits
        <3> QED BY <2>1, <2>2, <2>5, <3>1, <3>2, StoreOne, TailTypes DEF ShownFits
    <2>7. AllBy(shown, said')
        BY <1>5, TailTypes, PageLater DEF ShownFits
    <2>8. /\ \A l \in Load : loads'[l].phase = "read" => IsPage(loads[l].messages)'
          /\ more'.phase = "read" => IsPage(more.messages)' /\ Before(more'.messages, more'.first)
        <3>1. ASSUME NEW page \in Seq(Message), PartOf(page, s), Lacks(page, q)
              PROVE  PartOf(page, w)
            <4>1. \A i \in 1 .. Len(page) : Says(page[i]) # Says(m)
                BY <2>1, <3>1 DEF Lacks, Says
            <4> QED BY <2>3, <3>1, <4>1 DEF PartOf
        <3>2. \A l \in Load : loads[l].phase # "read"
            BY <1>3 DEF Loading
        <3> QED BY <1>1, <1>5, <2>2, <2>4, <2>5, <3>1, <3>2, PagesStay
    <2>9. Awaits(a)'
        <3>1. t \in Nat /\ t <= said /\ said \in Nat
            BY <2>4, SeqFacts, TailTypes DEF EndsWith, ShownFits, AllBy
        <3>2. m.made > t
            BY <2>1, <3>1
        <3>3. After(w, q, t)
            <4>1. ASSUME NEW k \in 1 .. Len(w), w[k].question = q
                  PROVE  w[k].made > t /\ (w[k].role = "assistant" => k = Len(w))
                <5>1. CASE k \in 1 .. Len(s)
                    BY <1>5, <2>3, <2>4, <4>1, <5>1 DEF After
                <5>2. CASE k = Len(s) + 1
                    BY <2>3, <3>2, <5>2
                <5> QED BY <2>3, <5>1, <5>2
            <4> QED BY <4>1 DEF After
        <3> HIDE DEF w, s
        <3> QED BY <1>1, <1>2, <2>2, <2>4, <3>3 DEF Awaits
    <2>10. \A b \in Ask : Active(b)' => Awaits(b)'
        BY <1>3, <2>9
    <2> QED BY <1>1, <2>6, <2>7, <2>8, <2>10 DEF ShownFits
<1>6. CASE ModelFails(a)
    BY <1>4, <1>6 DEF ModelFails
<1>7. CASE SaveQuestion(a)
    <2>1. asks[a].active \in Chat
        BY <1>1, <1>7, Constants DEF SaveQuestion, Calls
    <2>2. \A k \in 1 .. Len(stored[asks[a].active]) : stored[asks[a].active][k].question # q
        BY <1>1, <1>7, <2>1 DEF SaveQuestion, StoredOnce, Unsaid
    <2> QED BY <1>4, <1>5, <1>7, <2>1, <2>2 DEF SaveQuestion, SaveMessage, Tick
<1>8. CASE SaveAnswer(a)
    <2>1. asks[a].active \in Chat
        BY <1>1, <1>8, Constants DEF SaveAnswer, Calls
    <2>2. \A k \in 1 .. Len(stored[asks[a].active]) :
              stored[asks[a].active][k].question = q => stored[asks[a].active][k].role # "assistant"
        BY <1>1, <1>8, <2>1 DEF SaveAnswer, StoredOnce, Unsaid
    <2> QED BY <1>4, <1>5, <1>8, <2>1, <2>2 DEF SaveAnswer, SaveMessage, Tick
<1> QED BY <1>6, <1>7, <1>8

LEMMA ShowTail ==
    ASSUME TypeOK, Calls, Sorted, StoredOnce, OneCall, NewCovers, ShownFits, NEW a \in Ask,
           ShowAnswer(a) \/ ShowError(a)
    PROVE  ShownFits'
<1> USE DEF table, commands, panel, times
<1> DEFINE q == asks[a].question
           t == shown[Len(shown)].made
<1>1. /\ UNCHANGED <<stored, loads, more, asked>> /\ said' = said + 1 /\ Active(a)
      /\ q \in Chat /\ asks[a].active \in Chat \cup {NoChat} /\ q <= asked
    BY TailTypes, QuestionType DEF ShowAnswer, ShowError, Tick, Active, Calls
<1>2. /\ asks[a].chat = current /\ Awaits(a)
      /\ \A b \in Ask \ {a} : ~Active(b)
    BY <1>1 DEF OneCall, ShownFits
<1>3. \A b \in Ask : ~Active(b)'
    <2>1. asks'[a] = NoAsk /\ \A b \in Ask \ {a} : asks'[b] = asks[b]
        BY QuestionSteps DEF Ends, AskStep
    <2> QED BY <1>2, <2>1, Constants DEF Active
<1>4. PICK m \in Message :
         /\ shown' = Append(shown, m) /\ m.made = said + 1 /\ m.question = q
         /\ \/ ShowError(a) /\ m.role = "error"
            \/ ShowAnswer(a) /\ Says(m) = <<q, "assistant">>
    <2>1. PICK role \in {"assistant", "error"}, now \in Now :
             /\ shown' = Append(shown, Say(q, role, now))
             /\ \/ ShowError(a) /\ role = "error"
                \/ ShowAnswer(a) /\ role = "assistant"
        BY DEF ShowAnswer, ShowError
    <2>2. /\ Say(q, role, now) \in Message /\ Say(q, role, now).made = said + 1
          /\ Say(q, role, now).question = q /\ Say(q, role, now).role = role
          /\ Says(Say(q, role, now)) = <<q, role>>
        BY <1>1, SayType DEF Say
    <2> QED BY <2>1, <2>2
<1>5. InOrder(shown') /\ AllBy(shown', said') /\ By(shown', asked')
    BY <1>1, <1>4, TailShows, TailTypes
<1>6. current' # NoChat => Fits(shown', stored'[current'])
    <2>1. CASE ShowError(a) /\ m.role = "error"
        <3>1. current' = current
            BY <2>1 DEF ShowError
        <3>2. ASSUME NEW c \in Chat, c = current PROVE Fits(shown', stored[c])
            <4>1. \A k \in 1 .. Len(stored[c]) : Says(stored[c][k]) # Says(m)
                BY <2>1 DEF StoredOnce, Rows, Says
            <4>2. Fits(shown, stored[c]) /\ shown \in Seq(Message) /\ stored[c] \in Seq(Message)
                BY <3>2, TailTypes, Constants DEF ShownFits
            <4> QED BY <1>4, <4>1, <4>2, ShowUnstored
        <3> QED BY <1>1, <3>1, <3>2, TailTypes
    <2>2. CASE ShowAnswer(a) /\ Says(m) = <<q, "assistant">>
        <3>1. asks[a].phase = "answered" /\ asks[a].active \in Chat
            BY <1>1, <2>2, Constants DEF ShowAnswer, Calls
        <3> DEFINE c == asks[a].active
        <3>2. c = current' /\ (current = NoChat \/ current = c)
            BY <1>1, <1>2, <2>2, <3>1 DEF ShowAnswer, Calls
        <3>3. EndsWith(shown, q) /\ After(stored[c], q, t)
            BY <1>2, <3>1, Constants DEF Awaits
        <3>4. stored[c] \in Seq(Message) /\ shown \in Seq(Message) /\ InOrder(shown)
            BY <3>1, TailTypes DEF ShownFits
        <3>5. Fits(shown, stored[c])
            <4>1. CASE current = c
                BY <3>1, <4>1, Constants DEF ShownFits
            <4>2. CASE current = NoChat
                <5>1. \A n \in Messages(c) :
                         \/ Says(n) = <<q, "user">>
                         \/ Says(n) = <<q, "assistant">>
                    BY <1>1, <1>2, <3>1, <4>2, Constants DEF NewCovers
                <5>2. \A k \in 1 .. Len(stored[c]) : stored[c][k].question = q
                    BY <5>1 DEF Messages, Says
                <5> HIDE DEF c
                <5> QED BY <3>3, <3>4, <5>2, ShowOpened
            <4> QED BY <3>2, <4>1, <4>2
        <3>6. Fits(Append(shown, m), stored[c])
            <4> HIDE DEF c
            <4> QED BY <2>2, <3>3, <3>4, <3>5, ShowLast
        <3> QED BY <1>1, <1>4, <3>2, <3>6
    <2> QED BY <1>4, <2>1, <2>2
<1>7. /\ \A l \in Load : loads[l].phase # "read"
      /\ more.phase = "read" => current' = current
    <2>1. \A l \in Load : loads[l].phase # "read"
        BY <1>1 DEF OneCall, Loading
    <2>2. more.phase = "read" => current # NoChat
        BY DEF OneCall
    <2>3. current # NoChat => current' = current
        BY <1>2 DEF ShowAnswer, ShowError, Calls
    <2> QED BY <2>1, <2>2, <2>3
<1>8. more'.phase = "read" => IsPage(more.messages)' /\ Before(more'.messages, more'.first)
    <2> SUFFICES ASSUME more.phase = "read"
                 PROVE  IsPage(more.messages)' /\ Before(more.messages, more.first)
        BY <1>1
    <2>1. IsPage(more.messages) /\ Before(more.messages, more.first)
        BY DEF ShownFits
    <2>2. AllBy(more.messages, said')
        BY <1>1, <2>1, TailTypes, PageLater DEF IsPage
    <2> QED BY <1>1, <1>7, <2>1, <2>2 DEF IsPage
<1>9. \A l \in Load : loads'[l].phase = "read" => IsPage(loads[l].messages)'
    BY <1>1, <1>7
<1> QED BY <1>3, <1>5, <1>6, <1>8, <1>9 DEF ShownFits

LEMMA LoadsTail ==
    ASSUME TypeOK, PagesOfChats, Sorted, StoredOnce, OneCall, ShownFits, NEW l \in Load,
           ReadPage(l) \/ ShowPage(l), ~mixed'
    PROVE  ShownFits'
<1> USE DEF table, commands, panel, times
<1>1. UNCHANGED <<stored, asks, more, current, asked, said>> /\ Loading(l)
    BY DEF ReadPage, ShowPage, Loading
<1>2. /\ more.phase = "none" /\ loads[l].chat = current /\ current \in Chat
      /\ \A a \in Ask : ~Active(a)
      /\ \A k \in Load \ {l} : ~Loading(k)
    BY <1>1 DEF OneCall, PagesOfChats, TypeOK
<1>3. stored[current] \in Seq(Message) /\ InOrder(stored[current])
      /\ AllBy(stored[current], said) /\ Rows(stored[current], asked)
      /\ said \in Nat /\ asked \in Nat
    BY <1>2, TailTypes DEF Sorted, StoredOnce
<1>4. /\ more'.phase = "none" /\ \A a \in Ask : ~Active(a)'
    BY <1>1, <1>2 DEF Active
<1>5. CASE ReadPage(l)
    <2>1. /\ loads'[l].messages = LastPage(stored[current]) /\ UNCHANGED shown
          /\ \A k \in Load \ {l} : loads'[k] = loads[k]
        <3>1. loads' = [loads EXCEPT ![l].phase = "read",
                                     ![l].messages = LastPage(stored[loads[l].chat])]
            BY <1>5, ReadInOrder
        <3> QED BY <1>2, <1>5, <3>1 DEF ReadPage, TypeOK, Page
    <2>2. IsPage(loads[l].messages)'
        <3>1. LET page == LastPage(stored[current])
              IN  /\ InOrder(page) /\ AllBy(page, said) /\ By(page, asked)
                  /\ PartOf(page, stored[current])
            BY <1>3, PageIsPart
        <3> QED BY <1>1, <2>1, <3>1 DEF IsPage
    <2>3. \A k \in Load : loads'[k].phase = "read" => IsPage(loads[k].messages)'
        BY <1>2, <2>1, <2>2 DEF Loading
    <2> QED BY <1>1, <1>4, <2>1, <2>3 DEF ShownFits
<1>6. CASE ShowPage(l)
    <2>1. /\ loads[l].phase = "read" /\ shown' \in {shown, loads[l].messages}
        BY <1>6 DEF ShowPage
    <2>2. \A k \in Load : loads'[k].phase = "none"
        BY <1>2, <1>6, Constants DEF ShowPage, Loading, TypeOK
    <2>3. IsPage(loads[l].messages) /\ loads[l].messages \in Seq(Message)
        BY <2>1, TailTypes DEF ShownFits
    <2>4. InOrder(shown') /\ AllBy(shown', said') /\ By(shown', asked')
        BY <1>1, <2>1, <2>3 DEF ShownFits, IsPage
    <2>5. Fits(shown', stored'[current'])
        <3>1. CASE shown' = shown
            BY <1>1, <1>2, <3>1, Constants DEF ShownFits
        <3>2. CASE shown' = loads[l].messages
            <4>1. InOrder(loads[l].messages) /\ PartOf(loads[l].messages, stored[current])
                BY <1>2, <2>3, Constants DEF IsPage
            <4>2. Fits(loads[l].messages, stored[current])
                BY <1>3, <2>3, <4>1, PageFits
            <4> QED BY <1>1, <3>2, <4>2
        <3> QED BY <2>1, <3>1, <3>2
    <2> QED BY <1>4, <2>2, <2>4, <2>5 DEF ShownFits
<1> QED BY <1>5, <1>6

(* What is older than a time is a part of the chat, and older.             *)
LEMMA EarlierIsPart ==
    ASSUME NEW s \in Seq(Message), NEW t \in Nat, InOrder(s)
    PROVE  Before(Earlier(s, t), t) /\ \A q : Rows(s, q) => Rows(Earlier(s, t), q)
<1> DEFINE A == {i \in DOMAIN s : s[i].made < t}
           o == Earlier(s, t)
           k == Len(o)
<1>1. /\ k \in 0 .. Len(s) /\ k = Cardinality(A) /\ \A i \in 1 .. k : o[i] = s[i]
    BY EarlierType
<1>2. A \subseteq 1 .. k
    <2>1. DOMAIN s = 1 .. Len(s)
        BY LenProperties
    <2> QED BY <2>1, EarlierIsFirst
<1>3. k \in Nat /\ 1 .. k \subseteq 1 .. Len(s)
    <2>1. Len(s) \in Nat /\ k \in 0 .. Len(s)
        BY <1>1, LenProperties
    <2> HIDE DEF k
    <2> QED BY <2>1
<1>4. IsFiniteSet(1 .. k) /\ Cardinality(1 .. k) = k
    <2>1. 1 \in Int /\ k \in Int /\ (IF 1 > k THEN 0 ELSE k - 1 + 1) = k
        BY <1>3
    <2> HIDE DEF k
    <2> QED BY <2>1, FS_Interval
<1>5. A = 1 .. k
    <2> HIDE DEF A, k
    <2> QED BY <1>1, <1>2, <1>4, FS_Subset
<1>6. Before(o, t)
    BY <1>1, <1>5 DEF Before
<1>7. ASSUME NEW q, Rows(s, q) PROVE Rows(o, q)
    BY <1>1, <1>3, <1>7 DEF Rows
<1> QED BY <1>6, <1>7 DEF o

LEMMA BeforePage ==
    ASSUME NEW s \in Seq(Message), NEW t, Before(s, t) PROVE Before(LastPage(s), t)
<1> DEFINE page == LastPage(s)
           d == Len(s) - Len(page)
<1>1. /\ Len(page) \in Nat /\ Len(page) <= Len(s) /\ Len(s) \in Nat
      /\ \A i \in 1 .. Len(page) : page[i] = s[d + i]
    BY LastPageType, SeqFacts
<1> HIDE DEF page
<1>2. \A i \in 1 .. Len(page) : d + i \in 1 .. Len(s)
    BY <1>1
<1>3. Before(page, t)
    BY <1>1, <1>2 DEF Before
<1> QED BY <1>3 DEF page

(* A page of older messages.                                               *)
LEMMA EarlierPage ==
    ASSUME NEW s \in Seq(Message), NEW t \in Nat, NEW n \in Nat, NEW q \in Nat,
           InOrder(s), AllBy(s, n), Rows(s, q)
    PROVE  LET page == LastPage(Earlier(s, t))
           IN  /\ InOrder(page) /\ AllBy(page, n) /\ By(page, q)
               /\ PartOf(page, s) /\ Before(page, t)
               /\ \A x : After(s, x, t) => Lacks(page, x)
<1> DEFINE o == Earlier(s, t)
           page == LastPage(o)
<1>1. o \in Seq(Message) /\ InOrder(o) /\ AllBy(o, n)
    BY EarlierSorted
<1>2. Before(o, t) /\ Rows(o, q)
    BY EarlierIsPart
<1>3. /\ Len(o) \in 0 .. Len(s) /\ Len(s) \in Nat
      /\ \A i \in 1 .. Len(o) : o[i] = s[i]
    BY EarlierType, SeqFacts
<1> HIDE DEF o
<1>4. InOrder(page) /\ AllBy(page, n) /\ By(page, q) /\ PartOf(page, o) /\ Before(page, t)
    BY <1>1, <1>2, PageIsPart, BeforePage
<1> DEFINE d == Len(o) - Len(page)
<1>5. /\ Len(page) \in Nat /\ Len(page) <= Len(o)
      /\ \A i \in 1 .. Len(page) : page[i] = o[d + i]
    BY <1>1, LastPageType, SeqFacts
<1> HIDE DEF page
<1>6. ASSUME NEW i \in 1 .. Len(page) PROVE d + i \in 1 .. Len(s) /\ page[i] = s[d + i]
    <2>1. d + i \in 1 .. Len(o)
        BY <1>3, <1>5
    <2> QED BY <1>3, <1>5, <2>1
<1> HIDE DEF d
<1>7. PartOf(page, s)
    BY <1>6 DEF PartOf, Rows
<1>8. ASSUME NEW x, After(s, x, t) PROVE Lacks(page, x)
    <2>1. ASSUME NEW i \in 1 .. Len(page), page[i].question = x PROVE FALSE
        <3>1. s[d + i].made > t /\ s[d + i].made < t /\ s[d + i].made \in Nat
            BY <1>4, <1>6, <1>8, <2>1, SeqFacts DEF After, Before
        <3> QED BY <3>1
    <2> QED BY <2>1 DEF Lacks
<1> QED BY <1>4, <1>7, <1>8 DEF page, o

LEMMA MoreTail ==
    ASSUME TypeOK, Calls, PagesOfChats, Sorted, StoredOnce, OneCall, ShownFits,
           LoadMore \/ ReadMore \/ ShowMore, ~mixed'
    PROVE  ShownFits'
<1> USE DEF table, commands, panel, times
<1>1. UNCHANGED <<stored, asks, loads, current, asked, said>>
    BY DEF LoadMore, ReadMore, ShowMore
<1>2. /\ shown # <<>> /\ shown \in Seq(Message) /\ current \in Chat
      /\ more.phase # "none" => more.chat = current /\ more.first = shown[1].made
      /\ more.first \in Nat /\ more.messages \in Seq(Message)
      /\ said \in Nat /\ asked \in Nat
    BY TailTypes, Constants DEF OneCall, TypeOK, LoadMore, CanLoadMore, ReadMore, ShowMore
<1> DEFINE s == stored[current]
<1>3. s \in Seq(Message) /\ InOrder(s) /\ AllBy(s, said) /\ Rows(s, asked)
    BY <1>2 DEF TypeOK, Sorted, StoredOnce
<1>4. \A l \in Load : loads'[l].phase = "read" => IsPage(loads[l].messages)'
    BY <1>1 DEF ShownFits, IsPage
<1>5. \A a \in Ask : Active(a) => /\ Awaits(a)
                                  /\ asks[a].active = current
    BY <1>2, Constants DEF ShownFits, OneCall, Calls
<1>6. Fits(shown, s) /\ InOrder(shown) /\ AllBy(shown, said) /\ By(shown, asked)
    BY <1>2, Constants DEF ShownFits
<1>7. CASE LoadMore
    <2>1. more'.phase = "sent" /\ UNCHANGED shown
        BY <1>7 DEF LoadMore
    <2>2. \A a \in Ask : Active(a)' => Awaits(a)'
        BY <1>1, <1>5, <2>1 DEF Active, Awaits
    <2> QED BY <1>1, <1>4, <1>6, <2>1, <2>2 DEF ShownFits
<1>8. CASE ReadMore
    <2> DEFINE t == more.first
               page == LastPage(Earlier(s, t))
    <2>1. more'.messages = page /\ more'.first = t /\ t = shown[1].made /\ UNCHANGED shown
        <3>1. more' = [more EXCEPT !.phase = "read",
                            !.messages = LastPage(Earlier(stored[more.chat], more.first))]
            BY <1>8, ReadEarlier
        <3> QED BY <1>2, <1>8, <3>1 DEF ReadMore, TypeOK, Page
    <2>2. /\ InOrder(page) /\ AllBy(page, said) /\ By(page, asked)
          /\ PartOf(page, s) /\ Before(page, t)
          /\ \A q : After(s, q, t) => Lacks(page, q)
        BY <1>2, <1>3, EarlierPage
    <2> HIDE DEF page
    <2>3. IsPage(more.messages)' /\ Before(more'.messages, more'.first)
        BY <1>1, <2>1, <2>2 DEF IsPage
    <2>4. ASSUME NEW a \in Ask, Active(a)' PROVE Awaits(a)'
        <3> DEFINE q == asks[a].question
        <3>1. Awaits(a) /\ asks[a].active = current /\ current # NoChat
            BY <1>1, <1>2, <1>5, <2>4, Constants DEF Active
        <3>2. After(s, q, shown[Len(shown)].made)
            BY <3>1 DEF Awaits
        <3>3. t <= shown[Len(shown)].made
            BY <1>2, <1>6, <2>1, SeqFacts DEF InOrder
        <3>4. After(s, q, t)
            BY SMTT(40), <1>2, <1>3, <3>2, <3>3, SeqFacts DEF After
        <3>5. Lacks(page, q)
            BY <2>2, <3>4
        <3> QED BY <1>1, <2>1, <3>1, <3>5 DEF Awaits
    <2> QED BY <1>1, <1>4, <1>6, <2>1, <2>3, <2>4 DEF ShownFits
<1>9. CASE ShowMore
    <2>1. more.phase = "read" /\ more' = NoPage /\ shown' \in {shown, more.messages \o shown}
        BY <1>9 DEF ShowMore
    <2>2. CASE shown' = shown
        <3>1. \A a \in Ask : Active(a)' => Awaits(a)'
            BY <1>1, <1>5, <2>1, <2>2, Constants DEF Active, Awaits
        <3> QED BY <1>1, <1>4, <1>6, <2>1, <2>2, <3>1, Constants DEF ShownFits
    <2>3. CASE shown' = more.messages \o shown
        <3> DEFINE p == more.messages
        <3>1. p \in Seq(Message) /\ IsPage(p) /\ Before(p, shown[1].made)
            BY <1>2, <2>1 DEF ShownFits
        <3>2. InOrder(p) /\ AllBy(p, said) /\ By(p, asked) /\ PartOf(p, s)
            BY <1>2, <3>1, Constants DEF IsPage
        <3>3. ASSUME NEW a \in Ask, Active(a) PROVE Lacks(p, asks[a].question)
            BY <1>5, <2>1, <3>3 DEF Awaits
        <3> HIDE DEF p
        <3>4. /\ InOrder(p \o shown) /\ AllBy(p \o shown, said) /\ By(p \o shown, asked)
              /\ Fits(p \o shown, s)
            BY <1>2, <1>3, <1>6, <3>1, <3>2, MoreFits
        <3>5. shown' = p \o shown
            BY <2>3 DEF p
        <3>6. ASSUME NEW a \in Ask, Active(a)' PROVE Awaits(a)'
            <4> DEFINE q == asks[a].question
                       w == p \o shown
            <4>1. Active(a) /\ Awaits(a) /\ Lacks(p, q)
                BY <1>1, <1>5, <3>3, <3>6 DEF Active
            <4>2. EndsWith(shown, q)
                BY <4>1 DEF Awaits
            <4>3. /\ Len(w) = Len(p) + Len(shown) /\ w \in Seq(Message)
                  /\ \A i \in 1 .. Len(w) :
                        \/ i \in 1 .. Len(p) /\ w[i] = p[i]
                        \/ /\ i - Len(p) \in 1 .. Len(shown) /\ i > Len(p)
                           /\ w[i] = shown[i - Len(p)]
                BY <1>2, <3>1, ConcatIs
            <4> HIDE DEF w
            <4>4. /\ Len(p) \in Nat /\ Len(shown) \in Nat /\ Len(shown) \in 1 .. Len(shown)
                BY <1>2, <3>1, SeqFacts
            <4>5. w[Len(w)] = shown[Len(shown)] /\ w # <<>>
                <5>1. Len(w) \in 1 .. Len(w) /\ Len(w) \notin 1 .. Len(p)
                    BY <4>3, <4>4
                <5>2. Len(w) - Len(p) = Len(shown)
                    BY <4>3, <4>4
                <5>3. w # <<>>
                    BY <5>1, EmptySeq
                <5> QED BY <4>3, <5>1, <5>2, <5>3
            <4>6. ASSUME NEW i \in 1 .. Len(w), i < Len(w) PROVE w[i].question # q
                <5>1. CASE i \in 1 .. Len(p) /\ w[i] = p[i]
                    BY <4>1, <5>1 DEF Lacks
                <5>2. CASE i - Len(p) \in 1 .. Len(shown) /\ w[i] = shown[i - Len(p)]
                    <6>1. i - Len(p) < Len(shown)
                        BY <4>3, <4>4, <4>6
                    <6> QED BY <4>2, <5>2, <6>1 DEF EndsWith
                <5> QED BY <4>3, <5>1, <5>2
            <4>7. EndsWith(w, q)
                BY <4>2, <4>5, <4>6 DEF EndsWith
            <4>8. shown' = w
                BY <3>5 DEF w
            <4> QED BY <1>1, <2>1, <4>1, <4>5, <4>7, <4>8, Constants DEF Awaits
        <3> QED BY <1>1, <1>4, <2>1, <3>4, <3>5, <3>6, Constants DEF ShownFits
    <2> QED BY <2>1, <2>2, <2>3
<1> QED BY <1>7, <1>8, <1>9

(* The rows of a chat are deleted, or nothing happens.                     *)
LEMMA LessTail ==
    ASSUME TypeOK, ShownFits, UNCHANGED <<asks, loads, more, current, shown, asked, said>>,
           \A c \in Chat : stored'[c] \in {stored[c], <<>>}
    PROVE  ShownFits'
<1>1. current \in Chat \cup {NoChat} /\ \A a \in Ask : asks[a].active \in Chat \cup {NoChat}
    BY TailTypes
<1>2. current' # NoChat => Fits(shown', stored'[current'])
    BY <1>1, EmptyFits DEF ShownFits
<1>3. /\ \A l \in Load : loads'[l].phase = "read" => IsPage(loads[l].messages)'
      /\ more'.phase = "read" => IsPage(more.messages)' /\ Before(more'.messages, more'.first)
    BY <1>1, PagesStay, EmptyFits
<1>4. \A a \in Ask : Active(a)' => Awaits(a)'
    BY <1>1, EmptyFits DEF ShownFits, Active, Awaits
<1> QED BY <1>2, <1>3, <1>4 DEF ShownFits

(* The panel is emptied, and no call is under way that is not about it.    *)
LEMMA EmptyTail ==
    ASSUME TypeOK, UNCHANGED <<asked, said>>, shown' = <<>>, \A a \in Ask : ~Active(a)',
           more'.phase = "none", \A l \in Load : loads'[l].phase # "read"
    PROVE  ShownFits'
BY EmptyFits DEF ShownFits


LEMMA TailKept ==
    ASSUME TypeOK, Calls, PagesOfChats, Sorted, StoredOnce, Paged, mixed \/ ShownFits, [Next]_vars
    PROVE  mixed' \/ ShownFits'
<1> USE DEF table, commands, panel, times
<1> SUFFICES ASSUME ~mixed' PROVE ShownFits'
    OBVIOUS
<1>1. CASE Restart
    BY <1>1, Constants, EmptyTail DEF Restart, Active
<1>2. ASSUME mixed' = Busy, shown' = <<>>, UNCHANGED <<asks, more, asked, said>>,
             \A l \in Load : loads'[l] = loads[l] \/ loads'[l].phase = "sent"
      PROVE  ShownFits'
    BY <1>2, EmptyTail DEF Busy, Active
<1>3. CASE CreateNewChat
    BY <1>2, <1>3 DEF CreateNewChat
<1>4. ASSUME NEW l \in Load, NEW c \in Chat, SelectChat(l, c) PROVE ShownFits'
    <2>1. loads'[l].phase = "sent" /\ \A k \in Load \ {l} : loads'[k] = loads[k]
        BY <1>4, Constants DEF SelectChat, TypeOK, Page
    <2> QED BY <1>2, <1>4, <2>1 DEF SelectChat
<1>5. CASE ~mixed
    <2>1. ShownFits /\ OneCall /\ NewCovers
        BY <1>5 DEF Paged, Covered
    <2>2. CASE Questions
        BY <2>1, <2>2, SendTail, OpenTail, SaveTail, ShowTail DEF Questions
    <2>3. CASE Pages
        BY <1>4, <2>1, <2>3, LoadsTail, MoreTail DEF Pages
    <2>4. ASSUME NEW c \in Chat, DeleteChat(c) \/ DeleteRows(c) \/ ChatDeleted(c)
          PROVE  ShownFits'
        <3>1. CASE ChatDeleted(c) /\ shown' = <<>> /\ mixed' = Busy
            BY <1>2, <3>1 DEF ChatDeleted
        <3>2. CASE ~(ChatDeleted(c) /\ shown' = <<>> /\ mixed' = Busy)
            <4>1. UNCHANGED <<asks, loads, more, current, shown, asked, said>>
                BY <2>4, <3>2 DEF DeleteChat, DeleteRows, ChatDeleted, Deselect
            <4>2. \A x \in Chat : stored'[x] \in {stored[x], <<>>}
                BY <2>4 DEF DeleteChat, DeleteRows, ChatDeleted, TypeOK
            <4> QED BY <2>1, <4>1, <4>2, LessTail
        <3> QED BY <3>1, <3>2
    <2>5. CASE UNCHANGED vars
        BY <2>1, <2>5, LessTail DEF vars
    <2>6. CASE Refresh
        BY <2>1, <2>6, LessTail DEF Refresh
    <2> QED BY <1>1, <1>3, <2>2, <2>3, <2>4, <2>5, <2>6 DEF Next, Deletions
<1>6. CASE mixed
    <2>1. ASSUME mixed => mixed' PROVE FALSE
        BY <1>6, <2>1
    <2>2. CASE Questions
        BY <2>1, <2>2 DEF Questions, SendMessage, OpenChat, SaveQuestion, SaveAnswer,
                          ModelFails, ShowAnswer, ShowError
    <2>3. CASE Pages
        BY <1>4, <2>1, <2>3 DEF Pages, ReadPage, ShowPage, LoadMore, ReadMore, ShowMore
    <2>4. CASE Deletions
        BY <1>2, <2>1, <2>4 DEF Deletions, DeleteChat, DeleteRows, ChatDeleted, Deselect
    <2>5. CASE Refresh \/ UNCHANGED vars
        BY <2>1, <2>5 DEF Refresh, vars
    <2> QED BY <1>1, <1>3, <2>2, <2>3, <2>4, <2>5 DEF Next
<1> QED BY <1>5, <1>6

LEMMA InitTail == Init => StoredOnce /\ ShownFits
<1> SUFFICES ASSUME Init PROVE StoredOnce /\ ShownFits
    OBVIOUS
<1>1. /\ \A c \in Chat : stored[c] = <<>>
      /\ \A a \in Ask : ~Active(a)
      /\ \A l \in Load : loads[l].phase # "read"
      /\ more.phase # "read" /\ current = NoChat /\ shown = <<>>
    BY Constants DEF Init, Active
<1> QED BY <1>1, EmptyFits DEF StoredOnce, ShownFits

(* When nothing is under way, and no page was read of messages whose dates *)
(* do not follow their order, what the panel shows of the stored messages  *)
(* is the end of the chat, in its order and without a gap, and each        *)
(* message is stored once: also after pages were put before it, and after  *)
(* questions were shown before they were stored (sendMessage,              *)
(* loadMoreMessages, get_rag_messages).                                    *)
THEOREM ShownIsTailHolds == Spec => []ShownIsTail
<1>1. Init => Sorted /\ Paged /\ StoredOnce /\ (mixed \/ ShownFits)
    BY InitSorted, InitPaged, InitTail
<1>2. /\ IInv /\ Sorted /\ Paged /\ StoredOnce /\ (mixed \/ ShownFits) /\ [Next]_vars
      => Sorted' /\ Paged' /\ StoredOnce' /\ (mixed \/ ShownFits)'
    BY SortedKept, PagedKept, StoredOnceKept, TailKept DEF IInv
<1>3. IInv /\ Sorted /\ Paged /\ StoredOnce /\ (mixed \/ ShownFits) => ShownIsTail
    <2> SUFFICES ASSUME IInv, Sorted, Paged, StoredOnce, mixed \/ ShownFits, Settled
                 PROVE  LET chat == Saying(stored[current])
                            view == Saying(shown)
                        IN  /\ \A k, l \in DOMAIN chat : chat[k] = chat[l] => k = l
                            /\ \A i, j \in DOMAIN view, k, l \in DOMAIN chat :
                                  i < j /\ view[i] = chat[k] /\ view[j] = chat[l] => k < l
                            /\ \A i \in DOMAIN view, k, l \in DOMAIN chat :
                                  k < l /\ view[i] = chat[k]
                                      => \E j \in DOMAIN view : view[j] = chat[l]
        BY DEF ShownIsTail
    <2> DEFINE s == stored[current]
    <2>1. /\ Covered /\ ShownFits /\ current # NoChat /\ current \in Chat
          /\ \A a \in Ask : ~Active(a)
        BY DEF Settled, Busy, Paged, Active, IInv, TypeOK
    <2>2. s \in Seq(Message) /\ shown \in Seq(Message) /\ InOrder(s) /\ Rows(s, asked)
          /\ Fits(shown, s)
        BY <2>1 DEF IInv, TypeOK, Sorted, StoredOnce, ShownFits
    <2>3. /\ DOMAIN Saying(s) = 1 .. Len(s) /\ DOMAIN Saying(shown) = 1 .. Len(shown)
          /\ \A k \in 1 .. Len(s) : Saying(s)[k] = Says(s[k])
          /\ \A i \in 1 .. Len(shown) : Saying(shown)[i] = Says(shown[i])
        BY DEF Saying, Says
    <2>4. \A k, l \in 1 .. Len(s) : Says(s[k]) = Says(s[l]) => k = l
        BY <2>2 DEF Rows
    <2>5. \A i, j \in 1 .. Len(shown), k, l \in 1 .. Len(s) :
              i < j /\ Says(shown[i]) = Says(s[k]) /\ Says(shown[j]) = Says(s[l]) => k < l
        BY <2>2 DEF Fits
    <2>6. ASSUME NEW i \in 1 .. Len(shown), NEW k \in 1 .. Len(s), NEW l \in 1 .. Len(s),
                 k < l, Says(shown[i]) = Says(s[k])
          PROVE  \E j \in 1 .. Len(shown) : Says(shown[j]) = Says(s[l])
        <3>1. shown # <<>>
            BY <2>6, EmptySeq
        <3>2. /\ s[k].made >= shown[1].made /\ s[k].made < s[l].made
              /\ s[k].made \in Nat /\ s[l].made \in Nat /\ shown[1].made \in Nat
            BY <2>2, <2>6, <3>1, SeqFacts DEF Fits, InOrder
        <3>3. s[l] \in Messages(current) /\ s[l].made >= shown[1].made
            BY <3>2 DEF Messages
        <3>4. Says(s[l]) \in SayingSet(shown)
            BY <2>1, <3>1, <3>3, NoneComing DEF Covered, ShownCovers
        <3> QED BY <3>4 DEF SayingSet, Says
    <2> DEFINE chat == Saying(s)
               view == Saying(shown)
    <2> HIDE DEF chat, view, s
    <2>7. \A k, l \in DOMAIN chat : chat[k] = chat[l] => k = l
        BY <2>3, <2>4 DEF chat
    <2>8. \A i, j \in DOMAIN view, k, l \in DOMAIN chat :
              i < j /\ view[i] = chat[k] /\ view[j] = chat[l] => k < l
        BY <2>3, <2>5 DEF chat, view
    <2>9. \A i \in DOMAIN view, k, l \in DOMAIN chat :
              k < l /\ view[i] = chat[k] => \E j \in DOMAIN view : view[j] = chat[l]
        BY <2>3, <2>6 DEF chat, view
    <2> QED BY <2>7, <2>8, <2>9 DEF chat, view, s
<1> QED BY <1>1, <1>2, <1>3, Invariant, PTL DEF Spec

=============================================================================
