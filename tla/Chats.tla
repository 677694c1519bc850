-------------------------------- MODULE Chats --------------------------------
(***************************************************************************)
(* Questions to the local model: the chats and messages in the database,   *)
(* the commands that work on them, and the one chat the panel shows.       *)
(*                                                                         *)
(* Every command holds the lock of the database for one section at a time; *)
(* ask_ai lets go of it while the models answer.  The panel does not wait: *)
(* another chat may be opened, deleted or begun meanwhile, and an answer   *)
(* is put into whatever is shown when it arrives.                          *)
(***************************************************************************)
EXTENDS Integers, Sequences, FiniteSets

CONSTANTS
    Ask,            \* questions that may be under way at once
    Load,           \* openings of a chat that may be under way at once
    PageSize,       \* PAGE_SIZE
    MaxQuestions,   \* bound: questions in a behaviour
    MaxOps,         \* bound: other operations of the user, and restarts
    MaxSlips        \* bound: messages dated as the last one or before it

ASSUME PageSizeAssumption == PageSize \in Nat \ {0}
ASSUME BoundsAssumption ==
    MaxQuestions \in Nat /\ MaxOps \in Nat /\ MaxSlips \in Nat

VARIABLES
    chats,      \* the chats that have a row in rag_chats
    stored,     \* the rows of rag_messages, by chat, as they were inserted
    asks,       \* the calls of ask_ai
    loads,      \* the calls of get_rag_messages by selectChat
    more,       \* the call of get_rag_messages by loadMoreMessages
    deleting,   \* the call of delete_rag_chat for each chat
    listed,     \* chats, the list of the panel
    current,    \* currentChatId
    shown,      \* messages
    isLoading, hasMore,
    asked,      \* questions so far
    ops,
    clock,      \* the clock of the computer
    slips,      \* how often it did not go on between two messages
    said,       \* history: messages made so far
    mixed,      \* history: the user left a chat with a call under way, or a
                \* page was read of messages dated out of their order
    raced       \* history: chats asked while they were being deleted, or
                \* opened from a list that had kept them

table == <<chats, stored>>
commands == <<asks, loads, more, deleting>>
panel == <<listed, current, shown, isLoading, hasMore>>
times == <<clock, slips, said>>
vars == <<table, commands, panel, asked, times, ops, mixed, raced>>

-----------------------------------------------------------------------------
(* A chat is named by the question that opened it.                         *)
Question == 1 .. MaxQuestions
Chat == Question
NoChat == 0

Message == [question : Question, role : {"user", "assistant", "error"},
            time : Nat,     \* the milliseconds it is dated with
            made : Nat]     \* history: the how-manieth message it is

AskState == [phase : {"none", "sent", "opened", "asking", "answered", "failed"},
             chat : Chat \cup {NoChat},     \* as the panel sent it
             active : Chat \cup {NoChat},   \* active_chat_id
             question : 0 .. MaxQuestions]
NoAsk == [phase |-> "none", chat |-> NoChat, active |-> NoChat, question |-> 0]

Page == [phase : {"none", "sent", "read"}, chat : Chat \cup {NoChat},
         before : Nat,      \* the date sent with the command
         first : Nat,       \* history: the message that has this date
         messages : Seq(Message)]
NoPage == [phase |-> "none", chat |-> NoChat, before |-> 0, first |-> 0,
           messages |-> <<>>]

Init ==
    /\ chats = {}
    /\ stored = [c \in Chat |-> <<>>]
    /\ asks = [a \in Ask |-> NoAsk]
    /\ loads = [l \in Load |-> NoPage]
    /\ more = NoPage
    /\ deleting = [c \in Chat |-> "none"]
    /\ listed = {}
    /\ current = NoChat
    /\ shown = <<>>
    /\ isLoading = FALSE
    /\ hasMore = TRUE
    /\ asked = 0
    /\ clock = 1
    /\ slips = 0
    /\ said = 0
    /\ ops = 0
    /\ mixed = FALSE
    /\ raced = {}

Asking(c) == \E a \in Ask : asks[a].phase # "none" /\ asks[a].active = c
Busy ==
    \/ \E a \in Ask : asks[a].phase # "none"
    \/ \E l \in Load : loads[l].phase # "none"
    \/ more.phase # "none"

Operate == ops < MaxOps /\ ops' = ops + 1

(* A message made now.  The panel and the database have the same clock; it *)
(* may show the same millisecond again, and may be set back.               *)
Say(q, role, now) ==
    [question |-> q, role |-> role, time |-> now, made |-> said + 1]
Slip == slips < MaxSlips /\ slips' = slips + 1
Tick(now) ==
    /\ \/ now = clock + 1 /\ UNCHANGED slips
       \/ now \in {clock, clock - 1} /\ Slip
    /\ clock' = now
    /\ said' = said + 1
Now == {clock - 1, clock, clock + 1} \cap Nat

-----------------------------------------------------------------------------
(* Mutant: the place holder of a new chat is sent for its id.              *)
SentTemp(q) ==
    [phase |-> "sent", chat |-> IF current = NoChat THEN -1 ELSE current,
     active |-> current, question |-> q]

Sent(q) == [phase |-> "sent", chat |-> current, active |-> current, question |-> q]

(* The form is disabled while isLoading.                                   *)
CanAsk == ~isLoading /\ asked < MaxQuestions

(* sendMessage shows the question at once and sends the chat as it is now. *)
SendMessage(a) ==
    /\ CanAsk
    /\ asks[a] = NoAsk
    /\ asked' = asked + 1
    /\ asks' = [asks EXCEPT ![a] = Sent(asked')]
    /\ \E now \in Now : shown' = Append(shown, Say(asked', "user", now)) /\ Tick(now)
    /\ isLoading' = TRUE
    /\ raced' = IF current # NoChat /\ deleting[current] # "none"
                THEN raced \cup {current} ELSE raced
    /\ UNCHANGED <<table, loads, more, deleting, listed, current, hasMore, ops,
                   mixed>>

Fails(a) == asks' = [asks EXCEPT ![a].phase = "failed"]

(* ask_ai without a chat creates one first.                                *)
OpenChat(a) ==
    LET q == asks[a].question IN
    /\ asks[a].phase = "sent"
    /\ asks[a].chat = NoChat
    /\ \/ /\ chats' = chats \cup {q}
          /\ asks' = [asks EXCEPT ![a].phase = "opened", ![a].active = q]
       \/ Fails(a) /\ UNCHANGED chats
    /\ UNCHANGED <<stored, loads, more, deleting, panel, asked, times, ops,
                   mixed, raced>>

(* save_rag_message_to_db looks for no chat, and its errors are ignored.   *)
SaveMessage(c, q, role) ==
    \/ \E now \in Now : /\ stored' = [stored EXCEPT ![c] = Append(@, Say(q, role, now))]
                       /\ Tick(now)
    \/ UNCHANGED <<stored, times>>

SaveQuestion(a) ==
    /\ \/ asks[a].phase = "opened"
       \/ asks[a].phase = "sent" /\ asks[a].chat # NoChat
    /\ SaveMessage(asks[a].active, asks[a].question, "user")
    /\ asks' = [asks EXCEPT ![a].phase = "asking"]
    /\ UNCHANGED <<chats, loads, more, deleting, panel, asked, ops, mixed, raced>>

(* The embedding, the search and the generation; then the answer is saved. *)
SaveAnswer(a) ==
    /\ asks[a].phase = "asking"
    /\ SaveMessage(asks[a].active, asks[a].question, "assistant")
    /\ asks' = [asks EXCEPT ![a].phase = "answered"]
    /\ UNCHANGED <<chats, loads, more, deleting, panel, asked, ops, mixed, raced>>

ModelFails(a) ==
    /\ asks[a].phase = "asking"
    /\ Fails(a)
    /\ UNCHANGED <<table, loads, more, deleting, panel, asked, times, ops,
                   mixed, raced>>

(* loadChats; a failure is only logged, and an answer that is overtaken by *)
(* a deletion leaves the chat in the list as a failure does.               *)
LoadChats == listed' \in {listed, chats}

(* The answer is appended to what is shown; a chat that was new becomes    *)
(* the current one, and the list is loaded.                                *)
ShowAnswer(a) ==
    /\ asks[a].phase = "answered"
    /\ IF asks[a].chat # asks[a].active
       THEN current' = asks[a].active /\ LoadChats
       ELSE UNCHANGED <<current, listed>>
    /\ \E now \in Now :
          /\ shown' = Append(shown, Say(asks[a].question, "assistant", now))
          /\ Tick(now)
    /\ isLoading' = FALSE
    /\ asks' = [asks EXCEPT ![a] = NoAsk]
    /\ UNCHANGED <<table, loads, more, deleting, hasMore, asked, ops, mixed, raced>>

(* Mutant: the form stays disabled.                                        *)
ShowErrorLoading(a) ==
    /\ asks[a].phase = "failed"
    /\ \E now \in Now :
          /\ shown' = Append(shown, Say(asks[a].question, "error", now))
          /\ Tick(now)
    /\ asks' = [asks EXCEPT ![a] = NoAsk]
    /\ UNCHANGED <<table, loads, more, deleting, listed, current, isLoading,
                   hasMore, asked, ops, mixed, raced>>

ShowError(a) ==
    /\ asks[a].phase = "failed"
    /\ \E now \in Now :
          /\ shown' = Append(shown, Say(asks[a].question, "error", now))
          /\ Tick(now)
    /\ isLoading' = FALSE
    /\ asks' = [asks EXCEPT ![a] = NoAsk]
    /\ UNCHANGED <<table, loads, more, deleting, listed, current, hasMore, asked,
                   ops, mixed, raced>>

-----------------------------------------------------------------------------
(* ORDER BY timestamp, rows of one date being in the order of the index    *)
(* idx_rag_messages_chat_ts, in which they were inserted.                  *)
Sorts(p, s) ==
    \A i, j \in DOMAIN s : i < j =>
        \/ s[p[i]].time < s[p[j]].time
        \/ s[p[i]].time = s[p[j]].time /\ p[i] < p[j]
ByTime(s) ==
    {[i \in 1 .. Len(s) |-> s[p[i]]] :
        p \in {f \in [1 .. Len(s) -> 1 .. Len(s)] : Sorts(f, s)}}

(* DESC LIMIT, reversed.                                                   *)
LastPage(s) ==
    IF Len(s) <= PageSize THEN s ELSE SubSeq(s, Len(s) - PageSize + 1, Len(s))

(* Mutant: a page has room for one more.                                   *)
FullPageOver(s) == Len(s) > PageSize

FullPage(s) == Len(s) = PageSize

(* The panel is mounted, the search is typed or a chat is renamed.         *)
Refresh ==
    /\ Operate
    /\ listed # chats
    /\ listed' = chats
    /\ UNCHANGED <<table, commands, current, shown, isLoading, hasMore, asked,
                   times, mixed, raced>>

(* selectChat empties the panel and asks for the last page.                *)
SelectChat(l, c) ==
    /\ Operate
    /\ loads[l] = NoPage
    /\ c \in listed
    /\ loads' = [loads EXCEPT ![l] = [NoPage EXCEPT !.phase = "sent", !.chat = c]]
    /\ current' = c
    /\ shown' = <<>>
    /\ hasMore' = TRUE
    /\ isLoading' = TRUE
    /\ mixed' = Busy
    /\ raced' = IF c \in chats \/ deleting[c] = "done" THEN raced ELSE raced \cup {c}
    /\ UNCHANGED <<table, asks, more, deleting, listed, asked, times>>

(* The dates follow the order in which the messages were inserted.         *)
Dated(s) == \A i, j \in 1 .. Len(s) : i < j => s[i].time <= s[j].time

ReadPage(l) ==
    LET s == stored[loads[l].chat]
    IN  /\ loads[l].phase = "sent"
        /\ \E rows \in ByTime(s) :
              loads' = [loads EXCEPT ![l].phase = "read", ![l].messages = LastPage(rows)]
        /\ mixed' = (mixed \/ ~Dated(s))
        /\ UNCHANGED <<table, asks, more, deleting, panel, asked, times, ops, raced>>

(* The page replaces what is shown, or the command failed.                 *)
ShowPage(l) ==
    /\ loads[l].phase = "read"
    /\ \/ /\ shown' = loads[l].messages
          /\ hasMore' = FullPage(loads[l].messages)
       \/ UNCHANGED <<shown, hasMore>>
    /\ isLoading' = FALSE
    /\ loads' = [loads EXCEPT ![l] = NoPage]
    /\ UNCHANGED <<table, asks, more, deleting, listed, current, asked, times,
                   ops, mixed, raced>>

CreateNewChat ==
    /\ Operate
    /\ current' = NoChat
    /\ shown' = <<>>
    /\ hasMore' = FALSE
    /\ mixed' = Busy
    /\ UNCHANGED <<table, commands, listed, isLoading, asked, times, raced>>

(* The user scrolls to the top.                                            *)
CanLoadMore == hasMore /\ more = NoPage /\ current # NoChat

(* loadMoreMessages asks for what is older than the first message shown.   *)
LoadMore ==
    /\ Operate
    /\ CanLoadMore
    /\ shown # <<>>
    /\ more' = [phase |-> "sent", chat |-> current, before |-> shown[1].time,
                first |-> shown[1].made, messages |-> <<>>]
    /\ UNCHANGED <<table, asks, loads, deleting, panel, asked, times, mixed, raced>>

(* Mutant: the condition also takes the message itself.                    *)
OlderOrSame(s, time) == SubSeq(s, 1, Cardinality({i \in DOMAIN s : s[i].time <= time}))

(* The older rows are a first part of rows in the order of their dates.    *)
Older(s, time) == SubSeq(s, 1, Cardinality({i \in DOMAIN s : s[i].time < time}))

(* The messages before the first one shown are those dated before it.      *)
DatedBefore(s, first, before) ==
    Dated(s) /\ \A i \in 1 .. Len(s) : s[i].made < first <=> s[i].time < before

ReadMore ==
    LET s == stored[more.chat]
    IN  /\ more.phase = "sent"
        /\ \E rows \in ByTime(s) :
              more' = [more EXCEPT !.phase = "read",
                                   !.messages = LastPage(Older(rows, more.before))]
        /\ mixed' = (mixed \/ ~DatedBefore(s, more.first, more.before))
        /\ UNCHANGED <<table, asks, loads, deleting, panel, asked, times, ops, raced>>

ShowMore ==
    /\ more.phase = "read"
    /\ \/ /\ shown' = more.messages \o shown
          /\ hasMore' = FullPage(more.messages)
       \/ UNCHANGED <<shown, hasMore>>
    /\ more' = NoPage
    /\ UNCHANGED <<table, asks, loads, deleting, listed, current, isLoading,
                   asked, times, ops, mixed, raced>>

-----------------------------------------------------------------------------
DeleteChat(c) ==
    /\ Operate
    /\ c \in listed
    /\ deleting[c] = "none"
    /\ deleting' = [deleting EXCEPT ![c] = "sent"]
    /\ raced' = IF Asking(c) THEN raced \cup {c} ELSE raced
    /\ UNCHANGED <<table, asks, loads, more, panel, asked, times, mixed>>

(* The messages first, then the chat: two statements, no transaction.  A   *)
(* chat that is gone is an error.                                          *)
DeleteRows(c) ==
    /\ deleting[c] = "sent"
    /\ \/ /\ stored' = [stored EXCEPT ![c] = <<>>]
          /\ \/ /\ c \in chats
                /\ chats' = chats \ {c}
                /\ deleting' = [deleting EXCEPT ![c] = "done"]
             \/ /\ UNCHANGED chats
                /\ deleting' = [deleting EXCEPT ![c] = "failed"]
       \/ /\ UNCHANGED table
          /\ deleting' = [deleting EXCEPT ![c] = "failed"]
    /\ UNCHANGED <<asks, loads, more, panel, asked, times, ops, mixed, raced>>

(* Mutant: the selection is not looked at.                                 *)
DeselectNever(c) == UNCHANGED <<current, shown, mixed>>

(* If the deleted chat is selected when the answer arrives, clear it.      *)
Deselect(c) ==
    IF current = c
    THEN current' = NoChat /\ shown' = <<>> /\ mixed' = Busy
    ELSE UNCHANGED <<current, shown, mixed>>

(* The list is loaded again after a deletion, not after a failure.         *)
ChatDeleted(c) ==
    /\ \/ deleting[c] = "done" /\ Deselect(c) /\ LoadChats
       \/ deleting[c] = "failed" /\ UNCHANGED <<listed, current, shown, mixed>>
    /\ deleting' = [deleting EXCEPT ![c] = "none"]
    /\ UNCHANGED <<table, asks, loads, more, isLoading, hasMore, asked, times,
                   ops, raced>>

(* The client is closed and started again: the commands stop.              *)
Restart ==
    /\ Operate
    /\ asks' = [a \in Ask |-> NoAsk]
    /\ loads' = [l \in Load |-> NoPage]
    /\ more' = NoPage
    /\ deleting' = [c \in Chat |-> "none"]
    /\ listed' \in {{}, chats}
    /\ current' = NoChat
    /\ shown' = <<>>
    /\ isLoading' = FALSE
    /\ hasMore' = TRUE
    /\ mixed' = FALSE
    /\ UNCHANGED <<table, asked, times, raced>>

-----------------------------------------------------------------------------
Questions ==
    \E a \in Ask :
        \/ SendMessage(a) \/ OpenChat(a) \/ SaveQuestion(a) \/ SaveAnswer(a)
        \/ ModelFails(a) \/ ShowAnswer(a) \/ ShowError(a)

Pages ==
    \/ \E l \in Load :
          \/ \E c \in Chat : SelectChat(l, c)
          \/ ReadPage(l) \/ ShowPage(l)
    \/ LoadMore \/ ReadMore \/ ShowMore

Deletions ==
    \E c \in Chat : DeleteChat(c) \/ DeleteRows(c) \/ ChatDeleted(c)

Next == Questions \/ Pages \/ Deletions \/ Refresh \/ CreateNewChat \/ Restart

Spec == Init /\ [][Next]_vars

-----------------------------------------------------------------------------
TypeOK ==
    /\ chats \subseteq Chat
    /\ stored \in [Chat -> Seq(Message)]
    /\ asks \in [Ask -> AskState]
    /\ loads \in [Load -> Page]
    /\ more \in Page
    /\ deleting \in [Chat -> {"none", "sent", "done", "failed"}]
    /\ listed \subseteq Chat
    /\ current \in Chat \cup {NoChat}
    /\ shown \in Seq(Message)
    /\ isLoading \in BOOLEAN
    /\ hasMore \in BOOLEAN
    /\ asked \in 0 .. MaxQuestions
    /\ clock \in Nat
    /\ slips \in 0 .. MaxSlips
    /\ said \in Nat
    /\ ops \in 0 .. MaxOps
    /\ mixed \in BOOLEAN
    /\ raced \subseteq Chat

(* The form is disabled only while a question or the opening of a chat is  *)
(* under way: whatever fails or crosses, the user can ask again            *)
(* (sendMessage, selectChat).                                              *)
InputNeverStuck ==
    isLoading => \/ \E a \in Ask : asks[a].phase # "none"
                 \/ \E l \in Load : loads[l].phase # "none"

(* A deleted chat leaves no messages behind, and gets none later, unless   *)
(* it was being asked while it was being deleted, or was opened again from *)
(* a list whose loading after the deletion had failed: the panel does not  *)
(* go on asking the chat it shows when that is gone (ask_ai,               *)
(* delete_rag_chat, deleteChat).                                           *)
OrphansOnlyByRace ==
    \A c \in Chat : stored[c] # <<>> /\ c \notin chats => c \in raced

Saying(s) == [i \in 1 .. Len(s) |-> <<s[i].question, s[i].role>>]
SayingSet(s) == {<<s[i].question, s[i].role>> : i \in 1 .. Len(s)}

(* Nothing is under way, and since the panel was filled no call crossed a  *)
(* change of chat and no page was read of messages whose dates do not      *)
(* follow their order: rows dated before earlier ones by a clock that was  *)
(* set back, or a row before the first message shown that does not have an *)
(* earlier date, as the condition of the next page demands.                *)
Settled == ~Busy /\ ~mixed /\ current # NoChat /\ deleting[current] = "none"
                 /\ current \in chats

(* What the panel shows of the stored messages is the end of the chat,     *)
(* whether it came from pages or was put there before it was stored: no    *)
(* message is shown or stored twice, the order is that of the chat, and    *)
(* after the first one none is left out (sendMessage, loadMoreMessages,    *)
(* get_rag_messages).                                                      *)
ShownIsTail ==
    Settled =>
        LET chat == Saying(stored[current])
            view == Saying(shown)
        IN  /\ \A k, l \in DOMAIN chat : chat[k] = chat[l] => k = l
            /\ \A i, j \in DOMAIN view, k, l \in DOMAIN chat :
                  i < j /\ view[i] = chat[k] /\ view[j] = chat[l] => k < l
            /\ \A i \in DOMAIN view, k, l \in DOMAIN chat :
                  k < l /\ view[i] = chat[k] => \E j \in DOMAIN view : view[j] = chat[l]

(* When the panel stops asking for more, everything stored is shown, also  *)
(* when the messages fill their pages exactly (selectChat,                 *)
(* loadMoreMessages).                                                      *)
NothingHidden ==
    Settled /\ ~hasMore => SayingSet(stored[current]) \subseteq SayingSet(shown)

=============================================================================
