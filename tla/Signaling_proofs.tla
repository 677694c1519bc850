-------------------------- MODULE Signaling_proofs --------------------------
(***************************************************************************)
(* Proofs about Signaling, for any peers, connections, window and bounds.  *)
(***************************************************************************)
EXTENDS Signaling, SequenceTheorems, TLAPS

(* A stream has a handler only once the gateway has opened it.             *)
HandlerNeedsGateway ==
    \A c \in Connection : gateway[c] = "none" => handler[c] = "none"

-----------------------------------------------------------------------------
(* The tail of a queue and a queue with one more element are queues.       *)
LEMMA QueueTypes ==
    ASSUME NEW S, NEW q \in Seq(S)
    PROVE  /\ \A e \in S : Append(q, e) \in Seq(S) /\ Len(Append(q, e)) = Len(q) + 1
           /\ q # <<>> => /\ Head(q) \in S /\ Tail(q) \in Seq(S)
                          /\ Len(Tail(q)) = Len(q) - 1 /\ Len(q) \in Nat
    BY AppendProperties, HeadTailProperties, LenProperties

LEMMA TypeInit == Init => TypeOK
<1> SUFFICES ASSUME Init PROVE TypeOK
    OBVIOUS
<1>1. \A S : <<>> \in Seq(S) /\ Len(<<>>) = 0
    BY EmptySeq
<1>2. Idle \in Sending
    BY DEF Sending
<1>3. Window \in Nat
    BY SignalingAssumption
<1> QED BY <1>1, <1>2, <1>3 DEF Init, TypeOK

LEMMA TypeGateway ==
    ASSUME TypeOK, NEW c \in Connection,
           \/ \E p \in Peer : Connect(c, p) \/ Post(c, p)
           \/ ReadFails(c) \/ WriteAnswer(c) \/ WriteFails(c)
    PROVE  TypeOK'
<1> USE DEF service, streams, sockets, history
<1>1. ASSUME NEW p \in Peer, Connect(c, p) PROVE TypeOK'
    BY <1>1 DEF Connect, TypeOK
<1>2. ASSUME NEW p \in Peer, Post(c, p) PROVE TypeOK'
    <2> DEFINE m == [from |-> c, n |-> Len(posted[c]) + 1, to |-> p]
    <2>1. posted[c] \in Seq(Peer) /\ up[c] \in Seq(Signal)
        BY DEF TypeOK
    <2>2. m \in Signal
        BY <2>1, LenProperties DEF Signal
    <2>3. Append(posted[c], p) \in Seq(Peer) /\ Append(up[c], m) \in Seq(Signal)
        BY <2>1, <2>2, QueueTypes
    <2>4. posted' \in [Connection -> Seq(Peer)]
        BY <1>2, <2>3 DEF Post, TypeOK
    <2>5. up' \in [Connection -> Seq(Signal)]
        BY <1>2, <2>3 DEF Post, TypeOK
    <2>6. gateway' \in [Connection -> {"none", "open", "closing"}]
        BY <1>2 DEF Post, TypeOK
    <2> QED BY <1>2, <2>4, <2>5, <2>6 DEF Post, TypeOK
<1>3. CASE ReadFails(c)
    BY <1>3 DEF ReadFails, TypeOK
<1>4. ASSUME TakeAnswer(c)
      PROVE  /\ Head(down[c]) \in Answer
             /\ down' \in [Connection -> Seq(Answer)]
             /\ \A d \in Connection : Len(down'[d]) <= Window
    <2>1. down[c] \in Seq(Answer) /\ down[c] # <<>> /\ Len(down[c]) <= Window
        BY <1>4 DEF TakeAnswer, TypeOK
    <2>2. /\ Head(down[c]) \in Answer /\ Tail(down[c]) \in Seq(Answer)
          /\ Len(Tail(down[c])) = Len(down[c]) - 1 /\ Len(down[c]) \in Nat
        BY <2>1, QueueTypes
    <2>3. Len(Tail(down[c])) <= Window
        BY <2>1, <2>2, SignalingAssumption
    <2> QED BY <1>4, <2>2, <2>3 DEF TakeAnswer, TypeOK
<1>5. CASE WriteAnswer(c)
    <2>1. TakeAnswer(c)
        BY <1>5 DEF WriteAnswer
    <2>2. Append(arrived[c], Head(down[c])) \in Seq(Answer)
        BY <1>4, <2>1, QueueTypes DEF TypeOK
    <2>3. arrived' \in [Connection -> Seq(Answer)]
        BY <1>5, <2>2 DEF WriteAnswer, TypeOK
    <2> QED BY <1>4, <1>5, <2>1, <2>3 DEF WriteAnswer, TakeAnswer, TypeOK
<1>6. CASE WriteFails(c)
    <2>1. TakeAnswer(c)
        BY <1>6 DEF WriteFails
    <2> QED BY <1>4, <1>6, <2>1 DEF WriteFails, TakeAnswer, TypeOK
<1> QED BY <1>1, <1>2, <1>3, <1>5, <1>6

LEMMA TypeServe ==
    ASSUME TypeOK, NEW c \in Connection, Serve(c)
    PROVE  TypeOK'
<1> USE DEF service, streams, sockets, history
<1>0. Idle \in Sending
    BY DEF Sending
<1>1. CASE Register(c)
    BY <1>1 DEF Register, TypeOK
<1>2. CASE Receive(c)
    <2> DEFINE m == Head(up[c])
               a == [from |-> m.from, n |-> m.n]
    <2>1. up[c] \in Seq(Signal) /\ up[c] # <<>>
        BY <1>2 DEF Receive, TypeOK
    <2>2. m \in Signal /\ Tail(up[c]) \in Seq(Signal)
        BY <2>1, QueueTypes
    <2>3. a \in Answer /\ m.to \in Peer
        BY <2>2 DEF Signal, Answer
    <2>4. peers[m.to] # NoConnection => peers[m.to] \in Connection
        BY <2>3 DEF TypeOK
    <2>5. peers[m.to] # NoConnection
              => [via |-> peers[m.to], answer |-> a] \in Sending
        BY <2>3, <2>4 DEF Sending
    <2>6. sending' \in [Connection -> Sending]
        BY <1>0, <1>2, <2>5 DEF Receive, TypeOK
    <2>7. up' \in [Connection -> Seq(Signal)]
        BY <1>2, <2>2 DEF Receive, TypeOK
    <2> QED BY <1>2, <2>6, <2>7 DEF Receive, TypeOK
<1>3. CASE Send(c)
    <2> DEFINE to == sending[c].via
               a == sending[c].answer
    <2>1. to \in Connection /\ a \in Answer
        BY <1>3 DEF Send, TypeOK, Sending
    <2>2. down[to] \in Seq(Answer) /\ Len(down[to]) < Window
        BY <1>3, <2>1 DEF Send, TypeOK
    <2>3. /\ Append(down[to], a) \in Seq(Answer)
          /\ Len(Append(down[to], a)) = Len(down[to]) + 1
        BY <2>1, <2>2, QueueTypes
    <2>4. Len(down[to]) \in Nat
        BY <2>2, LenProperties
    <2>5. Len(Append(down[to], a)) <= Window
        BY <2>2, <2>3, <2>4, SignalingAssumption
    <2>6. /\ down' \in [Connection -> Seq(Answer)]
          /\ \A d \in Connection : Len(down'[d]) <= Window
        BY <1>3, <2>1, <2>3, <2>5 DEF Send, TypeOK
    <2>7. sending' \in [Connection -> Sending]
        BY <1>0, <1>3 DEF Send, TypeOK
    <2> QED BY <1>3, <2>6, <2>7 DEF Send, TypeOK
<1>4. CASE SendFails(c)
    BY <1>0, <1>4 DEF SendFails, TypeOK
<1>5. CASE EndOfStream(c)
    BY <1>5 DEF EndOfStream, Deleted, TypeOK
<1> QED BY <1>1, <1>2, <1>3, <1>4, <1>5 DEF Serve

LEMMA TypeRestart ==
    ASSUME TypeOK, RestartService
    PROVE  TypeOK'
<1> USE DEF service, streams, sockets, history
<1>1. PICK kept \in [Connection -> 0 .. Window] :
          /\ \A c \in Connection : kept[c] <= Len(down[c])
          /\ down' = [c \in Connection |-> SubSeq(down[c], 1, kept[c])]
    BY DEF RestartService
<1>2. ASSUME NEW c \in Connection
      PROVE  down'[c] \in Seq(Answer) /\ Len(down'[c]) <= Window
    <2>1. down[c] \in Seq(Answer) /\ kept[c] \in 0 .. Window
          /\ kept[c] <= Len(down[c]) /\ Window \in Nat
        BY <1>1, SignalingAssumption DEF TypeOK
    <2>2. Len(down[c]) \in Nat
        BY <2>1, LenProperties
    <2>3. \A i \in 1 .. kept[c] : i \in 1 .. Len(down[c])
        BY <2>1, <2>2
    <2>4. SubSeq(down[c], 1, kept[c]) \in Seq(Answer)
          /\ Len(SubSeq(down[c], 1, kept[c])) = kept[c]
        BY <2>1, <2>2, <2>3, SubSeqProperties
    <2> QED BY <1>1, <2>1, <2>4
<1>3. down' \in [Connection -> Seq(Answer)]
    BY <1>1, <1>2
<1>4. up' \in [Connection -> Seq(Signal)]
    BY EmptySeq DEF RestartService
<1>5. Idle \in Sending
    BY DEF Sending
<1> QED BY <1>2, <1>3, <1>4, <1>5 DEF RestartService, TypeOK

LEMMA TypeNext ==
    ASSUME TypeOK, [Next]_vars
    PROVE  TypeOK'
<1>1. CASE UNCHANGED vars
    BY <1>1 DEF vars, service, streams, sockets, history, TypeOK
<1> QED BY <1>1, TypeGateway, TypeServe, TypeRestart DEF Next

(* Every variable keeps its type; flow control bounds every stream.        *)
THEOREM TypeCorrect == Spec => []TypeOK
<1>1. Init => TypeOK
    BY TypeInit
<1>2. TypeOK /\ [Next]_vars => TypeOK'
    BY TypeNext
<1> QED BY <1>1, <1>2, PTL DEF Spec

-----------------------------------------------------------------------------
Inv == HandlerNeedsGateway /\ NoStaleStream

LEMMA InvNext ==
    ASSUME TypeOK, Inv, [Next]_vars
    PROVE  Inv'
<1> USE DEF service, streams, sockets, history
<1>1. ASSUME NEW c \in Connection, NEW p \in Peer, Connect(c, p)
      PROVE  Inv'
    <2>1. handler[c] = "none"
        BY <1>1 DEF Connect, Inv, HandlerNeedsGateway
    <2>2. HandlerNeedsGateway'
        BY <1>1 DEF Connect, Inv, HandlerNeedsGateway, TypeOK
    <2>3. \A q \in Peer : peers[q] # c
        BY <2>1, SignalingAssumption DEF Inv, NoStaleStream
    <2>4. NoStaleStream'
        BY <1>1, <2>3 DEF Connect, Inv, NoStaleStream, TypeOK
    <2> QED BY <2>2, <2>4 DEF Inv
<1>2. ASSUME NEW c \in Connection, NEW p \in Peer, Post(c, p)
      PROVE  Inv'
    BY <1>2 DEF Post, Inv, HandlerNeedsGateway, NoStaleStream, TypeOK
<1>3. ASSUME NEW c \in Connection, ReadFails(c)
      PROVE  Inv'
    BY <1>3 DEF ReadFails, Inv, HandlerNeedsGateway, NoStaleStream, TypeOK
<1>4. ASSUME NEW c \in Connection, WriteAnswer(c) \/ WriteFails(c)
      PROVE  Inv'
    BY <1>4 DEF WriteAnswer, WriteFails, TakeAnswer, Inv, HandlerNeedsGateway,
                NoStaleStream
<1>5. ASSUME NEW c \in Connection, Register(c)
      PROVE  Inv'
    <2>1. HandlerNeedsGateway'
        BY <1>5 DEF Register, Inv, HandlerNeedsGateway, TypeOK
    <2>2. NoStaleStream'
        BY <1>5 DEF Register, Inv, NoStaleStream, TypeOK
    <2> QED BY <2>1, <2>2 DEF Inv
<1>6. ASSUME NEW c \in Connection, Receive(c) \/ Send(c) \/ SendFails(c)
      PROVE  Inv'
    BY <1>6 DEF Receive, Send, SendFails, Inv, HandlerNeedsGateway, NoStaleStream
<1>7. ASSUME NEW c \in Connection, EndOfStream(c)
      PROVE  Inv'
    <2>1. HandlerNeedsGateway'
        BY <1>7 DEF EndOfStream, Inv, HandlerNeedsGateway, TypeOK
    <2>2. \A p \in Peer : peers'[p] # NoConnection =>
              peers'[p] = peers[p] /\ peers[p] # c
        BY <1>7 DEF EndOfStream, Deleted, Inv, NoStaleStream, TypeOK
    <2>3. NoStaleStream'
        BY <1>7, <2>2 DEF EndOfStream, Inv, NoStaleStream, TypeOK
    <2> QED BY <2>1, <2>3 DEF Inv
<1>8. CASE RestartService
    BY <1>8 DEF RestartService, Inv, HandlerNeedsGateway, NoStaleStream
<1>9. CASE UNCHANGED vars
    BY <1>9 DEF vars, Inv, HandlerNeedsGateway, NoStaleStream
<1> QED BY <1>1, <1>2, <1>3, <1>4, <1>5, <1>6, <1>7, <1>8, <1>9 DEF Next, Serve

(* What is registered for a peer is always a running stream of that peer.  *)
THEOREM NoStaleStreamHolds == Spec => []NoStaleStream
<1>1. Init => Inv
    BY DEF Init, Inv, HandlerNeedsGateway, NoStaleStream
<1>2. TypeOK /\ Inv /\ [Next]_vars => Inv'
    BY InvNext
<1>3. Inv => NoStaleStream
    BY DEF Inv
<1> QED BY <1>1, <1>2, <1>3, TypeCorrect, PTL DEF Spec

-----------------------------------------------------------------------------
(* The invariant of the refinement.  The requests of a connection and the  *)
(* answers of a stream are in the order they were posted, whatever of the  *)
(* stream is lost; each was posted to the peer it is on its way to.        *)
Before(a, b) == a.from = b.from => a.n < b.n
Ordered(q) == \A i, j \in 1 .. Len(q) : i < j => Before(q[i], q[j])
Posted(a, p) == a.n \in 1 .. Len(posted[a.from]) /\ posted[a.from][a.n] = p

Owners == \A c \in Connection : gateway[c] = "none" <=> owner[c] = NoPeer

Requests ==
    \A f \in Connection :
        /\ Ordered(up[f])
        /\ \A s \in Range(up[f]) : s.from = f /\ Posted(s, s.to)

(* What a handler is sending came before what it has not received.         *)
Carried ==
    \A f \in Connection : sending[f] # Idle =>
        /\ sending[f].answer.from = f
        /\ Posted(sending[f].answer, owner[sending[f].via])
        /\ \A s \in Range(up[f]) : sending[f].answer.n < s.n

(* What was sent came before all that its handler has yet to send.         *)
Passed(a) ==
    /\ \A s \in Range(up[a.from]) : a.n < s.n
    /\ sending[a.from] # Idle => a.n < sending[a.from].answer.n
Waiting ==
    \A t \in Connection :
        /\ Ordered(down[t])
        /\ \A a \in Range(down[t]) : Posted(a, owner[t]) /\ Passed(a)
There ==
    \A t \in Connection : \A a \in Range(arrived[t]) :
        /\ a.n \in 1 .. Len(posted[a.from])
        /\ Passed(a)
        /\ \A b \in Range(down[t]) : Before(a, b)

(* No signal is sent to two connections.                                   *)
Once ==
    \A t, u \in Connection : t # u =>
        /\ Range(down[t]) \cap Range(down[u]) = {}
        /\ Range(down[t]) \cap Range(arrived[u]) = {}

Relayed == Owners /\ Requests /\ Carried /\ Waiting /\ There /\ Once

-----------------------------------------------------------------------------
(* What happens to the elements and the order of a queue.                  *)
LEMMA Numbers ==
    ASSUME NEW q, q \in Seq(Signal) \/ q \in Seq(Answer)
    PROVE  /\ Len(q) \in Nat /\ DOMAIN q = 1 .. Len(q)
           /\ \A a \in Range(q) : a.from \in Connection /\ a.n \in Nat \ {0}
           /\ q \in Seq(Signal) => Range(q) \subseteq Signal
           /\ q \in Seq(Answer) => Range(q) \subseteq Answer
<1>1. Len(q) \in Nat /\ DOMAIN q = 1 .. Len(q)
    BY LenProperties
<1>2. /\ q \in Seq(Signal) => \A i \in 1 .. Len(q) : q[i] \in Signal
      /\ q \in Seq(Answer) => \A i \in 1 .. Len(q) : q[i] \in Answer
    BY ElementOfSeq
<1>3. /\ q \in Seq(Signal) => Range(q) \subseteq Signal
      /\ q \in Seq(Answer) => Range(q) \subseteq Answer
    BY <1>1, <1>2 DEF Range
<1>4. \A a \in Signal \cup Answer : a.from \in Connection /\ a.n \in Nat \ {0}
    BY DEF Signal, Answer
<1> QED BY <1>1, <1>3, <1>4

LEMMA AppendQueue ==
    ASSUME NEW S, NEW q \in Seq(S), NEW e \in S
    PROVE  /\ Range(Append(q, e)) = Range(q) \cup {e}
           /\ Ordered(q) /\ (\A a \in Range(q) : Before(a, e)) => Ordered(Append(q, e))
<1>1. Len(q) \in Nat /\ DOMAIN q = 1 .. Len(q)
    BY LenProperties
<1>2. /\ Append(q, e) \in Seq(S) /\ Len(Append(q, e)) = Len(q) + 1
      /\ Append(q, e)[Len(q) + 1] = e
      /\ \A i \in 1 .. Len(q) : Append(q, e)[i] = q[i]
    BY AppendProperties
<1>3. DOMAIN Append(q, e) = 1 .. Len(q) + 1
    BY <1>2, LenProperties
<1>4. 1 .. Len(q) + 1 = 1 .. Len(q) \cup {Len(q) + 1}
    BY <1>1
<1>5. Range(Append(q, e)) = Range(q) \cup {e}
    BY <1>1, <1>2, <1>3, <1>4 DEF Range
<1>6. ASSUME Ordered(q), \A a \in Range(q) : Before(a, e) PROVE Ordered(Append(q, e))
    <2> SUFFICES ASSUME NEW i \in 1 .. Len(q) + 1, NEW j \in 1 .. Len(q) + 1, i < j
                 PROVE  Before(Append(q, e)[i], Append(q, e)[j])
        BY <1>2 DEF Ordered
    <2>1. i \in 1 .. Len(q)
        BY <1>1
    <2>2. CASE j \in 1 .. Len(q)
        BY <1>2, <1>6, <2>1, <2>2 DEF Ordered
    <2>3. CASE j = Len(q) + 1
        <3>1. q[i] \in Range(q)
            BY <1>1, <2>1 DEF Range
        <3> QED BY <1>2, <1>6, <2>1, <2>3, <3>1
    <2> QED BY <1>4, <2>2, <2>3
<1> QED BY <1>5, <1>6

LEMMA TailQueue ==
    ASSUME NEW S, NEW q \in Seq(S), q # <<>>
    PROVE  /\ Head(q) \in Range(q) /\ Range(Tail(q)) \subseteq Range(q)
           /\ Ordered(q) => /\ Ordered(Tail(q))
                            /\ \A a \in Range(Tail(q)) : Before(Head(q), a)
<1>1. Len(q) \in Nat /\ DOMAIN q = 1 .. Len(q) /\ Len(q) # 0
    BY LenProperties, EmptySeq
<1>2. /\ Head(q) = q[1] /\ Tail(q) \in Seq(S) /\ Len(Tail(q)) = Len(q) - 1
      /\ \A i \in 1 .. Len(Tail(q)) : Tail(q)[i] = q[i + 1]
    BY HeadTailProperties
<1>3. DOMAIN Tail(q) = 1 .. Len(q) - 1
    BY <1>2, LenProperties
<1>4. 1 \in 1 .. Len(q) /\ \A i \in 1 .. Len(q) - 1 : i + 1 \in 1 .. Len(q) /\ 1 < i + 1
    BY <1>1
<1>5. Head(q) \in Range(q) /\ Range(Tail(q)) \subseteq Range(q)
    BY <1>1, <1>2, <1>3, <1>4 DEF Range
<1>6. ASSUME Ordered(q), NEW a \in Range(Tail(q)) PROVE Before(Head(q), a)
    BY <1>2, <1>3, <1>4, <1>6 DEF Range, Ordered
<1>7. ASSUME Ordered(q) PROVE Ordered(Tail(q))
    <2> SUFFICES ASSUME NEW i \in 1 .. Len(q) - 1, NEW j \in 1 .. Len(q) - 1, i < j
                 PROVE  Before(Tail(q)[i], Tail(q)[j])
        BY <1>2 DEF Ordered
    <2>1. i + 1 < j + 1
        BY <1>1
    <2> QED BY <1>2, <1>4, <1>7, <2>1 DEF Ordered
<1> QED BY <1>5, <1>6, <1>7

LEMMA FirstPartQueue ==
    ASSUME NEW S, NEW q \in Seq(S), NEW k \in Nat, k <= Len(q)
    PROVE  /\ Range(SubSeq(q, 1, k)) \subseteq Range(q)
           /\ Ordered(q) => Ordered(SubSeq(q, 1, k))
<1>1. Len(q) \in Nat /\ DOMAIN q = 1 .. Len(q) /\ \A i \in 1 .. Len(q) : q[i] \in S
    BY LenProperties, ElementOfSeq
<1>2. 1 .. k \subseteq 1 .. Len(q)
    BY <1>1
<1>3. /\ SubSeq(q, 1, k) \in Seq(S) /\ Len(SubSeq(q, 1, k)) = k
      /\ \A i \in 1 .. k : SubSeq(q, 1, k)[i] = q[i]
    <2>1. 1 \in Int /\ k \in Int /\ \A i \in 1 .. k : q[i] \in S
        BY <1>1, <1>2
    <2>2. /\ SubSeq(q, 1, k) \in Seq(S)
          /\ Len(SubSeq(q, 1, k)) = IF 1 <= k THEN k - 1 + 1 ELSE 0
          /\ \A i \in 1 .. k - 1 + 1 : SubSeq(q, 1, k)[i] = q[1 + i - 1]
        BY <2>1, SubSeqProperties
    <2> QED BY <2>2
<1>4. DOMAIN SubSeq(q, 1, k) = 1 .. k
    BY <1>3, LenProperties
<1>5. Range(SubSeq(q, 1, k)) \subseteq Range(q)
    BY <1>1, <1>2, <1>3, <1>4 DEF Range
<1>6. Ordered(q) => Ordered(SubSeq(q, 1, k))
    BY <1>2, <1>3 DEF Ordered
<1> QED BY <1>5, <1>6

LEMMA EmptyQueue == Range(<<>>) = {} /\ Ordered(<<>>)
<1>1. Len(<<>>) = 0 /\ 1 .. 0 = {}
    BY EmptySeq
<1>2. DOMAIN <<>> = {}
    OBVIOUS
<1> QED BY <1>1, <1>2 DEF Range, Ordered

(* The types of what is under way.                                         *)
LEMMA UnderWay ==
    ASSUME TypeOK, NEW c \in Connection
    PROVE  /\ \A s \in Range(up[c]) :
                 s.from \in Connection /\ s.n \in Nat /\ s.to \in Peer
           /\ \A a \in Range(down[c]) : a.from \in Connection /\ a.n \in Nat
           /\ \A a \in Range(arrived[c]) : a.from \in Connection /\ a.n \in Nat
           /\ sending[c] # Idle => /\ sending[c].via \in Connection
                                   /\ sending[c].answer \in Answer
                                   /\ sending[c].answer.from \in Connection
                                   /\ sending[c].answer.n \in Nat
           /\ Len(posted[c]) \in Nat
<1>1. \A s \in Range(up[c]) : s \in Signal
    BY Numbers DEF TypeOK
<1>2. \A a \in Range(down[c]) : a.from \in Connection /\ a.n \in Nat
    BY Numbers DEF TypeOK
<1>3. \A a \in Range(arrived[c]) : a.from \in Connection /\ a.n \in Nat
    BY Numbers DEF TypeOK
<1>4. sending[c] # Idle => /\ sending[c].via \in Connection
                           /\ sending[c].answer \in Answer
    BY DEF TypeOK, Sending
<1>5. Len(posted[c]) \in Nat
    BY LenProperties DEF TypeOK
<1> QED BY <1>1, <1>2, <1>3, <1>4, <1>5 DEF Signal, Answer

LEMMA RelayedInit == Init => Relayed
<1> SUFFICES ASSUME Init PROVE Relayed
    OBVIOUS
<1>1. \A c \in Connection : up[c] = <<>> /\ down[c] = <<>> /\ arrived[c] = <<>>
                            /\ sending[c] = Idle /\ gateway[c] = "none" /\ owner[c] = NoPeer
    BY DEF Init
<1> QED BY <1>1, EmptyQueue
        DEF Relayed, Owners, Requests, Carried, Waiting, There, Once

(* Signals are lost.                                                       *)
LEMMA LostRelayed ==
    ASSUME TypeOK, Relayed, UNCHANGED <<owner, posted, arrived>>, Owners',
           \A c \in Connection :
              /\ Range(up'[c]) \subseteq Range(up[c]) /\ Ordered(up'[c])
              /\ Range(down'[c]) \subseteq Range(down[c]) /\ Ordered(down'[c])
              /\ sending'[c] \in {sending[c], Idle}
    PROVE  Relayed'
<1>1. \A c \in Connection : \A a \in Range(down[c]) \cup Range(arrived[c]) :
          a.from \in Connection
    BY UnderWay
<1>2. \A a : a.from \in Connection /\ Passed(a) => Passed(a)'
    BY DEF Passed
<1>3. Requests'
    BY DEF Relayed, Requests, Posted
<1>4. Carried'
    BY DEF Relayed, Carried, Posted
<1>5. Waiting'
    BY <1>1, <1>2 DEF Relayed, Waiting, Posted
<1>6. There'
    BY <1>1, <1>2 DEF Relayed, There
<1>7. Once'
    BY DEF Relayed, Once
<1> QED BY <1>3, <1>4, <1>5, <1>6, <1>7 DEF Relayed

LEMMA ConnectRelayed ==
    ASSUME TypeOK, Relayed, NEW c \in Connection, NEW p \in Peer, Connect(c, p)
    PROVE  Relayed'
<1> USE DEF service, streams, sockets, history
<1>1. /\ UNCHANGED <<up, sending, down, posted, arrived>>
      /\ owner'[c] = p /\ gateway'[c] = "open" /\ gateway[c] = "none"
      /\ \A d \in Connection \ {c} : owner'[d] = owner[d] /\ gateway'[d] = gateway[d]
    BY DEF Connect, TypeOK
<1>2. owner[c] = NoPeer
    BY <1>1 DEF Relayed, Owners
<1>3. ASSUME NEW a, a.from \in Connection, NEW t \in Connection, Posted(a, owner[t])
      PROVE  Posted(a, owner[t])'
    <2>1. posted[a.from][a.n] \in Peer
        BY <1>3, ElementOfSeq DEF Posted, TypeOK
    <2>2. t # c
        BY <1>2, <1>3, <2>1, SignalingAssumption DEF Posted
    <2> QED BY <1>1, <1>3, <2>2 DEF Posted
<1>4. Owners'
    BY <1>1, SignalingAssumption DEF Relayed, Owners
<1>5. Requests' /\ There' /\ Once'
    BY <1>1 DEF Relayed, Requests, There, Once, Posted, Passed
<1>6. Carried'
    BY <1>1, <1>3, UnderWay DEF Relayed, Carried
<1>7. Waiting'
    BY <1>1, <1>3, UnderWay DEF Relayed, Waiting, Passed
<1> QED BY <1>4, <1>5, <1>6, <1>7 DEF Relayed

LEMMA PostRelayed ==
    ASSUME TypeOK, Relayed, NEW c \in Connection, NEW p \in Peer, Post(c, p)
    PROVE  Relayed'
<1> USE DEF service, streams, sockets, history
<1>1. /\ UNCHANGED <<owner, sending, down, arrived>>
      /\ posted'[c] = Append(posted[c], p)
      /\ \A d \in Connection \ {c} : posted'[d] = posted[d] /\ up'[d] = up[d]
    BY DEF Post, TypeOK
<1>2. Owners'
    BY <1>1 DEF Relayed, Owners, Post, TypeOK
<1>0. posted[c] \in Seq(Peer) /\ up[c] \in Seq(Signal) /\ Len(posted[c]) \in Nat
    BY LenProperties DEF TypeOK
<1>15. PICK k \in Nat : k = Len(posted[c])
    BY <1>0
<1>3. PICK m \in Signal :
         /\ m.from = c /\ m.n = k + 1 /\ m.to = p
         /\ up'[c] = up[c] \/ up'[c] = Append(up[c], m)
    <2> DEFINE r == [from |-> c, n |-> k + 1, to |-> p]
    <2>1. r \in Signal
        BY DEF Signal
    <2>2. up'[c] = up[c] \/ up'[c] = Append(up[c], r)
        BY <1>15 DEF Post, TypeOK
    <2> QED BY <2>1, <2>2
<1>4. /\ Len(posted'[c]) = k + 1 /\ posted'[c][k + 1] = p
      /\ \A i \in 1 .. k : posted'[c][i] = posted[c][i] /\ i \in 1 .. k + 1
    BY <1>0, <1>1, <1>15, AppendProperties
<1>5. \A a, q : a.from \in Connection /\ Posted(a, q) => Posted(a, q)'
    BY <1>1, <1>15, <1>4 DEF Posted
<1>6. \A a : a.from \in Connection /\ a.n \in 1 .. Len(posted[a.from])
                => a.n \in 1 .. Len(posted'[a.from])
    BY <1>1, <1>15, <1>4
<1>7. \A a : a.from = c /\ a.n \in 1 .. k => a.n < m.n
    BY <1>3
<1>8. Range(up'[c]) \subseteq Range(up[c]) \cup {m} /\ Ordered(up'[c])
    <2>1. \A s \in Range(up[c]) : s.from = c /\ s.n \in 1 .. k
        BY <1>15 DEF Relayed, Requests, Posted
    <2>2. \A s \in Range(up[c]) : Before(s, m)
        BY <1>7, <2>1 DEF Before
    <2>3. Ordered(up[c])
        BY DEF Relayed, Requests
    <2>4. /\ Range(Append(up[c], m)) = Range(up[c]) \cup {m}
          /\ Ordered(Append(up[c], m))
        BY <1>0, <2>2, <2>3, AppendQueue
    <2> QED BY <1>3, <2>3, <2>4
<1>9. Requests'
    <2>1. \A f \in Connection : \A s \in Range(up[f]) : s.from = f /\ Posted(s, s.to)'
        BY <1>5 DEF Relayed, Requests, Posted
    <2>2. Posted(m, m.to)'
        BY <1>3, <1>4 DEF Posted
    <2>3. ASSUME NEW f \in Connection
          PROVE  Ordered(up'[f]) /\ \A s \in Range(up'[f]) : s.from = f /\ Posted(s, s.to)'
        <3>1. CASE f = c
            BY <1>3, <1>8, <2>1, <2>2, <3>1
        <3>2. CASE f # c
            BY <1>1, <2>1, <3>2 DEF Relayed, Requests
        <3> QED BY <3>1, <3>2
    <2> QED BY <2>3 DEF Requests
<1>10. Carried'
    <2>1. ASSUME NEW f \in Connection, sending[f] # Idle
          PROVE  /\ sending[f].answer.from = f
                 /\ Posted(sending[f].answer, owner[sending[f].via])'
                 /\ \A s \in Range(up'[f]) : sending[f].answer.n < s.n
        <3>1. /\ sending[f].answer.from = f
              /\ Posted(sending[f].answer, owner[sending[f].via])
              /\ \A s \in Range(up[f]) : sending[f].answer.n < s.n
            BY <2>1 DEF Relayed, Carried
        <3>2. Posted(sending[f].answer, owner[sending[f].via])'
            BY <1>1, <1>5, <3>1 DEF Posted
        <3>3. f = c => sending[f].answer.n < m.n
            BY <1>7, <1>15, <3>1 DEF Posted
        <3> QED BY <1>1, <1>8, <3>1, <3>2, <3>3
    <2> QED BY <1>1, <2>1 DEF Carried
<1>11. ASSUME NEW a, a.from \in Connection, a.n \in 1 .. Len(posted[a.from]), Passed(a)
       PROVE  Passed(a)'
    <2>1. a.from = c => a.n < m.n
        BY <1>7, <1>11, <1>15
    <2> QED BY <1>1, <1>8, <1>11, <2>1 DEF Passed
<1>12. Waiting'
    <2>1. \A t \in Connection : \A a \in Range(down[t]) :
              Posted(a, owner[t]) /\ Passed(a) /\ a.from \in Connection
              /\ a.n \in 1 .. Len(posted[a.from])
        BY UnderWay DEF Relayed, Waiting, Posted
    <2>2. \A t \in Connection : \A a \in Range(down[t]) : Posted(a, owner[t])' /\ Passed(a)'
        BY <1>1, <1>5, <1>11, <2>1 DEF Posted
    <2> QED BY <1>1, <2>2 DEF Relayed, Waiting
<1>13. There'
    <2>1. \A t \in Connection : \A a \in Range(arrived[t]) :
              Passed(a) /\ a.from \in Connection /\ a.n \in 1 .. Len(posted[a.from])
        BY UnderWay DEF Relayed, There
    <2> QED BY <1>1, <1>6, <1>11, <2>1 DEF Relayed, There
<1>14. Once'
    BY <1>1 DEF Relayed, Once
<1> QED BY <1>2, <1>9, <1>10, <1>12, <1>13, <1>14 DEF Relayed

LEMMA ReceiveRelayed ==
    ASSUME TypeOK, NoStaleStream, Relayed, NEW c \in Connection, Receive(c)
    PROVE  Relayed'
<1> USE DEF service, streams, sockets, history
<1>1. /\ UNCHANGED <<owner, gateway, down, posted, arrived>>
      /\ sending[c] = Idle /\ up[c] # <<>> /\ up'[c] = Tail(up[c])
      /\ \A d \in Connection \ {c} : up'[d] = up[d] /\ sending'[d] = sending[d]
    BY DEF Receive, TypeOK
<1>2. PICK m : m = Head(up[c])
    OBVIOUS
<1>3. /\ m \in Range(up[c]) /\ Range(up'[c]) \subseteq Range(up[c])
      /\ Ordered(up'[c]) /\ \A s \in Range(up'[c]) : Before(m, s)
    BY <1>1, <1>2, TailQueue DEF TypeOK, Relayed, Requests
<1>4. m.from = c /\ Posted(m, m.to) /\ m.to \in Peer /\ m.n \in Nat
    BY <1>3, UnderWay DEF Relayed, Requests
<1>5. sending'[c] # Idle =>
          /\ sending'[c].answer.from = c /\ sending'[c].answer.n = m.n
          /\ owner[sending'[c].via] = m.to
    <2>1. sending'[c] = IF peers[m.to] = NoConnection THEN Idle
                        ELSE [via |-> peers[m.to], answer |-> [from |-> m.from, n |-> m.n]]
        BY <1>2 DEF Receive, TypeOK
    <2>2. peers[m.to] # NoConnection => owner[peers[m.to]] = m.to
        BY <1>4 DEF NoStaleStream
    <2> QED BY <1>4, <2>1, <2>2
<1>6. Owners'
    BY <1>1 DEF Relayed, Owners
<1>7. Requests'
    BY <1>1, <1>3 DEF Relayed, Requests, Posted
<1>8. Carried'
    <2>1. \A s \in Range(up'[c]) : s.from = c /\ m.n < s.n
        BY <1>3, <1>4 DEF Relayed, Requests, Before
    <2>2. sending'[c] # Idle => Posted(sending[c].answer, owner[sending[c].via])'
        BY <1>1, <1>4, <1>5 DEF Posted
    <2> QED BY <1>1, <1>5, <2>1, <2>2 DEF Relayed, Carried, Posted
<1>9. ASSUME NEW a, a.from \in Connection, Passed(a) PROVE Passed(a)'
    <2>1. a.from = c => a.n < m.n
        BY <1>3, <1>9 DEF Passed
    <2> QED BY <1>1, <1>3, <1>5, <1>9, <2>1 DEF Passed
<1>10. Waiting'
    BY <1>1, <1>9, UnderWay DEF Relayed, Waiting, Posted
<1>11. There' /\ Once'
    BY <1>1, <1>9, UnderWay DEF Relayed, There, Once
<1> QED BY <1>6, <1>7, <1>8, <1>10, <1>11 DEF Relayed

LEMMA SendRelayed ==
    ASSUME TypeOK, Relayed, NEW c \in Connection, Send(c)
    PROVE  Relayed'
<1> USE DEF service, streams, sockets, history
<1>1. PICK to \in Connection, a \in Answer : to = sending[c].via /\ a = sending[c].answer
    BY UnderWay DEF Send
<1>2. /\ UNCHANGED <<owner, gateway, up, posted, arrived>>
      /\ sending[c] # Idle /\ sending'[c] = Idle /\ down'[to] = Append(down[to], a)
      /\ \A d \in Connection \ {c} : sending'[d] = sending[d]
      /\ \A d \in Connection \ {to} : down'[d] = down[d]
    BY <1>1 DEF Send, TypeOK
<1>3. /\ a.from = c /\ a.n \in Nat /\ Posted(a, owner[to])
      /\ \A s \in Range(up[c]) : a.n < s.n
    BY <1>1, <1>2, UnderWay DEF Relayed, Carried
<1>4. \A t \in Connection : \A b \in Range(down[t]) \cup Range(arrived[t]) :
          b.from \in Connection /\ b.n \in Nat /\ Passed(b)
    BY UnderWay DEF Relayed, Waiting, There
<1>5. \A t \in Connection : \A b \in Range(down[t]) \cup Range(arrived[t]) :
          Before(b, a) /\ b # a
    BY <1>1, <1>2, <1>3, <1>4 DEF Passed, Before
<1>6. Range(down'[to]) = Range(down[to]) \cup {a} /\ Ordered(down'[to])
    BY <1>2, <1>5, AppendQueue DEF TypeOK, Relayed, Waiting
<1>7. \A b : b.from \in Connection /\ Passed(b) => Passed(b)'
    BY <1>2 DEF Passed
<1>8. Passed(a)'
    BY <1>2, <1>3 DEF Passed
<1>9. Owners' /\ Requests'
    BY <1>2 DEF Relayed, Owners, Requests, Posted
<1>10. Carried'
    BY <1>2 DEF Relayed, Carried, Posted
<1>11. Waiting'
    <2>1. ASSUME NEW t \in Connection, NEW b \in Range(down'[t])
          PROVE  b.n \in 1 .. Len(posted[b.from]) /\ posted[b.from][b.n] = owner[t]
                 /\ Passed(b)'
        <3>1. CASE b \in Range(down[t])
            BY <1>4, <1>7, <3>1 DEF Relayed, Waiting, Posted
        <3>2. CASE t = to /\ b = a
            BY <1>3, <1>8, <3>2 DEF Posted
        <3> QED BY <1>2, <1>6, <2>1, <3>1, <3>2
    <2>2. \A t \in Connection : Ordered(down'[t])
        BY <1>2, <1>6 DEF Relayed, Waiting
    <2> QED BY <1>2, <2>1, <2>2 DEF Waiting, Posted
<1>12. There'
    <2>1. ASSUME NEW t \in Connection, NEW b \in Range(arrived[t])
          PROVE  /\ b.n \in 1 .. Len(posted[b.from]) /\ Passed(b)'
                 /\ \A x \in Range(down'[t]) : Before(b, x)
        <3>1. b.n \in 1 .. Len(posted[b.from]) /\ \A x \in Range(down[t]) : Before(b, x)
            BY DEF Relayed, There
        <3>2. Passed(b)' /\ Before(b, a)
            BY <1>4, <1>5, <1>7
        <3> QED BY <1>2, <1>6, <3>1, <3>2
    <2> QED BY <1>2, <2>1 DEF There, Passed
<1>13. Once'
    <2>1. ASSUME NEW t \in Connection, NEW u \in Connection, t # u, NEW b \in Range(down'[t])
          PROVE  b \notin Range(down'[u]) /\ b \notin Range(arrived[u])
        <3>1. \A x \in Range(down[t]) : x \notin Range(down[u]) /\ x \notin Range(arrived[u])
            BY <2>1 DEF Relayed, Once
        <3>2. CASE t = to
            BY <1>2, <1>5, <1>6, <2>1, <3>1, <3>2
        <3>3. CASE u = to
            BY <1>2, <1>5, <1>6, <2>1, <3>1, <3>3
        <3>4. CASE t # to /\ u # to
            BY <1>2, <2>1, <3>1, <3>4
        <3> QED BY <3>2, <3>3, <3>4
    <2> QED BY <1>2, <2>1 DEF Once
<1> QED BY <1>9, <1>10, <1>11, <1>12, <1>13 DEF Relayed

LEMMA WriteRelayed ==
    ASSUME TypeOK, Relayed, NEW c \in Connection, WriteAnswer(c)
    PROVE  Relayed'
<1> USE DEF service, streams, sockets, history
<1>1. PICK a : a = Head(down[c])
    OBVIOUS
<1>2. /\ UNCHANGED <<owner, gateway, up, sending, posted>>
      /\ down[c] # <<>> /\ down'[c] = Tail(down[c]) /\ arrived'[c] = Append(arrived[c], a)
      /\ \A d \in Connection \ {c} : down'[d] = down[d] /\ arrived'[d] = arrived[d]
    BY <1>1 DEF WriteAnswer, TakeAnswer, TypeOK
<1>3. /\ a \in Range(down[c]) /\ Range(down'[c]) \subseteq Range(down[c])
      /\ Ordered(down'[c]) /\ \A b \in Range(down'[c]) : Before(a, b)
    BY <1>1, <1>2, TailQueue DEF TypeOK, Relayed, Waiting
<1>4. Range(arrived'[c]) = Range(arrived[c]) \cup {a}
    <2>1. a \in Answer
        BY <1>3, Numbers DEF TypeOK
    <2> QED BY <1>2, <2>1, AppendQueue DEF TypeOK
<1>5. Posted(a, owner[c]) /\ Passed(a)
    BY <1>3 DEF Relayed, Waiting
<1>6. Owners' /\ Requests' /\ Carried'
    BY <1>2 DEF Relayed, Owners, Requests, Carried, Posted
<1>7. \A b : Passed(b)' <=> Passed(b)
    BY <1>2 DEF Passed
<1>8. Waiting'
    BY <1>2, <1>3, <1>7 DEF Relayed, Waiting, Posted
<1>9. There'
    <2>1. ASSUME NEW t \in Connection, NEW b \in Range(arrived'[t])
          PROVE  /\ b.n \in 1 .. Len(posted[b.from]) /\ Passed(b)
                 /\ \A x \in Range(down'[t]) : Before(b, x)
        <3>1. CASE b \in Range(arrived[t])
            BY <1>2, <1>3, <3>1 DEF Relayed, There
        <3>2. CASE t = c /\ b = a
            BY <1>3, <1>5, <3>2 DEF Posted
        <3> QED BY <1>2, <1>4, <2>1, <3>1, <3>2
    <2> QED BY <1>2, <2>1 DEF There, Passed
<1>10. Once'
    <2>1. \A t \in Connection : Range(down'[t]) \subseteq Range(down[t])
        BY <1>2, <1>3
    <2>2. ASSUME NEW t \in Connection, NEW u \in Connection, t # u, NEW b \in Range(down[t])
          PROVE  b \notin Range(down[u]) /\ b \notin Range(arrived'[u])
        <3>1. b \notin Range(down[u]) /\ b \notin Range(arrived[u])
            BY <2>2 DEF Relayed, Once
        <3> QED BY <1>2, <1>3, <1>4, <3>1
    <2> QED BY <2>1, <2>2 DEF Once
<1> QED BY <1>6, <1>8, <1>9, <1>10 DEF Relayed

LEMMA NextRelayed ==
    ASSUME TypeOK, NoStaleStream, Relayed, [Next]_vars
    PROVE  Relayed'
<1> USE DEF service, streams, sockets, history
<1>0. \A f \in Connection : Ordered(up[f]) /\ Ordered(down[f])
    BY DEF Relayed, Requests, Waiting
<1>1. ASSUME NEW c \in Connection,
             \/ ReadFails(c) \/ Register(c) \/ SendFails(c) \/ EndOfStream(c)
      PROVE  Relayed'
    <2>1. UNCHANGED <<owner, posted, arrived, up, down>>
        BY <1>1 DEF ReadFails, Register, SendFails, EndOfStream
    <2>2. Owners'
        BY <1>1 DEF ReadFails, Register, SendFails, EndOfStream, Relayed, Owners, TypeOK
    <2>3. \A d \in Connection : sending'[d] \in {sending[d], Idle}
        BY <1>1 DEF ReadFails, Register, SendFails, EndOfStream, TypeOK
    <2> QED BY <1>0, <2>1, <2>2, <2>3, LostRelayed
<1>2. ASSUME NEW c \in Connection, WriteFails(c) PROVE Relayed'
    <2>1. /\ UNCHANGED <<owner, gateway, posted, arrived, up, sending>>
          /\ down[c] # <<>> /\ down'[c] = Tail(down[c])
          /\ \A d \in Connection \ {c} : down'[d] = down[d]
        BY <1>2 DEF WriteFails, TakeAnswer, TypeOK
    <2>2. Range(down'[c]) \subseteq Range(down[c]) /\ Ordered(down'[c])
        BY <1>0, <2>1, TailQueue DEF TypeOK
    <2>3. Owners'
        BY <2>1 DEF Relayed, Owners
    <2> QED BY <1>0, <2>1, <2>2, <2>3, LostRelayed
<1>3. CASE RestartService
    <2>1. /\ UNCHANGED <<owner, gateway, posted, arrived>>
          /\ \A c \in Connection : up'[c] = <<>> /\ sending'[c] = Idle
        BY <1>3 DEF RestartService
    <2>2. ASSUME NEW c \in Connection
          PROVE  Range(down'[c]) \subseteq Range(down[c]) /\ Ordered(down'[c])
        <3>1. PICK k \in 0 .. Window : k <= Len(down[c]) /\ down'[c] = SubSeq(down[c], 1, k)
            BY <1>3 DEF RestartService
        <3>2. k \in Nat
            BY SignalingAssumption
        <3> QED BY <1>0, <3>1, <3>2, FirstPartQueue DEF TypeOK
    <2>3. Owners'
        BY <2>1 DEF Relayed, Owners
    <2> QED BY <2>1, <2>2, <2>3, EmptyQueue, LostRelayed
<1>4. CASE UNCHANGED vars
    <2>1. Owners'
        BY <1>4 DEF vars, Relayed, Owners
    <2> QED BY <1>0, <1>4, <2>1, LostRelayed DEF vars
<1> QED BY <1>1, <1>2, <1>3, <1>4, ConnectRelayed, PostRelayed, ReceiveRelayed, SendRelayed,
           WriteRelayed DEF Next, Serve

(* Every step is one of the abstract relay, or none.                       *)
LEMMA RelayStep ==
    ASSUME TypeOK, Relayed, [Next]_vars
    PROVE  [Relay!Next]_(Relay!vars)
<1> USE DEF service, streams, sockets, history
<1>1. ASSUME NEW c \in Connection, NEW p \in Peer, Connect(c, p) PROVE Relay!Next
    <2>1. Relay!Join(c, p)
        BY <1>1 DEF Connect, Relayed, Owners, Relay!Join
    <2> QED BY <2>1 DEF Relay!Next
<1>2. ASSUME NEW c \in Connection, NEW p \in Peer, Post(c, p) PROVE Relay!Next
    <2>1. Relay!Post(c, p)
        BY <1>2 DEF Post, Relayed, Owners, Relay!Post
    <2> QED BY <2>1 DEF Relay!Next
<1>3. ASSUME NEW c \in Connection, WriteAnswer(c) PROVE Relay!Next
    <2>1. PICK a \in Answer : a = Head(down[c]) /\ a \in Range(down[c])
        BY <1>3, TailQueue, Numbers DEF WriteAnswer, TakeAnswer, TypeOK
    <2>2. /\ UNCHANGED <<owner, posted>>
          /\ arrived' = [arrived EXCEPT ![c] = Append(@, a)]
        BY <1>3, <2>1 DEF WriteAnswer, TakeAnswer
    <2>3. a.from \in Connection /\ a = [from |-> a.from, n |-> a.n]
        BY DEF Answer
    <2>4. a.n \in DOMAIN posted[a.from] /\ posted[a.from][a.n] = owner[c]
        BY <2>1, <2>3, LenProperties DEF Relayed, Waiting, Posted, TypeOK
    <2>5. \A t \in Connection : DOMAIN arrived[t] = 1 .. Len(arrived[t])
        BY LenProperties DEF TypeOK
    <2>6. Relay!InOrder(c, a)
        <3>1. \A b \in Range(arrived[c]) : b.from = a.from => b.n < a.n
            BY <2>1 DEF Relayed, There, Before
        <3> QED BY <3>1 DEF Relay!InOrder, Range
    <2>7. ~Relay!ArrivedAnywhere(a)
        <3>1. \A t \in Connection \ {c} : a \notin Range(arrived[t])
            BY <2>1 DEF Relayed, Once
        <3>2. a \notin Range(arrived[c])
            BY <2>1 DEF Relayed, There, Before, Answer
        <3> QED BY <3>1, <3>2 DEF Relay!ArrivedAnywhere, Range
    <2>8. Relay!Arrive(c, a.from, a.n)
        BY <2>2, <2>3, <2>4, <2>6, <2>7 DEF Relay!Arrive
    <2> QED BY <2>3, <2>4, <2>8 DEF Relay!Next
<1>4. ASSUME NEW c \in Connection, ReadFails(c) \/ WriteFails(c) \/ Serve(c)
      PROVE  UNCHANGED Relay!vars
    BY <1>4 DEF ReadFails, WriteFails, TakeAnswer, Serve, Register, Receive, Send, SendFails,
                EndOfStream, Relay!vars
<1>5. CASE RestartService \/ UNCHANGED vars
    BY <1>5 DEF RestartService, vars, Relay!vars
<1> QED BY <1>1, <1>2, <1>3, <1>4, <1>5 DEF Next

(* The gateway and the service together keep the promise of SignalRelay:   *)
(* what arrives was posted to the peer it arrives at, arrives once, and in *)
(* the order of its connection, whatever breaks (HandleWebSocket,          *)
(* StreamSignals).                                                         *)
THEOREM RelayHolds == Spec => RelaySpec
<1>1. Init => Relay!Init
    BY DEF Init, Relay!Init
<1>2. Init => Relayed
    BY RelayedInit
<1>3. TypeOK /\ NoStaleStream /\ Relayed /\ [Next]_vars => Relayed'
    BY NextRelayed
<1>4. TypeOK /\ Relayed /\ [Next]_vars => [Relay!Next]_(Relay!vars)
    BY RelayStep
<1> QED BY <1>1, <1>2, <1>3, <1>4, TypeCorrect, NoStaleStreamHolds, PTL
        DEF Spec, RelaySpec, Relay!Spec

=============================================================================
