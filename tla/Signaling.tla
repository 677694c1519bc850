------------------------------ MODULE Signaling ------------------------------
(***************************************************************************)
(* The WebSocket relay of peer-to-peer signals.  A client's connection is  *)
(* served by HandleWebSocket of the gateway: one loop reads the WebSocket  *)
(* into a gRPC stream, one goroutine writes what the stream answers back.  *)
(* Each stream is served by StreamSignals of the signaling service, which  *)
(* keeps one stream per peer in the map `peers'.                           *)
(*                                                                         *)
(* A gRPC stream delivers in order; the answers a stream holds are bounded *)
(* by flow control, so a Send to a stream nobody reads blocks.             *)
(***************************************************************************)
EXTENDS Naturals, Sequences

CONSTANTS
    Peer,           \* the users
    Connection,     \* the WebSocket connections there can be
    NoPeer,
    NoConnection,
    Window,         \* the answers a stream holds before Send blocks
    MaxSignals,     \* bound: signals each connection posts
    MaxRestarts     \* bound: restarts of the signaling service

ASSUME SignalingAssumption ==
    /\ NoPeer \notin Peer
    /\ NoConnection \notin Connection
    /\ Window \in Nat \ {0}
    /\ MaxSignals \in [Connection -> Nat]
    /\ MaxRestarts \in Nat

VARIABLES
    owner,      \* the peer of each connection
    gateway,    \* the loop of HandleWebSocket: not started, open, left
    reading,    \* the connections whose goroutine still reads the stream
    handler,    \* the StreamSignals of each connection
    peers,      \* the map of registered streams
    up,         \* requests of a stream the service has not received
    sending,    \* the signal a handler has received and is sending
    down,       \* answers of a stream the gateway has not received
    restarts,   \* restarts of the service so far
    posted,     \* history: the targets of the signals of each connection
    arrived     \* history: what was written to each WebSocket

service == <<handler, peers, sending>>
streams == <<up, down>>
sockets == <<owner, gateway, reading>>
history == <<posted, arrived>>
vars == <<sockets, service, streams, restarts, history>>

-----------------------------------------------------------------------------
Signal == [from : Connection, n : Nat \ {0}, to : Peer]
Answer == [from : Connection, n : Nat \ {0}]

(* A handler between Load and Send holds the stream it loaded.             *)
Idle == [via |-> NoConnection]
Sending == [via : Connection, answer : Answer] \cup {Idle}

Init ==
    /\ owner = [c \in Connection |-> NoPeer]
    /\ gateway = [c \in Connection |-> "none"]
    /\ reading = {}
    /\ handler = [c \in Connection |-> "none"]
    /\ peers = [p \in Peer |-> NoConnection]
    /\ up = [c \in Connection |-> <<>>]
    /\ sending = [c \in Connection |-> Idle]
    /\ down = [c \in Connection |-> <<>>]
    /\ restarts = 0
    /\ posted = [c \in Connection |-> <<>>]
    /\ arrived = [c \in Connection |-> <<>>]

-----------------------------------------------------------------------------
(* The gateway, HandleWebSocket.                                           *)

(* The user is authenticated, the stream created; the service starts its   *)
(* handler when it sees the stream.                                        *)
Connect(c, p) ==
    /\ gateway[c] = "none"
    /\ owner' = [owner EXCEPT ![c] = p]
    /\ gateway' = [gateway EXCEPT ![c] = "open"]
    /\ reading' = reading \cup {c}
    /\ handler' = [handler EXCEPT ![c] = "created"]
    /\ UNCHANGED <<peers, sending, streams, restarts, history>>

(* ReadJSON of a message, stream.Send.  The stream of a handler that ended *)
(* takes no more; Send reports it at once or later, and the loop is left.  *)
Post(c, p) ==
    /\ gateway[c] = "open"
    /\ Len(posted[c]) < MaxSignals[c]
    /\ posted' = [posted EXCEPT ![c] = Append(@, p)]
    /\ IF handler[c] = "ended"
       THEN /\ gateway' \in {gateway, [gateway EXCEPT ![c] = "closing"]}
            /\ UNCHANGED up
       ELSE /\ up' = [up EXCEPT ![c] = Append(@,
                        [from |-> c, n |-> Len(posted[c]) + 1, to |-> p])]
            /\ UNCHANGED gateway
    /\ UNCHANGED <<owner, reading, service, down, restarts, arrived>>

(* ReadJSON fails: the client closed the WebSocket or is gone.  CloseSend. *)
ReadFails(c) ==
    /\ gateway[c] = "open"
    /\ gateway' = [gateway EXCEPT ![c] = "closing"]
    /\ UNCHANGED <<owner, reading, service, streams, restarts, history>>

TakeAnswer(c) ==
    /\ c \in reading
    /\ down[c] # <<>>
    /\ down' = [down EXCEPT ![c] = Tail(@)]
    /\ UNCHANGED <<owner, gateway, service, up, restarts, posted>>

(* Mutant: the answers waiting are read from the wrong end.                *)
WriteNewest(c) ==
    /\ gateway[c] = "open"
    /\ c \in reading
    /\ down[c] # <<>>
    /\ down' = [down EXCEPT ![c] = SubSeq(@, 1, Len(@) - 1)]
    /\ arrived' = [arrived EXCEPT ![c] = Append(@, down[c][Len(down[c])])]
    /\ UNCHANGED <<sockets, service, up, restarts, posted>>

(* The goroutine: stream.Recv, WriteJSON.                                  *)
WriteAnswer(c) ==
    /\ gateway[c] = "open"
    /\ TakeAnswer(c)
    /\ arrived' = [arrived EXCEPT ![c] = Append(@, Head(down[c]))]
    /\ UNCHANGED reading

(* WriteJSON fails, always when the WebSocket is closed: the goroutine     *)
(* returns, the answer is lost, the loop that reads the WebSocket goes on. *)
WriteFails(c) ==
    /\ TakeAnswer(c)
    /\ reading' = reading \ {c}
    /\ UNCHANGED arrived

-----------------------------------------------------------------------------
(* The signaling service, StreamSignals.                                   *)

Register(c) ==
    /\ handler[c] = "created"
    /\ handler' = [handler EXCEPT ![c] = "running"]
    /\ peers' = [peers EXCEPT ![owner[c]] = c]
    /\ UNCHANGED <<sockets, sending, streams, restarts, history>>

(* stream.Recv and peers.Load; a target without a stream is logged.        *)
Receive(c) ==
    LET m == Head(up[c]) IN
    /\ handler[c] = "running"
    /\ sending[c] = Idle
    /\ up[c] # <<>>
    /\ up' = [up EXCEPT ![c] = Tail(@)]
    /\ sending' = [sending EXCEPT
                     ![c] = IF peers[m.to] = NoConnection THEN Idle
                            ELSE [via |-> peers[m.to],
                                  answer |-> [from |-> m.from, n |-> m.n]]]
    /\ UNCHANGED <<sockets, handler, peers, down, restarts, history>>

(* Mutant: the stream takes any number of answers.                         *)
SendUnbounded(c) ==
    LET to == sending[c].via IN
    /\ sending[c] # Idle
    /\ handler[to] = "running"
    /\ down' = [down EXCEPT ![to] = Append(@, sending[c].answer)]
    /\ sending' = [sending EXCEPT ![c] = Idle]
    /\ UNCHANGED <<sockets, handler, peers, up, restarts, history>>

(* targetStream.Send blocks while the stream is full.                      *)
Send(c) ==
    LET to == sending[c].via IN
    /\ sending[c] # Idle
    /\ handler[to] = "running"
    /\ Len(down[to]) < Window
    /\ down' = [down EXCEPT ![to] = Append(@, sending[c].answer)]
    /\ sending' = [sending EXCEPT ![c] = Idle]
    /\ UNCHANGED <<sockets, handler, peers, up, restarts, history>>

(* Mutant: the handler returns when it could not send.                     *)
SendFailsReturns(c) ==
    /\ sending[c] # Idle
    /\ handler[sending[c].via] # "running"
    /\ sending' = [sending EXCEPT ![c] = Idle]
    /\ handler' = [handler EXCEPT ![c] = "ended"]
    /\ peers' = [peers EXCEPT ![owner[c]] = NoConnection]
    /\ up' = [up EXCEPT ![c] = <<>>]
    /\ UNCHANGED <<sockets, down, restarts, history>>

(* The target's handler has returned: Send fails, which is logged.         *)
SendFails(c) ==
    /\ sending[c] # Idle
    /\ handler[sending[c].via] # "running"
    /\ sending' = [sending EXCEPT ![c] = Idle]
    /\ UNCHANGED <<sockets, handler, peers, streams, restarts, history>>

(* Mutant: the stream stays registered.                                    *)
NotDeleted(c) == UNCHANGED peers

(* peers.Delete(peerID): whatever stream is registered for the peer now.   *)
Deleted(c) == peers' = [peers EXCEPT ![owner[c]] = NoConnection]

(* stream.Recv returns io.EOF, the deferred function runs.                 *)
EndOfStream(c) ==
    /\ handler[c] = "running"
    /\ sending[c] = Idle
    /\ up[c] = <<>>
    /\ gateway[c] = "closing"
    /\ handler' = [handler EXCEPT ![c] = "ended"]
    /\ Deleted(c)
    /\ UNCHANGED <<sockets, sending, streams, restarts, history>>

(* The service stops and starts again: streams break, the map is empty.    *)
(* The gateway may still receive a first part of the answers of a stream.  *)
RestartService ==
    /\ restarts < MaxRestarts
    /\ restarts' = restarts + 1
    /\ handler' = [c \in Connection |->
                      IF handler[c] = "none" THEN "none" ELSE "ended"]
    /\ peers' = [p \in Peer |-> NoConnection]
    /\ up' = [c \in Connection |-> <<>>]
    /\ sending' = [c \in Connection |-> Idle]
    /\ \E kept \in [Connection -> 0 .. Window] :
          /\ \A c \in Connection : kept[c] <= Len(down[c])
          /\ down' = [c \in Connection |-> SubSeq(down[c], 1, kept[c])]
    /\ UNCHANGED <<sockets, history>>

-----------------------------------------------------------------------------
Serve(c) ==
    \/ Register(c)
    \/ Receive(c)
    \/ Send(c)
    \/ SendFails(c)
    \/ EndOfStream(c)

Next ==
    \/ \E c \in Connection :
          \/ \E p \in Peer : Connect(c, p) \/ Post(c, p)
          \/ ReadFails(c)
          \/ WriteAnswer(c)
          \/ WriteFails(c)
          \/ Serve(c)
    \/ RestartService

Spec == Init /\ [][Next]_vars

(* The goroutines of the service go on; a Send waits for room in a stream. *)
(* Nothing makes the goroutine of the gateway that writes to the WebSocket *)
(* go on: WriteJSON has no deadline and waits for a client that does not   *)
(* read.  Clients need not do anything.                                    *)
FairSpec == Spec /\ \A c \in Connection : WF_vars(Serve(c))

-----------------------------------------------------------------------------
(* Type invariant: every variable keeps its type; no stream holds more     *)
(* answers than flow control allows.                                       *)
TypeOK ==
    /\ owner \in [Connection -> Peer \cup {NoPeer}]
    /\ gateway \in [Connection -> {"none", "open", "closing"}]
    /\ reading \subseteq Connection
    /\ handler \in [Connection -> {"none", "created", "running", "ended"}]
    /\ peers \in [Peer -> Connection \cup {NoConnection}]
    /\ up \in [Connection -> Seq(Signal)]
    /\ sending \in [Connection -> Sending]
    /\ down \in [Connection -> Seq(Answer)]
    /\ \A c \in Connection : Len(down[c]) <= Window
    /\ restarts \in Nat
    /\ posted \in [Connection -> Seq(Peer)]
    /\ arrived \in [Connection -> Seq(Answer)]

(* The service never loads a stream whose handler has returned: what is    *)
(* registered for a peer is a running stream of that peer, although any    *)
(* handler of the peer may delete or replace the entry.                    *)
NoStaleStream ==
    \A p \in Peer : peers[p] # NoConnection =>
        handler[peers[p]] = "running" /\ owner[peers[p]] = p

(* Signals reach only connections of the peer they were posted to, once,   *)
(* in the order of their connection.                                       *)
Relay == INSTANCE SignalRelay
             WITH owner <- owner, posted <- posted, arrived <- arrived
RelaySpec == Relay!Spec

Stable(t) ==
    /\ t \in reading /\ gateway[t] = "open" /\ handler[t] = "running"
    /\ peers[owner[t]] = t

(* The n-th signal of f is on its way to t.                                *)
OnItsWay(f, n, t) ==
    \/ \E i \in DOMAIN up[f] : up[f][i].n = n /\ up[f][i].to = owner[t]
    \/ sending[f].via = t /\ sending[f].answer.n = n
    \/ \E i \in DOMAIN down[t] : down[t][i] = [from |-> f, n |-> n]

(* No stream of a running handler keeps answers for ever: its client reads *)
(* them, or its handler ends.                                              *)
AnswersAreRead ==
    \A c \in Connection : []<>(down[c] = <<>> \/ handler[c] # "running")

(* A signal on its way to a registered, open connection arrives there: a   *)
(* failure to send an earlier one does not stop its sender's handler, and  *)
(* the answers that wait do not stop one another.  One client that does    *)
(* not read, or whose WebSocket failed while it stayed open, is enough to  *)
(* hold up the signals of all that send to it: the property supposes none. *)
SignalArrives ==
    AnswersAreRead =>
        \A f, t \in Connection : \A n \in 1 .. MaxSignals[f] :
            (Stable(t) /\ OnItsWay(f, n, t)) ~>
                \/ \E i \in DOMAIN arrived[t] : arrived[t][i] = [from |-> f, n |-> n]
                \/ ~Stable(t)

=============================================================================
