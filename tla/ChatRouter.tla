----------------------------- MODULE ChatRouter -----------------------------
(***************************************************************************)
(* The message path of wss::ChatServer (src/server/chat/ChatServer.cpp):  *)
(* connection open (onConnected) with redelivery of the undelivered queue *)
(* (redeliverMessagesTo), single-frame messages (onMessage), routing      *)
(* (send, sendTo), the asynchronous send completion callback with         *)
(* handleUndeliverable and onMessageSent, and connection close            *)
(* (onDisconnected).                                                      *)
(*                                                                         *)
(* Every handler runs on some transport worker thread.  onMessage and     *)
(* sendTo hold m_connectionMutex for their whole body, so each is one     *)
(* step here.  onConnected does not hold it: registering the connection   *)
(* and each iteration of the redelivery loop are separate steps, and any  *)
(* other handler may run between them.  A send issued to the transport is *)
(* queued per connection (outq) and its completion callback runs later,   *)
(* in issue order, as a step of its own.                                   *)
(***************************************************************************)
EXTENDS Naturals, Sequences, FiniteSets, SequencesExt

CONSTANTS
  Users,                 \* user ids of clients (never the bot id)
  Bot,                   \* the reserved user id 0 ("bot-only sink")
  Conns,                 \* physical connections; each opens at most once
  ConnUser,              \* the ?id= query parameter of each connection
  Types,                 \* payload type tags clients send
  StatusType,            \* the reserved type of delivery-status payloads
  IgnoreTypesSendBack,   \* chat.message.ignoreTypesSendBack
  RcptChoices,           \* recipient lists a client may address
  MaxMsgs,               \* bound on payloads accepted from clients
  EnableQueue,           \* chat.enableUndeliveredQueue
  EnableSendBack,        \* chat.message.enableSendBack
  EnableDeliveryStatus   \* m_enableMessageDeliveryStatus

ASSUME /\ Bot \notin Users
       /\ ConnUser \in [Conns -> Users]
       /\ StatusType \notin Types
       /\ IgnoreTypesSendBack \subseteq Types
       /\ RcptChoices \subseteq (SUBSET (Users \cup {Bot})) \ {{}}
       /\ MaxMsgs \in Nat \ {0}
       /\ {EnableQueue, EnableSendBack, EnableDeliveryStatus} \subseteq BOOLEAN

VARIABLES
  sock,     \* transport state of each connection
  phase,    \* how far onConnected has got for each connection
  storage,  \* m_connectionStorage: the registered connections
  outq,     \* sends issued to the transport whose callback has not run
  recv,     \* history: payloads the client of each connection received
  queue,    \* m_undeliveredMessagesMap
  routed,   \* history: every (payload, recipient) handed to sendTo
  nextId    \* id of the next payload a client sends

vars == <<sock, phase, storage, outq, recv, queue, routed, nextId>>

Payload == [id: 1..MaxMsgs, sender: Users,
            rcpts: SUBSET (Users \cup {Bot}), type: Types \cup {StatusType}]

\* A send handed to the transport: the serialized payload and the
\* recipient captured by the completion callback.
Entry == [p: Payload, rcpt: Users]

TypeOK ==
  /\ sock \in [Conns -> {"idle", "up", "broken", "closing", "closed"}]
  /\ phase \in [Conns -> {"none", "rejected", "draining", "popping", "ready"}]
  /\ storage \subseteq Conns
  /\ outq \in [Conns -> Seq(Entry)]
  /\ recv \in [Conns -> Seq(Payload)]
  /\ queue \in [Users -> Seq(Payload)]
  /\ routed \subseteq Entry
  /\ nextId \in 1..MaxMsgs + 1

-----------------------------------------------------------------------------
(* MessagePayload helpers (the class is not part of src/).                *)

\* isForBot(): the recipient list names the reserved bot id.
IsForBot(p) == Bot \in p.rcpts

\* setRecipient(uid): a copy addressed to exactly one user.
SetRecipient(p, r) == [p EXCEPT !.rcpts = {r}]

\* createSendStatus(payload): a status payload back to the sender of
\* the single-recipient copy that was delivered.
CreateSendStatus(p) ==
  [id |-> p.id, sender |-> CHOOSE r \in p.rcpts : TRUE,
   rcpts |-> {p.sender}, type |-> StatusType]

-----------------------------------------------------------------------------
(* Routing.  A routing step is a pure function of the pair (outq, queue)  *)
(* and returns the pair it leaves behind, so that handlers which route    *)
(* several payloads compose these operators in the code's order.           *)

\* The registered connections of user r: m_connectionStorage->get(r).
ConnsOf(r) == {c \in storage : ConnUser[c] = r}

\* handleUndeliverable(uid, payload): a copy addressed to uid is pushed
\* onto uid's undelivered queue, or dropped when the queue is disabled.
HandleUndeliverable(r, p, q) ==
  IF EnableQueue THEN [q EXCEPT ![r] = Append(@, SetRecipient(p, r))]
                 ELSE q

\* Mutant of SendTo: the no-connection branch forgets handleUndeliverable.
SendToNoQueue(r, p, st) ==
  IF ConnsOf(r) = {}
  THEN st
  ELSE [st EXCEPT !.oq = [c \in Conns |->
                            IF c \in ConnsOf(r)
                            THEN Append(@[c], [p |-> p, rcpt |-> r])
                            ELSE @[c]]]

\* sendTo(recipient, payload): with no registered connection the payload
\* is undeliverable; otherwise one send per connection is issued.
SendTo(r, p, st) ==
  IF ConnsOf(r) = {}
  THEN [st EXCEPT !.q = HandleUndeliverable(r, p, @)]
  ELSE [st EXCEPT !.oq = [c \in Conns |->
                            IF c \in ConnsOf(r)
                            THEN Append(@[c], [p |-> p, rcpt |-> r])
                            ELSE @[c]]]

\* The recipients send(payload) calls sendTo for: none for a bot payload,
\* otherwise every recipient except the bot id.
SendTargets(p) == IF IsForBot(p) THEN {} ELSE p.rcpts \ {Bot}

\* send(payload).  sendTo of distinct users touches disjoint connections
\* and queues, so the order of the loop over recipients is immaterial.
Send(p, st) ==
  LET T == SendTargets(p) IN
  [oq |-> [c \in Conns |-> IF ConnUser[c] \in T
                           THEN SendTo(ConnUser[c], p, st).oq[c]
                           ELSE st.oq[c]],
   q  |-> [u \in Users |-> IF u \in T THEN SendTo(u, p, st).q[u]
                                     ELSE st.q[u]]]

Routed(p, ts) == {[p |-> p, rcpt |-> r] : r \in ts}

St == [oq |-> outq, q |-> queue]

-----------------------------------------------------------------------------
(* Connection open: onConnected.                                           *)

\* Authentication and the ?id= query parameter are accepted: the
\* connection is registered, then the redelivery loop starts.
Connect(c) ==
  /\ sock[c] = "idle"
  /\ sock' = [sock EXCEPT ![c] = "up"]
  /\ storage' = storage \cup {c}
  /\ phase' = [phase EXCEPT ![c] = "draining"]
  /\ UNCHANGED <<outq, recv, queue, routed, nextId>>

\* validateAuth fails, or the id parameter is missing or not a number:
\* the connection is closed and never registered.
Reject(c) ==
  /\ sock[c] = "idle"
  /\ sock' = [sock EXCEPT ![c] = "closing"]
  /\ phase' = [phase EXCEPT ![c] = "rejected"]
  /\ UNCHANGED <<storage, outq, recv, queue, routed, nextId>>

\* redeliverMessagesTo's entry: with the queue disabled, or no message
\* waiting (hasUndeliveredMessages, under m_undeliveredMutex), return;
\* else take a reference to the queue and enter the loop.
DrainCheck(c) ==
  /\ phase[c] = "draining"
  /\ phase' = [phase EXCEPT ![c] = IF ~EnableQueue \/ queue[ConnUser[c]] = <<>>
                                    THEN "ready" ELSE "popping"]
  /\ UNCHANGED <<sock, storage, outq, recv, queue, routed, nextId>>

\* One test of the loop, outside m_undeliveredMutex: stop when the queue
\* is empty, else take the head, pop it and send() it.
DrainStep(c) ==
  LET u == ConnUser[c] IN
  /\ phase[c] = "popping"
  /\ IF queue[u] = <<>>
     THEN /\ phase' = [phase EXCEPT ![c] = "ready"]
          /\ UNCHANGED <<outq, queue, routed>>
     ELSE LET p  == Head(queue[u])
              st == Send(p, [oq |-> outq, q |-> [queue EXCEPT ![u] = Tail(@)]])
          IN /\ outq' = st.oq
             /\ queue' = st.q
             /\ routed' = routed \cup Routed(p, SendTargets(p))
             /\ UNCHANGED phase
  /\ UNCHANGED <<sock, storage, recv, nextId>>

-----------------------------------------------------------------------------
(* Inbound message: onMessage, one-frame path.                            *)

\* An invalid payload closes the connection with INVALID_MESSAGE_PAYLOAD.
ReceiveInvalid(c) ==
  /\ sock[c] = "up" /\ phase[c] = "ready"
  /\ sock' = [sock EXCEPT ![c] = "closing"]
  /\ UNCHANGED <<phase, storage, outq, recv, queue, routed, nextId>>

\* A valid payload is echoed to its sender (send-back, unless its type is
\* ignored or it is for the bot), then routed with send().
Receive(c, rcpts, type) ==
  LET p    == [id |-> nextId, sender |-> ConnUser[c],
               rcpts |-> rcpts, type |-> type]
      back == EnableSendBack /\ type \notin IgnoreTypesSendBack
                             /\ ~IsForBot(p)
      st1  == IF back THEN SendTo(p.sender, p, St) ELSE St
      st2  == Send(p, st1)
  IN
  /\ sock[c] = "up" /\ phase[c] = "ready"
  /\ nextId <= MaxMsgs
  /\ outq' = st2.oq
  /\ queue' = st2.q
  /\ routed' = routed \cup Routed(p, SendTargets(p))
                      \cup (IF back THEN Routed(p, {p.sender}) ELSE {})
  /\ nextId' = nextId + 1
  /\ UNCHANGED <<sock, phase, storage, recv>>

-----------------------------------------------------------------------------
(* Completion callback of connection->send in sendTo.                      *)

\* onMessageSent(payload, bytes, hasSent = true): a status payload is
\* routed back unless the payload is itself a status (no recursion) or
\* delivery status is off.  Statistics are not modelled.
OnMessageSent(sent, st) ==
  IF sent.type = StatusType \/ ~EnableDeliveryStatus THEN st
  ELSE Send(CreateSendStatus(sent), st)

\* The write succeeded: the client has the payload, and onMessageSent is
\* called with a single-recipient copy.  A write on a connection the
\* server has sent a close frame on still reaches the peer's socket
\* while the peer has not closed it.
SendSucceeded(c) ==
  LET e    == Head(outq[c])
      sent == SetRecipient(e.p, e.rcpt)
      st   == OnMessageSent(sent, [oq |-> [outq EXCEPT ![c] = Tail(@)],
                                   q  |-> queue])
      stat == CreateSendStatus(sent)
  IN
  /\ outq[c] # <<>> /\ sock[c] \in {"up", "closing"}
  /\ recv' = [recv EXCEPT ![c] = Append(@, e.p)]
  /\ outq' = st.oq
  /\ queue' = st.q
  /\ routed' = IF sent.type # StatusType /\ EnableDeliveryStatus
               THEN routed \cup Routed(stat, SendTargets(stat))
               ELSE routed
  /\ UNCHANGED <<sock, phase, storage, nextId>>

\* Mutant of SendFailed: handleUndeliverable only on the non-broken-pipe
\* branch, as if it sat in an else of the broken_pipe test.
SendFailedElse(c, brokenPipe) ==
  LET e == Head(outq[c]) IN
  /\ outq[c] # <<>> /\ sock[c] # "up"
  /\ brokenPipe => sock[c] = "broken"
  /\ outq' = [outq EXCEPT ![c] = Tail(@)]
  /\ storage' = IF brokenPipe THEN storage \ {c} ELSE storage
  /\ queue' = IF brokenPipe THEN queue
               ELSE HandleUndeliverable(e.rcpt, e.p, queue)
  /\ UNCHANGED <<sock, phase, recv, routed, nextId>>

\* The write failed, and the payload is handed to handleUndeliverable.
\* Only an error whose value is broken_pipe also removes the connection;
\* a dropped peer may instead yield another error (a reset), and a
\* closed connection fails with operation_aborted.
SendFailed(c, brokenPipe) ==
  LET e == Head(outq[c]) IN
  /\ outq[c] # <<>> /\ sock[c] # "up"
  /\ brokenPipe => sock[c] = "broken"
  /\ outq' = [outq EXCEPT ![c] = Tail(@)]
  /\ storage' = IF brokenPipe THEN storage \ {c} ELSE storage
  /\ queue' = HandleUndeliverable(e.rcpt, e.p, queue)
  /\ UNCHANGED <<sock, phase, recv, routed, nextId>>

-----------------------------------------------------------------------------
(* Transport events.                                                       *)

\* The peer vanishes.  The transport reports it through onError, which
\* only logs: the connection stays registered.
Break(c) ==
  /\ sock[c] = "up"
  /\ sock' = [sock EXCEPT ![c] = "broken"]
  /\ UNCHANGED <<phase, storage, outq, recv, queue, routed, nextId>>

\* onClose -> onDisconnected: the client closed, or finished the close
\* handshake the server started; the connection is removed.
Disconnected(c) ==
  /\ sock[c] \in {"up", "closing"}
  /\ sock' = [sock EXCEPT ![c] = "closed"]
  /\ storage' = storage \ {c}
  /\ UNCHANGED <<phase, outq, recv, queue, routed, nextId>>

-----------------------------------------------------------------------------
Init ==
  /\ sock = [c \in Conns |-> "idle"]
  /\ phase = [c \in Conns |-> "none"]
  /\ storage = {}
  /\ outq = [c \in Conns |-> <<>>]
  /\ recv = [c \in Conns |-> <<>>]
  /\ queue = [u \in Users |-> <<>>]
  /\ routed = {}
  /\ nextId = 1

Next ==
  \E c \in Conns :
    \/ Connect(c) \/ Reject(c) \/ DrainCheck(c) \/ DrainStep(c)
    \/ ReceiveInvalid(c)
    \/ \E rcpts \in RcptChoices, type \in Types : Receive(c, rcpts, type)
    \/ SendSucceeded(c) \/ \E bp \in BOOLEAN : SendFailed(c, bp)
    \/ Break(c) \/ Disconnected(c)

\* The redelivery loop and the transport's completion handlers run on
\* worker threads that keep running; clients are under no obligation.
Fairness ==
  \A c \in Conns :
    /\ WF_vars(DrainCheck(c)) /\ WF_vars(DrainStep(c))
    /\ WF_vars(SendSucceeded(c) \/ \E bp \in BOOLEAN : SendFailed(c, bp))

Spec == Init /\ [][Next]_vars /\ Fairness

-----------------------------------------------------------------------------
(* Properties.                                                             *)

SameMsg(a, b) == a.id = b.id /\ a.type = b.type /\ a.sender = b.sender

Delivered(e) ==
  \E c \in Conns : ConnUser[c] = e.rcpt
                  /\ \E i \in 1..Len(recv[c]) : SameMsg(recv[c][i], e.p)

Queued(e) == \E i \in 1..Len(queue[e.rcpt]) : SameMsg(queue[e.rcpt][i], e.p)

InFlight(e) ==
  \E c \in Conns : \E i \in 1..Len(outq[c]) :
    outq[c][i].rcpt = e.rcpt /\ SameMsg(outq[c][i].p, e.p)

\* With the undelivered queue enabled, no payload handed to sendTo for a
\* user is lost: whatever interleaving of sends, failed completions
\* (handleUndeliverable), broken pipes, disconnects and redelivery loops,
\* it has reached a connection of that user, waits in a transport send
\* queue, or waits in the user's undelivered queue.
NoLoss == EnableQueue => \A e \in routed : Delivered(e) \/ InFlight(e) \/ Queued(e)

\* A user's undelivered queue is owned by at most one redelivery loop, and
\* while that loop runs the queue changes only by the loop's own steps.
\* Past its locked entry check, redeliverMessagesTo reads empty() and
\* front() and calls pop() without m_undeliveredMutex, so a second loop
\* of the same user (two connections opening together) or a push by
\* handleUndeliverable on another thread (a failed send's completion, a
\* sendTo that finds no connection) is a data race on the std::queue.
QueueOwnedByDrain ==
  [][\A u \in Users :
       LET loops == {c \in Conns : ConnUser[c] = u /\ phase[c] = "popping"} IN
       /\ Cardinality(loops) <= 1
       /\ loops # {} /\ queue'[u] # queue[u] => \E c \in loops : DrainStep(c)]_vars

\* Every redelivery loop ends: the onConnected handler that started it
\* returns and frees its worker thread.
DrainTerminates ==
  \A c \in Conns : phase[c] \in {"draining", "popping"} ~> phase[c] = "ready"

\* Per sender, a connection receives payloads in the order the server
\* accepted them, a repeat of an earlier payload aside: what the queue
\* held when the user reconnected comes before anything routed to the user
\* after the reconnect (drain-before-deliver).  onConnected registers the
\* connection with m_connectionStorage->add before redeliverMessagesTo
\* runs, and holds no lock across the two, so a send routed meanwhile goes
\* straight to the new connection, ahead of the queued payloads.
PerSenderFifo ==
  \A c \in Conns : \A i, j \in 1..Len(recv[c]) :
    (/\ i < j
     /\ recv[c][i].sender = recv[c][j].sender
     /\ recv[c][j].id < recv[c][i].id)
      => \E k \in 1..(i - 1) : SameMsg(recv[c][k], recv[c][j])

=============================================================================
