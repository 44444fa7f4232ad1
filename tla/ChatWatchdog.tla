---------------------------- MODULE ChatWatchdog ----------------------------
(***************************************************************************)
(* ChatServer::watchdogWorker and the ping/pong bookkeeping of            *)
(* ConnectionStorage, composed with the message path of ChatRouter.      *)
(*                                                                         *)
(* The watchdog thread sleeps a minute, takes a copy of the storage and   *)
(* visits each connection: a user inactive for the configured lifetime    *)
(* gets a close frame (INACTIVE_CONNECTION), any other connection a PING. *)
(* The ping's completion callback runs later on a worker thread: on error *)
(* it removes the connection, on success it marks it awaiting a pong      *)
(* (markPongWait).  onPong clears the mark.  After two more seconds the   *)
(* thread evicts every connection still marked (disconnectWithoutPong).   *)
(* Time is abstracted: the inactivity test is a free choice per visit.    *)
(***************************************************************************)
EXTENDS ChatRouter

VARIABLES
  wd,         \* where watchdogWorker's loop is
  todo,       \* connections of the storage copy not yet visited
  awaitPong,  \* ConnectionStorage liveness: connections awaiting a pong
  ping,       \* state of the ping send issued on each connection
  pinged,     \* clients holding a ping they have not answered
  answered,   \* history: clients that answered the latest ping
  evicted     \* history: connections removed by disconnectWithoutPong

wdVars == <<wd, todo, awaitPong, ping, pinged, answered, evicted>>
allVars == <<vars, wdVars>>

WdTypeOK ==
  /\ TypeOK
  /\ wd \in {"sleep", "scan"}
  /\ todo \subseteq Conns
  /\ awaitPong \subseteq Conns
  /\ ping \in [Conns -> {"none", "inflight", "written"}]
  /\ pinged \subseteq Conns /\ answered \subseteq Conns
  /\ evicted \subseteq Conns

\* sendClose on a connection: a live or closing one starts (or keeps) the
\* close handshake; on a dropped peer the frame goes nowhere.
CloseFrame(c) ==
  [sock EXCEPT ![c] = IF @ = "up" THEN "closing" ELSE @]

-----------------------------------------------------------------------------
\* sleep_for(1 minute), then m_connectionStorage->get(): a copy.
WdTick ==
  /\ wd = "sleep"
  /\ wd' = "scan"
  /\ todo' = storage
  /\ UNCHANGED <<awaitPong, ping, pinged, answered, evicted>>
  /\ UNCHANGED vars

\* One connection of the copy: close it when its user has been inactive
\* for the lifetime, else send a PING.  A ping whose completion has not
\* run yet is still pending; the new one is folded into it.
WdVisit(c, inactive) ==
  /\ wd = "scan" /\ c \in todo
  /\ todo' = todo \ {c}
  /\ IF inactive
     THEN /\ sock' = CloseFrame(c)
          /\ UNCHANGED <<ping, answered>>
     ELSE /\ ping' = [ping EXCEPT ![c] = IF @ = "none" THEN "inflight" ELSE @]
          /\ answered' = answered \ {c}
          /\ UNCHANGED sock
  /\ UNCHANGED <<wd, awaitPong, pinged, evicted>>
  /\ UNCHANGED <<phase, storage, outq, recv, queue, routed, nextId>>

\* sleep_for(2 seconds), then disconnectWithoutPong: every registered
\* connection still awaiting a pong is closed and removed.
WdSweep ==
  LET dead == awaitPong \cap storage IN
  /\ wd = "scan" /\ todo = {}
  /\ wd' = "sleep"
  /\ sock' = [c \in Conns |-> IF c \in dead /\ sock[c] = "up"
                              THEN "closing" ELSE sock[c]]
  /\ storage' = storage \ dead
  /\ awaitPong' = awaitPong \ dead
  /\ evicted' = evicted \cup dead
  /\ UNCHANGED <<todo, ping, pinged, answered>>
  /\ UNCHANGED <<phase, outq, recv, queue, routed, nextId>>

-----------------------------------------------------------------------------
\* The PING frame is written to the socket: a live peer now holds it and
\* may answer; the completion callback is still to run.
PingWritten(c) ==
  /\ ping[c] = "inflight" /\ sock[c] \in {"up", "closing", "broken"}
  /\ ping' = [ping EXCEPT ![c] = "written"]
  /\ pinged' = IF sock[c] = "up" THEN pinged \cup {c} ELSE pinged
  /\ UNCHANGED <<wd, todo, awaitPong, answered, evicted>>
  /\ UNCHANGED vars

\* Mutant of PingDone: the callback forgets markPongWait.
PingDoneNoMark(c) ==
  /\ ping[c] = "written"
  /\ ping' = [ping EXCEPT ![c] = "none"]
  /\ UNCHANGED <<wd, todo, awaitPong, pinged, answered, evicted>>
  /\ UNCHANGED vars

\* Completion callback, success: markPongWait ("lazy ping pong").
PingDone(c) ==
  /\ ping[c] = "written"
  /\ ping' = [ping EXCEPT ![c] = "none"]
  /\ awaitPong' = awaitPong \cup ({c} \cap storage)
  /\ UNCHANGED <<wd, todo, pinged, answered, evicted>>
  /\ UNCHANGED vars

\* Completion callback, any error: m_connectionStorage->remove(conn).
PingFailed(c) ==
  /\ ping[c] = "inflight" /\ sock[c] # "up"
  /\ ping' = [ping EXCEPT ![c] = "none"]
  /\ storage' = storage \ {c}
  /\ awaitPong' = awaitPong \ {c}
  /\ UNCHANGED <<wd, todo, pinged, answered, evicted>>
  /\ UNCHANGED <<sock, phase, outq, recv, queue, routed, nextId>>

\* onPong: markPongReceived.
Pong(c) ==
  /\ c \in pinged /\ sock[c] = "up"
  /\ pinged' = pinged \ {c}
  /\ answered' = answered \cup {c}
  /\ awaitPong' = awaitPong \ {c}
  /\ UNCHANGED <<wd, todo, ping, evicted>>
  /\ UNCHANGED vars

-----------------------------------------------------------------------------
WdInit ==
  /\ Init
  /\ wd = "sleep" /\ todo = {} /\ awaitPong = {}
  /\ ping = [c \in Conns |-> "none"]
  /\ pinged = {} /\ answered = {} /\ evicted = {}

WdNext ==
  \/ Next /\ UNCHANGED wdVars
  \/ WdTick \/ WdSweep
  \/ \E c \in Conns :
       \/ \E inactive \in BOOLEAN : WdVisit(c, inactive)
       \/ PingWritten(c) \/ PingDone(c) \/ PingFailed(c) \/ Pong(c)

\* The redelivery loops, the watchdog thread and the completion handlers
\* keep running; the clients (Pong, Connect, Receive) owe nothing.
WdFairness ==
  /\ \A c \in Conns :
       /\ WF_allVars(DrainCheck(c) /\ UNCHANGED wdVars)
       /\ WF_allVars(DrainStep(c) /\ UNCHANGED wdVars)
       /\ WF_allVars((SendSucceeded(c) \/ \E bp \in BOOLEAN : SendFailed(c, bp))
                     /\ UNCHANGED wdVars)
  /\ WF_allVars(WdTick) /\ WF_allVars(WdSweep)
  /\ \A c \in Conns :
       /\ WF_allVars(\E inactive \in BOOLEAN : WdVisit(c, inactive))
       /\ WF_allVars(PingWritten(c) \/ PingFailed(c))
       /\ WF_allVars(PingDone(c))

WdSpec == WdInit /\ [][WdNext]_allVars /\ WdFairness

-----------------------------------------------------------------------------
(* Properties.                                                             *)

\* disconnectWithoutPong never evicts a connection whose client answered
\* the latest ping.  markPongWait runs in the ping's completion callback,
\* which a worker may run after another worker has handled the pong.
NoEvictAnswered == evicted \cap answered = {}

\* A connection whose ping is issued while its peer is gone is eventually
\* removed from the storage: by the failing completion callback, or by
\* disconnectWithoutPong in this or a later round.
PingedDeadRemoved ==
  \A c \in Conns :
    (sock[c] = "broken" /\ ping[c] = "inflight") ~> c \notin storage

=============================================================================
