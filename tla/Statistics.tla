------------------------------ MODULE Statistics ------------------------------
(***************************************************************************)
(* ChatServer::getStat and its callers.  getStat looks the user up in      *)
(* m_statistics and, when absent, stores a fresh Statistics object; it     *)
(* takes no lock.  It is called by onConnected (right after the user is    *)
(* registered: addConnection), onDisconnected (addDisconnection) and       *)
(* onMessageSent (send and receive counters) on the transport's worker     *)
(* threads, and by watchdogWorker on its own thread for every registered   *)
(* user (a read of the inactive time); each runService starts one such     *)
(* watchdog thread.  The lookup and the store are separate steps; the      *)
(* counter update on the object is taken as atomic.  An object is a record *)
(* of a generation number and the count it holds.                          *)
(***************************************************************************)
EXTENDS Naturals, FiniteSets, TLC

CONSTANTS
  Users,
  Workers,           \* worker threads of the transport (threadPoolSize)
  Watchdogs,         \* ids of the watchdog threads runService may start
  WatchdogEnabled,   \* server.watchdog.enabled
  MaxCalls           \* bound on the worker threads' getStat calls

ASSUME Watchdogs \cap Workers = {} /\ WatchdogEnabled \in BOOLEAN
ASSUME MaxCalls \in Nat

Threads == Workers \cup (IF WatchdogEnabled THEN Watchdogs ELSE {})

VARIABLES
  registered,  \* users with a connection in m_connectionStorage
  stats,       \* m_statistics: a function whose domain is the users held
  pc,          \* where each thread is inside a getStat call
  arg,         \* the user id the thread passed to getStat
  incr,        \* whether the caller updates a counter after getStat
  gen,         \* objects created so far
  counted,     \* history: counter updates each user's callers completed
  calls        \* getStat calls started

vars == <<registered, stats, pc, arg, incr, gen, counted, calls>>

StatTypeOK ==
  /\ registered \subseteq Users
  /\ DOMAIN stats \subseteq Users
  /\ \A u \in DOMAIN stats : stats[u] \in [gen: Nat \ {0}, n: Nat]
  /\ pc \in [Threads -> {"idle", "find", "insert", "use"}]
  /\ arg \in [Threads -> Users] /\ incr \in [Threads -> BOOLEAN]
  /\ counted \in [Users -> Nat]
  /\ gen \in Nat /\ calls \in 0..MaxCalls

-----------------------------------------------------------------------------
\* A thread enters getStat(u); the caller will update a counter or not.
Call(t, u, inc) ==
  /\ pc[t] = "idle"
  /\ pc' = [pc EXCEPT ![t] = "find"]
  /\ arg' = [arg EXCEPT ![t] = u]
  /\ incr' = [incr EXCEPT ![t] = inc]

\* onConnected: m_connectionStorage->add(id, connection), then
\* getStat(id)->addConnection().
OnConnected(t, u) ==
  /\ t \in Workers /\ calls < MaxCalls
  /\ calls' = calls + 1
  /\ registered' = registered \cup {u}
  /\ Call(t, u, TRUE)
  /\ UNCHANGED <<stats, gen, counted>>

\* onDisconnected, onMessageSent: getStat of a registered user, then a
\* counter update.
OnEvent(t, u) ==
  /\ t \in Workers /\ u \in registered /\ calls < MaxCalls
  /\ calls' = calls + 1
  /\ Call(t, u, TRUE)
  /\ UNCHANGED <<registered, stats, gen, counted>>

\* watchdogWorker: getStat(t.first) for each user of the storage copy; the
\* object is only read (getInactiveTime).
WdVisit(w, u) ==
  /\ WatchdogEnabled /\ w \in Watchdogs /\ u \in registered
  /\ Call(w, u, FALSE)
  /\ UNCHANGED <<registered, stats, gen, counted, calls>>

\* m_statistics.find(id) == m_statistics.end()
Find(t) ==
  /\ pc[t] = "find"
  /\ pc' = [pc EXCEPT ![t] = IF arg[t] \in DOMAIN stats THEN "use" ELSE "insert"]
  /\ UNCHANGED <<registered, stats, arg, incr, gen, counted, calls>>

\* m_statistics[id] = std::make_unique<wss::Statistics>(id): a new object
\* takes the slot, whatever the slot holds by now.
Insert(t) ==
  /\ pc[t] = "insert"
  /\ stats' = (arg[t] :> [gen |-> gen + 1, n |-> 0]) @@ stats
  /\ gen' = gen + 1
  /\ pc' = [pc EXCEPT ![t] = "use"]
  /\ UNCHANGED <<registered, arg, incr, counted, calls>>

\* return m_statistics[id], and the caller's counter update on it.
Use(t) ==
  LET u == arg[t] IN
  /\ pc[t] = "use"
  /\ stats' = IF incr[t] THEN [stats EXCEPT ![u].n = @ + 1] ELSE stats
  /\ counted' = IF incr[t] THEN [counted EXCEPT ![u] = @ + 1] ELSE counted
  /\ pc' = [pc EXCEPT ![t] = "idle"]
  /\ UNCHANGED <<registered, arg, incr, gen, calls>>

Init ==
  /\ registered = {} /\ stats = <<>>
  /\ pc = [t \in Threads |-> "idle"]
  /\ arg = [t \in Threads |-> CHOOSE u \in Users : TRUE]
  /\ incr = [t \in Threads |-> FALSE]
  /\ gen = 0 /\ counted = [u \in Users |-> 0] /\ calls = 0

Next ==
  \/ \E t \in Workers, u \in Users : OnConnected(t, u) \/ OnEvent(t, u)
  \/ \E w \in Watchdogs, u \in Users : WdVisit(w, u)
  \/ \E t \in Threads : Find(t) \/ Insert(t) \/ Use(t)

Spec == Init /\ [][Next]_vars

-----------------------------------------------------------------------------
(* Properties.                                                             *)

\* The statistics of a user hold every counter update its callers made
\* (spec: counters are monotonically non-decreasing, created lazily and
\* kept for the process lifetime).  getStat's lookup and store are not
\* guarded, so two threads that both miss a user store two objects and
\* the updates made on the first are lost.
CountsKept == \A u \in DOMAIN stats : stats[u].n = counted[u]

=============================================================================
