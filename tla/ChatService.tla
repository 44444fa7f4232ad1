----------------------------- MODULE ChatService -----------------------------
(***************************************************************************)
(* The service around the handlers: the owner's calls runService,          *)
(* stopService, joinThreads, detachThreads and the destructor; the worker  *)
(* thread that runs m_server->start(); the watchdog thread with its sleeps *)
(* and boost interruption; and onConnected from the upgrade request to     *)
(* getStat, composing IdParse's checks with Statistics' getStat steps.    *)
(*                                                                         *)
(* A boost::thread handle is "attached" while it refers to its thread:     *)
(* join and detach leave it not-a-thread, and interrupt on such a handle   *)
(* does nothing.  Replacing a unique_ptr that holds a joinable thread      *)
(* destroys it, which detaches the thread (Boost.Thread's default         *)
(* interface version 2).  The watchdog notices an interrupt only at its    *)
(* two sleep_for calls, where boost::thread_interrupted ends the loop.     *)
(* The ping and close traffic of a watchdog round is ChatWatchdog's; here  *)
(* a round is its getStat calls.                                           *)
(***************************************************************************)
EXTENDS Statistics, IdParse, Settings, Sequences, SequencesExt

CONSTANTS
  NoThread,      \* an empty unique_ptr<boost::thread>
  WkT,           \* WkT[r]: the worker thread the r-th runService starts
  WdT,           \* WdT[r]: the watchdog thread the r-th runService starts
  ConnQueries,   \* upgrade-request queries clients send
  MaxRounds,     \* bound on each watchdog thread's rounds
  MaxOps         \* bound on the owner's runService/stopService/detachThreads calls

ASSUME Len(WkT) = Len(WdT) /\ ToSet(WdT) = Watchdogs
ASSUME NoThread \notin ToSet(WkT) \cup Watchdogs
ASSUME ConnQueries \subseteq Queries
\* Watchdog threads take part in getStat; whether one starts is read from
\* Settings at runService.
ASSUME WatchdogEnabled
ASSUME \A q \in ConnQueries : Stoul(q.id).kind = "accepted" => Stoul(q.id).id \in Users

MaxRuns == Len(WkT)
WorkerThreads == ToSet(WkT)

VARIABLES
  obj,       \* the ChatServer object: alive, or destroyed
  srv,       \* m_server: running, or stopped (never started counts as stopped)
  cpc,       \* the owner's thread: idle, in joinThreads' first or second join, or gone
  dtor,      \* the joins are the destructor's
  wkH,       \* m_workerThread
  wdH,       \* m_watchdogThread
  attached,  \* threads whose handle still refers to them (joinable)
  wk,        \* each worker thread: unborn, serving (inside start()), exited
  wdPc,      \* each watchdog thread: unborn, sleep, visit, sleep2, exited
  intr,      \* watchdog threads with an interruption requested
  todo,      \* users a watchdog round has still to visit
  rounds,    \* rounds each watchdog thread has begun
  runs,      \* runService calls so far
  ops,       \* owner calls so far
  opened     \* history: each query's outcome in onConnected

statVars == <<registered, stats, pc, arg, incr, gen, counted, calls>>
lifeVars == <<obj, srv, cpc, dtor, wkH, wdH, attached, wk, wdPc, intr, todo,
              rounds, runs, ops>>
svars == <<statVars, lifeVars, setVars, opened>>

-----------------------------------------------------------------------------
(* The owner's calls.                                                      *)

\* A boost::thread stops referring to its thread: joined, detached, or
\* destroyed while joinable (which detaches it).
Release(h) == attached \ {h}

\* The program loads its configuration into Settings::get() before it
\* starts the service.
LoadConfig(d) ==
  /\ runs = 0 /\ Load(d)
  /\ UNCHANGED <<statVars, lifeVars, opened>>

\* runService: m_workerThread = a new thread running m_server->start(),
\* and when Settings::get() has the watchdog enabled m_watchdogThread = a new thread running
\* watchdogWorker.  Each assignment destroys the thread object it replaces.
RunService ==
  LET r == runs + 1 IN
  /\ cpc = "idle" /\ runs < MaxRuns /\ ops < MaxOps
  /\ wkH' = WkT[r] /\ wk' = [wk EXCEPT ![WkT[r]] = "serving"] /\ srv' = "running"
  /\ IF settings["server.watchdog.enabled"]
       THEN /\ wdH' = WdT[r] /\ wdPc' = [wdPc EXCEPT ![WdT[r]] = "sleep"]
            /\ attached' = (attached \ {wkH, wdH}) \cup {WkT[r], WdT[r]}
       ELSE /\ attached' = Release(wkH) \cup {WkT[r]}
            /\ UNCHANGED <<wdH, wdPc>>
  /\ runs' = r /\ ops' = ops + 1
  /\ UNCHANGED <<setVars, obj, cpc, dtor, intr, todo, rounds, statVars, opened>>

\* Mutant of StopEffect: the watchdog is not interrupted.
StopNoInterrupt ==
  /\ srv' = "stopped"
  /\ intr' = intr

\* stopService's effect: m_server->stop(), then interrupt() through
\* m_watchdogThread, which reaches the thread only while the handle refers
\* to it.
StopEffect ==
  /\ srv' = "stopped"
  /\ intr' = intr \cup ({wdH} \cap attached)

StopService ==
  /\ cpc = "idle" /\ ops < MaxOps
  /\ StopEffect /\ ops' = ops + 1
  /\ UNCHANGED <<setVars, obj, cpc, dtor, wkH, wdH, attached, wk, wdPc, todo, rounds,
                 runs, statVars, opened>>

\* joinThreads, called on its own.
JoinThreads ==
  /\ cpc = "idle" /\ obj = "alive"
  /\ cpc' = "join1" /\ dtor' = FALSE
  /\ UNCHANGED <<setVars, obj, srv, wkH, wdH, attached, wk, wdPc, intr, todo, rounds,
                 runs, ops, statVars, opened>>

\* ~ChatServer: stopService(), then joinThreads().
Destroy ==
  /\ cpc = "idle" /\ obj = "alive"
  /\ StopEffect /\ cpc' = "join1" /\ dtor' = TRUE
  /\ UNCHANGED <<setVars, obj, wkH, wdH, attached, wk, wdPc, todo, rounds, runs, ops,
                 statVars, opened>>

\* if (m_workerThread && joinable()) join(): wait for the worker to exit.
JoinWorker ==
  /\ cpc = "join1"
  /\ wkH \in attached => wk[wkH] = "exited"
  /\ attached' = Release(wkH) /\ cpc' = "join2"
  /\ UNCHANGED <<setVars, obj, srv, dtor, wkH, wdH, wk, wdPc, intr, todo, rounds, runs,
                 ops, statVars, opened>>

\* The same for m_watchdogThread; in the destructor the object is then gone.
JoinWatchdog ==
  /\ cpc = "join2"
  /\ wdH \in attached => wdPc[wdH] = "exited"
  /\ attached' = Release(wdH)
  /\ cpc' = IF dtor THEN "gone" ELSE "idle"
  /\ obj' = IF dtor THEN "destroyed" ELSE obj
  /\ UNCHANGED <<setVars, srv, dtor, wkH, wdH, wk, wdPc, intr, todo, rounds, runs, ops,
                 statVars, opened>>

\* detachThreads: both handles stop referring to their threads.
DetachThreads ==
  /\ cpc = "idle" /\ obj = "alive" /\ ops < MaxOps
  /\ attached' = attached \ {wkH, wdH} /\ ops' = ops + 1
  /\ UNCHANGED <<setVars, obj, srv, cpc, dtor, wkH, wdH, wk, wdPc, intr, todo, rounds,
                 runs, statVars, opened>>

-----------------------------------------------------------------------------
(* The worker thread and the transport's callbacks.                        *)

\* The transport hands callbacks to worker threads while it runs.
Serving == srv = "running" /\ \E k \in WorkerThreads : wk[k] = "serving"

\* m_server->start() returns once the server is stopped and its handler
\* threads have finished their current callbacks.
WorkerExit(k) ==
  /\ wk[k] = "serving" /\ srv = "stopped"
  /\ \A t \in Workers : pc[t] = "idle"
  /\ wk' = [wk EXCEPT ![k] = "exited"]
  /\ UNCHANGED <<setVars, obj, srv, cpc, dtor, wkH, wdH, attached, wdPc, intr, todo,
                 rounds, runs, ops, statVars, opened>>

\* onConnected for a query, once per query: the checks, then for an
\* accepted id m_connectionStorage->add and getStat(id)->addConnection().
Connect(t, q, auth) ==
  LET r == CheckConnect(auth, q) IN
  /\ Serving /\ \A o \in opened : o.query # q
  /\ opened' = opened \cup {[query |-> q, outcome |-> r]}
  /\ IF r.kind = "accepted"
       THEN OnConnected(t, r.id)
       ELSE pc[t] = "idle" /\ UNCHANGED statVars
  /\ UNCHANGED <<lifeVars, setVars>>

\* onDisconnected or onMessageSent of a registered user.
Event(t, u) ==
  /\ Serving /\ OnEvent(t, u)
  /\ UNCHANGED <<lifeVars, setVars, opened>>

-----------------------------------------------------------------------------
(* The watchdog thread.                                                    *)

\* sleep_for(minutes(1)): an interruption ends the thread; otherwise the
\* round starts on a copy of the storage.
WdWake(w) ==
  /\ wdPc[w] = "sleep" /\ (w \in intr \/ rounds[w] < MaxRounds)
  /\ IF w \in intr
       THEN /\ wdPc' = [wdPc EXCEPT ![w] = "exited"] /\ UNCHANGED <<todo, rounds>>
       ELSE /\ wdPc' = [wdPc EXCEPT ![w] = "visit"]
            /\ todo' = [todo EXCEPT ![w] = registered]
            /\ rounds' = [rounds EXCEPT ![w] = @ + 1]
  /\ UNCHANGED <<setVars, obj, srv, cpc, dtor, wkH, wdH, attached, wk, intr, runs, ops,
                 statVars, opened>>

\* getStat(t.first) for the next user of the copy.
WdVisitUser(w, u) ==
  /\ wdPc[w] = "visit" /\ u \in todo[w]
  /\ WdVisit(w, u)
  /\ todo' = [todo EXCEPT ![w] = @ \ {u}]
  /\ UNCHANGED <<setVars, obj, srv, cpc, dtor, wkH, wdH, attached, wk, wdPc, intr,
                 rounds, runs, ops, opened>>

\* The copy is done: sleep_for(seconds(2)).
WdRest(w) ==
  /\ wdPc[w] = "visit" /\ todo[w] = {} /\ pc[w] = "idle"
  /\ wdPc' = [wdPc EXCEPT ![w] = "sleep2"]
  /\ UNCHANGED <<setVars, obj, srv, cpc, dtor, wkH, wdH, attached, wk, intr, todo,
                 rounds, runs, ops, statVars, opened>>

\* Waking from the 2-second sleep: interrupted, or disconnectWithoutPong
\* and the next minute's sleep.
WdSweep(w) ==
  /\ wdPc[w] = "sleep2"
  /\ wdPc' = [wdPc EXCEPT ![w] = IF w \in intr THEN "exited" ELSE "sleep"]
  /\ UNCHANGED <<setVars, obj, srv, cpc, dtor, wkH, wdH, attached, wk, intr, todo,
                 rounds, runs, ops, statVars, opened>>

-----------------------------------------------------------------------------
ServiceInit ==
  /\ Init /\ SettingsInit
  /\ obj = "alive" /\ srv = "stopped" /\ cpc = "idle" /\ dtor = FALSE
  /\ wkH = NoThread /\ wdH = NoThread /\ attached = {}
  /\ wk = [k \in WorkerThreads |-> "unborn"]
  /\ wdPc = [w \in Watchdogs |-> "unborn"]
  /\ intr = {} /\ todo = [w \in Watchdogs |-> {}]
  /\ rounds = [w \in Watchdogs |-> 0]
  /\ runs = 0 /\ ops = 0 /\ opened = {}

\* The threads that run getStat steps: workers, and watchdogs if enabled.
GetStatStep(t) == (Find(t) \/ Insert(t) \/ Use(t)) /\ UNCHANGED <<lifeVars, setVars, opened>>

WatchdogStep(w) ==
  \/ WdWake(w) \/ WdRest(w) \/ WdSweep(w)
  \/ \E u \in Users : WdVisitUser(w, u)

ServiceNext ==
  \/ \E d \in Docs : LoadConfig(d)
  \/ RunService \/ StopService \/ JoinThreads \/ Destroy \/ DetachThreads
  \/ JoinWorker \/ JoinWatchdog
  \/ \E k \in WorkerThreads : WorkerExit(k)
  \/ \E t \in Workers, q \in ConnQueries, auth \in BOOLEAN : Connect(t, q, auth)
  \/ \E t \in Workers, u \in Users : Event(t, u)
  \/ \E t \in Threads : GetStatStep(t)
  \/ WatchdogEnabled /\ \E w \in Watchdogs : WatchdogStep(w)

\* Threads are scheduled: a thread that can take its next step takes it.
\* The owner's calls and the clients are not forced.
ServiceFairness ==
  /\ WF_svars(JoinWorker) /\ WF_svars(JoinWatchdog)
  /\ \A k \in WorkerThreads : WF_svars(WorkerExit(k))
  /\ \A t \in Threads : WF_svars(GetStatStep(t))
  /\ \A w \in Watchdogs : WF_svars(WatchdogEnabled /\ WatchdogStep(w))

ServiceSpec == ServiceInit /\ [][ServiceNext]_svars /\ ServiceFairness

-----------------------------------------------------------------------------
(* Properties.                                                             *)

\* Once the destructor has begun, it returns: stopService stops the
\* transport, so the worker leaves start(), and interrupts the watchdog,
\* which leaves at its next sleep; both joins then complete.
DestructorReturns == (dtor /\ cpc \in {"join1", "join2"}) ~> obj = "destroyed"

\* When the destructor has returned, no thread started by the object is
\* still running: a thread that outlives ~ChatServer uses m_server,
\* m_connectionStorage and m_statistics after they are freed.
NoThreadOutlives ==
  obj = "destroyed" =>
    /\ \A k \in WorkerThreads : wk[k] # "serving"
    /\ \A w \in Watchdogs : wdPc[w] \in {"unborn", "exited"}

\* runService starts a watchdog thread exactly when the configuration the
\* program loaded enables it: the last document that gives
\* server.watchdog.enabled (at the path the schema documents) says true,
\* and it is off by default.  This holds for a document whose event
\* section then fails to load, since from_json reads the server object
\* first and keeps what it assigned before the exception.
WatchdogAsConfigured ==
  runs > 0 => ((\E w \in Watchdogs : wdPc[w] # "unborn") <=> named)

\* onConnected handles every query as the spec describes (IdAcceptable).
IdHandled == \A o \in opened : IdAcceptable(o.query, o.outcome)

=============================================================================
