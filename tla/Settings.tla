------------------------------ MODULE Settings ------------------------------
(***************************************************************************)
(* wss::Settings (src/server/Settings.hpp): the process-wide singleton     *)
(* Settings::get() and from_json, which reads a JSON document into it.     *)
(*                                                                         *)
(* A document is a function from key paths to values: an object is the    *)
(* value Obj, a leaf is a boolean or the token "v" (any string or number;  *)
(* their text is abstracted away).  A setting is named by its path in the  *)
(* struct, e.g. "server.watchdog.enabled".  setConfig(path, src, name) is  *)
(* path = src.value(name, path): a key the document leaves out keeps what  *)
(* an earlier load put there, and a value of the wrong type throws         *)
(* nlohmann's type_error; at() throws out_of_range on a missing key.  An   *)
(* exception leaves every assignment made before it in place.  Only a      *)
(* non-boolean value for a boolean setting is taken as a type error.      *)
(***************************************************************************)
EXTENDS Naturals, Sequences, SequencesExt

CONSTANTS
  Obj,       \* a JSON object node of a document
  Docs,      \* the documents the program may load
  MaxLoads   \* bound on from_json calls

Fields ==
  {"server.address", "server.endpoint", "server.port",
   "server.allowOverrideConnection", "server.workers", "server.tmpDir",
   "server.watchdog.enabled", "server.watchdog.connectionLifetimeSeconds",
   "restApi.enabled", "restApi.port", "restApi.address",
   "restApi.auth.type", "restApi.auth.data",
   "chat.message.maxSize", "chat.message.enableDeliveryStatus",
   "chat.enableUndeliveredQueue",
   "event.enabled", "event.enableRetry", "event.retryIntervalSeconds",
   "event.retryCount", "event.sendStrategy", "event.targets"}

BoolFields ==
  {"server.allowOverrideConnection", "server.watchdog.enabled",
   "restApi.enabled", "chat.message.enableDeliveryStatus",
   "chat.enableUndeliveredQueue", "event.enabled", "event.enableRetry"}

\* The member initialisers of the structs: every boolean is false except
\* enableUndeliveredQueue; other members hold their initialiser ("dflt").
Defaults ==
  [f \in Fields |-> IF f \in BoolFields THEN f = "chat.enableUndeliveredQueue"
                                        ELSE "dflt"]

VARIABLES
  settings,  \* Settings::get()
  loads,     \* from_json calls so far
  named      \* history: server.watchdog.enabled as the documents give it

setVars == <<settings, loads, named>>

-----------------------------------------------------------------------------
(* from_json.  A step maps [s |-> settings, threw |-> BOOLEAN] to the      *)
(* next; once threw is set, the remaining statements do not run.          *)

Has(d, obj, key) == Append(obj, key) \in DOMAIN d

\* setConfig(in.f, obj, key).
SetConfig(st, d, obj, key, f) ==
  LET p == Append(obj, key) IN
  IF st.threw \/ p \notin DOMAIN d THEN st
  ELSE IF f \in BoolFields /\ d[p] \notin BOOLEAN THEN [st EXCEPT !.threw = TRUE]
  ELSE [st EXCEPT !.s[f] = d[p]]

\* setConfigDef(in.f, obj, key, def): a missing key gives def, not the
\* current value.
SetConfigDef(st, d, obj, key, f, def) ==
  IF st.threw THEN st
  ELSE IF Has(d, obj, key) THEN SetConfig(st, d, obj, key, f)
  ELSE [st EXCEPT !.s[f] = def]

\* setConfig for each <<key, field>> of ks, in order.
SetAll(st, d, obj, ks) ==
  FoldLeft(LAMBDA acc, k : SetConfig(acc, d, obj, k[1], k[2]), st, ks)

\* json::at(key) as a statement: throws when the key is missing.
At(st, d, obj, key) ==
  IF st.threw \/ Has(d, obj, key) THEN st ELSE [st EXCEPT !.threw = TRUE]

\* Mutant of LoadWatchdog: the flags are read from the server object
\* itself, one level too high, as from_json does for chat.message.
LoadWatchdogFlat(st, d) ==
  LET S == <<"server">>
      a == SetConfig(st, d, S, "enabled", "server.watchdog.enabled")
  IN IF Has(d, S, "watchdog") THEN a ELSE st

\* The watchdog object: enabled, and the lifetime only when the flag now
\* in Settings (this document's, or an earlier load's) is true.
LoadWatchdog(st, d) ==
  LET W == <<"server", "watchdog">>
      a == SetConfig(st, d, W, "enabled", "server.watchdog.enabled")
  IN IF ~Has(d, <<"server">>, "watchdog") THEN st
     ELSE IF a.s["server.watchdog.enabled"] = TRUE
          THEN SetConfig(a, d, W, "connectionLifetimeSeconds",
                         "server.watchdog.connectionLifetimeSeconds")
          ELSE a

\* j.at("server") and the server object's keys.
LoadServer(st, d) ==
  LET S == <<"server">>
      a == SetAll(At(st, d, <<>>, "server"), d, S,
                  << <<"address", "server.address">>,
                     <<"endpoint", "server.endpoint">>,
                     <<"port", "server.port">>,
                     <<"allowOverrideConnection", "server.allowOverrideConnection">> >>)
      \* hardware_concurrency(), or 2 when it reports 0
      b == SetConfig(SetConfigDef(a, d, S, "workers", "server.workers", "hw"),
                     d, S, "tmpDir", "server.tmpDir")
  IN LoadWatchdog(b, d)

\* restApi, read only when j["restApi"].value("enabled", current) is
\* true; an auth object first resets auth to AuthSettings().
LoadRestApi(st, d) ==
  LET R  == <<"restApi">>
      A  == <<"restApi", "auth">>
      on == SetConfig([s |-> st.s, threw |-> st.threw], d, R, "enabled", "restApi.enabled")
      a  == SetAll(st, d, R, << <<"enabled", "restApi.enabled">>,
                                <<"port", "restApi.port">>,
                                <<"address", "restApi.address">> >>)
      b  == [a EXCEPT !.s["restApi.auth.type"] = "dflt",
                      !.s["restApi.auth.data"] = "dflt"]
      c  == SetConfig(b, d, A, "type", "restApi.auth.type")
  IN CASE st.threw \/ ~Has(d, <<>>, "restApi") -> st
       [] on.threw -> on
       [] on.s["restApi.enabled"] # TRUE -> st
       [] Has(d, R, "auth") /\ ~a.threw -> [c EXCEPT !.s["restApi.auth.data"] = d[A]]
       [] OTHER -> a

\* chat: maxSize and enableDeliveryStatus are read from the chat object,
\* not from chat.message.
LoadChat(st, d) ==
  IF ~Has(d, <<>>, "chat") THEN st
  ELSE SetAll(st, d, <<"chat">>,
              << <<"maxSize", "chat.message.maxSize">>,
                 <<"enableDeliveryStatus", "chat.message.enableDeliveryStatus">>,
                 <<"enableUndeliveredQueue", "chat.enableUndeliveredQueue">> >>)

\* event: the rest only when enabled, ending with event.at("targets").
LoadEvent(st, d) ==
  LET E == <<"event">>
      a == SetConfig(st, d, E, "enabled", "event.enabled")
      b == At(SetAll(a, d, E, << <<"enableRetry", "event.enableRetry">>,
                                 <<"retryIntervalSeconds", "event.retryIntervalSeconds">>,
                                 <<"retryCount", "event.retryCount">>,
                                 <<"sendStrategy", "event.sendStrategy">> >>),
              d, E, "targets")
  IN CASE ~Has(d, <<>>, "event") -> st
       [] a.s["event.enabled"] = TRUE /\ ~b.threw -> [b EXCEPT !.s["event.targets"] = d[Append(E, "targets")]]
       [] a.s["event.enabled"] = TRUE -> b
       [] OTHER -> a

\* from_json(j, in): the sections in the code's order.
FromJson(d, s) ==
  LoadEvent(LoadChat(LoadRestApi(LoadServer([s |-> s, threw |-> FALSE], d), d), d), d)

\* The schema's reading of a document for the watchdog flag: the last
\* document that gives server.watchdog.enabled decides it.
Named(d, old) ==
  LET p == <<"server", "watchdog", "enabled">> IN
  IF p \in DOMAIN d /\ d[p] \in BOOLEAN THEN d[p] ELSE old

-----------------------------------------------------------------------------
\* Settings::get(): the function-local static, built on first use.
SettingsInit ==
  /\ settings = Defaults
  /\ loads = 0
  /\ named = FALSE

\* The program calls from_json(j, Settings::get()); an exception leaves
\* the assignments before it in place and propagates to the caller.
Load(d) ==
  /\ loads < MaxLoads
  /\ settings' = FromJson(d, settings).s
  /\ loads' = loads + 1
  /\ named' = Named(d, named)

SettingsNext == \E d \in Docs : Load(d)

=============================================================================
