---------------------------- MODULE MCChatService -----------------------------
(* Model-checking instance of ChatService: one handler thread w1 of the   *)
(* transport, up to two runService calls (worker threads k1, k2, watchdog *)
(* threads d1, d2), user 1, the id alphabet of IdParse, and configuration  *)
(* documents for Settings.                                                 *)
EXTENDS ChatService, TLC

CONSTANTS w1, k1, k2, d1, d2

Q(s) == [params |-> TRUE, id |-> s]

\* Id 1, and a parameter that is not a number.
MCQueries == {Q(<<"1">>), Q(<<"a">>)}
\* The same with ids the spec does not allow: "0" and "-1" (which wraps).
MCBadQueries == {Q(<<"1">>), Q(<<"0">>), Q(<<"-", "1">>)}
\* Configuration documents: the watchdog on; off; on in a document with a
\* REST section (enabled, with auth), a chat section as the schema lays it
\* out (maxSize under chat.message) and an event section that lacks its
\* targets, so from_json throws at event.at("targets"); and a document
\* without a server object, so j.at("server") throws.
On(b) == (<<"server">> :> Obj) @@ (<<"server", "watchdog">> :> Obj)
           @@ (<<"server", "watchdog", "enabled">> :> b)
Rest == (<<"restApi">> :> Obj) @@ (<<"restApi", "enabled">> :> TRUE)
          @@ (<<"restApi", "auth">> :> Obj) @@ (<<"restApi", "auth", "type">> :> "v")
Chat == (<<"chat">> :> Obj) @@ (<<"chat", "message">> :> Obj)
          @@ (<<"chat", "message", "maxSize">> :> "v")
          @@ (<<"chat", "enableUndeliveredQueue">> :> FALSE)
EventNoTargets == (<<"event">> :> Obj) @@ (<<"event", "enabled">> :> TRUE)
MCDocs == {On(TRUE), On(FALSE), On(TRUE) @@ Rest @@ Chat @@ EventNoTargets, <<>>}
MCDocOn == {On(TRUE)}
MCWkT == <<k1, k2>>
MCWdT == <<d1, d2>>
=============================================================================
