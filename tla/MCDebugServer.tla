--------------------------- MODULE MCDebugServer ------------------------------
(* Requests and bounds for DebugServer. *)
EXTENDS DebugServer

MCClients == {"a", "b"}

Host == <<"Host", "h", "h">>
Msg(method, target, headers) ==
    [method |-> method, target |-> target, version |-> "1.1", headers |-> headers,
     wire |-> "", body |-> "", sound |-> TRUE]

GetApi  == Msg("GET", "/IsAPIAvailable", <<Host>>)
Posted  == [Msg("POST", "/Action?q", <<Host, <<"Content-Length", "3", "3">>>>)
            EXCEPT !.wire = "bad", !.body = "bad"]
Chunked == [Msg("POST", "/SetBreakpoint", <<Host, <<"Transfer-Encoding", "chunked", "chunked">>>>)
            EXCEPT !.wire = "1;x\r\no\r\n02\r\ndd\r\n0\r\n\r\n", !.body = "odd"]
Folded  == Msg("GET", "/ShowContext", <<<<"X", "a\r\n\tb", "a\tb">>, Host>>)
Empties == Msg("GET", "/ShowContext", <<<<"X", "", "">>, <<"Y", "b", "b">>, <<"Host", "", "">>>>)
Expects == [Msg("POST", "/Stepi", <<<<"Expect", "100-continue", "100-continue">>, Host,
                                    <<"Content-Length", "1", "1">>>>)
            EXCEPT !.wire = "1", !.body = "1"]
Huge    == [Msg("POST", "/Stepi", <<Host, <<"Content-Length", "257", "257">>>>)
            EXCEPT !.wire = "1", !.sound = FALSE]
Ambiguous == [Msg("POST", "/Stepi", <<Host, <<"Content-Length", "1", "1">>,
                                      <<"Transfer-Encoding", "chunked", "chunked">>>>)
              EXCEPT !.wire = "1", !.sound = FALSE]
HeadNoHost == Msg("HEAD", "/IsAPIAvailable", <<<<"A", "b", "b">>>>)
HeadFile == Msg("HEAD", "/static/f", <<Host>>)
HeadApi == Msg("HEAD", "/IsAPIAvailable", <<Host>>)
Unknown == Msg("GET", "/Nothing", <<Host>>)
Wrong   == Msg("PUT", "/Action", <<Host>>)
Options == Msg("OPTIONS", "/Stepi", <<Host>>)
Old     == [Msg("GET", "/ShowBreakpoint", <<>>) EXCEPT !.version = "1.0"]
Kept    == [Msg("GET", "/static/f", <<<<"Connection", "keep-alive", "keep-alive">>>>)
            EXCEPT !.version = "1.0"]
Closing == [Msg("GET", "/DisassembleMemory", <<Host, <<"Connection", "close", "close">>,
                                               <<"Content-Length", "1", "1">>>>)
            EXCEPT !.wire = "1", !.body = "1"]
Socket  == Msg("GET", "/intAlertSSE", <<Host, <<"Upgrade", "websocket", "websocket">>>>)
Refused == Msg("GET", "/ShowContext", <<Host, <<"Upgrade", "websocket", "websocket">>>>)
PlainWs == Msg("GET", "/intAlertSSE", <<Host>>)

\* One client, whose request is cut anywhere.
Alone(script) == [script |-> "a" :> script @@ "b" :> <<>>, cuts |-> 1, leaves |-> 0, stops |-> 0]
\* Two clients, one of which may leave.
Both(s, t) == [script |-> "a" :> s @@ "b" :> t, cuts |-> 0, leaves |-> 1, stops |-> 0]
\* The same, with a server that is stopped.
Stopping(s, t, leaving) == [Both(s, t) EXCEPT !.leaves = leaving, !.stops = 1]

MCScenarios ==
    {Alone(<<m, GetApi>>) : m \in {Posted, Chunked, Folded, Expects, HeadNoHost, HeadApi, HeadFile, Kept}}
    \cup {Alone(<<m>>) : m \in {Huge, Ambiguous, Unknown, Wrong, Options, Old, Closing, Socket,
                                Refused, PlainWs, Empties}}
    \cup {Both(<<Expects>>, <<GetApi>>), Both(<<Closing, GetApi>>, <<GetApi>>)}
    \cup {Stopping(<<Expects>>, <<GetApi>>, 0), Stopping(<<GetApi>>, <<>>, 1)}

==============================================================================
