----------------------------- MODULE DebugServer ------------------------------
(***************************************************************************)
(* The HTTP server of the remote debugger: crow's Server (http_server.h),  *)
(* its Connections (http_connection.h) and the deadlines of its task_timer *)
(* (task_timer.h), with the parser of HttpParser and the rules of Router,  *)
(* and RemoteDebugServer, which starts and stops it.                       *)
(*                                                                         *)
(* The first worker serves all connections: those of different workers     *)
(* share nothing, and the others only have to be there and to end.  asio   *)
(* is external: "queue" holds the completions the first worker             *)
(* runs one after the other, a read completes with the bytes that have     *)
(* come, and an answer fits into the buffer of the socket, so that a write *)
(* is done when it is asked for and only its completion waits.             *)
(*                                                                         *)
(* A client writes the requests of its script in pieces, the next request  *)
(* after the answer to the last.  It may close the socket or reset it.     *)
(* Clients do nothing more once the server is being stopped.               *)
(***************************************************************************)
EXTENDS HttpParser, Functions, FiniteSets

CONSTANTS
    Clients,        \* one connection each
    Scenarios,      \* what the clients may do: [script: the requests each one writes,
                    \* cuts, leaves: bounds on the places where requests are cut and on
                    \* the clients that leave before their script ends, stops: whether
                    \* the server is stopped]
    Workers,        \* concurrency_ - 1: the io_services of the pool, a thread for each
    Timeout,        \* the ticks a deadline leaves
    StaticFiles,    \* the urls below /static/ that name a file
    LargeRules      \* the rules whose answer reaches stream_threshold

ASSUME DebugServerAssumption == Timeout \in Nat /\ Workers \in Nat \ {0}

VARIABLES
    main,       \* RemoteDebugServer: "up", "joining", "joining early", "done"
    server,     \* its thread: "none", "made", "pool", "accepting", "closing", "done"
    pool,       \* the number of io_services in io_service_pool_
    worker,     \* the thread of each: "off", "running", "exited"
    stopped,    \* the io_services that stop() has stopped; 0 is the acceptor's
    conn, queue, tasks, highest_id,         \* the first worker's state
    client,     \* what a client has left to do, and its half of the socket
    cuts,       \* the cuts that are left
    leaves,     \* the leaves that are left
    stops,      \* the stops that are left
    got,        \* the answers a client has
    seen,       \* the requests handle() was called for
    robbed      \* the connections whose deadline another one has cancelled

io   == <<conn, queue, tasks, highest_id, got, seen, robbed>>
threads == <<main, server, pool, worker, stopped>>
bounds  == <<cuts, leaves, stops>>
vars == <<threads, client, bounds, io>>

-----------------------------------------------------------------------------
(* Requests as clients write them.                                         *)

RECURSIVE LowerFrom(_, _)
LowerFrom(s, i) == IF i = Len(s) THEN "" ELSE LOWER(At(s, i)) \o LowerFrom(s, i + 1)
Lower(s) == LowerFrom(s, 0)

Line(h) == h[1] \o ": " \o h[2] \o CR \o LF

\* The bytes of a request; "wire" is its body with the framing of its chunks.
Bytes(m) ==
    FoldLeft(LAMBDA s, h : s \o Line(h),
             m.method \o " " \o m.target \o " HTTP/" \o m.version \o CR \o LF, m.headers)
        \o CR \o LF \o m.wire

Wire == [m \in UNION {Range(x.script[c]) : x \in Scenarios, c \in Clients} |-> Bytes(m)]

\* The place of the target in the bytes: behind the method and its blank.
InTarget(m, n) == n \in (Len(m.method) + 2)..(Len(m.method) + Len(m.target) + 1)

-----------------------------------------------------------------------------
(* The worker's state, as one record that the handlers pass on.            *)

World == [conn |-> conn, queue |-> queue, tasks |-> tasks, highest_id |-> highest_id,
          got |-> got, seen |-> seen, robbed |-> robbed, thrown |-> FALSE]

\* A Connection lives as long as a pending operation, a completion or a deadline
\* refers to it; its destructor closes the socket.
Freed(w, c) ==
    /\ ~w.conn[c].reading
    /\ \A i \in DOMAIN w.queue : w.queue[i].c # c
    /\ \A id \in DOMAIN w.tasks : w.tasks[id].c # c

Becomes(w) ==
    /\ conn' = [c \in Clients |-> IF w.conn[c].sock = "open" /\ Freed(w, c)
                                  THEN [w.conn[c] EXCEPT !.sock = "closed"] ELSE w.conn[c]]
    /\ queue' = w.queue /\ tasks' = w.tasks /\ highest_id' = w.highest_id
    /\ got' = w.got /\ seen' = w.seen /\ robbed' = w.robbed

Post(w, kind, c, bytes, ok) ==
    [w EXCEPT !.queue = Append(@, [kind |-> kind, c |-> c, bytes |-> bytes, ok |-> ok])]

\* close(): the pending read completes with an error.
Close(w, c) ==
    IF w.conn[c].sock # "open" THEN w
    ELSE LET closed == [w EXCEPT !.conn[c].sock = "closed", !.conn[c].reading = FALSE]
         IN  IF w.conn[c].reading THEN Post(closed, "read", c, "", FALSE) ELSE closed

-----------------------------------------------------------------------------
(* Deadlines.                                                              *)

\* task_timer::cancel of whatever has the id the connection remembers.
CancelDeadline(w, c) ==
    LET id == w.conn[c].task_id
    IN  [w EXCEPT !.tasks = Restrict(@, DOMAIN @ \ {id}),
                  !.robbed = @ \cup {d \in Clients \ {c} : /\ id \in DOMAIN w.tasks
                                                           /\ w.tasks[id].c = d}]

\* Mutant: the connection forgets to ask for a deadline.
StartDeadline_None(w, c) == CancelDeadline(w, c)

StartDeadline(w, c) ==
    LET v  == CancelDeadline(w, c)
        id == v.highest_id + 1
    IN  [v EXCEPT !.highest_id = id, !.conn[c].task_id = id, !.robbed = @ \ {c},
                  !.tasks = (id :> [c |-> c, left |-> Timeout]) @@ @]

\* process_tasks, a tick after the last; without tasks the ids begin again at 1.
ProcessTasks(w) ==
    LET due  == {id \in DOMAIN w.tasks : w.tasks[id].left = 0}
        v    == FoldLeft(LAMBDA x, id : Close(x, w.tasks[id].c), w, SetToSortSeq(due, <))
        rest == [id \in DOMAIN w.tasks \ due |-> [w.tasks[id] EXCEPT !.left = @ - 1]]
    IN  [v EXCEPT !.tasks = rest,
                  !.highest_id = IF DOMAIN rest = {} THEN 0 ELSE @]

-----------------------------------------------------------------------------
(* Answers.                                                                *)

Reaches(w, c) == w.conn[c].sock = "open" /\ client[c].gone # "reset"

\* A status, and whether a body follows the head.
Deliver(w, c, code, body) ==
    IF Reaches(w, c)
    THEN [w EXCEPT !.got[c] = Append(@, [code |-> code, body |-> body])] ELSE w

\* do_write.
DoWrite(w, c, code, body) ==
    Post(Deliver(w, c, code, body), "written", c, "", Reaches(w, c))

DoRead(w, c) == [w EXCEPT !.conn[c].reading = TRUE]

\* The synchronous writes of do_write_static and of a long answer.
WriteNow(w, c, code, body) ==
    LET v == [CancelDeadline(Deliver(w, c, code, body), c) EXCEPT
                !.conn[c].parser = Clear(@)]
    IN  IF v.conn[c].closing THEN Close(v, c) ELSE v

\* complete_request: prepare_buffers gives an error without a body the words of its
\* status; a file and a long answer are written at once.
CompleteRequest(w, c, code, body, now) ==
    IF now THEN WriteNow(w, c, code, body)
    ELSE DoWrite(w, c, code, body \/ code >= 400)

-----------------------------------------------------------------------------
(* The routes' handlers.  The body "1" is one that a route can use, "odd"  *)
(* is JSON whose fields have other types, any other is no JSON or has not  *)
(* the fields.  When a handler throws, the router answers 500.             *)

RuleOf(req) == LET found == HandleInitial(req.method, req.url)
               IN  RulesOf(found.method)[found.rule - 1]

IsFile(r, req) == r.rule = "/static/<path>" /\ req.url \in StaticFiles

\* 400 while no breakpoint holds, or when one is deleted.
crow_setup_action(body)              == IF body = "1" THEN {200, 400} ELSE {400}
crow_setup_continue(body)            == {200, 400}
crow_setup_showContext(body)         == {200, 400}
crow_setup_isAPIAvailable(body)      == {200}
crow_setup_setBreakpoint(body)       == CASE body = "1"   -> {200, 400}
                                          [] body = "odd" -> {500}
                                          [] OTHER        -> {400}
crow_setup_showBreakpoint(body)      == {200}
crow_setup_stepi(body)               == {IF body = "1" THEN 200 ELSE 400}
crow_setup_watcher(body)             == {IF body = "1" THEN 200 ELSE 400}
crow_setup_disassemble_an_area(body) == IF body = "1" THEN {200, 400} ELSE {400}
crow_setup_pull_data(body)           == CASE body = "1"   -> {200, 400}
                                          [] body = "odd" -> {400}
                                          [] OTHER        -> {500}

HandlerCodes(r, req) ==
    CASE r.rule = "/Action"            -> crow_setup_action(req.body)
      [] r.rule = "/Continue"          -> crow_setup_continue(req.body)
      [] r.rule = "/ShowContext"       -> crow_setup_showContext(req.body)
      [] r.rule = "/IsAPIAvailable"    -> crow_setup_isAPIAvailable(req.body)
      [] r.rule = "/SetBreakpoint"     -> crow_setup_setBreakpoint(req.body)
      [] r.rule = "/ShowBreakpoint"    -> crow_setup_showBreakpoint(req.body)
      [] r.rule = "/Stepi"             -> crow_setup_stepi(req.body)
      [] r.rule = "/Watcher"           -> crow_setup_watcher(req.body)
      [] r.rule = "/DisassembleMemory" -> crow_setup_disassemble_an_area(req.body)
      [] r.rule = "/PullData"          -> crow_setup_pull_data(req.body)
      [] r.rule = "/static/<path>"     -> {IF IsFile(r, req) THEN 200 ELSE 404}
      [] r.websocket                   -> {404}

-----------------------------------------------------------------------------
(* The callbacks of the parser.                                            *)

\* handle_url, when no rule is found.
HandleUrl(w, c) ==
    LET req  == w.conn[c].parser.req
        code == HandleInitial(req.method, req.url).code
    IN  CompleteRequest(w, c, code, FALSE, FALSE)

\* handle_header, when the client waits for it.
HandleHeader(w, c) == DoWrite([w EXCEPT !.conn[c].continue_requested = TRUE], c, 100, FALSE)

\* Router::handle and response::end, which drops the body of an answer to HEAD.
HandleRule(w, c, code) ==
    LET req  == w.conn[c].parser.req
        r    == RuleOf(req)
        skip == w.conn[c].skip_body \/ req.method = "HEAD"
        now  == IsFile(r, req) \/ (r.rule \in LargeRules /\ code = 200 /\ ~skip)
    IN  [CompleteRequest(w, c, code, ~skip \/ IsFile(r, req), now)
         EXCEPT !.conn[c].skip_body = FALSE]

\* handle_upgrade: the socket goes to a web socket, or nothing is answered.
HandleUpgrade(w, c) ==
    LET v == [w EXCEPT !.conn[c].closing = TRUE]
    IN  IF RuleOf(w.conn[c].parser.req).websocket
        THEN [Deliver(v, c, 101, FALSE) EXCEPT !.conn[c].sock = "websocket"] ELSE v

\* Connection::handle.  remote_endpoint() throws when there is no peer any more.
Handle(w, c, code) ==
    LET req  == w.conn[c].parser.req
        v    == [CancelDeadline(w, c) EXCEPT !.seen[c] = Append(@, req)]
        u    == [v EXCEPT !.conn[c].closing = req.close_connection]
        host == \E i \in DOMAIN req.headers : req.headers[i][1] = "host"
    IN  CASE ~Reaches(w, c) -> [v EXCEPT !.thrown = TRUE]
          [] Reaches(w, c) /\ req.version = <<1, 1>> /\ ~host ->
                CompleteRequest([u EXCEPT !.conn[c].skip_body = @ \/ req.method = "HEAD"],
                                c, 400, FALSE, FALSE)
          [] Reaches(w, c) /\ req.version = <<1, 1>> /\ host /\ req.upgrade
                           /\ SubSeq(Header(req, "upgrade"), 1, 2) # "h2" -> HandleUpgrade(u, c)
          [] OTHER -> HandleRule(u, c, code)

Call(w, c, call, code) ==
    CASE w.thrown                      -> w
      [] ~w.thrown /\ call = "no route" -> HandleUrl(w, c)
      [] ~w.thrown /\ call = "continue" -> HandleHeader(w, c)
      [] ~w.thrown /\ call = "message"  -> Handle(w, c, code)

-----------------------------------------------------------------------------
(* Completions.                                                            *)

\* start.
Started(w, c) ==
    LET v == StartDeadline(w, c) IN DoRead([v EXCEPT !.conn[c].parser = Clear(@)], c)

\* The parser's calls happen while it runs; what they ask of it comes after them.
Feeding(w, c, bytes, code) ==
    Strict(Feed(w.conn[c].parser, bytes), LAMBDA p :
        FoldLeft(LAMBDA x, call : Strict(x, LAMBDA y : Call(y, c, call, code)),
                 [w EXCEPT !.conn[c].parser = [p EXCEPT !.calls = <<>>]], p.calls))

\* The completion of do_read, when the parser has run.
AfterRead(v, c, ok) ==
    LET done == [CancelDeadline(v, c) EXCEPT !.conn[c].parser = Done(@)]
        fine == ok /\ Fed(v.conn[c].parser) /\ v.conn[c].sock = "open"
    IN  CASE v.thrown                                      -> v
          [] ~v.thrown /\ ~fine                            -> Close(done, c)
          [] ~v.thrown /\ fine /\ v.conn[c].closing        -> done
          [] ~v.thrown /\ fine /\ ~v.conn[c].closing       -> DoRead(StartDeadline(v, c), c)

ReadDone(w, c, bytes, ok, code) ==
    Strict(IF ok THEN Feeding(w, c, bytes, code) ELSE w, LAMBDA v : AfterRead(v, c, ok))

\* The completion of do_write.
WriteDone(w, c, ok) ==
    LET v == IF w.conn[c].continue_requested
             THEN [w EXCEPT !.conn[c].continue_requested = FALSE]
             ELSE [w EXCEPT !.conn[c].parser = Clear(@)]
    IN  IF ok /\ w.conn[c].closing THEN Close(v, c) ELSE v

\* The ways in which the handler of the request that the bytes complete may answer.
Codes(c, bytes) ==
    Strict(Feed(conn[c].parser, bytes), LAMBDA p :
        IF p.calls # <<>> /\ Last(p.calls) = "message" /\ Routed(p.req.method, p.req.url)
        THEN HandlerCodes(RuleOf(p.req), p.req) ELSE {200})

\* The worker runs the next completion; an exception is logged and forgotten.
Run(kind, Outcomes(_, _)) ==
    /\ worker[1] = "running" /\ queue # <<>> /\ Head(queue).kind = kind
    /\ \E w \in Outcomes([World EXCEPT !.queue = Tail(@)], Head(queue)) : Becomes(w)
    /\ UNCHANGED <<threads, client, bounds>>

RunStart   == Run("start", LAMBDA w, e : {Started(w, e.c)})
RunRead    == Run("read", LAMBDA w, e : {ReadDone(w, e.c, e.bytes, e.ok, code) :
                                           code \in Codes(e.c, e.bytes)})
RunWritten == Run("written", LAMBDA w, e : {WriteDone(w, e.c, e.ok)})
RunTick    == Run("tick", LAMBDA w, e : {ProcessTasks(w)})

-----------------------------------------------------------------------------
(* asio, and the clients.                                                  *)

\* The acceptor's completion posts start() to the worker and accepts again.
Accept(c) ==
    /\ server = "accepting" /\ 0 \notin stopped
    /\ conn[c].sock = "none" /\ client[c].script # <<>>
    /\ conn' = [conn EXCEPT ![c].sock = "open"]
    /\ queue' = Append(queue, [kind |-> "start", c |-> c, bytes |-> "", ok |-> TRUE])
    /\ UNCHANGED <<threads, client, bounds, tasks, highest_id, got, seen, robbed>>

\* A read completes: bytes have come, or the end of the stream, or a reset.
Ready(c) ==
    /\ conn[c].reading
    /\ client[c].inbox # "" \/ client[c].gone # "no"
    /\ conn' = [conn EXCEPT ![c].reading = FALSE]
    /\ queue' = Append(queue, [kind |-> "read", c |-> c, bytes |-> client[c].inbox,
                               ok |-> client[c].inbox # ""])
    /\ client' = [client EXCEPT ![c].inbox = ""]
    /\ UNCHANGED <<threads, bounds, tasks, highest_id, got, seen, robbed>>

\* A second has passed.
Tick ==
    /\ worker[1] = "running"
    /\ \A i \in DOMAIN queue : queue[i].kind # "tick"
    /\ queue' = Append(queue, [kind |-> "tick", c |-> "none", bytes |-> "", ok |-> TRUE])
    /\ UNCHANGED <<threads, client, bounds, conn, tasks, highest_id, got, seen, robbed>>

\* The answers but the 100s.
Final(c) == SelectSeq(got[c], LAMBDA a : a.code # 100)

\* The request that is being written, and whether it may be begun or carried on.
Writing(c) == client[c].script[client[c].at]
MayWrite(c) ==
    /\ conn[c].sock = "open" /\ client[c].gone = "no" /\ main = "up"
    /\ client[c].at <= Len(client[c].script)
    /\ client[c].sent = 0 => Len(Final(c)) = client[c].at - 1

\* The rest of a request comes, or a part of it.
Send(c) ==
    /\ MayWrite(c)
    /\ LET bytes == Wire[Writing(c)]
           from  == client[c].sent + 1
       IN  /\ client' = [client EXCEPT ![c].inbox = @ \o SubSeq(bytes, from, Len(bytes)),
                                       ![c].sent = 0, ![c].at = @ + 1]
           /\ UNCHANGED <<threads, bounds, io>>

SendPart(c) ==
    /\ MayWrite(c) /\ cuts > 0
    /\ LET bytes == Wire[Writing(c)]
           from  == client[c].sent + 1
       IN  \E n \in from..(Len(bytes) - 1) :
              /\ client' = [client EXCEPT ![c].inbox = @ \o SubSeq(bytes, from, n),
                                          ![c].sent = n,
                                          ![c].split = @ \/ InTarget(Writing(c), n)]
              /\ cuts' = cuts - 1
              /\ UNCHANGED <<threads, leaves, stops, io>>

\* The client ends its half of the connection, or resets it and what it wrote is lost.
Leave(c, how) ==
    /\ conn[c].sock = "open" /\ client[c].gone = "no" /\ main = "up"
    /\ leaves > 0 /\ leaves' = leaves - 1
    /\ client' = [client EXCEPT ![c].gone = how,
                                ![c].inbox = IF how = "reset" THEN "" ELSE @]
    /\ UNCHANGED <<threads, cuts, stops, io>>

-----------------------------------------------------------------------------
(* The server's threads.                                                   *)

\* crow::Crow::run makes the Server; its run() puts the io_services of the workers into
\* the pool one by one, starts the workers and accepts when all of them are there.
MakeServer ==
    /\ server = "none" /\ server' = "made"
    /\ UNCHANGED <<main, pool, worker, stopped, client, bounds, io>>

MakeService ==
    /\ server = "made" /\ pool < Workers /\ pool' = pool + 1
    /\ UNCHANGED <<main, server, worker, stopped, client, bounds, io>>

StartWorkers ==
    /\ server = "made" /\ pool = Workers /\ server' = "pool"
    /\ worker' = [k \in 1..Workers |-> "running"]
    /\ UNCHANGED <<main, pool, stopped, client, bounds, io>>

DoAccept ==
    /\ server = "pool" /\ server' = "accepting"
    /\ UNCHANGED <<main, pool, worker, stopped, client, bounds, io>>

\* io_service::run returns when it is stopped, and then once more, with 0.
WorkerExits(k) ==
    /\ worker[k] = "running" /\ k \in stopped
    /\ worker' = [worker EXCEPT ![k] = "exited"]
    /\ UNCHANGED <<main, server, pool, stopped, client, bounds, io>>

\* The thread of the acceptor ends; run() then waits for the futures of the workers.
AcceptEnds ==
    /\ server = "accepting" /\ 0 \in stopped /\ server' = "closing"
    /\ UNCHANGED <<main, pool, worker, stopped, client, bounds, io>>

RunReturns ==
    /\ server = "closing" /\ \A k \in 1..Workers : worker[k] = "exited"
    /\ server' = "done"
    /\ UNCHANGED <<main, pool, worker, stopped, client, bounds, io>>

\* Before the pool is complete, stop() misses an io_service.
PoolComplete == pool = Workers

\* Mutant: the last io_service of the pool is not stopped.
Stop_MissesOne ==
    /\ main = "up" /\ stops > 0 /\ stops' = stops - 1
    /\ main' = IF PoolComplete THEN "joining" ELSE "joining early"
    /\ stopped' = IF server = "none" THEN {} ELSE 0..(pool - 1)
    /\ UNCHANGED <<server, pool, worker, client, cuts, leaves, io>>

\* ~RemoteDebugServer: app.stop() finds the Server only when it has been made, and
\* Server::stop() the io_services that are in the pool.
Stop ==
    /\ main = "up" /\ stops > 0 /\ stops' = stops - 1
    /\ main' = IF PoolComplete THEN "joining" ELSE "joining early"
    /\ stopped' = IF server = "none" THEN {} ELSE 0..pool
    /\ UNCHANGED <<server, pool, worker, client, cuts, leaves, io>>

Join ==
    /\ main \in {"joining", "joining early"} /\ server = "done" /\ main' = "done"
    /\ UNCHANGED <<server, pool, worker, stopped, client, bounds, io>>

-----------------------------------------------------------------------------
NewConnection ==
    [sock |-> "none", reading |-> FALSE, task_id |-> 0, parser |-> NewParser, closing |-> FALSE,
     continue_requested |-> FALSE, skip_body |-> FALSE]

Init ==
    /\ main = "up" /\ server = "none" /\ pool = 0 /\ stopped = {}
    /\ worker = [k \in 1..Workers |-> "off"]
    /\ conn = [c \in Clients |-> NewConnection]
    /\ queue = <<>> /\ tasks = <<>> /\ highest_id = 0
    /\ got = [c \in Clients |-> <<>>] /\ seen = [c \in Clients |-> <<>>] /\ robbed = {}
    /\ \E x \in Scenarios :
          /\ cuts = x.cuts /\ leaves = x.leaves /\ stops = x.stops
          /\ client = [c \in Clients |->
                         [script |-> x.script[c], at |-> 1, sent |-> 0, inbox |-> "",
                          gone |-> "no", split |-> FALSE]]

Worker == RunStart \/ RunRead \/ RunWritten \/ RunTick
Thread == MakeServer \/ MakeService \/ StartWorkers \/ DoAccept \/ AcceptEnds \/ RunReturns

Next ==
    \/ Worker \/ Thread \/ Tick \/ Stop \/ Join
    \/ \E k \in 1..Workers : WorkerExits(k)
    \/ \E c \in Clients :
          \/ Accept(c) \/ Ready(c) \/ Send(c) \/ SendPart(c)
          \/ \E how \in {"fin", "reset"} : Leave(c, how)

\* Weak fairness of Worker, written out: Worker is enabled while the queue holds a
\* completion, and its steps are those that take the head off the queue.
WorkerFair ==
    \/ []<>~(worker[1] = "running" /\ queue # <<>>)
    \/ []<><<worker[1] = "running" /\ queue # <<>> /\ ~IsPrefix(queue, queue')>>_vars

\* The threads run, the reactor reports what has come, and time passes.  Clients owe
\* nothing.
Spec ==
    /\ Init /\ [][Next]_vars
    /\ WorkerFair /\ WF_vars(Thread) /\ WF_vars(Tick) /\ WF_vars(Join)
    /\ \A k \in 1..Workers : WF_vars(WorkerExits(k))
    /\ \A c \in Clients : WF_vars(Ready(c))

-----------------------------------------------------------------------------
(* What a client may expect, stated without the parser and the trie.       *)

Path(m) == LET q == SelectInSeq([i \in 1..Len(m.target) |-> At(m.target, i - 1)],
                                LAMBDA ch : ch = "?")
           IN  IF q = 0 THEN m.target ELSE SubSeq(m.target, 1, q - 1)

Names(r, m) == \/ r.rule = Path(m)
               \/ /\ r.rule = "/static/<path>" /\ Len(Path(m)) > 8
                  /\ SubSeq(Path(m), 1, 8) = "/static/"

RuleFor(m, method) == SelectSeq(Routes, LAMBDA r : Names(r, m) /\ method \in r.methods)
Field(m, name) == SelectSeq(m.headers, LAMBDA h : Lower(h[1]) = name)

\* Headers with a value: one without is not kept unless it is the last (on_header_field,
\* on_headers_complete).
Valued(headers) == SelectSeq(headers, LAMBDA h : h[2] # "")

\* The request handle() should see, as far as its headers have values.
Wanted(m) ==
    [method |-> m.method, url |-> Path(m), raw_url |-> m.target, body |-> m.body,
     headers |-> Valued([i \in DOMAIN m.headers |->
                            <<Lower(m.headers[i][1]), m.headers[i][3]>>])]

\* The statuses a request may be answered with; none when the connection is closed
\* instead.  A Host without a value may count as none.
Expected(m) ==
    LET get  == IF m.method = "HEAD" THEN "GET" ELSE m.method
        rule == RuleFor(m, get)
        any  == SelectSeq(Routes, LAMBDA r : Names(r, m)) # <<>>
        none == m.version = "1.1" /\ \A i \in DOMAIN Field(m, "host") :
                                        Field(m, "host")[i][3] = ""
        up   == m.version = "1.1" /\ Field(m, "upgrade") # <<>>
    IN  CASE ~m.sound                                                  -> {}
          [] m.sound /\ rule = <<>> ->
                {IF m.method = "OPTIONS" /\ any THEN 204
                 ELSE IF m.method \in {"OPTIONS", "HEAD"} \/ ~any THEN 404 ELSE 405}
          [] m.sound /\ rule # <<>> /\ none /\ Field(m, "host") = <<>> -> {400}
          [] OTHER -> (IF none THEN {400} ELSE {}) \cup
                      IF up THEN IF rule[1].websocket THEN {101} ELSE {}
                      ELSE HandlerCodes(rule[1], [url |-> Path(m), body |-> m.body])

ExpectedOf == [m \in DOMAIN Wire |-> Expected(m)]
WantedOf == [m \in DOMAIN Wire |-> Wanted(m)]

\* An answer has a body unless it is the answer to a HEAD or its status has none.
BodyExpected(m, code) == code \notin {101, 204} /\ m.method # "HEAD"

\* Where skip_body fails: an error and a file are written with their bodies whatever the
\* method, and a HEAD without Host leaves it set for the answers that follow.
SkipBodyFails(c, i, code) ==
    LET m == client[c].script[i]
    IN  \/ m.method = "HEAD" /\ (code >= 400 \/ Path(m) \in StaticFiles)
        \/ \E j \in 1..(i - 1) : /\ client[c].script[j].method = "HEAD"
                                 /\ 400 \in ExpectedOf[client[c].script[j]]

-----------------------------------------------------------------------------
(* Properties.                                                             *)

\* Whatever pieces a request comes in (Connection::do_read, HTTPParser), handle() is
\* called once for it, in order, with the method, url, headers and body the client
\* wrote, headers without a value aside; never for a request whose length overflows or whose framing is wrong.  Pieces
\* that end within the target are excepted: on_url routes them as they are.
RequestsIntact ==
    \A c \in Clients :
        /\ conn[c].parser.http_errno # "ASSERT"
        /\ ~client[c].split =>
              /\ Len(seen[c]) < client[c].at
              /\ \A i \in DOMAIN seen[c] :
                    LET m == client[c].script[i]
                        r == seen[c][i]
                    IN  /\ m.sound
                        /\ [method |-> r.method, url |-> r.url, raw_url |-> r.raw_url,
                            body |-> r.body, headers |-> Valued(r.headers)] = WantedOf[m]

\* A client gets the answers to its requests in order, one each, with a status that the
\* list of routes, not the trie, gives it, and with a body where there should be one,
\* except where skip_body is known to fail (SkipBodyFails).
AnswersInOrder ==
    \A c \in Clients : ~client[c].split =>
        /\ Len(Final(c)) < client[c].at + IF client[c].sent > 0 THEN 1 ELSE 0
        /\ \A i \in DOMAIN Final(c) :
              LET a == Final(c)[i]
              IN  /\ a.code \in ExpectedOf[client[c].script[i]]
                  /\ \/ a.body = BodyExpected(client[c].script[i], a.code)
                     \/ SkipBodyFails(c, i, a.code)

\* The server waits for bytes only when the client owes some: when all bytes of its
\* requests have been read, their answers have been written.
NothingOwed ==
    \A c \in Clients :
        /\ conn[c].reading /\ client[c].inbox = "" /\ client[c].sent = 0
        /\ ~client[c].split /\ client[c].gone # "reset"
        => Len(Final(c)) = client[c].at - 1

\* Every request is answered once, in order, as the routes say, and none is left without
\* its answer (Connection::handle, complete_request, do_write_general).
AnswersMatch == AnswersInOrder /\ NothingOwed

\* A connection does not stay open: its client leaves or is silent, and the deadline
\* closes it, unless that was cancelled by another connection or the server stops.
IdleCloses ==
    \A c \in Clients :
        conn[c].sock = "open" ~> conn[c].sock # "open" \/ c \in robbed \/ main # "up"

\* ~RemoteDebugServer returns: the acceptor and the workers end when they are stopped,
\* unless that comes before the pool is complete (crow's run() then never returns).
StopEnds == main = "joining" ~> main = "done"

==============================================================================
