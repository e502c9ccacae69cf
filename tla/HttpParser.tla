------------------------------ MODULE HttpParser ------------------------------
(***************************************************************************)
(* crow's parser of HTTP requests: http_parser_execute, the state machine  *)
(* of http_parser_merged.h, and HTTPParser of parser.h, whose callbacks    *)
(* build the request.  A parser is a record that lives between two reads   *)
(* of the socket; Feed is one call of feed() on the bytes of one read.     *)
(*                                                                         *)
(* A byte is a string of one character.  Bytes that are neither printable  *)
(* nor white space, the backquote, the backslash and the quotation mark do *)
(* not occur.  The header bytes of a run are counted                       *)
(* one by one, where the code counts them at the end of the run.           *)
(*                                                                         *)
(* "mark" is the part of the message whose bytes are being collected in    *)
(* this call (the *_mark pointers), "data" those bytes; "calls" are the    *)
(* calls into the connection, in order.                                    *)
(***************************************************************************)
EXTENDS Router

CONSTANTS
    LengthMax,          \* CROW_ULLONG_MAX, 2^64 - 1 in the code
    MaxHeaderSize       \* CROW_HTTP_MAX_HEADER_SIZE

ASSUME HttpParserAssumption == LengthMax \in Nat /\ LengthMax > 32 /\ MaxHeaderSize \in Nat

CR == "\r"
LF == "\n"

Chars(s) == {At(s, i) : i \in 0..(Len(s) - 1)}

-----------------------------------------------------------------------------
(* Classes of characters.                                                  *)

Large == "ABCDEFGHIJKLMNOPQRSTUVWXYZ"
Small == "abcdefghijklmnopqrstuvwxyz"
Digit == Chars("0123456789")
IS_ALPHA == Chars(Large) \cup Chars(Small)
IS_ALPHANUM == IS_ALPHA \cup Digit
IS_MARK == Chars("-_.!~')*(")
IS_USERINFO_CHAR == IS_ALPHANUM \cup IS_MARK \cup Chars("%;:&=+$,")
tokens == IS_ALPHANUM \cup Chars("!#$%&'*+-.^_|~")
normal_url_char == IS_ALPHANUM \cup Chars("!$%&')*(+,-./:;<=>@[]^_{|}~")

LowerOf == [c \in Chars(Large) |->
              LET i == CHOOSE i \in 1..26 : SubSeq(Large, i, i) = c IN SubSeq(Small, i, i)]
LOWER(c) == IF c \in DOMAIN LowerOf THEN LowerOf[c] ELSE c

Value == [c \in Digit |-> CHOOSE n \in 0..9 : ToString(n) = c]
unhex == Value @@ [c \in Chars("abcdefABCDEF") |->
                     CHOOSE n \in 10..15 : At("abcdef", n - 10) = LOWER(c)]

-----------------------------------------------------------------------------
(* The methods: the one the first letter suggests, and the letters at which *)
(* another one is tried.                                                   *)

FirstMethod ==
    "A" :> "ACL" @@ "B" :> "BIND" @@ "C" :> "CONNECT" @@ "D" :> "DELETE" @@ "G" :> "GET" @@
    "H" :> "HEAD" @@ "L" :> "LOCK" @@ "M" :> "MKCOL" @@ "N" :> "NOTIFY" @@ "O" :> "OPTIONS" @@
    "P" :> "POST" @@ "R" :> "REPORT" @@ "S" :> "SUBSCRIBE" @@ "T" :> "TRACE" @@ "U" :> "UNLOCK"

OtherMethod ==
    <<"POST", 1, "U">> :> "PUT" @@ <<"POST", 1, "A">> :> "PATCH" @@
    <<"POST", 1, "R">> :> "PROPFIND" @@ <<"PUT", 2, "R">> :> "PURGE" @@
    <<"CONNECT", 1, "H">> :> "CHECKOUT" @@ <<"CONNECT", 2, "P">> :> "COPY" @@
    <<"MKCOL", 1, "O">> :> "MOVE" @@ <<"MKCOL", 1, "E">> :> "MERGE" @@
    <<"MKCOL", 1, "-">> :> "M-SEARCH" @@ <<"MKCOL", 2, "A">> :> "MKACTIVITY" @@
    <<"MKCOL", 3, "A">> :> "MKCALENDAR" @@ <<"SUBSCRIBE", 1, "E">> :> "SEARCH" @@
    <<"SUBSCRIBE", 1, "O">> :> "SOURCE" @@ <<"REPORT", 2, "B">> :> "REBIND" @@
    <<"PROPFIND", 4, "P">> :> "PROPPATCH" @@ <<"LOCK", 1, "I">> :> "LINK" @@
    <<"UNLOCK", 2, "S">> :> "UNSUBSCRIBE" @@ <<"UNLOCK", 2, "B">> :> "UNBIND" @@
    <<"UNLOCK", 3, "I">> :> "UNLINK"

-----------------------------------------------------------------------------
(* The parser, and the request it builds.                                  *)

NewRequest == [method |-> "GET", raw_url |-> "", url |-> "", headers |-> <<>>, body |-> "",
               version |-> <<0, 0>>, keep_alive |-> FALSE, close_connection |-> FALSE,
               upgrade |-> FALSE]

\* http_parser_init.
NewParser ==
    [state |-> "s_start_req", header_state |-> "h_general", index |-> 0, flags |-> {},
     uses_transfer_encoding |-> FALSE, nread |-> 0, content_length |-> 0, qs_point |-> 0,
     method |-> "DELETE", http_major |-> 0, http_minor |-> 0, http_errno |-> "OK",
     upgrade |-> FALSE,
     req |-> NewRequest, header_field |-> "", header_value |-> "", building |-> 0,
     message_complete |-> FALSE,
     mark |-> "none", data |-> "", url_start |-> FALSE, left |-> FALSE, calls |-> <<>>]

\* HTTPParser::clear: neither http_errno nor nread is reset.
Clear(p) ==
    [p EXCEPT !.req = NewRequest, !.header_field = "", !.header_value = "", !.building = 0,
              !.qs_point = 0, !.message_complete = FALSE, !.state = "s_start_req"]

\* CROW_SET_ERRNO and goto error.
Fail(p, e) == [p EXCEPT !.http_errno = e]
STRICT_CHECK(p, ok, then) == IF ok THEN then ELSE Fail(p, "STRICT")
To(p, s) == [p EXCEPT !.state = s]
Mark(p, what) == IF p.mark = "none" THEN [p EXCEPT !.mark = what, !.data = ""] ELSE p
Keep(p, ch) == [p EXCEPT !.data = @ \o ch]
Tell(p, call) == [p EXCEPT !.calls = Append(@, call)]

\* req.headers.emplace; names are compared without regard to case.
Emplace(p) ==
    [p EXCEPT !.req.headers = Append(@, <<p.header_field, p.header_value>>),
              !.header_field = "", !.header_value = ""]

Header(req, name) ==
    LET S == {i \in DOMAIN req.headers : req.headers[i][1] = name}
    IN  IF S = {} THEN "" ELSE req.headers[CHOOSE i \in S : \A j \in S : i <= j][2]

\* on_url: the url so far is looked up, however much of it has come.  When no rule
\* is found, handle_url ends the parser with done(), which sets an errno.
on_url(p) ==
    LET raw == p.req.raw_url \o p.data
        url == IF p.qs_point \in 1..Len(raw) THEN SubSeq(raw, 1, p.qs_point) ELSE raw
        q   == [p EXCEPT !.req.raw_url = raw, !.req.url = url]
    IN  IF Routed(p.req.method, url)
        THEN q ELSE Fail(Tell(q, "no route"), "INVALID_EOF_STATE")

on_header_field(p) ==
    IF p.building = 1
    THEN [p EXCEPT !.header_field = @ \o p.data]
    ELSE [IF p.header_value # "" THEN Emplace(p) ELSE p
          EXCEPT !.header_field = p.data, !.building = 1]

on_header_value(p) ==
    IF p.building = 1
    THEN [p EXCEPT !.header_value = p.data, !.building = 0]
    ELSE [p EXCEPT !.header_value = @ \o p.data]

on_body(p) == [p EXCEPT !.req.body = @ \o p.data]

\* CROW_CALLBACK_DATA.
Unmark(p) == [p EXCEPT !.mark = "none", !.data = ""]
FlushUrl(p) == Unmark(on_url(p))
Flush(p) ==
    Unmark(CASE p.mark = "field" -> on_header_field(p)
             [] p.mark = "value" -> on_header_value(p)
             [] p.mark = "body"  -> on_body(p)
             [] p.mark = "none"  -> p)

\* set_connection_parameters.
Connection(p) ==
    LET v == <<p.http_major, p.http_minor>>
        has(f) == f \in p.flags
    IN  [p EXCEPT
          !.req.version = v,
          !.req.keep_alive = (v = <<1, 0>> /\ has("KEEP_ALIVE")) \/ v = <<1, 1>>,
          !.req.close_connection =
              (v = <<1, 0>> /\ ~has("KEEP_ALIVE")) \/ (v = <<1, 1>> /\ has("CLOSE")),
          !.req.upgrade = p.upgrade]

\* on_headers_complete and handle_header.
on_headers_complete(p) ==
    LET q == Connection(IF p.header_field # "" THEN Emplace(p) ELSE p)
    IN  IF q.req.version = <<1, 1>> /\ Header(q.req, "expect") = "100-continue"
        THEN Tell(q, "continue") ELSE q

on_message_complete(p) == Tell([p EXCEPT !.message_complete = TRUE], "message")

-----------------------------------------------------------------------------
(* parse_url_char.                                                         *)

ServerStates == {"s_req_server_start", "s_req_server", "s_req_server_with_at"}
QueryStates  == {"s_req_query_string_start", "s_req_query_string"}
SchemaStates == {"s_req_schema", "s_req_schema_slash", "s_req_schema_slash_slash"}
UrlStates    == SchemaStates \cup ServerStates \cup QueryStates \cup {"s_req_path"}

UrlMove(s, ch) ==
    CASE s = "s_req_spaces_before_url" /\ ch \in {"/", "*"}       -> "s_req_path"
      [] s = "s_req_spaces_before_url" /\ ch \in IS_ALPHA         -> "s_req_schema"
      [] s = "s_req_schema" /\ ch \in IS_ALPHA                    -> s
      [] s = "s_req_schema" /\ ch = ":"                           -> "s_req_schema_slash"
      [] s = "s_req_schema_slash" /\ ch = "/"                     -> "s_req_schema_slash_slash"
      [] s = "s_req_schema_slash_slash" /\ ch = "/"               -> "s_req_server_start"
      [] s \in ServerStates /\ ch = "/"                           -> "s_req_path"
      [] s \in ServerStates /\ ch = "?"                           -> "s_req_query_string_start"
      [] s \in ServerStates \ {"s_req_server_with_at"} /\ ch = "@" -> "s_req_server_with_at"
      [] s \in ServerStates /\ ch \in IS_USERINFO_CHAR \cup {"[", "]"} -> "s_req_server"
      [] s = "s_req_path" /\ ch \in normal_url_char               -> s
      [] s = "s_req_path" /\ ch = "?"                             -> "s_req_query_string_start"
      [] s \in QueryStates /\ ch \in normal_url_char \cup {"?"}   -> "s_req_query_string"
      [] OTHER                                                    -> "s_dead"

\* qs_point is the distance from the start of the url, when that was seen in this
\* call of http_parser_execute, and from a null pointer otherwise.
parse_url_char(p, s, ch) ==
    LET t == UrlMove(s, ch)
    IN  IF t = "s_dead" THEN Fail(To(p, t), "INVALID_URL")
        ELSE Keep([p EXCEPT !.state = t,
                            !.qs_point = IF t # "s_req_query_string_start" THEN @
                                         ELSE IF p.url_start THEN Len(p.data) ELSE LengthMax],
                  ch)

-----------------------------------------------------------------------------
(* The request line.                                                       *)

s_start_req(p, ch) ==
    LET q == [p EXCEPT !.flags = {}, !.uses_transfer_encoding = FALSE,
                       !.content_length = LengthMax]
    IN  IF ch \in {CR, LF} THEN p
        ELSE IF ch \notin DOMAIN FirstMethod THEN Fail(q, "INVALID_METHOD")
        ELSE [q EXCEPT !.method = FirstMethod[ch], !.index = 1, !.state = "s_req_method"]

\* on_method is called for every letter.
s_req_method(p, ch) ==
    LET advance(m, s) == [p EXCEPT !.method = m, !.req.method = m, !.state = s, !.index = @ + 1]
        other == <<p.method, p.index, ch>>
    IN  CASE ch = " " /\ At(p.method, p.index) = "" -> advance(p.method, "s_req_spaces_before_url")
          [] ch = At(p.method, p.index)             -> advance(p.method, p.state)
          [] other \in DOMAIN OtherMethod           -> advance(OtherMethod[other], p.state)
          [] OTHER                                  -> Fail(p, "INVALID_METHOD")

s_req_spaces_before_url(p, ch) ==
    IF ch = " " THEN p
    ELSE parse_url_char([Mark(p, "url") EXCEPT !.url_start = TRUE],
                        IF p.method = "CONNECT" THEN "s_req_server_start" ELSE p.state, ch)

s_req_server(p, ch) ==
    CASE ch = " " -> FlushUrl(To(p, "s_req_http_start"))
      [] ch \in {CR, LF} /\ p.method # "GET" -> Fail(To(p, "s_dead"), "INVALID_VERSION")
      [] ch \in {CR, LF} /\ p.method = "GET" ->
            FlushUrl([p EXCEPT !.http_major = 0, !.http_minor = 9,
                               !.state = IF ch = CR THEN "s_req_line_almost_done"
                                         ELSE "s_header_field_start"])
      [] OTHER -> parse_url_char(p, p.state, ch)

Url(p, ch) ==
    CASE p.state \notin SchemaStates \cup {"s_req_server_start"} -> s_req_server(p, ch)
      [] ch \in {" ", CR, LF}                                    -> Fail(p, "INVALID_URL")
      [] OTHER                                                   -> parse_url_char(p, p.state, ch)

s_req_http_start(p, ch) ==
    CASE ch = " "                              -> p
      [] ch = "H"                              -> To(p, "s_req_http_H")
      [] ch = "I" /\ p.method = "SOURCE"       -> To(p, "s_req_http_I")
      [] OTHER                                 -> Fail(p, "INVALID_CONSTANT")

\* The letters of "HTTP/" and of "ICE/".
HttpLetter ==
    "s_req_http_H" :> <<"T", "s_req_http_HT">> @@ "s_req_http_HT" :> <<"T", "s_req_http_HTT">> @@
    "s_req_http_HTT" :> <<"P", "s_req_http_HTTP">> @@ "s_req_http_I" :> <<"C", "s_req_http_IC">> @@
    "s_req_http_IC" :> <<"E", "s_req_http_HTTP">> @@ "s_req_http_HTTP" :> <<"/", "s_req_http_major">>

s_req_http(p, ch) == STRICT_CHECK(p, ch = HttpLetter[p.state][1], To(p, HttpLetter[p.state][2]))

HttpVersion(p, ch) ==
    CASE p.state = "s_req_http_major" /\ ch \in Digit ->
            [p EXCEPT !.http_major = Value[ch], !.state = "s_req_http_dot"]
      [] p.state = "s_req_http_dot" /\ ch = "." -> To(p, "s_req_http_minor")
      [] p.state = "s_req_http_minor" /\ ch \in Digit ->
            [p EXCEPT !.http_minor = Value[ch], !.state = "s_req_http_end"]
      [] p.state = "s_req_http_end" /\ ch = CR -> To(p, "s_req_line_almost_done")
      [] p.state = "s_req_http_end" /\ ch = LF -> To(p, "s_header_field_start")
      [] p.state = "s_req_line_almost_done" /\ ch = LF -> To(p, "s_header_field_start")
      [] OTHER -> Fail(p, IF p.state = "s_req_line_almost_done" THEN "LF_EXPECTED"
                          ELSE "INVALID_VERSION")

-----------------------------------------------------------------------------
(* The headers.                                                            *)

\* The names the parser knows: the state that matches one, the name, the state
\* of its value.
Matching ==
    "h_matching_connection" :> <<"connection", "h_connection">> @@
    "h_matching_proxy_connection" :> <<"proxy-connection", "h_connection">> @@
    "h_matching_content_length" :> <<"content-length", "h_content_length">> @@
    "h_matching_transfer_encoding" :> <<"transfer-encoding", "h_transfer_encoding">> @@
    "h_matching_upgrade" :> <<"upgrade", "h_upgrade">> @@
    "h_matching_transfer_encoding_chunked" :> <<"chunked", "h_transfer_encoding_chunked">> @@
    "h_matching_connection_keep_alive" :> <<"keep-alive", "h_connection_keep_alive">> @@
    "h_matching_connection_close" :> <<"close", "h_connection_close">>

\* The next letter of a name that is being matched; otherwise another state.
MatchLetter(p, c, otherwise) ==
    LET name == Matching[p.header_state][1]
        i    == p.index + 1
    IN  [p EXCEPT !.index = i,
                  !.header_state = IF c # At(name, i) THEN otherwise
                                   ELSE IF i = Len(name) - 1 THEN Matching[p.header_state][2]
                                   ELSE @]

s_headers_done(p) ==
    LET q == [p EXCEPT !.nread = 0]
    IN  CASE p.upgrade -> [on_message_complete(q) EXCEPT !.left = TRUE]
          [] ~p.upgrade /\ "CHUNKED" \in p.flags -> To(q, "s_chunk_size_start")
          [] ~p.upgrade /\ "CHUNKED" \notin p.flags /\ p.uses_transfer_encoding ->
                Fail(q, "INVALID_TRANSFER_ENCODING")
          [] OTHER -> IF p.content_length \in {0, LengthMax} THEN on_message_complete(q)
                      ELSE To(q, "s_body_identity")

s_headers_almost_done(p, ch) ==
    LET q == [p EXCEPT !.state = "s_headers_done",
                       !.upgrade = ("UPGRADE" \in p.flags \/ p.method = "CONNECT")]
    IN  CASE ch # LF -> Fail(p, "STRICT")
          [] ch = LF /\ "TRAILING" \in p.flags -> on_message_complete(p)
          [] ch = LF /\ "TRAILING" \notin p.flags
                     /\ p.uses_transfer_encoding /\ "LENGTH" \in p.flags ->
                Fail(p, "UNEXPECTED_CONTENT_LENGTH")
          [] OTHER -> s_headers_done(on_headers_complete(q))

FirstHeaderState ==
    "c" :> "h_C" @@ "p" :> "h_matching_proxy_connection" @@
    "t" :> "h_matching_transfer_encoding" @@ "u" :> "h_matching_upgrade"

s_header_field_start(p, ch) ==
    CASE ch = CR -> To(p, "s_headers_almost_done")
      [] ch = LF -> s_headers_almost_done(To(p, "s_headers_almost_done"), ch)
      [] ch \in tokens ->
            Keep([Mark(p, "field") EXCEPT
                    !.index = 0, !.state = "s_header_field",
                    !.header_state = IF LOWER(ch) \in DOMAIN FirstHeaderState
                                     THEN FirstHeaderState[LOWER(ch)] ELSE "h_general"],
                 LOWER(ch))
      [] OTHER -> Fail(p, "INVALID_HEADER_TOKEN")

HeaderLetter(p, c) ==
    LET step(s) == [p EXCEPT !.index = @ + 1, !.header_state = s]
        h == p.header_state
        q == MatchLetter(p, c, "h_general")
    IN  CASE h = "h_C"   -> step(IF c = "o" THEN "h_CO" ELSE "h_general")
          [] h = "h_CO"  -> step(IF c = "n" THEN "h_CON" ELSE "h_general")
          [] h = "h_CON" -> step(CASE c = "n" -> "h_matching_connection"
                                   [] c = "t" -> "h_matching_content_length"
                                   [] OTHER   -> "h_general")
          [] h \in DOMAIN Matching ->
                [q EXCEPT !.uses_transfer_encoding =
                            (@ \/ q.header_state = "h_transfer_encoding")]
          [] OTHER -> [p EXCEPT !.header_state = "h_general"]

s_header_field(p, ch) ==
    CASE ch \in tokens -> Keep(HeaderLetter(p, LOWER(ch)), LOWER(ch))
      [] ch = ":"      -> Flush(To(p, "s_header_value_discard_ws"))
      [] OTHER         -> Fail(p, "INVALID_HEADER_TOKEN")

\* The first byte of a value, or of the continuation of a folded one.  "next" is
\* the byte after it in this call, "" when there is none.
s_header_value_start(p, ch, next) ==
    LET q == Keep([Mark(p, "value") EXCEPT !.state = "s_header_value", !.index = 0], ch)
        h(s) == [q EXCEPT !.header_state = s]
        c == LOWER(ch)
    IN  CASE p.header_state = "h_upgrade" ->
                [h("h_general") EXCEPT !.flags = IF ch # "h" \/ next # "2"
                                                 THEN @ \cup {"UPGRADE"} ELSE @]
          [] p.header_state = "h_transfer_encoding" ->
                h(IF c = "c" THEN "h_matching_transfer_encoding_chunked"
                  ELSE "h_matching_transfer_encoding_token")
          [] p.header_state = "h_content_length" ->
                IF ch \notin Digit THEN Fail(q, "INVALID_CONTENT_LENGTH")
                ELSE IF "LENGTH" \in p.flags THEN Fail(q, "UNEXPECTED_CONTENT_LENGTH")
                ELSE [h("h_content_length_num") EXCEPT !.flags = @ \cup {"LENGTH"},
                                                       !.content_length = Value[ch]]
          [] p.header_state = "h_connection" ->
                h(CASE c = "k" -> "h_matching_connection_keep_alive"
                    [] c = "c" -> "h_matching_connection_close"
                    [] OTHER   -> "h_general")
          [] p.header_state \in {"h_matching_transfer_encoding_token_start",
                                 "h_content_length_ws"} -> q
          [] OTHER -> h("h_general")

s_header_value_discard_ws(p, ch, next) ==
    CASE ch \in {" ", "\t"} -> p
      [] ch = CR -> To(p, "s_header_value_discard_ws_almost_done")
      [] ch = LF -> To(p, "s_header_value_discard_lws")
      [] OTHER   -> s_header_value_start(p, ch, next)

\* Mutant: the number wraps before it is compared.
LengthDigit_Wraps(p, digit, base) ==
    [p EXCEPT !.content_length = (@ * base + digit) % (LengthMax + 1)]

\* One more digit of a Content-Length or of the size of a chunk, with the test of
\* overflow "against a conservative limit".
LengthDigit(p, digit, base) ==
    IF (LengthMax - base) \div base < p.content_length
    THEN Fail(p, "INVALID_CONTENT_LENGTH")
    ELSE [p EXCEPT !.content_length = @ * base + digit]

HeaderValueByte(p, ch) ==
    LET h == p.header_state
        c == LOWER(ch)
        to(s) == [p EXCEPT !.header_state = s]
    IN  CASE h \in {"h_content_length", "h_content_length_num"} /\ ch = " " ->
                to(IF h = "h_content_length" THEN h ELSE "h_content_length_ws")
          [] h \in {"h_content_length", "h_content_length_num"} /\ ch \in Digit ->
                LengthDigit(to("h_content_length_num"), Value[ch], 10)
          [] h \in {"h_content_length", "h_content_length_num", "h_content_length_ws"} ->
                IF h = "h_content_length_ws" /\ ch = " " THEN p
                ELSE Fail(p, "INVALID_CONTENT_LENGTH")
          [] h = "h_matching_transfer_encoding_token_start" ->
                (CASE c = "c"            -> to("h_matching_transfer_encoding_chunked")
                   [] c \in tokens \ {"c"} -> to("h_matching_transfer_encoding_token")
                   [] c \in {" ", "\t"}  -> p
                   [] OTHER              -> to("h_general"))
          [] h = "h_matching_transfer_encoding_chunked" ->
                MatchLetter(p, c, "h_matching_transfer_encoding_token")
          [] h = "h_matching_transfer_encoding_token" ->
                IF ch # "," THEN p
                ELSE [to("h_matching_transfer_encoding_token_start") EXCEPT !.index = 0]
          [] h \in {"h_matching_connection_keep_alive", "h_matching_connection_close"} ->
                MatchLetter(p, c, "h_general")
          [] h = "h_transfer_encoding_chunked" ->
                IF ch = " " THEN p ELSE to("h_matching_transfer_encoding_token")
          [] h \in {"h_connection_keep_alive", "h_connection_close"} ->
                IF ch = " " THEN p ELSE to("h_general")
          [] OTHER -> to("h_general")

s_header_almost_done(p, ch) ==
    IF ch = LF THEN To(p, "s_header_value_lws") ELSE Fail(p, "LF_EXPECTED")

s_header_value(p, ch) ==
    CASE ch = CR -> Flush(To(p, "s_header_almost_done"))
      [] ch = LF -> s_header_almost_done(Flush(To(p, "s_header_almost_done")), ch)
      [] ch = "\f" -> Fail(p, "INVALID_HEADER_TOKEN")       \* not CROW_IS_HEADER_CHAR
      [] OTHER -> Keep(HeaderValueByte(p, ch), ch)

HeaderFlag ==
    "h_connection_keep_alive" :> "KEEP_ALIVE" @@ "h_connection_close" :> "CLOSE" @@
    "h_transfer_encoding_chunked" :> "CHUNKED"

\* The byte after the end of the line decides whether the value goes on.
s_header_value_lws(p, ch, next) ==
    IF ch \in {" ", "\t"}
    THEN s_header_value_start(
            [p EXCEPT !.header_state = IF @ = "h_content_length_num"
                                       THEN "h_content_length_ws" ELSE @], ch, next)
    ELSE s_header_field_start(
            [p EXCEPT !.state = "s_header_field_start",
                      !.flags = IF p.header_state \in DOMAIN HeaderFlag
                                THEN @ \cup {HeaderFlag[p.header_state]} ELSE @], ch)

s_header_value_discard_lws(p, ch) ==
    IF ch \in {" ", "\t"} THEN To(p, "s_header_value_discard_ws")
    ELSE s_header_field_start(Flush(To(Mark(p, "value"), "s_header_field_start")), ch)

-----------------------------------------------------------------------------
(* The body.                                                               *)

s_body_identity(p, ch) ==
    LET q == [Keep(Mark(p, "body"), ch) EXCEPT !.content_length = @ - 1]
    IN  IF q.content_length # 0 THEN q
        ELSE on_message_complete(Flush(To(q, "s_message_done")))

s_chunk_size_start(p, ch) ==
    CASE p.nread # 1 \/ "CHUNKED" \notin p.flags -> Fail(p, "ASSERT")
      [] ch \notin DOMAIN unhex -> Fail(p, "INVALID_CHUNK_SIZE")
      [] OTHER -> [p EXCEPT !.content_length = unhex[ch], !.state = "s_chunk_size"]

s_chunk_size(p, ch) ==
    CASE ch = CR                -> To(p, "s_chunk_size_almost_done")
      [] ch \in {";", " "}      -> To(p, "s_chunk_parameters")
      [] ch \in DOMAIN unhex    -> LengthDigit(p, unhex[ch], 16)
      [] OTHER                  -> Fail(p, "INVALID_CHUNK_SIZE")

s_chunk_parameters(p, ch) == IF ch = CR THEN To(p, "s_chunk_size_almost_done") ELSE p

s_chunk_size_almost_done(p, ch) ==
    STRICT_CHECK(p, ch = LF,
        IF p.content_length = 0
        THEN [p EXCEPT !.nread = 0, !.flags = @ \cup {"TRAILING"},
                       !.state = "s_header_field_start"]
        ELSE [p EXCEPT !.nread = 0, !.state = "s_chunk_data"])

s_chunk_data(p, ch) ==
    LET q == [Keep(Mark(p, "body"), ch) EXCEPT !.content_length = @ - 1]
    IN  IF p.content_length \in {0, LengthMax} THEN Fail(p, "ASSERT")
        ELSE IF q.content_length = 0 THEN To(q, "s_chunk_data_almost_done") ELSE q

s_chunk_data_almost_done(p, ch) == STRICT_CHECK(p, ch = CR, Flush(To(p, "s_chunk_data_done")))

s_chunk_data_done(p, ch) ==
    STRICT_CHECK(p, ch = LF, [p EXCEPT !.nread = 0, !.state = "s_chunk_size_start"])

-----------------------------------------------------------------------------
(* http_parser_execute: one byte, and the bytes of one read.               *)

NotHeader == {"s_chunk_data", "s_chunk_data_almost_done", "s_chunk_data_done",
              "s_body_identity", "s_message_done"}

\* CROW_COUNT_HEADER_SIZE.
CountHeader(p) ==
    IF p.state \in NotHeader THEN p
    ELSE LET q == [p EXCEPT !.nread = @ + 1]
         IN  IF q.nread > MaxHeaderSize THEN Fail(q, "HEADER_OVERFLOW") ELSE q

Dispatch(p, ch, next) ==
    LET s == p.state
    IN  CASE s = "s_start_req"             -> s_start_req(p, ch)
          [] s = "s_req_method"            -> s_req_method(p, ch)
          [] s = "s_req_spaces_before_url" -> s_req_spaces_before_url(p, ch)
          [] s \in UrlStates               -> Url(p, ch)
          [] s = "s_req_http_start"        -> s_req_http_start(p, ch)
          [] s \in DOMAIN HttpLetter       -> s_req_http(p, ch)
          [] s \in {"s_req_http_major", "s_req_http_dot", "s_req_http_minor", "s_req_http_end",
                    "s_req_line_almost_done"} -> HttpVersion(p, ch)
          [] s = "s_header_field_start"    -> s_header_field_start(p, ch)
          [] s = "s_header_field"          -> s_header_field(p, ch)
          [] s = "s_header_value_discard_ws" -> s_header_value_discard_ws(p, ch, next)
          [] s = "s_header_value_discard_ws_almost_done" ->
                STRICT_CHECK(p, ch = LF, To(p, "s_header_value_discard_lws"))
          [] s = "s_header_value_discard_lws" -> s_header_value_discard_lws(p, ch)
          [] s = "s_header_value"          -> s_header_value(p, ch)
          [] s = "s_header_almost_done"    -> s_header_almost_done(p, ch)
          [] s = "s_header_value_lws"      -> s_header_value_lws(p, ch, next)
          [] s = "s_headers_almost_done"   -> s_headers_almost_done(p, ch)
          [] s = "s_headers_done"          -> STRICT_CHECK(p, ch = LF, s_headers_done(p))
          [] s = "s_body_identity"         -> s_body_identity(p, ch)
          [] s = "s_message_done"          -> on_message_complete(p)
          [] s = "s_chunk_size_start"      -> s_chunk_size_start(p, ch)
          [] s = "s_chunk_size"            -> s_chunk_size(p, ch)
          [] s = "s_chunk_parameters"      -> s_chunk_parameters(p, ch)
          [] s = "s_chunk_size_almost_done" -> s_chunk_size_almost_done(p, ch)
          [] s = "s_chunk_data"            -> s_chunk_data(p, ch)
          [] s = "s_chunk_data_almost_done" -> s_chunk_data_almost_done(p, ch)
          [] s = "s_chunk_data_done"       -> s_chunk_data_done(p, ch)
          [] s = "s_dead" -> IF ch \in {CR, LF} THEN p ELSE Fail(p, "CLOSED_CONNECTION")

Step(p, ch, next) ==
    Strict(CountHeader(p), LAMBDA q : IF q.http_errno # "OK" THEN q ELSE Dispatch(q, ch, next))

\* The marks a call begins with.
Entry(p) ==
    [p EXCEPT !.mark = CASE p.state = "s_header_field" -> "field"
                         [] p.state = "s_header_value" -> "value"
                         [] p.state \in UrlStates      -> "url"
                         [] OTHER                      -> "none",
              !.data = "", !.url_start = FALSE, !.left = FALSE, !.calls = <<>>]

\* The loop ends at an error and, after an upgrade, at the end of the headers.
RECURSIVE Loop(_, _, _)
Loop(p, bytes, i) ==
    IF i = Len(bytes) THEN IF p.mark = "url" THEN FlushUrl(p) ELSE Flush(p)
    ELSE Strict(Step(p, At(bytes, i), At(bytes, i + 1)),
                LAMBDA q : IF q.http_errno # "OK" \/ q.left THEN q ELSE Loop(q, bytes, i + 1))

http_parser_execute(p, bytes) ==
    IF p.http_errno = "OK" /\ bytes # "" THEN Strict(Entry(p), LAMBDA q : Loop(q, bytes, 0)) ELSE p

\* HTTPParser::feed, whose calls are left to the connection, and whether it returns true.
Feed(p, bytes) ==
    IF p.message_complete THEN [p EXCEPT !.calls = <<>>] ELSE http_parser_execute(p, bytes)

Fed(p) == p.http_errno = "OK"

\* done(): the stream ends.
Done(p) ==
    IF p.message_complete \/ ~Fed(p) \/ p.state \in {"s_dead", "s_start_req"} THEN p
    ELSE Fail(p, "INVALID_EOF_STATE")
==============================================================================
