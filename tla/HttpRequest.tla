---------------------------- MODULE HttpRequest ----------------------------
(* How a client's request is read: recv_http_cb feeds whatever pieces recv    *)
(* returns to http_parser, and takes the request for complete when the parser *)
(* is back in its start state or in s_dead.                                   *)
(*                                                                            *)
(* A stream is a sequence of symbols: a character of a method or a target, a  *)
(* version, the name of a header, a word of a value, a digit, a mark, CR, LF, *)
(* SP, or a body byte.  The letters of a word are read as one symbol where    *)
(* the parser only compares them with the word it expects. The                *)
(* parser's type is HTTP_REQUEST, its lenient flag is 0 and it has no         *)
(* callbacks (settings_default).                                              *)
EXTENDS Integers, FiniteSets, SequencesExt

CONSTANTS
  Streams,     \* what clients send: records [bytes, ends, dataEnds, good]
  MinBuf,      \* REMOTE_MIN_BUF
  MaxBuf,      \* REMOTE_MAX_BUF
  MaxLength    \* ULLONG_MAX, also the content_length of a request without one

\* The factors of which every divisor but 1 is even: 1, 2, 4 and so on.
Doublings == {d \in 1 .. MaxBuf : \A a, b \in 1 .. d : a * b = d => a = 1 \/ a % 2 = 0}

\* REMOTE_MIN_BUF doubled some number of times is REMOTE_MAX_BUF.
ASSUME BufAssumption ==
  /\ MinBuf \in Nat \ {0} /\ MaxBuf \in Nat
  /\ \E d \in Doublings : MaxBuf = MinBuf * d
  /\ MaxLength \in Nat /\ MaxLength > 16
  /\ \A s \in Streams : s.bytes \in Seq(STRING)

VARIABLES
  stream,   \* what this client sends
  len,      \* app_buf_len: the bytes of it in app_buf
  cap,      \* app_buf_cap
  parser,   \* app_parser.http
  status,   \* app_status
  why       \* what the connection was closed for

vars == <<stream, len, cap, parser, status, why>>

----------------------------------------------------------------------------
(* Symbols.                                                                  *)

\* HTTP_METHOD_MAP.
Spelling ==
  [DELETE |-> <<"D", "E", "L", "E", "T", "E">>, GET |-> <<"G", "E", "T">>,
   HEAD |-> <<"H", "E", "A", "D">>, POST |-> <<"P", "O", "S", "T">>,
   PUT |-> <<"P", "U", "T">>, CONNECT |-> <<"C", "O", "N", "N", "E", "C", "T">>,
   OPTIONS |-> <<"O", "P", "T", "I", "O", "N", "S">>,
   TRACE |-> <<"T", "R", "A", "C", "E">>, COPY |-> <<"C", "O", "P", "Y">>,
   LOCK |-> <<"L", "O", "C", "K">>, MKCOL |-> <<"M", "K", "C", "O", "L">>,
   MOVE |-> <<"M", "O", "V", "E">>,
   PROPFIND |-> <<"P", "R", "O", "P", "F", "I", "N", "D">>,
   PROPPATCH |-> <<"P", "R", "O", "P", "P", "A", "T", "C", "H">>,
   SEARCH |-> <<"S", "E", "A", "R", "C", "H">>,
   UNLOCK |-> <<"U", "N", "L", "O", "C", "K">>, BIND |-> <<"B", "I", "N", "D">>,
   REBIND |-> <<"R", "E", "B", "I", "N", "D">>,
   UNBIND |-> <<"U", "N", "B", "I", "N", "D">>, ACL |-> <<"A", "C", "L">>,
   REPORT |-> <<"R", "E", "P", "O", "R", "T">>,
   MKACTIVITY |-> <<"M", "K", "A", "C", "T", "I", "V", "I", "T", "Y">>,
   CHECKOUT |-> <<"C", "H", "E", "C", "K", "O", "U", "T">>,
   MERGE |-> <<"M", "E", "R", "G", "E">>,
   MSEARCH |-> <<"M", "-", "S", "E", "A", "R", "C", "H">>,
   NOTIFY |-> <<"N", "O", "T", "I", "F", "Y">>,
   SUBSCRIBE |-> <<"S", "U", "B", "S", "C", "R", "I", "B", "E">>,
   UNSUBSCRIBE |-> <<"U", "N", "S", "U", "B", "S", "C", "R", "I", "B", "E">>,
   PATCH |-> <<"P", "A", "T", "C", "H">>, PURGE |-> <<"P", "U", "R", "G", "E">>,
   MKCALENDAR |-> <<"M", "K", "C", "A", "L", "E", "N", "D", "A", "R">>,
   LINK |-> <<"L", "I", "N", "K">>, UNLINK |-> <<"U", "N", "L", "I", "N", "K">>,
   SOURCE |-> <<"S", "O", "U", "R", "C", "E">>]
Methods == DOMAIN Spelling

Versions == {"HTTP/1.0", "HTTP/1.1"}
EndOfLine == {"CR", "LF"}
Hex == <<"0", "1", "2", "3", "4", "5", "6", "7",
         "8", "9", "a", "b", "c", "d", "e", "f">>
Digits(base) == {Hex[k] : k \in 1 .. base}
Value(digit) == (CHOOSE k \in 1 .. 16 : Hex[k] = digit) - 1

\* Classes of characters in a target; a few stand for all of each class.
Alpha == {"A", "B", "C", "D", "E", "F", "G", "H", "I", "J", "K", "L", "M", "N",
          "O", "P", "Q", "R", "S", "T", "U", "V", "W", "X", "Y", "Z", "x"}
UserInfo == Alpha \cup Digits(10) \cup {"-", "*", ":", ",", ";"}
UrlChar == UserInfo \cup {"/", "@", "[", "]", "<"}

\* The headers the parser acts on, names that go on after one of theirs, and the
\* header_state each leads to.
HeaderState == [Connection |-> "connection", ProxyConnection |-> "connection",
                ContentLength |-> "content_length", ContentLengthX |-> "general",
                TransferEncoding |-> "transfer_encoding", TransferEncodingX |-> "general",
                Upgrade |-> "upgrade", Host |-> "general"]
Names == DOMAIN HeaderState

\* The values of Connection the parser acts on.
ConnectionWord == [close |-> "connection_close", keepalive |-> "connection_keep_alive",
                   upgrade |-> "connection_upgrade"]
Words == DOMAIN ConnectionWord \cup {"chunked", "gzip"}

Final == {"start_req", "dead"}

----------------------------------------------------------------------------
(* The parser: one operator per state or group of states of                  *)
(* http_parser_execute, each taking one symbol.                               *)

To(p, s) == [p EXCEPT !.state = s]
Fail(p) == [p EXCEPT !.error = TRUE]
Flag(p, f) == [p EXCEPT !.flags = @ \cup {f}]

\* http_parser_init: memset and the start state.
ParserInit ==
  [state |-> "start_req", header |-> "general", flags |-> {}, te |-> FALSE,
   length |-> 0, method |-> "none", index |-> 0, version |-> "none", upgrade |-> FALSE,
   error |-> FALSE]

ShouldKeepAlive(p) ==
  IF p.version = "HTTP/1.1" THEN "connection_close" \notin p.flags
                            ELSE "connection_keep_alive" \in p.flags

\* Mutant: no request is followed by another.
NewMessageDead(p) == To(p, "dead")

NewMessage(p) == To(p, IF ShouldKeepAlive(p) THEN "start_req" ELSE "dead")

\* The method a first letter stands for until another letter disagrees.
FirstGuess ==
  [A |-> "ACL", B |-> "BIND", C |-> "CONNECT", D |-> "DELETE", G |-> "GET",
   H |-> "HEAD", L |-> "LOCK", M |-> "MKCOL", N |-> "NOTIFY", O |-> "OPTIONS",
   P |-> "POST", R |-> "REPORT", S |-> "SUBSCRIBE", T |-> "TRACE", U |-> "UNLOCK"]

StartReq(p, ch) ==
  CASE ch \in EndOfLine -> p
    [] ch \in DOMAIN FirstGuess ->
         [p EXCEPT !.state = "req_method", !.flags = {}, !.te = FALSE,
                   !.length = MaxLength, !.method = FirstGuess[ch], !.index = 1]
    [] OTHER -> Fail(p)

Dead(p, ch) == IF ch \in EndOfLine THEN p ELSE Fail(p)

AfterLine(ch) == IF ch = "CR" THEN "req_line_almost_done" ELSE "header_field_start"

\* The guess, the letters read, the letter that disagrees, and the next guess.
Jumps ==
  {<<"POST", 1, "U", "PUT">>, <<"POST", 1, "A", "PATCH">>, <<"POST", 1, "R", "PROPFIND">>,
   <<"PUT", 2, "R", "PURGE">>, <<"CONNECT", 1, "H", "CHECKOUT">>, <<"CONNECT", 2, "P", "COPY">>,
   <<"MKCOL", 1, "O", "MOVE">>, <<"MKCOL", 1, "E", "MERGE">>, <<"MKCOL", 1, "-", "MSEARCH">>,
   <<"MKCOL", 2, "A", "MKACTIVITY">>, <<"MKCOL", 3, "A", "MKCALENDAR">>,
   <<"SUBSCRIBE", 1, "E", "SEARCH">>, <<"SUBSCRIBE", 1, "O", "SOURCE">>,
   <<"REPORT", 2, "B", "REBIND">>, <<"PROPFIND", 4, "P", "PROPPATCH">>,
   <<"LOCK", 1, "I", "LINK">>, <<"UNLOCK", 2, "S", "UNSUBSCRIBE">>,
   <<"UNLOCK", 2, "B", "UNBIND">>, <<"UNLOCK", 3, "I", "UNLINK">>}

\* Mutant: a letter that disagrees later than the jump says.
ReqMethodEarly(p, ch) ==
  LET jumps == {j \in Jumps : j[1] = p.method /\ j[2] <= p.index /\ j[3] = ch} IN
  CASE ch = "SP" /\ p.index = Len(Spelling[p.method]) -> To(p, "req_spaces_before_url")
    [] p.index < Len(Spelling[p.method]) /\ ch = Spelling[p.method][p.index + 1] -> [p EXCEPT !.index = @ + 1]
    [] jumps # {} -> [p EXCEPT !.index = @ + 1, !.method = (CHOOSE j \in jumps : TRUE)[4]]
    [] OTHER -> Fail(p)

ReqMethod(p, ch) ==
  LET jumps == {j \in Jumps : j[1] = p.method /\ j[2] = p.index /\ j[3] = ch} IN
  CASE ch = "SP" /\ p.index = Len(Spelling[p.method]) -> To(p, "req_spaces_before_url")
    [] p.index < Len(Spelling[p.method]) /\ ch = Spelling[p.method][p.index + 1] -> [p EXCEPT !.index = @ + 1]
    [] jumps # {} -> [p EXCEPT !.index = @ + 1, !.method = (CHOOSE j \in jumps : TRUE)[4]]
    [] OTHER -> Fail(p)

\* Where a target may not end, and where it may.
TargetStart == {"req_schema", "req_schema_slash", "req_schema_slash_slash", "req_server_start"}
TargetEnd == {"req_server", "req_server_with_at", "req_path", "req_query_string_start",
              "req_query_string", "req_fragment_start", "req_fragment"}

\* parse_url_char: the state after a character of the target, s_dead for none.
ParseUrlChar(s, ch) ==
  LET server == s \in {"req_server_start", "req_server", "req_server_with_at"}
      query == s \in {"req_query_string_start", "req_query_string"}
      fragment == s \in {"req_fragment_start", "req_fragment"}
  IN CASE s = "req_spaces_before_url" /\ ch \in {"/", "*"} -> "req_path"
       [] s \in {"req_spaces_before_url", "req_schema"} /\ ch \in Alpha -> "req_schema"
       [] s = "req_schema" /\ ch = ":" -> "req_schema_slash"
       [] s = "req_schema_slash" /\ ch = "/" -> "req_schema_slash_slash"
       [] s = "req_schema_slash_slash" /\ ch = "/" -> "req_server_start"
       [] server /\ ch = "/" -> "req_path"
       [] server /\ ch = "?" -> "req_query_string_start"
       [] server /\ ch = "@" /\ s # "req_server_with_at" -> "req_server_with_at"
       [] server /\ ch \in UserInfo \cup {"[", "]"} -> "req_server"
       [] s = "req_path" /\ ch \in UrlChar -> s
       [] s = "req_path" /\ ch = "?" -> "req_query_string_start"
       [] query /\ ch \in UrlChar \cup {"?"} -> "req_query_string"
       [] s = "req_path" /\ ch = "#" -> "req_fragment_start"
       [] query /\ ch = "#" -> "req_fragment_start"
       [] fragment /\ ch \in UrlChar \cup {"?"} -> "req_fragment"
       [] fragment /\ ch = "#" -> s
       [] OTHER -> "dead"

Target(p, s, ch) ==
  LET t == ParseUrlChar(s, ch) IN IF t = "dead" THEN Fail(p) ELSE To(p, t)

\* From the method to the end of the request line; a line without a version is
\* HTTP/0.9, and SOURCE may be said in ICE.
RequestLine(p, ch) ==
  CASE p.state = "req_method" -> ReqMethod(p, ch)
    [] p.state = "req_spaces_before_url" /\ ch = "SP" -> p
    [] p.state = "req_spaces_before_url" /\ ch # "SP" ->
         Target(p, IF p.method = "CONNECT" THEN "req_server_start" ELSE p.state, ch)
    [] p.state \in TargetEnd /\ ch = "SP" -> To(p, "req_http_start")
    [] p.state \in TargetEnd /\ ch \in EndOfLine ->
         [p EXCEPT !.state = AfterLine(ch), !.version = "HTTP/0.9"]
    [] p.state \in TargetStart \/ (p.state \in TargetEnd /\ ch \notin EndOfLine \cup {"SP"}) ->
         Target(p, p.state, ch)
    [] p.state = "req_http_start" /\ ch = "SP" -> p
    [] p.state = "req_http_start" /\ ch \in Versions ->
         [p EXCEPT !.state = "req_http_end", !.version = ch]
    [] p.state = "req_http_start" /\ ch = "ICE/1.0" /\ p.method = "SOURCE" ->
         [p EXCEPT !.state = "req_http_end", !.version = "HTTP/1.0"]
    [] p.state = "req_http_end" /\ ch \in EndOfLine -> To(p, AfterLine(ch))
    [] p.state = "req_line_almost_done" /\ ch = "LF" -> To(p, "header_field_start")
    [] OTHER -> Fail(p)

\* s_headers_done. The body of a request is chunked, or as long as its
\* Content-Length, or empty; upgraded requests without one end here.
HeadersDone(p) ==
  LET chunked == "chunked" \in p.flags
      hasBody == chunked \/ p.length \notin {0, MaxLength}
  IN IF p.upgrade /\ (p.method = "CONNECT" \/ ~hasBody) THEN NewMessage(p)
     ELSE IF chunked THEN To(p, "chunk_size_start")
     ELSE IF p.te THEN Fail(p)
     ELSE IF hasBody THEN To(p, "body_identity")
     ELSE NewMessage(p)

\* Mutant: Content-Length and Transfer-Encoding are accepted together.
HeadersAlmostDoneEither(p, ch) ==
  IF ch # "LF" THEN Fail(p)
  ELSE IF "trailing" \in p.flags THEN NewMessage(p)
  ELSE HeadersDone([p EXCEPT
         !.upgrade = {"upgrade", "connection_upgrade"} \subseteq p.flags
                     \/ p.method = "CONNECT"])

\* s_headers_almost_done: the trailer of a chunked request ends it; otherwise
\* Content-Length and Transfer-Encoding exclude one another.
HeadersAlmostDone(p, ch) ==
  IF ch # "LF" THEN Fail(p)
  ELSE IF "trailing" \in p.flags THEN NewMessage(p)
  ELSE IF p.te /\ "content_length" \in p.flags THEN Fail(p)
  ELSE HeadersDone([p EXCEPT
         !.upgrade = {"upgrade", "connection_upgrade"} \subseteq p.flags
                     \/ p.method = "CONNECT"])

\* The flag is raised when the name has been matched, whether it ends there or not.
SetsTE == {"TransferEncoding", "TransferEncodingX"}

HeaderFieldStart(p, ch) ==
  CASE ch = "CR" -> To(p, "headers_almost_done")
    [] ch = "LF" -> HeadersAlmostDone(p, ch)
    [] ch \in Names -> [p EXCEPT !.state = "header_field", !.header = HeaderState[ch],
                                 !.te = @ \/ ch \in SetsTE]
    [] OTHER -> Fail(p)

HeaderField(p, ch) ==
  IF ch = ":" THEN To(p, "header_value_discard_ws") ELSE Fail(p)

\* The word or digit a value starts with, and the first symbol after a fold.
HeaderValueStart(p, ch) ==
  LET q == To(p, "header_value")
      In(h) == [q EXCEPT !.header = h]
  IN CASE p.header = "upgrade" -> Flag(In("general"), "upgrade")
       [] p.header = "transfer_encoding" ->
            In(IF ch = "chunked" THEN "transfer_encoding_chunked"
                                 ELSE "transfer_encoding_token")
       [] p.header = "content_length" ->
            IF ch \notin Digits(10) \/ "content_length" \in p.flags THEN Fail(p)
            ELSE Flag([In("content_length_num") EXCEPT !.length = Value(ch)],
                      "content_length")
       [] p.header = "connection" ->
            In(IF ch \in DOMAIN ConnectionWord THEN ConnectionWord[ch]
                                               ELSE "connection_token")
       [] p.header \in {"transfer_encoding_token_start", "content_length_ws",
                        "connection_token_start"} -> q
       [] OTHER -> In("general")

HeaderValueDiscardWs(p, ch) ==
  CASE ch = "SP" -> p
    [] ch = "CR" -> To(p, "header_value_discard_ws_almost_done")
    [] ch = "LF" -> To(p, "header_value_discard_lws")
    [] OTHER -> HeaderValueStart(p, ch)

\* Mutant: no test for overflow.
AccumulateWraps(p, ch, base) ==
  [p EXCEPT !.length = (@ * base + Value(ch)) % (MaxLength + 1)]

\* One more digit of a number in base, unless it might not fit.
Accumulate(p, ch, base) ==
  IF (MaxLength - base) \div base < p.length THEN Fail(p)
  ELSE [p EXCEPT !.length = (@ * base + Value(ch)) % (MaxLength + 1)]

\* The symbols no word of a list starts with.  They are looked up in tokens with
\* the bit of small letters set, which makes a tab a bracket, and "@" an accent.
Separators == {",", ":", ";", "/", "?", "[", "]", "<", "TAB"}

\* The header_state after a symbol of a list of words, known being the state
\* of a word the parser looks for.
ListWord(p, ch, start, token, known) ==
  CASE p.header = start /\ ch = "SP" -> p
    [] p.header = start /\ ch \in DOMAIN known -> [p EXCEPT !.header = known[ch]]
    [] p.header = start /\ ch \in Separators -> [p EXCEPT !.header = "general"]
    [] p.header = token /\ ch = "," -> [p EXCEPT !.header = start]
    [] OTHER -> [p EXCEPT !.header = token]

ChunkedWord == [chunked |-> "transfer_encoding_chunked"]

HeaderValue(p, ch) ==
  CASE ch = "CR" -> To(p, "header_almost_done")
    [] ch = "LF" -> To(p, "header_value_lws")
    [] ch \notin EndOfLine /\ p.header = "content_length_num" ->
         CASE ch = "SP" -> [p EXCEPT !.header = "content_length_ws"]
           [] ch \in Digits(10) -> Accumulate(p, ch, 10)
           [] OTHER -> Fail(p)
    [] ch \notin EndOfLine /\ p.header = "content_length_ws" ->
         IF ch = "SP" THEN p ELSE Fail(p)
    [] ch = "SP" /\ p.header \in {"transfer_encoding_chunked", "connection_close",
                                  "connection_keep_alive", "connection_upgrade"} -> p
    [] ch = "," /\ p.header \in {"connection_close", "connection_keep_alive",
                                 "connection_upgrade"} ->
         [Flag(p, p.header) EXCEPT !.header = "connection_token_start"]
    [] ch \notin EndOfLine /\ p.header \in {"transfer_encoding_token_start",
         "transfer_encoding_token"} ->
         ListWord(p, ch, "transfer_encoding_token_start", "transfer_encoding_token", ChunkedWord)
    [] ch # "SP" /\ ch \notin EndOfLine /\ p.header = "transfer_encoding_chunked" ->
         [p EXCEPT !.header = "transfer_encoding_token"]
    [] ch \notin EndOfLine /\ p.header \in {"connection_token_start", "connection_token"} ->
         ListWord(p, ch, "connection_token_start", "connection_token", ConnectionWord)
    [] ch \notin EndOfLine \cup {"SP", ","} /\ p.header \in {"connection_close",
         "connection_keep_alive", "connection_upgrade"} ->
         [p EXCEPT !.header = "connection_token"]
    [] ch \notin EndOfLine /\ p.header = "general" -> p

\* The end of a header: what its value meant.
FinishHeader(p) ==
  CASE p.header \in {"connection_close", "connection_keep_alive", "connection_upgrade"} ->
         Flag(p, p.header)
    [] p.header = "transfer_encoding_chunked" -> Flag(p, "chunked")
    [] OTHER -> p

\* After a line end in a value: the value goes on in a folded line, or ends.
HeaderValueLws(p, ch) ==
  IF ch # "SP" THEN HeaderFieldStart(FinishHeader(p), ch)
  ELSE HeaderValueStart(IF p.header = "content_length_num"
                        THEN [p EXCEPT !.header = "content_length_ws"] ELSE p, ch)

\* After a line end before a value: the value comes in the next line, or is empty.
HeaderValueDiscardLws(p, ch) ==
  CASE ch = "SP" -> To(p, "header_value_discard_ws")
    [] ch # "SP" /\ p.header = "content_length" -> Fail(p)
    [] OTHER -> HeaderFieldStart(FinishHeader(p), ch)

BodyIdentity(p) ==
  LET q == [p EXCEPT !.length = @ - 1] IN IF q.length = 0 THEN NewMessage(q) ELSE q

ChunkSizeStart(p, ch) ==
  IF ch \in Digits(16) THEN [p EXCEPT !.length = Value(ch), !.state = "chunk_size"]
                       ELSE Fail(p)

ChunkSize(p, ch) ==
  CASE ch = "CR" -> To(p, "chunk_size_almost_done")
    [] ch \in {";", "SP"} -> To(p, "chunk_parameters")
    [] ch \in Digits(16) -> Accumulate(p, ch, 16)
    [] OTHER -> Fail(p)

ChunkParameters(p, ch) ==
  IF ch = "CR" THEN To(p, "chunk_size_almost_done") ELSE p

\* Mutant: the trailer is not told from the headers.
ChunkSizeAlmostDoneUnmarked(p, ch) ==
  CASE ch # "LF" -> Fail(p)
    [] ch = "LF" /\ p.length = 0 -> To(p, "header_field_start")
    [] ch = "LF" /\ p.length # 0 -> To(p, "chunk_data")

\* The last chunk has no data and is followed by the trailer.
ChunkSizeAlmostDone(p, ch) ==
  CASE ch # "LF" -> Fail(p)
    [] ch = "LF" /\ p.length = 0 -> Flag(To(p, "header_field_start"), "trailing")
    [] ch = "LF" /\ p.length # 0 -> To(p, "chunk_data")

ChunkData(p, ch) ==
  CASE p.state = "chunk_data" ->
         LET q == [p EXCEPT !.length = @ - 1]
         IN IF q.length = 0 THEN To(q, "chunk_data_almost_done") ELSE q
    [] p.state = "chunk_data_almost_done" /\ ch = "CR" -> To(p, "chunk_data_done")
    [] p.state = "chunk_data_done" /\ ch = "LF" -> To(p, "chunk_size_start")
    [] OTHER -> Fail(p)

Expect(p, ch, wanted, s) == IF ch = wanted THEN To(p, s) ELSE Fail(p)

\* One symbol.
Step(p, ch) ==
  CASE p.state = "start_req" -> StartReq(p, ch)
    [] p.state = "dead" -> Dead(p, ch)
    [] p.state \in {"req_method", "req_spaces_before_url", "req_http_start", "req_http_end",
                    "req_line_almost_done"} \cup TargetStart \cup TargetEnd ->
         RequestLine(p, ch)
    [] p.state = "header_field_start" -> HeaderFieldStart(p, ch)
    [] p.state = "header_field" -> HeaderField(p, ch)
    [] p.state = "header_value_discard_ws" -> HeaderValueDiscardWs(p, ch)
    [] p.state = "header_value_discard_ws_almost_done" ->
         Expect(p, ch, "LF", "header_value_discard_lws")
    [] p.state = "header_value_discard_lws" -> HeaderValueDiscardLws(p, ch)
    [] p.state = "header_value" -> HeaderValue(p, ch)
    [] p.state = "header_almost_done" -> Expect(p, ch, "LF", "header_value_lws")
    [] p.state = "header_value_lws" -> HeaderValueLws(p, ch)
    [] p.state = "headers_almost_done" -> HeadersAlmostDone(p, ch)
    [] p.state = "body_identity" -> BodyIdentity(p)
    [] p.state = "chunk_size_start" -> ChunkSizeStart(p, ch)
    [] p.state = "chunk_size" -> ChunkSize(p, ch)
    [] p.state = "chunk_parameters" -> ChunkParameters(p, ch)
    [] p.state = "chunk_size_almost_done" -> ChunkSizeAlmostDone(p, ch)
    [] p.state \in {"chunk_data", "chunk_data_almost_done", "chunk_data_done"} ->
         ChunkData(p, ch)

\* http_parser_execute: the symbols in turn, until an error, which is not
\* counted, or the end of a request that upgrades, which is.
Take(r, ch) ==
  LET q == Step(r.parser, ch)
      ends == r.parser.state \notin Final /\ q.state \in Final
  IN IF r.stop THEN r
     ELSE [parser |-> q, taken |-> IF q.error THEN r.taken ELSE r.taken + 1,
           stop |-> q.error \/ (ends /\ q.upgrade)]

\* What has become of p after each number of symbols of piece.
Feed(p, piece) ==
  LET run[k \in 0 .. Len(piece)] ==
        IF k = 0 THEN [parser |-> p, taken |-> 0, stop |-> p.error]
        ELSE Take(run[k-1], piece[k])
  IN run

Execute(p, piece) == Feed(p, piece)[Len(piece)]

IsDone(p) == p.state \in Final

----------------------------------------------------------------------------
(* recv_http_cb                                                              *)

Init ==
  /\ stream \in Streams
  /\ len = 0
  /\ cap = MinBuf
  /\ parser = ParserInit
  /\ status = "recv"
  /\ why = "open"

\* Mutant: the buffer is doubled without limit.
GrownAlways == IF len = cap THEN 2 * cap ELSE cap

\* A full buffer is doubled up to REMOTE_MAX_BUF before recv.
Grown == IF len = cap /\ cap < MaxBuf THEN 2 * cap ELSE cap

Close(reason) == status' = "close" /\ why' = reason

\* Mutant: the parser is given app_buf from its start.
ReceivedAll(n) == SubSeq(stream.bytes, 1, len + n)

\* What recv adds to app_buf.
Received(n) == SubSeq(stream.bytes, len + 1, len + n)

\* recv returns n bytes.
Recv(n) ==
  LET r == Execute(parser, Received(n))
  IN /\ status = "recv"
     /\ cap' = Grown
     /\ n <= cap' - len
     /\ parser' = r.parser
     /\ len' = len + r.taken
     /\ IF r.parser.error THEN Close("format")
        ELSE /\ status' = IF IsDone(r.parser) THEN "wait" ELSE "recv"
             /\ UNCHANGED why
     /\ UNCHANGED stream

\* recv returns 0: the buffer has no room left, or the client has closed.
RecvZero ==
  /\ status = "recv"
  /\ cap' = Grown
  /\ Close(IF len = cap' THEN "full" ELSE "peer")
  /\ UNCHANGED <<stream, len, parser>>

\* recv is interrupted or has nothing to return.
RecvAgain ==
  /\ status = "recv"
  /\ cap' = Grown
  /\ cap' # len
  /\ UNCHANGED <<stream, len, parser, status, why>>

\* recv fails, or the buffer cannot be doubled.
RecvFails ==
  /\ status = "recv"
  /\ cap' = Grown
  /\ cap' # len
  /\ Close("error")
  /\ UNCHANGED <<stream, len, parser>>

Next ==
  \/ \E n \in 1 .. Len(stream.bytes) - len : Recv(n)
  \/ RecvZero
  \/ RecvAgain
  \/ RecvFails

Spec == Init /\ [][Next]_vars

----------------------------------------------------------------------------
(* Properties. The positions in a stream where a request ends, where the data *)
(* of a body or a chunk end, and whether all of it is well formed, come with  *)
(* the stream, which was built from its requests and not parsed.              *)

\* A length that was declared is never the one that stands for none
\* (content_length is ULLONG_MAX as long as there is no Content-Length).
DeclaredLength == "content_length" \in parser.flags => parser.length < MaxLength

\* What is stored stays within its buffer, the buffer within REMOTE_MAX_BUF, and a
\* length within its range, where it is never mistaken (recv_http_cb).
TypeOK ==
  /\ len \in 0 .. cap /\ cap \in MinBuf .. MaxBuf
  /\ parser.length \in 0 .. MaxLength /\ DeclaredLength
  /\ status \in {"recv", "wait", "close"}
  /\ (status = "close") = (why \in {"format", "full", "peer", "error"})

\* What is put into the task queue ends where a request ends: however recv cuts
\* the stream, no part of a request, nothing malformed and nothing that claims
\* two lengths is handed to a worker as a request (http_request_is_done).
WholeRequest == status = "wait" => len \in stream.ends

\* A connection does not wait for bytes when those it has end with a request.
NotHeldBack == status = "recv" => len \notin stream.ends

\* While a body or a chunk is read, what the parser still expects is what its
\* sender still owes: no length is mistaken for another, wrapped around 2^64 or
\* taken for "no length" (the overflow tests of http_parser.c).
BodyCounted ==
  status = "recv" /\ parser.state \in {"body_identity", "chunk_data"}
  => len + parser.length \in stream.dataEnds

\* Where recv cuts the stream leaves no trace: what the parser has come to is what
\* it comes to on the bytes in app_buf in one piece, or on these and the one it
\* refused.  Nothing is read twice, skipped, or kept anywhere else.
CutsInvisible ==
  /\ status # "close" =>
       LET r == Execute(ParserInit, SubSeq(stream.bytes, 1, len))
       IN r.parser = parser /\ r.taken = len
  /\ why = "format" =>
       LET r == Execute(ParserInit, SubSeq(stream.bytes, 1, len + 1))
       IN r.parser = parser /\ r.taken = len

\* The letters of a method are read once, and its name is only ever a guess: the
\* guess agrees with all letters read so far, whichever jumps led to it.
MethodAgrees ==
  status = "recv" /\ parser.state = "req_method" =>
    /\ parser.method \in Methods
    /\ SubSeq(stream.bytes, len - parser.index + 1, len)
         = SubSeq(Spelling[parser.method], 1, parser.index)

\* A well-formed stream is not refused for its form, and one that is refused for
\* its size has filled REMOTE_MAX_BUF without ending a request.
GoodNotRefused ==
  /\ why = "format" => ~stream.good
  /\ why = "full" => len = MaxBuf /\ len \notin stream.ends
=============================================================================
