--------------------------- MODULE MCHttpRequest ---------------------------
(* Streams for HttpRequest, built from the requests they consist of: what a   *)
(* request is, and where it ends, is said here without parsing anything.      *)
EXTENDS HttpRequest

NewLine == <<"CR", "LF">>
Bytes(n) == [k \in 1 .. n |-> "x"]

\* A target: a path, an absolute URI, or the authority of CONNECT, each followed
\* by anything but a character no URL has.
Onward(t) == \A k \in DOMAIN t : t[k] \in UrlChar \cup {"?", "#"}
Authority(t) ==
  /\ \A k \in DOMAIN t : t[k] \in (UserInfo \cup {"[", "]", "@"})
  /\ \A k \in DOMAIN t : k > 1 => ~(t[k-1] = "@" /\ t[k] = "@")
Server(t) ==
  \E n \in 0 .. Len(t) :
    /\ t # <<>>
    /\ Authority(SubSeq(t, 1, n))
    /\ n = Len(t) \/ (t[n+1] \in {"/", "?"} /\ Onward(SubSeq(t, n+1, Len(t))))
Absolute(t) ==
  \E n \in 1 .. Len(t) - 4 :
    /\ \A k \in 1 .. n : t[k] \in Alpha
    /\ SubSeq(t, n+1, n+3) = <<":", "/", "/">>
    /\ Server(SubSeq(t, n+4, Len(t)))
GoodTarget(word, t) ==
  IF word = Spelling.CONNECT THEN Server(t)
  ELSE Absolute(t) \/ (t # <<>> /\ t[1] \in {"/", "*"} /\ Onward(t))

\* A line that starts with a word, which may spell a method or not.
Spelled == {Spelling[m] : m \in Methods}
LineOf(word, t, v, rest) ==
  [method |-> word, version |-> v,
   good |-> word \in Spelled /\ GoodTarget(word, t),
   text |-> word \o <<"SP">> \o t \o rest]
Line(word, t) == LineOf(word, t, "HTTP/1.1", <<"SP", "HTTP/1.1", "CR", "LF">>)
Get == Line(Spelling.GET, <<"/">>)

RequestLines == {Get, LineOf(Spelling.GET, <<"*">>, "HTTP/1.0", <<"SP", "SP", "HTTP/1.0", "LF">>),
                 Line(Spelling.CONNECT, <<"x">>),
                 LineOf(Spelling.SOURCE, <<"/">>, "HTTP/1.0", <<"SP", "ICE/1.0", "LF">>),
                 [LineOf(Spelling.PUT, <<"/">>, "HTTP/0.9", <<"CR", "LF">>) EXCEPT
                    !.text = Spelling.PUT \o <<"SP", "SP", "/", "CR", "LF">>]}

\* All methods, what becomes of one when it goes on as another from some letter
\* on, one letter less or more, and targets of all forms and none.
MethodWords ==
  LET Mixed(m, n) == {SubSeq(m, 1, k) \o SubSeq(n, k+1, Len(n)) :
                         k \in {j \in 1 .. Len(m) : j < Len(n)}}
      near == {mn \in Spelled \X Spelled : mn[1][1] = mn[2][1]}
  IN UNION {Mixed(mn[1], mn[2]) : mn \in near}
     \cup {Front(m) : m \in Spelled} \cup {Append(m, "S") : m \in Spelled}
TargetChars == {"x", "1", "/", ":", "@", "?", "#", "*", "[", "<", "TAB"}
Targets ==
  UNION {[1 .. n -> TargetChars] : n \in 1 .. 3}
  \cup {<<"x", ":", "/", "/">> \o t : t \in UNION {[1 .. n -> TargetChars] : n \in 0 .. 2}}
OddLines ==
  {Line(w, <<"/">>) : w \in MethodWords} \cup {Line(m, t) : m \in {Spelling.GET, Spelling.CONNECT}, t \in Targets}
  \cup {LineOf(Spelling.PUT, t, "HTTP/0.9", <<"LF">>) : t \in Targets}

Header(n, v) == <<n, ":">> \o v \o NewLine
\* What a header says: its text, and the facts about the request it states.  To
\* the parser any name that begins with Transfer-Encoding states a coding.
Says(t, f) == [text |-> t, facts |-> f, length |-> -1]
SaysLength(digits) ==
  [text |-> Header("ContentLength", <<"SP">> \o digits), facts |-> {"length"},
   length |-> FoldLeft(LAMBDA n, d : 10 * n + Value(d), 0, digits)]
NumberWithin == 24 * 10 + 9
Headers ==
  {SaysLength(ds) : ds \in {<<"0">>, <<"1">>, <<"3">>, <<"1", "2">>, <<"2", "4", "9">>,
                            <<"2", "5", "0">>, <<"2", "5", "5">>, <<"2", "5", "8">>}} \cup
  {Says(Header("Host", <<"gzip", "SP", ",">>), {}),
   Says(Header("Host", <<"CR", "LF", "SP">>), {}),
   Says(Header("Connection", <<"close", "SP">>), {"close"}),
   Says(Header("Connection", <<"SP", "gzip", ",", "SP", "keepalive">>), {"keep"}),
   Says(Header("Connection", <<"keepalive", ",", "upgrade">>), {"keep", "connection_upgrade"}),
   Says(Header("Connection", <<"close", "gzip", ",", ",", "close">>), {}),
   Says(Header("Connection", <<"gzip", ",", ";", ",", "close">>), {}),
   Says(Header("ProxyConnection", <<"SP", "close">>), {"close"}),
   Says(Header("Upgrade", <<"SP", "gzip">>), {"upgrade"}),
   Says(Header("ContentLengthX", <<"SP", "3">>), {}),
   Says(Header("TransferEncodingX", <<"gzip">>), {"te"}),
   Says(Header("ContentLength", <<"1", "SP", "2">>), {"bad"}),
   Says(Header("ContentLength", <<"1", "CR", "LF", "SP", "2">>), {"bad"}),
   Says(Header("ContentLength", <<"SP">>), {"bad"}),
   Says(Header("TransferEncoding", <<"SP", "chunked">>), {"te", "chunked"}),
   Says(Header("TransferEncoding", <<"gzip", ",", "SP", "chunked", "SP">>), {"te", "chunked"}),
   Says(Header("TransferEncoding", <<"chunked", ",", "gzip">>), {"te"})}

\* Bodies of a chunked request: text, and where the data of each chunk end.
Chunked ==
  {[text |-> <<"0">> \o NewLine \o NewLine, data |-> {}, bad |-> FALSE],
   [text |-> <<"2">> \o NewLine \o Bytes(2) \o NewLine \o <<"0", ";", "gzip">> \o NewLine
             \o Header("Host", <<"SP", "gzip">>) \o NewLine,
    data |-> {5}, bad |-> FALSE],
   [text |-> <<"0", "3", "SP">> \o NewLine \o <<"CR", "LF", "x">> \o NewLine
             \o <<"0">> \o NewLine \o NewLine,
    data |-> {8}, bad |-> FALSE],
   [text |-> <<"e", "f">> \o NewLine \o Bytes(3), data |-> {4 + 239}, bad |-> FALSE],
   [text |-> <<"1", "0", "2">> \o NewLine \o Bytes(2) \o NewLine, data |-> {5 + 258}, bad |-> TRUE],
   [text |-> <<"gzip">> \o NewLine, data |-> {}, bad |-> TRUE]}

\* A request: a line, at most two headers of different names, a body.
Facts(hs) == UNION {hs[k].facts : k \in DOMAIN hs}
Lengths(hs) == {k \in DOMAIN hs : "length" \in hs[k].facts}
Malformed(line, hs) ==
  \/ ~line.good
  \/ "bad" \in Facts(hs)
  \/ Cardinality(Lengths(hs)) > 1
  \/ \E k \in Lengths(hs) : hs[k].length > NumberWithin
  \/ "te" \in Facts(hs) /\ Lengths(hs) # {}
  \/ "te" \in Facts(hs) /\ "chunked" \notin Facts(hs) /\ line.method # Spelling.CONNECT
HeadText(line, hs) == line.text \o FlattenSeq([k \in DOMAIN hs |-> hs[k].text]) \o NewLine
Keeps(line, hs) == IF line.version = "HTTP/1.1" THEN "close" \notin Facts(hs)
                                                 ELSE "keep" \in Facts(hs)
Upgrades(line, hs) == line.method = Spelling.CONNECT
                      \/ {"upgrade", "connection_upgrade"} \subseteq Facts(hs)

Request(line, hs) ==
  LET head == HeadText(line, hs)
      base == [bad |-> Malformed(line, hs), keeps |-> Keeps(line, hs) /\ ~Upgrades(line, hs)]
      size == IF Lengths(hs) = {} THEN 0 ELSE hs[CHOOSE k \in Lengths(hs) : TRUE].length
      sent == IF size > 12 THEN 4 ELSE size
  IN IF "chunked" \in Facts(hs) /\ line.method # Spelling.CONNECT
     THEN {base @@ [bytes |-> head \o c.text, data |-> {Len(head) + d : d \in c.data},
                    end |-> IF c.bad \/ (c.data # {} /\ Max(c.data) > Len(c.text)) THEN -1
                            ELSE Len(head) + Len(c.text),
                    wrong |-> c.bad] : c \in Chunked}
     ELSE LET n == IF line.method = Spelling.CONNECT THEN 0 ELSE size IN
          {base @@ [bytes |-> head \o Bytes(IF n = 0 THEN 0 ELSE sent), data |-> {Len(head) + n},
                    end |-> Len(head) + n, wrong |-> FALSE]}


\* Requests with one header at most, and, for HTTP/1.1, with any two.
SingleRequests ==
  UNION {Request(line, hs) : line \in RequestLines, hs \in {<<>>} \cup {<<h>> : h \in Headers}}
  \cup UNION {Request(Get, <<g, h>>) : g \in Headers, h \in Headers}

Stream(r) ==
  [bytes |-> r.bytes, dataEnds |-> r.data, good |-> ~r.bad /\ ~r.wrong,
   ends |-> IF r.bad \/ r.wrong \/ r.end = -1 THEN {} ELSE {r.end}]

\* Two requests in a row, with blank lines between and after them.
Follows(r, s) ==
  LET first == Stream(r)
      second == Stream(s)
      start == Len(r.bytes) + 2
      all == r.bytes \o NewLine \o s.bytes \o <<"LF">>
      Shift(S) == {start + k : k \in S}
      Blank(S) == S \cup {k + 1 : k \in S}
  IN [bytes |-> all,
      dataEnds |-> first.dataEnds \cup Shift(second.dataEnds),
      good |-> first.good /\ second.good /\ r.keeps,
      ends |-> Blank(Blank(first.ends)) \cup
               (IF r.keeps THEN Blank(Shift(second.ends)) ELSE {})]
Pieces == UNION {Request(Get, hs) : hs \in {<<>>} \cup {<<h>> : h \in Headers}}
Short == {r \in Pieces : ~r.bad /\ ~r.wrong /\ r.end = Len(r.bytes) /\ r.end < 18}

RequestStreams ==
  {Stream(r) : r \in SingleRequests \cup UNION {Request(line, <<>>) : line \in OddLines}}
  \cup {Follows(r, s) : r \in Short, s \in Short}

\* A request after a blank line, which RFC 7230 asks servers to ignore.
BlankLineFirst ==
  {[bytes |-> NewLine \o Get.text \o NewLine, dataEnds |-> {},
    good |-> TRUE, ends |-> {2 + Len(Get.text) + 2}]}
=============================================================================
