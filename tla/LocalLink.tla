----------------------------- MODULE LocalLink -----------------------------
(* The byte stream between the server and a worker: frames of a two-byte      *)
(* length and a body, written by send_local_cb and by the worker (echo.c),    *)
(* taken apart by the same parser and the same receive loop at both ends,     *)
(* whatever pieces recv returns.                                              *)
(*                                                                            *)
(* Sizes are scaled: a byte has Base values, so a length is below Base^2, and *)
(* the header local_protocol_data_t is one byte, the id.                      *)
EXTENDS Integers, FiniteSets, SequencesExt

CONSTANTS
  Base,          \* values of a byte
  ServerCap,     \* LOCAL_MAX_RMEM of async_server.c: capacity of app_buf
  WorkerCap,     \* LOCAL_MAX_RMEM of echo.c
  WireCap,       \* bytes a socket buffer holds
  Requests,      \* sequence of the payload sizes of the requests
  AnswerSizes,   \* payload sizes a worker may answer with
  PartialSends   \* send may take a part of a frame

HeadLen == 2
HeaderLen == 1
Ids == 1 .. Len(Requests)
Ends == {"server", "worker"}
Cap(e) == IF e = "server" THEN ServerCap ELSE WorkerCap

\* A buffer holds the head of a frame and more; HTTP_MAX_RMEM keeps a request
\* within what a length can say, and an answer is not larger than its length says.
ASSUME SizeAssumption ==
  /\ Base \in Nat /\ Base > Len(Requests)
  /\ ServerCap \in Nat /\ WorkerCap \in Nat /\ WireCap \in Nat \ {0}
  /\ ServerCap > HeadLen /\ WorkerCap > HeadLen
  /\ Requests \in Seq(Nat) /\ AnswerSizes \subseteq Nat
  /\ \A id \in Ids : HeaderLen + Requests[id] < Base * Base
  /\ \A size \in AnswerSizes : HeaderLen + size < Base * Base
  /\ PartialSends \in BOOLEAN

VARIABLES
  next,     \* the next request to send
  wire,     \* wire[e]: bytes in the socket buffer towards e
  parser,   \* parser[e]: state and length of local_protocol_parser
  kept,     \* kept[e]: from p in app_buf, what was read of an unfinished frame
  arrived,  \* arrived[e]: what recv returned and the parser has not seen yet
  got,      \* got[e]: the frames e has taken from the stream
  unsent,   \* bytes of answers the worker is blocked on in send
  open      \* open[e]: e has not seen what it takes for the end of the stream

vars == <<next, wire, parser, kept, arrived, got, unsent, open>>

----------------------------------------------------------------------------
(* The parser.                                                              *)

\* local_protocol_parser_init
Start == [state |-> "head_start", length |-> 0]

Width(n) == n % (Base * Base)

\* A frame as it is written: length in network byte order, id, payload.
Frame(id, size) ==
  LET length == Width(HeaderLen + size) IN
  <<length \div Base, length % Base, id>> \o [k \in 1 .. size |-> 0]

\* The bytes of the head that parser p has not seen.
HeadLeft(p) == CASE p.state = "head_start" -> 2
                 [] p.state = "head_end" -> 1
                 [] p.state = "body" -> 0

\* The length once the head is complete.
Length(p, data) ==
  CASE p.state = "head_start" -> data[1] * Base + data[2]
    [] p.state = "head_end" -> Width(p.length * Base + data[1])
    [] p.state = "body" -> p.length

\* Mutants: the bytes of the head are counted as body, the length left is not
\* updated, and a frame that ends with the piece received is not complete.
ExecuteCountsHead(p, data) ==
  LET n == Len(data)
      h == HeadLeft(p)
  IN  IF n < h
        THEN [used |-> n, parser |-> [state |-> "head_end", length |-> data[1]]]
        ELSE IF n > h /\ Length(p, data) <= n-h
          THEN [used |-> h + Length(p, data), parser |-> Start]
          ELSE [used |-> n, parser |-> [state |-> "body", length |-> Length(p, data) - n]]

ExecuteKeepsLength(p, data) ==
  LET n == Len(data)
      h == HeadLeft(p)
  IN  IF n < h
        THEN [used |-> n, parser |-> [state |-> "head_end", length |-> data[1]]]
        ELSE IF n > h /\ Length(p, data) <= n-h
          THEN [used |-> h + Length(p, data), parser |-> Start]
          ELSE [used |-> n, parser |-> [state |-> "body", length |-> Length(p, data)]]

ExecuteStrict(p, data) ==
  LET n == Len(data)
      h == HeadLeft(p)
  IN  IF n < h
        THEN [used |-> n, parser |-> [state |-> "head_end", length |-> data[1]]]
        ELSE IF n > h /\ Length(p, data) < n-h
          THEN [used |-> h + Length(p, data), parser |-> Start]
          ELSE [used |-> n, parser |-> [state |-> "body", length |-> Length(p, data) - (n-h)]]

\* local_protocol_parser_execute: what it used of data, and its new state.
Execute(p, data) ==
  LET n == Len(data)
      h == HeadLeft(p)
  IN  IF n < h
        THEN [used |-> n, parser |-> [state |-> "head_end", length |-> data[1]]]
        ELSE LET length == Length(p, data) IN
             IF n = h
               THEN [used |-> n, parser |-> [state |-> "body", length |-> length]]
               ELSE IF length <= n-h
                 THEN [used |-> h + length, parser |-> Start]
                 ELSE [used |-> n, parser |-> [state |-> "body", length |-> length - (n-h)]]

\* local_protocol_parser_is_done
IsDone(p) == p.state = "head_start"

----------------------------------------------------------------------------
Init ==
  /\ next = 1
  /\ wire = [e \in Ends |-> <<>>]
  /\ parser = [e \in Ends |-> Start]
  /\ kept = [e \in Ends |-> <<>>]
  /\ arrived = [e \in Ends |-> <<>>]
  /\ got = [e \in Ends |-> <<>>]
  /\ unsent = <<>>
  /\ open = [e \in Ends |-> TRUE]

AtMost(m, n) == IF m < n THEN m ELSE n

\* e is between two calls of recv: at the end of a handler, or of a round of the
\* loop of echo.c, whose send blocks.
Idle(e) ==
  /\ open[e]
  /\ arrived[e] = <<>>
  /\ e = "worker" => unsent = <<>>

\* send_local_cb: any positive count is taken for the whole frame.
SendTask ==
  /\ next \in Ids
  /\ Idle("server")
  /\ LET frame == Frame(next, Requests[next])
         room == WireCap - Len(wire["worker"])
     IN  \E n \in 1 .. Len(frame) :
           /\ n <= room
           /\ n < Len(frame) => PartialSends /\ n = room
           /\ wire' = [wire EXCEPT !["worker"] = @ \o SubSeq(frame, 1, n)]
  /\ next' = next + 1
  /\ UNCHANGED <<parser, kept, arrived, got, unsent, open>>

\* recv returns some of the bytes that arrived, as many as app_buf has room for.
Recv(e) ==
  /\ Idle(e)
  /\ \E n \in 1 .. Len(wire[e]) :
       /\ n <= Cap(e) - Len(kept[e])
       /\ arrived' = [arrived EXCEPT ![e] = SubSeq(wire[e], 1, n)]
       /\ wire' = [wire EXCEPT ![e] = SubSeq(@, n+1, Len(@))]
  /\ UNCHANGED <<next, parser, kept, got, unsent, open>>

\* With app_buf full recv is asked for no bytes, and its 0 reads "close by peer".
SeesEnd(e) ==
  /\ Idle(e)
  /\ Len(kept[e]) = Cap(e)
  /\ open' = [open EXCEPT ![e] = FALSE]
  /\ UNCHANGED <<next, wire, parser, kept, arrived, got, unsent>>

\* The id a frame carries, 0 for one too short to carry any.
IdOf(frame) == IF Len(frame) > HeadLen THEN frame[HeadLen+1] ELSE 0

\* Mutants: the answer goes out under the id of the one before; a frame is read
\* without what was kept of it; what follows a frame in the buffer is dropped.
AnswersToLast(frame) ==
  {Frame(IF got["worker"] = <<>> THEN 0 ELSE IdOf(Last(got["worker"])), size) : size \in AnswerSizes}

ReadNew(e, used) == SubSeq(arrived[e], 1, used)

AfterFrame(e, used) == <<>>

\* What a worker may write for a frame it took.
Answers(frame) == {Frame(IdOf(frame), size) : size \in AnswerSizes}

\* From p up to what the parser used of the bytes, and what comes after it.
Read(e, used) == kept[e] \o SubSeq(arrived[e], 1, used)
After(e, used) == SubSeq(arrived[e], used+1, Len(arrived[e]))

\* A round of the receive loop.  A worker (echo.c) answers each frame at once, with
\* a send that blocks; the server starts nothing else before the loop has ended.
Parse(e) ==
  /\ arrived[e] # <<>>
  /\ e = "worker" => unsent = <<>>
  /\ LET r == Execute(parser[e], arrived[e])
         read == Read(e, r.used)
     IN  /\ parser' = [parser EXCEPT ![e] = r.parser]
         /\ arrived' = [arrived EXCEPT ![e] = After(e, r.used)]
         /\ IF IsDone(r.parser)
              THEN /\ kept' = [kept EXCEPT ![e] = <<>>]
                   /\ got' = [got EXCEPT ![e] = Append(@, read)]
                   /\ IF e = "worker" THEN unsent' \in Answers(read) ELSE UNCHANGED unsent
              ELSE /\ kept' = [kept EXCEPT ![e] = read]
                   /\ UNCHANGED <<got, unsent>>
  /\ UNCHANGED <<next, wire, open>>

\* The kernel moves what fits of the answer the worker is blocked on.
WorkerSend ==
  LET room == WireCap - Len(wire["server"])
      n == AtMost(room, Len(unsent))
  IN  /\ n > 0
      /\ wire' = [wire EXCEPT !["server"] = @ \o SubSeq(unsent, 1, n)]
      /\ unsent' = SubSeq(unsent, n+1, Len(unsent))
      /\ UNCHANGED <<next, parser, kept, arrived, got, open>>

Next ==
  \/ SendTask
  \/ WorkerSend
  \/ \E e \in Ends : Recv(e) \/ SeesEnd(e) \/ Parse(e)

Spec == Init /\ [][Next]_vars

\* Both ends are called again as long as they have something to read or to write.
FairSpec ==
  /\ Spec
  /\ WF_vars(SendTask) /\ WF_vars(WorkerSend)
  /\ \A e \in Ends : WF_vars(Recv(e) \/ SeesEnd(e)) /\ WF_vars(Parse(e))

----------------------------------------------------------------------------
(* Properties.                                                              *)

Bytes == 0 .. Base-1

TypeOK ==
  /\ next \in 1 .. Len(Requests)+1
  /\ wire \in [Ends -> Seq(Bytes)]
  /\ parser \in [Ends -> [state : {"head_start", "head_end", "body"}, length : 0 .. Base*Base-1]]
  /\ kept \in [Ends -> Seq(Bytes)]
  /\ arrived \in [Ends -> Seq(Bytes)]
  /\ got \in [Ends -> Seq(Seq(Bytes))]
  /\ unsent \in Seq(Bytes)
  /\ open \in [Ends -> BOOLEAN]

\* Whatever pieces recv returns, each end takes from the stream the frames that
\* were written to it, whole, once each and in order.
FramesIntact ==
  /\ IsPrefix(got["worker"], [k \in 1 .. next-1 |-> Frame(k, Requests[k])])
  /\ \A k \in DOMAIN got["server"] : got["server"][k] \in {Frame(k, size) : size \in AnswerSizes}

\* recv_local_cb takes the size of a frame from what is in app_buf: the parser and
\* the buffer agree on how much of the unfinished frame is there.
BufferMatchesParser ==
  \A e \in Ends :
    CASE parser[e].state = "head_start" -> kept[e] = <<>>
      [] parser[e].state = "head_end" -> kept[e] = <<parser[e].length>>
      [] parser[e].state = "body" ->
           Len(kept[e]) + parser[e].length = HeadLen + kept[e][1]*Base + kept[e][2]

\* Only a frame larger than app_buf is taken for the end of the connection, never
\* one that fills it or frames that were left in it.
StaysOpen ==
  \A e \in Ends :
    open[e] \/ HeadLen + kept[e][1]*Base + kept[e][2] > Cap(e)

\* Every request is answered, or the server saw the end: no frame waits for bytes
\* that never come, and the worker's blocking send and the server's never wait for
\* each other.
AllAnswered == <>(Len(got["server"]) = Len(Requests) \/ ~ open["server"])

----------------------------------------------------------------------------
(* The frames in the bytes, found by their lengths alone.                   *)

Split[bytes \in Seq(Bytes)] ==
  IF Len(bytes) < HeadLen THEN IF bytes = <<>> THEN <<>> ELSE <<bytes>>
  ELSE LET n == AtMost(HeadLen + bytes[1]*Base + bytes[2], Len(bytes))
       IN  <<SubSeq(bytes, 1, n)>> \o Split[SubSeq(bytes, n+1, Len(bytes))]

\* What is left of a frame that was cut counts as one of id 0.
Content(frame) ==
  IF IdOf(frame) # 0 /\ Len(frame) = HeadLen + frame[1]*Base + frame[2]
    THEN [id |-> IdOf(frame), size |-> Len(frame) - HeadLen - HeaderLen]
    ELSE [id |-> 0, size |-> 0]

Contents[frames \in Seq(Seq(Bytes))] == [k \in DOMAIN frames |-> Content(frames[k])]

Channel == INSTANCE FrameChannel WITH
             sent <- next - 1,
             toWorker <- Contents[Split[kept["worker"] \o arrived["worker"] \o wire["worker"]]],
             toServer <- Contents[Split[kept["server"] \o arrived["server"] \o wire["server"] \o unsent]],
             taken <- Contents[got["server"]]

\* Whatever recv cuts the bytes into, the connection is a queue of frames each
\* way, and each request gets one answer under its own id (recv_local_cb and
\* the loop of echo.c).
RefinesChannel == Channel!Spec
============================================================================
