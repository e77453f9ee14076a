-------------------------- MODULE LocalLinkProofs --------------------------
(* Proofs about the worker connection: the parser, the buffer it reads into   *)
(* and the frames that come out, for every size of byte, buffer and frame,    *)
(* and for all pieces that recv may return.  The last part proves that it      *)
(* implements FrameChannel.                                                   *)
EXTENDS LocalLink, SequenceTheorems, WellFoundedInduction, TLAPS

----------------------------------------------------------------------------
(* Lengths of two bytes.                                                    *)

LEMMA BaseIsNat == Base \in Nat \ {0} /\ 0 \in Bytes /\ Base * Base \in Nat
<1>1. Base \in Nat /\ Base > Len(Requests) /\ Len(Requests) \in Nat
  BY SizeAssumption
<1>2. Base \in Nat \ {0} /\ 0 \in Bytes
  BY <1>1 DEF Bytes
<1> QED
  BY <1>2

LEMMA TwoBytes ==
  ASSUME NEW a \in Bytes, NEW b \in Bytes
  PROVE  a*Base + b \in 0 .. Base*Base-1
<1>1. a \in Nat /\ b \in Nat /\ a <= Base-1 /\ b <= Base-1 /\ Base \in Nat
  BY BaseIsNat DEF Bytes
<1>2. a*Base \in Nat /\ a*Base <= (Base-1)*Base
  BY <1>1
<1>3. (Base-1)*Base = Base*Base - Base
  BY <1>1
<1> QED
  BY <1>1, <1>2, <1>3

\* Halving a length and putting it together again gives the length.
LEMMA LengthInBytes ==
  ASSUME NEW n \in 0 .. Base*Base-1
  PROVE  /\ Width(n) = n
         /\ n \div Base \in Bytes /\ n % Base \in Bytes
         /\ (n \div Base)*Base + (n % Base) = n
<1>1. Base \in Nat /\ Base > 0 /\ n \in Nat /\ n < Base*Base /\ Base*Base > 0
  BY BaseIsNat
<1>2. Width(n) = n
  BY <1>1 DEF Width
<1>3. n \div Base \in Nat /\ n % Base \in 0 .. Base-1 /\ n = Base * (n \div Base) + (n % Base)
  BY <1>1
<1>4. n \div Base < Base
  <2>1. SUFFICES ASSUME n \div Base >= Base PROVE FALSE
    BY <1>1, <1>3
  <2>2. Base * (n \div Base) >= Base * Base
    BY <1>1, <1>3, <2>1
  <2> QED
    BY <1>1, <1>3, <2>2
<1> QED
  BY <1>1, <1>2, <1>3, <1>4 DEF Bytes

\* What the first two bytes say of the others.
Said(s) == s[1]*Base + s[2]

LEMMA SaidRange ==
  ASSUME NEW s \in Seq(Bytes), Len(s) >= HeadLen
  PROVE  Said(s) \in 0 .. Base*Base-1 /\ Said(s) \in Nat
<1>1. s[1] \in Bytes /\ s[2] \in Bytes
  BY DEF HeadLen
<1>2. s[1]*Base + s[2] \in 0 .. Base*Base-1
  BY <1>1, TwoBytes
<1> QED
  BY <1>2, BaseIsNat DEF Said

\* A frame is as long as it says.
Whole(f) ==
  /\ f \in Seq(Bytes)
  /\ Len(f) > HeadLen
  /\ Len(f) = HeadLen + Said(f)

LEMMA FrameIsWhole ==
  ASSUME NEW id \in Bytes, NEW size \in Nat, HeaderLen + size < Base * Base
  PROVE  /\ Whole(Frame(id, size))
         /\ Len(Frame(id, size)) = HeadLen + HeaderLen + size
         /\ IdOf(Frame(id, size)) = id
<1> DEFINE n == HeaderLen + size
           head == <<n \div Base, n % Base, id>>
           body == [k \in 1 .. size |-> 0]
<1>1. n \in 0 .. Base*Base-1 /\ n = size+1
  BY BaseIsNat DEF HeaderLen
<1>2. /\ Width(n) = n /\ n \div Base \in Bytes /\ n % Base \in Bytes
      /\ (n \div Base)*Base + (n % Base) = n
  BY <1>1, LengthInBytes
<1>3. head \in Seq(Bytes) /\ Len(head) = 3 /\ head[1] = n \div Base /\ head[2] = n % Base /\ head[3] = id
  BY <1>2
<1>4. body \in Seq(Bytes) /\ Len(body) = size
  BY BaseIsNat
<1>5. Frame(id, size) = head \o body
  BY <1>2 DEF Frame
<1> HIDE DEF head, body, n
<1>6. /\ head \o body \in Seq(Bytes) /\ Len(head \o body) = 3 + size
      /\ \A k \in 1 .. 3 : (head \o body)[k] = head[k]
  <2>1. \A k \in 1 .. 3 : k \in 1 .. 3 + size /\ k <= 3
    OBVIOUS
  <2>2. /\ head \o body \in Seq(Bytes) /\ Len(head \o body) = Len(head) + Len(body)
        /\ \A k \in 1 .. Len(head) + Len(body) :
             (head \o body)[k] = IF k <= Len(head) THEN head[k] ELSE body[k - Len(head)]
    BY <1>3, <1>4, ConcatProperties
  <2> QED
    BY <1>3, <1>4, <2>1, <2>2
<1>7. Said(Frame(id, size)) = n
  BY <1>2, <1>3, <1>5, <1>6 DEF Said
<1>8. IdOf(Frame(id, size)) = id
  BY <1>3, <1>5, <1>6 DEF IdOf, HeadLen
<1> QED
  BY <1>1, <1>5, <1>6, <1>7, <1>8 DEF Whole, HeadLen, HeaderLen

----------------------------------------------------------------------------
(* One call of the parser.                                                  *)

Parsers == [state : {"head_start", "head_end", "body"}, length : 0 .. Base*Base-1]

\* k is what parser p has read of an unfinished frame.  A length of 0 shows when
\* the next byte comes.
Agrees(p, k) ==
  /\ p \in Parsers
  /\ k \in Seq(Bytes)
  /\ p.state = "head_start" => k = <<>>
  /\ p.state = "head_end" => Len(k) = 1 /\ k[1] = p.length
  /\ p.state = "body" =>
       /\ Len(k) >= HeadLen
       /\ Len(k) + p.length = HeadLen + Said(k)
       /\ p.length = 0 => Len(k) = HeadLen

\* With the head complete, the length is what the head says less what was read.
LEMMA LengthLeft ==
  ASSUME NEW p, NEW k, Agrees(p, k), NEW d \in Seq(Bytes), Len(d) >= HeadLeft(p)
  PROVE  /\ Length(p, d) \in 0 .. Base*Base-1
         /\ Len(k) + HeadLeft(p) >= HeadLen
         /\ Len(k) + HeadLeft(p) + Length(p, d) = HeadLen + Said(k \o d)
         /\ HeadLeft(p) > 0 => Len(k) + HeadLeft(p) = HeadLen
         /\ HeadLeft(p) = 0 /\ Length(p, d) = 0 => Len(k) = HeadLen
<1> DEFINE both == k \o d
           length == Length(p, d)
<1>1. /\ Len(d) \in Nat /\ \A j \in 1 .. Len(d) : d[j] \in Bytes
      /\ k \in Seq(Bytes) /\ Len(k) \in Nat /\ \A j \in 1 .. Len(k) : k[j] \in Bytes
      /\ p.state \in {"head_start", "head_end", "body"} /\ p.length \in 0 .. Base*Base-1
  BY LenProperties DEF Agrees, Parsers
<1>2. \A j \in 1 .. Len(k) + Len(d) : both[j] = IF j <= Len(k) THEN k[j] ELSE d[j - Len(k)]
  BY <1>1, ConcatProperties
<1>3. CASE p.state = "head_start"
  <2>1. HeadLeft(p) = 2 /\ length = d[1]*Base + d[2]
    BY <1>3 DEF HeadLeft, Length
  <2>2. Len(k) = 0 /\ d[1] \in Bytes /\ d[2] \in Bytes /\ both[1] = d[1] /\ both[2] = d[2]
    BY <1>1, <1>2, <1>3, <2>1 DEF Agrees
  <2>3. length \in 0 .. Base*Base-1 /\ Said(both) = length
    BY <2>1, <2>2, TwoBytes DEF Said
  <2> HIDE DEF length, both
  <2> QED
    BY <2>1, <2>2, <2>3, BaseIsNat DEF HeadLen, both, length
<1>4. CASE p.state = "head_end"
  <2>1. HeadLeft(p) = 1 /\ length = Width(p.length*Base + d[1])
    BY <1>4 DEF HeadLeft, Length
  <2>2. Len(k) = 1 /\ k[1] = p.length
    BY <1>4 DEF Agrees
  <2>3. d[1] \in Bytes /\ k[1] \in Bytes /\ both[1] = k[1] /\ both[2] = d[1]
    BY <1>1, <1>2, <2>1, <2>2
  <2>4. k[1]*Base + d[1] \in 0 .. Base*Base-1
    BY <2>3, TwoBytes
  <2>5. length \in 0 .. Base*Base-1 /\ Said(both) = length
    BY <2>1, <2>2, <2>3, <2>4, LengthInBytes DEF Said
  <2> HIDE DEF length, both
  <2> QED
    BY <2>1, <2>2, <2>5, BaseIsNat DEF HeadLen, both, length
<1>5. CASE p.state = "body"
  <2>1. HeadLeft(p) = 0 /\ length = p.length
    BY <1>5 DEF HeadLeft, Length
  <2>2. Len(k) >= 2 /\ Len(k) + p.length = HeadLen + Said(k) /\ (p.length = 0 => Len(k) = HeadLen)
    BY <1>5 DEF Agrees, HeadLen
  <2>3. Said(both) = Said(k)
    BY <1>1, <1>2, <2>2 DEF Said
  <2> HIDE DEF length, both
  <2> QED
    BY <1>1, <2>1, <2>2, <2>3 DEF HeadLen, both, length
<1> QED
  BY <1>1, <1>3, <1>4, <1>5

\* The bytes read so far, and those the parser uses of d, are a frame as its head
\* says, or all there is and less than a frame.
Reads(k, d, r, read) ==
  /\ r.used \in 0 .. Len(d)
  /\ read = k \o SubSeq(d, 1, r.used)
  /\ read \in Seq(Bytes)
  /\ IsDone(r.parser) =>
       r.parser = Start /\ Len(read) >= HeadLen /\ Len(read) = HeadLen + Said(read)
  /\ ~IsDone(r.parser) => r.used = Len(d) /\ Agrees(r.parser, read)

LEMMA ExecuteReads ==
  ASSUME NEW p, NEW k, Agrees(p, k), NEW d \in Seq(Bytes), d # <<>>
  PROVE  Reads(k, d, Execute(p, d), k \o SubSeq(d, 1, Execute(p, d).used))
<1> DEFINE r == Execute(p, d)
           read == k \o SubSeq(d, 1, r.used)
<1> SUFFICES Reads(k, d, r, read)
  OBVIOUS
<1> HIDE DEF r, read
<1> DEFINE n == Len(d)
           h == HeadLeft(p)
           both == k \o d
<1>1. /\ n \in Nat /\ n > 0 /\ \A j \in 1 .. n : d[j] \in Bytes
      /\ k \in Seq(Bytes) /\ Len(k) \in Nat /\ \A j \in 1 .. Len(k) : k[j] \in Bytes
      /\ p.state \in {"head_start", "head_end", "body"}
  BY EmptySeq, LenProperties DEF Agrees, Parsers
<1>2. /\ h \in 0 .. 2 /\ (h = 2 <=> p.state = "head_start")
      /\ h = 2 => Len(k) = 0
  BY <1>1 DEF HeadLeft, Agrees
<1> HIDE DEF h
<1>3. \A j \in 1 .. Len(k) + n : both[j] = IF j <= Len(k) THEN k[j] ELSE d[j - Len(k)]
  BY <1>1, ConcatProperties
\* What is read is a part of both.
<1>4. ASSUME r.used \in 0 .. n
      PROVE  /\ read \in Seq(Bytes)
             /\ Len(read) = Len(k) + r.used
             /\ \A j \in 1 .. Len(k) + r.used : read[j] = both[j]
             /\ Len(k) + r.used >= HeadLen => Said(read) = Said(both)
  <2> DEFINE u == r.used
             q == SubSeq(d, 1, u)
  <2>1. q \in Seq(Bytes) /\ Len(q) = u /\ \A j \in 1 .. u : q[j] = d[j]
    <3>1. \A j \in 1 .. u : d[j] \in Bytes
      BY <1>1, <1>4
    <3> QED
      BY <1>4, <3>1, SubSeqProperties
  <2>2. read = k \o q
    BY DEF read
  <2> HIDE DEF q, u
  <2>3. /\ read \in Seq(Bytes) /\ Len(read) = Len(k) + u
        /\ \A j \in 1 .. Len(k) + u : read[j] = IF j <= Len(k) THEN k[j] ELSE q[j - Len(k)]
    <3>1. /\ k \o q \in Seq(Bytes) /\ Len(k \o q) = Len(k) + Len(q)
          /\ \A j \in 1 .. Len(k) + Len(q) :
               (k \o q)[j] = IF j <= Len(k) THEN k[j] ELSE q[j - Len(k)]
      BY <1>1, <2>1, ConcatProperties
    <3> QED
      BY <2>1, <2>2, <3>1
  <2>4. u \in 0 .. n
    BY <1>4 DEF u
  <2>5. \A j \in 1 .. Len(k) + u : read[j] = both[j]
    BY <1>1, <1>3, <2>1, <2>3, <2>4
  <2>6. Len(k) + u >= HeadLen => Said(read) = Said(both)
    <3> SUFFICES ASSUME Len(k) + u >= 2 PROVE Said(read) = Said(both)
      BY DEF HeadLen
    <3>1. 1 \in 1 .. Len(k) + u /\ 2 \in 1 .. Len(k) + u
      BY <1>1, <2>4
    <3>2. read[1] = both[1] /\ read[2] = both[2]
      BY <2>5, <3>1
    <3> QED
      BY <3>2 DEF Said
  <2> QED
    BY <2>3, <2>5, <2>6 DEF u
<1>5. Base*Base \in Nat /\ Base \in Nat
  BY BaseIsNat
<1>6. CASE n < h
  <2>1. r = [used |-> n, parser |-> [state |-> "head_end", length |-> d[1]]]
    BY <1>6 DEF Execute, h, r
  <2>2. n = 1 /\ h = 2 /\ Len(k) = 0
    <3> HIDE DEF n
    <3> QED
      BY <1>1, <1>2, <1>6
  <2>3. read \in Seq(Bytes) /\ Len(read) = 1 /\ read[1] = d[1]
    BY <1>1, <1>3, <1>4, <2>1, <2>2
  <2>4. d[1] \in 0 .. Base*Base-1
    <3>1. d[1] \in Bytes /\ Base * 1 <= Base * Base
      BY <1>1, <1>5, BaseIsNat, <2>2
    <3> QED
      BY <1>5, <3>1 DEF Bytes
  <2> QED
    BY <1>1, <2>1, <2>2, <2>3, <2>4 DEF Reads, read, IsDone, Agrees, Parsers
<1>7. CASE n >= h
  <2> DEFINE length == Length(p, d)
  <2>1. /\ length \in 0 .. Base*Base-1
        /\ Len(k) + h >= HeadLen /\ Len(k) + h + length = HeadLen + Said(both)
        /\ h > 0 => Len(k) + h = HeadLen
        /\ h = 0 /\ length = 0 => Len(k) = HeadLen
    BY <1>7, LengthLeft DEF h
  <2>2. r = IF n = h
              THEN [used |-> n, parser |-> [state |-> "body", length |-> length]]
              ELSE IF length <= n-h
                THEN [used |-> h + length, parser |-> Start]
                ELSE [used |-> n, parser |-> [state |-> "body", length |-> length - (n-h)]]
    BY <1>1, <1>2, <1>7 DEF Execute, h, r
  <2> HIDE DEF length, both, n
  <2>3. CASE n = h
    <3>1. r.used = n /\ r.parser = [state |-> "body", length |-> length]
      BY <2>2, <2>3
    <3>2. read \in Seq(Bytes) /\ Len(read) = Len(k) + n /\ Said(read) = Said(both)
      BY <1>1, <1>2, <1>4, <2>1, <2>3, <3>1 DEF HeadLen
    <3> QED
      BY <1>1, <2>1, <2>3, <3>1, <3>2 DEF Reads, read, IsDone, Agrees, Parsers, n
  <2>4. CASE n > h /\ length <= n-h
    <3>1. r.used = h + length /\ r.parser = Start
      BY <1>1, <1>2, <2>2, <2>4
    <3>2. h + length \in 0 .. n
      BY <1>1, <1>2, <1>5, <2>1, <2>4
    <3>3. read \in Seq(Bytes) /\ Len(read) = Len(k) + h + length /\ Said(read) = Said(both)
      BY <1>1, <1>2, <1>4, <1>5, <2>1, <3>1, <3>2 DEF HeadLen
    <3> QED
      BY <1>1, <1>2, <1>5, <2>1, <3>1, <3>2, <3>3 DEF Reads, read, IsDone, Start, HeadLen, n
  <2>5. CASE n > h /\ length > n-h
    <3>1. r.used = n /\ r.parser = [state |-> "body", length |-> length - (n-h)]
      BY <1>1, <1>2, <1>5, <2>1, <2>2, <2>5
    <3>2. read \in Seq(Bytes) /\ Len(read) = Len(k) + n /\ Said(read) = Said(both)
      BY <1>1, <1>2, <1>4, <2>1, <2>5, <3>1 DEF HeadLen
    <3>3. length - (n-h) \in 0 .. Base*Base-1 /\ length - (n-h) > 0
      BY <1>1, <1>2, <1>5, <2>1, <2>5
    <3>4. Len(read) >= HeadLen /\ Len(read) + (length - (n-h)) = HeadLen + Said(read)
      BY <1>1, <1>2, <1>5, <2>1, <2>5, <3>2 DEF HeadLen
    <3> QED
      BY <1>1, <3>1, <3>2, <3>3, <3>4 DEF Reads, read, IsDone, Agrees, Parsers, n
  <2> QED
    BY <1>1, <1>2, <1>5, <1>7, <2>1, <2>3, <2>4, <2>5
<1> QED
  BY <1>1, <1>2, <1>6, <1>7

----------------------------------------------------------------------------
(* The buffers.                                                             *)

Reading == \A e \in Ends : Agrees(parser[e], kept[e])

\* Only a full buffer ends a connection, and nothing is read after that.
Ended == \A e \in Ends : ~open[e] => arrived[e] = <<>> /\ Len(kept[e]) = Cap(e)

IInv == TypeOK /\ Reading /\ Ended

LEMMA Prefix ==
  ASSUME NEW S, NEW s \in Seq(S), NEW n \in 0 .. Len(s)
  PROVE  /\ SubSeq(s, 1, n) \in Seq(S) /\ Len(SubSeq(s, 1, n)) = n
         /\ SubSeq(s, n+1, Len(s)) \in Seq(S) /\ Len(SubSeq(s, n+1, Len(s))) = Len(s) - n
         /\ SubSeq(s, 1, n) \o SubSeq(s, n+1, Len(s)) = s
<1>1. Len(s) \in Nat /\ n \in Int /\ \A j \in 1 .. Len(s) : s[j] \in S
  BY LenProperties
<1>2. \A j \in 1 .. n : s[j] \in S
  BY <1>1
<1>3. \A j \in n+1 .. Len(s) : s[j] \in S
  BY <1>1
<1>4. SubSeq(s, 1, n) \in Seq(S) /\ Len(SubSeq(s, 1, n)) = n
  BY <1>1, <1>2, SubSeqProperties
<1>5. SubSeq(s, n+1, Len(s)) \in Seq(S) /\ Len(SubSeq(s, n+1, Len(s))) = Len(s) - n
  BY <1>1, <1>3, SubSeqProperties
<1>6. 1 \in 1 .. Len(s)+1 /\ n \in 1-1 .. Len(s) /\ Len(s) \in n .. Len(s)
  BY <1>1
<1>7. SubSeq(s, 1, n) \o SubSeq(s, n+1, Len(s)) = SubSeq(s, 1, Len(s))
  BY <1>6, ConcatAdjacentSubSeq
<1> QED
  BY <1>4, <1>5, <1>7, SubSeqFull

\* What SendTask writes is a frame.
LEMMA TaskIsWhole ==
  ASSUME NEW id \in Ids
  PROVE  Whole(Frame(id, Requests[id])) /\ IdOf(Frame(id, Requests[id])) = id
<1>1. id \in Bytes /\ Requests[id] \in Nat /\ HeaderLen + Requests[id] < Base * Base
  BY SizeAssumption DEF Ids, Bytes
<1> QED
  BY <1>1, FrameIsWhole

\* So is what a worker may answer.
LEMMA AnswerIsWhole ==
  ASSUME NEW f \in Seq(Bytes), NEW a \in Answers(f)
  PROVE  Whole(a) /\ IdOf(f) \in Bytes /\ \E size \in AnswerSizes : a = Frame(IdOf(f), size)
<1>1. PICK size \in AnswerSizes : a = Frame(IdOf(f), size)
  BY DEF Answers
<1>2. size \in Nat /\ HeaderLen + size < Base * Base
  BY SizeAssumption
<1>3. IdOf(f) \in Bytes
  BY BaseIsNat DEF IdOf, HeadLen
<1> QED
  BY <1>1, <1>2, <1>3, FrameIsWhole

LEMMA InitIInv == Init => IInv
<1> SUFFICES ASSUME Init PROVE IInv
  OBVIOUS
<1>1. Start \in Parsers /\ Agrees(Start, <<>>)
  BY BaseIsNat DEF Start, Parsers, Agrees
<1>2. 1 \in 1 .. Len(Requests)+1
  BY SizeAssumption
<1> QED
  BY <1>1, <1>2 DEF Init, IInv, TypeOK, Reading, Ended, Parsers

\* A round of the receive loop: read is what it has of a frame.
Round(e, r, read) ==
  /\ Reads(kept[e], arrived[e], r, read)
  /\ parser' = [parser EXCEPT ![e] = r.parser]
  /\ arrived' = [arrived EXCEPT ![e] = After(e, r.used)]
  /\ IsDone(r.parser) =>
       /\ kept' = [kept EXCEPT ![e] = <<>>]
       /\ got' = [got EXCEPT ![e] = Append(@, read)]
       /\ IF e = "worker" THEN unsent' \in Answers(read) ELSE UNCHANGED unsent
  /\ ~IsDone(r.parser) =>
       /\ kept' = [kept EXCEPT ![e] = read]
       /\ UNCHANGED <<got, unsent>>

LEMMA ParseRounds ==
  ASSUME IInv, NEW e \in Ends, Parse(e)
  PROVE  \E r, read : Round(e, r, read)
<1> DEFINE r == Execute(parser[e], arrived[e])
           read == Read(e, r.used)
<1>1. Agrees(parser[e], kept[e]) /\ arrived[e] \in Seq(Bytes) /\ arrived[e] # <<>>
  BY DEF IInv, Reading, TypeOK, Parse
<1>2. Reads(kept[e], arrived[e], r, kept[e] \o SubSeq(arrived[e], 1, r.used))
  BY <1>1, ExecuteReads
<1>3. Reads(kept[e], arrived[e], r, read)
  BY <1>2 DEF Read
<1>4. Round(e, r, read)
  BY <1>3 DEF Parse, Round
<1> QED
  BY <1>4

LEMMA StepIInv == IInv /\ [Next]_vars => IInv'
<1> SUFFICES ASSUME IInv, [Next]_vars PROVE IInv'
  OBVIOUS
<1>0. /\ TypeOK /\ Reading /\ Ended
      /\ "worker" \in Ends /\ "server" \in Ends
  BY DEF IInv, Ends
<1>1. CASE SendTask
  <2> DEFINE frame == Frame(next, Requests[next])
  <2>1. next \in Ids /\ next + 1 \in 1 .. Len(Requests)+1
    BY <1>1, SizeAssumption DEF SendTask, Ids
  <2>2. frame \in Seq(Bytes)
    BY <2>1, TaskIsWhole DEF Whole
  <2> HIDE DEF frame
  <2>3. PICK n \in 1 .. Len(frame) :
          wire' = [wire EXCEPT !["worker"] = @ \o SubSeq(frame, 1, n)]
    BY <1>1 DEF SendTask, frame
  <2>4. SubSeq(frame, 1, n) \in Seq(Bytes)
    BY <2>2, Prefix
  <2>5. wire["worker"] \o SubSeq(frame, 1, n) \in Seq(Bytes)
    BY <1>0, <2>4, ConcatProperties DEF TypeOK
  <2> QED
    BY <1>0, <1>1, <2>1, <2>3, <2>5 DEF SendTask, IInv, TypeOK, Reading, Ended
<1>2. CASE WorkerSend
  <2> DEFINE n == AtMost(WireCap - Len(wire["server"]), Len(unsent))
  <2>1. n \in 0 .. Len(unsent)
    <3> DEFINE room == WireCap - Len(wire["server"])
               length == Len(unsent)
    <3>1. room \in Int /\ length \in Nat /\ n > 0
      BY <1>0, <1>2, SizeAssumption DEF WorkerSend, TypeOK, Ends
    <3>2. n = AtMost(room, length)
      OBVIOUS
    <3> HIDE DEF room, length, n
    <3>3. n \in 0 .. length
      BY <3>1, <3>2 DEF AtMost
    <3> QED
      BY <3>3 DEF length
  <2>2. SubSeq(unsent, 1, n) \in Seq(Bytes) /\ SubSeq(unsent, n+1, Len(unsent)) \in Seq(Bytes)
    BY <1>0, <2>1, Prefix DEF TypeOK
  <2>3. wire["server"] \o SubSeq(unsent, 1, n) \in Seq(Bytes)
    BY <1>0, <2>2, ConcatProperties DEF TypeOK
  <2>4. /\ wire' = [wire EXCEPT !["server"] = @ \o SubSeq(unsent, 1, n)]
        /\ unsent' = SubSeq(unsent, n+1, Len(unsent))
        /\ UNCHANGED <<next, parser, kept, arrived, got, open>>
    BY <1>2 DEF WorkerSend
  <2> QED
    BY <1>0, <2>2, <2>3, <2>4 DEF IInv, TypeOK, Reading, Ended
<1>3. ASSUME NEW e \in Ends, Recv(e) PROVE IInv'
  <2>1. PICK n \in 1 .. Len(wire[e]) :
          /\ arrived' = [arrived EXCEPT ![e] = SubSeq(wire[e], 1, n)]
          /\ wire' = [wire EXCEPT ![e] = SubSeq(@, n+1, Len(@))]
    BY <1>3 DEF Recv
  <2>2. SubSeq(wire[e], 1, n) \in Seq(Bytes) /\ SubSeq(wire[e], n+1, Len(wire[e])) \in Seq(Bytes)
    <3>1. wire[e] \in Seq(Bytes) /\ n \in 0 .. Len(wire[e])
      BY <1>0 DEF TypeOK
    <3> QED
      BY <3>1, Prefix
  <2> QED
    BY <1>0, <1>3, <2>1, <2>2 DEF Recv, Idle, IInv, TypeOK, Reading, Ended
<1>4. ASSUME NEW e \in Ends, SeesEnd(e) PROVE IInv'
  BY <1>0, <1>4 DEF SeesEnd, Idle, IInv, TypeOK, Reading, Ended
<1>5. ASSUME NEW e \in Ends, Parse(e) PROVE IInv'
  <2>0. PICK r, read : Round(e, r, read)
    BY <1>5, ParseRounds
  <2>1. /\ r.used \in 0 .. Len(arrived[e])
        /\ read \in Seq(Bytes)
        /\ IF IsDone(r.parser) THEN r.parser = Start ELSE Agrees(r.parser, read)
        /\ parser' = [parser EXCEPT ![e] = r.parser]
        /\ arrived' = [arrived EXCEPT ![e] = After(e, r.used)]
        /\ IF IsDone(r.parser)
             THEN /\ kept' = [kept EXCEPT ![e] = <<>>]
                  /\ got' = [got EXCEPT ![e] = Append(@, read)]
                  /\ unsent' \in Answers(read) \/ UNCHANGED unsent
             ELSE /\ kept' = [kept EXCEPT ![e] = read]
                  /\ UNCHANGED <<got, unsent>>
    BY <2>0 DEF Round, Reads
  <2>2. After(e, r.used) \in Seq(Bytes)
    BY <1>0, <2>1, Prefix DEF After, TypeOK
  <2>3. open[e] /\ UNCHANGED <<next, wire, open>>
    BY <1>0, <1>5 DEF Parse, Ended
  <2>4. Agrees(Start, <<>>)
    BY BaseIsNat DEF Start, Parsers, Agrees
  <2>5. CASE IsDone(r.parser)
    <3>1. unsent' \in Seq(Bytes)
      BY <1>0, <2>1, <2>5, AnswerIsWhole DEF Whole, TypeOK
    <3>2. Append(got[e], read) \in Seq(Seq(Bytes))
      BY <1>0, <2>1 DEF TypeOK
    <3>3. Start \in Parsers
      BY <2>4 DEF Agrees
    <3>4. /\ parser' = [parser EXCEPT ![e] = Start]
          /\ kept' = [kept EXCEPT ![e] = <<>>]
          /\ got' = [got EXCEPT ![e] = Append(@, read)]
      BY <2>1, <2>5
    <3>5. TypeOK'
      <4>1. parser' \in [Ends -> Parsers] /\ kept' \in [Ends -> Seq(Bytes)]
        <5>1. parser \in [Ends -> Parsers] /\ kept \in [Ends -> Seq(Bytes)]
          BY <1>0 DEF TypeOK, Parsers
        <5> QED
          BY <3>3, <3>4, <5>1
      <4>2. got' \in [Ends -> Seq(Seq(Bytes))] /\ arrived' \in [Ends -> Seq(Bytes)]
        BY <1>0, <2>1, <2>2, <3>2, <3>4 DEF TypeOK
      <4> QED
        BY <1>0, <2>3, <3>1, <4>1, <4>2 DEF TypeOK, Parsers
    <3>6. Reading'
      BY <1>0, <2>4, <3>4 DEF TypeOK, Reading
    <3>7. Ended'
      BY <1>0, <2>1, <2>3, <3>4 DEF TypeOK, Ended
    <3> QED
      BY <3>5, <3>6, <3>7 DEF IInv
  <2>6. CASE ~IsDone(r.parser)
    <3>1. Agrees(r.parser, read)
      BY <2>1, <2>6
    <3>2. r.parser \in Parsers /\ read \in Seq(Bytes)
      BY <3>1 DEF Agrees
    <3>3. kept' = [kept EXCEPT ![e] = read] /\ UNCHANGED <<got, unsent>>
      BY <2>1, <2>6
    <3>4. TypeOK'
      BY <1>0, <2>1, <2>2, <2>3, <3>2, <3>3 DEF TypeOK, Parsers
    <3>5. Reading'
      BY <1>0, <2>1, <3>1, <3>3 DEF TypeOK, Reading
    <3>6. Ended'
      BY <1>0, <2>1, <2>3, <3>3 DEF TypeOK, Ended
    <3> QED
      BY <3>4, <3>5, <3>6 DEF IInv
  <2> QED
    BY <2>5, <2>6
<1>6. CASE UNCHANGED vars
  BY <1>0, <1>6 DEF vars, IInv, TypeOK, Reading, Ended
<1> QED
  BY <1>1, <1>2, <1>3, <1>4, <1>5, <1>6 DEF Next

\* Every variable keeps its type, whatever bytes arrive in whatever pieces: no
\* length leaves its two bytes.
THEOREM TypeCorrect == Spec => []TypeOK
<1>1. Init => IInv
  BY InitIInv
<1>2. IInv /\ [Next]_vars => IInv'
  BY StepIInv
<1>3. IInv => TypeOK
  BY DEF IInv
<1> QED
  BY <1>1, <1>2, <1>3, PTL DEF Spec

\* The parser and the buffer agree on the unfinished frame at both ends, also when
\* a frame was cut by a partial send: the receive loop takes its size from the
\* buffer.
THEOREM BufferAgrees == Spec => []BufferMatchesParser
<1>1. IInv => BufferMatchesParser
  <2> SUFFICES ASSUME IInv, NEW e \in Ends
               PROVE  CASE parser[e].state = "head_start" -> kept[e] = <<>>
                        [] parser[e].state = "head_end" -> kept[e] = <<parser[e].length>>
                        [] parser[e].state = "body" ->
                             Len(kept[e]) + parser[e].length = HeadLen + kept[e][1]*Base + kept[e][2]
    BY DEF BufferMatchesParser
  <2>1. Agrees(parser[e], kept[e])
    BY DEF IInv, Reading
  <2>2. parser[e].state \in {"head_start", "head_end", "body"}
    BY <2>1 DEF Agrees, Parsers
  <2>3. parser[e].state = "head_end" => kept[e] = <<parser[e].length>>
    BY <2>1 DEF Agrees
  <2>4. ASSUME parser[e].state = "body"
        PROVE  Len(kept[e]) + parser[e].length = HeadLen + kept[e][1]*Base + kept[e][2]
    <3>1. kept[e] \in Seq(Bytes) /\ Len(kept[e]) >= 2
          /\ Len(kept[e]) + parser[e].length = HeadLen + Said(kept[e])
      BY <2>1, <2>4 DEF Agrees, HeadLen
    <3>2. kept[e][1] \in Bytes /\ kept[e][2] \in Bytes
      BY <3>1
    <3>3. kept[e][1]*Base \in Nat /\ kept[e][2] \in Nat
      BY <3>2, BaseIsNat DEF Bytes
    <3> QED
      BY <3>1, <3>3 DEF Said, HeadLen
  <2> QED
    BY <2>1, <2>2, <2>3, <2>4 DEF Agrees
<1> QED
  BY <1>1, InitIInv, StepIInv, PTL DEF Spec

\* An end takes nothing for the end of the connection but a frame that is larger
\* than its buffer.
THEOREM OnlyLargeFramesEnd == Spec => []StaysOpen
<1>1. IInv => StaysOpen
  <2> SUFFICES ASSUME IInv, NEW e \in Ends, ~open[e]
               PROVE  HeadLen + kept[e][1]*Base + kept[e][2] > Cap(e)
    BY DEF StaysOpen
  <2> DEFINE k == kept[e]
             p == parser[e]
             c == Cap(e)
  <2>1. Agrees(p, k) /\ Len(k) = c /\ c \in Nat /\ c > 2
    BY SizeAssumption DEF IInv, Reading, Ended, Cap, HeadLen
  <2>2. p.state = "body" /\ p.length \in Nat /\ p.length # 0
    BY <2>1, BaseIsNat DEF Agrees, Parsers, HeadLen
  <2>3. k \in Seq(Bytes) /\ Len(k) + p.length = HeadLen + Said(k)
    BY <2>1, <2>2 DEF Agrees
  <2>4. k[1] \in Bytes /\ k[2] \in Bytes
    BY <2>1, <2>3
  <2>5. k[1]*Base \in Nat /\ k[2] \in Nat
    BY <2>4, BaseIsNat DEF Bytes
  <2> HIDE DEF c
  <2> QED
    BY <2>1, <2>2, <2>3, <2>5, SMTT(20) DEF Said, HeadLen, c
<1> QED
  BY <1>1, InitIInv, StepIInv, PTL DEF Spec

----------------------------------------------------------------------------
(* Frames in a stream of bytes.                                             *)

\* s is made of the frames f, one after the other: at[k] bytes are in the first k.
Ruled(s, f, at) ==
  /\ at \in [0 .. Len(f) -> Nat]
  /\ at[0] = 0 /\ at[Len(f)] = Len(s)
  /\ \A k \in 1 .. Len(f) :
       /\ at[k] = at[k-1] + Len(f[k])
       /\ \A j \in 1 .. Len(f[k]) : s[at[k-1]+j] = f[k][j]
  /\ \A j, k \in 0 .. Len(f) : j <= k => at[j] <= at[k]

Spells(s, f) == \E at : Ruled(s, f, at)

LEMMA SpellsNothing == Spells(<<>>, <<>>)
<1> DEFINE at == [k \in 0 .. 0 |-> 0]
<1>1. Ruled(<<>>, <<>>, at)
  BY DEF Ruled
<1> QED
  BY <1>1 DEF Spells

\* A frame that is written after the others.
LEMMA SpellsAppend ==
  ASSUME NEW s \in Seq(Bytes), NEW f \in Seq(Seq(Bytes)), NEW g \in Seq(Bytes), Spells(s, f)
  PROVE  Spells(s \o g, Append(f, g))
<1>1. PICK at : Ruled(s, f, at)
  BY DEF Spells
<1> DEFINE n == Len(f)
           t == s \o g
           h == Append(f, g)
           bt == [k \in 0 .. n+1 |-> IF k <= n THEN at[k] ELSE Len(s) + Len(g)]
<1>2. n \in Nat /\ Len(s) \in Nat /\ Len(g) \in Nat /\ at \in [0 .. n -> Nat] /\ at[0] = 0 /\ at[n] = Len(s)
  BY <1>1 DEF Ruled
<1>3. /\ Len(h) = n+1 /\ h[n+1] = g /\ \A k \in 1 .. n : h[k] = f[k] /\ Len(f[k]) \in Nat
  OBVIOUS
<1>4. /\ Len(t) = Len(s) + Len(g)
      /\ \A j \in 1 .. Len(s) : t[j] = s[j]
      /\ \A j \in 1 .. Len(g) : t[Len(s)+j] = g[j]
  BY <1>2, ConcatProperties
<1>5. /\ bt \in [0 .. n+1 -> Nat] /\ bt[0] = 0 /\ bt[n+1] = Len(t)
      /\ \A k \in 0 .. n : bt[k] = at[k] /\ at[k] \in Nat /\ at[k] <= at[n]
  <2>1. bt \in [0 .. n+1 -> Nat]
    BY <1>2
  <2>2. bt[0] = 0 /\ bt[n+1] = Len(t)
    BY <1>2, <1>4
  <2>3. ASSUME NEW k \in 0 .. n PROVE bt[k] = at[k] /\ at[k] \in Nat /\ at[k] <= at[n]
    <3>1. k <= n /\ k \in 0 .. n+1 /\ n \in 0 .. n
      BY <1>2
    <3> QED
      BY <1>1, <1>2, <3>1 DEF Ruled
  <2> QED
    BY <2>1, <2>2, <2>3
<1> HIDE DEF bt, h, t, n
<1>6. ASSUME NEW k \in 1 .. n+1
      PROVE  /\ bt[k] = bt[k-1] + Len(h[k])
             /\ \A j \in 1 .. Len(h[k]) : t[bt[k-1]+j] = h[k][j]
  <2>1. CASE k = n+1
    <3>1. k-1 = n /\ n \in 0 .. n /\ bt[k-1] = Len(s)
      BY <1>2, <1>5, <2>1
    <3> QED
      BY <1>2, <1>3, <1>4, <1>5, <2>1, <3>1
  <2>2. CASE k # n+1
    <3>1. k \in 1 .. n /\ k \in 0 .. n /\ k-1 \in 0 .. n
      BY <1>2, <2>2
    <3>2. /\ at[k] = at[k-1] + Len(f[k])
          /\ \A j \in 1 .. Len(f[k]) : s[at[k-1]+j] = f[k][j]
      BY <1>1, <3>1 DEF Ruled, n
    <3>3. /\ h[k] = f[k] /\ Len(f[k]) \in Nat /\ bt[k] = at[k] /\ bt[k-1] = at[k-1]
          /\ at[k] \in Nat /\ at[k-1] \in Nat /\ at[k] <= Len(s)
      BY <1>2, <1>3, <1>5, <3>1
    <3>4. ASSUME NEW j \in 1 .. Len(f[k]) PROVE t[at[k-1]+j] = f[k][j]
      <4>1. at[k-1]+j \in 1 .. Len(s)
        BY <1>2, <3>2, <3>3, SMTT(20)
      <4> QED
        BY <1>4, <3>2, <4>1
    <3> QED
      BY <3>2, <3>3, <3>4
  <2> QED
    BY <2>1, <2>2
<1>7. ASSUME NEW j \in 0 .. n+1, NEW k \in 0 .. n+1, j <= k PROVE bt[j] <= bt[k]
  <2>1. CASE k = n+1
    <3>1. j \in 0 .. n \/ j = k
      BY <1>2, <2>1
    <3> QED
      BY <1>2, <1>4, <1>5, <2>1, <3>1
  <2>2. CASE k # n+1
    <3>1. j \in 0 .. n /\ k \in 0 .. n
      BY <1>2, <1>7, <2>2
    <3> QED
      BY <1>1, <1>5, <1>7, <3>1 DEF Ruled, n
  <2> QED
    BY <2>1, <2>2
<1>8. Ruled(t, h, bt)
  BY <1>3, <1>5, <1>6, <1>7 DEF Ruled
<1> QED
  BY <1>8 DEF Spells, t, h

\* What reads as a frame at the front is the first of them.
LEMMA SpellsFirst ==
  ASSUME NEW f \in Seq(Seq(Bytes)), \A k \in 1 .. Len(f) : Whole(f[k]),
         NEW read \in Seq(Bytes), Len(read) >= HeadLen, Len(read) = HeadLen + Said(read),
         NEW t \in Seq(Bytes), Spells(read \o t, f)
  PROVE  f # <<>> /\ read = f[1] /\ Spells(t, Tail(f))
<1> DEFINE s == read \o t
           n == Len(f)
           m == Len(read)
<1>1. PICK at : Ruled(s, f, at)
  BY DEF Spells
<1>2. /\ n \in Nat /\ m \in Nat /\ m >= 2 /\ Len(t) \in Nat
      /\ Len(s) = m + Len(t)
      /\ \A j \in 1 .. m : s[j] = read[j]
      /\ \A j \in 1 .. Len(t) : s[m+j] = t[j]
  <2>1. n \in Nat /\ m \in Nat /\ m >= 2 /\ Len(t) \in Nat
    BY DEF HeadLen
  <2>2. /\ Len(s) = m + Len(t)
        /\ \A j \in 1 .. m + Len(t) : s[j] = IF j <= m THEN read[j] ELSE t[j-m]
    BY ConcatProperties
  <2> DEFINE l == Len(t)
  <2> HIDE DEF s, m, l
  <2>3. \A j \in 1 .. m : s[j] = read[j]
    BY <2>1, <2>2 DEF l
  <2>4. ASSUME NEW j \in 1 .. l PROVE s[m+j] = t[j]
    <3>1. m+j \in 1 .. m+l /\ ~(m+j <= m) /\ (m+j)-m = j
      BY <2>1 DEF l
    <3> QED
      BY <2>2, <3>1 DEF l
  <2> QED
    BY <2>1, <2>2, <2>3, <2>4 DEF l
<1>3. at \in [0 .. n -> Nat] /\ at[0] = 0 /\ at[n] = Len(s)
  BY <1>1 DEF Ruled
<1> HIDE DEF s, n
<1>4. n > 0
  BY <1>2, <1>3
<1>5. 1 \in 1 .. n /\ 1 \in 0 .. n /\ n \in 0 .. n /\ 1-1 = 0
  BY <1>2, <1>4
<1> DEFINE first == f[1]
<1>6. /\ Whole(first) /\ first \in Seq(Bytes) /\ Len(first) \in Nat /\ Len(first) > 2
      /\ Len(first) = HeadLen + Said(first)
  <2>1. Whole(first)
    BY <1>5 DEF n
  <2> QED
    BY <2>1 DEF Whole, HeadLen
<1>7. at[1] = Len(first) /\ at[1] <= Len(s) /\ \A j \in 1 .. Len(first) : s[j] = first[j]
  <2>1. /\ at[1] = at[1-1] + Len(f[1])
        /\ \A j \in 1 .. Len(f[1]) : s[at[1-1]+j] = f[1][j]
    BY <1>1, <1>5 DEF Ruled, n
  <2>2. at[1] <= at[n]
    BY <1>1, <1>4, <1>5 DEF Ruled, n
  <2> QED
    <3>1. at[1-1] = 0
      BY <1>3, <1>5
    <3>2. at[1] = 0 + Len(first) /\ \A j \in 1 .. Len(first) : s[0+j] = first[j]
      BY <2>1, <3>1
    <3> HIDE DEF first
    <3>3. \A j \in 1 .. Len(first) : s[j] = first[j]
      BY <1>6, <3>2
    <3> QED
      BY <1>3, <1>6, <2>2, <3>2, <3>3
<1> HIDE DEF first
<1>8. Said(read) = Said(first) /\ m = Len(first)
  <2>1. 1 \in 1 .. m /\ 2 \in 1 .. m /\ 1 \in 1 .. Len(first) /\ 2 \in 1 .. Len(first)
    BY <1>2, <1>6
  <2>2. read[1] = first[1] /\ read[2] = first[2]
    BY <1>2, <1>7, <2>1
  <2> QED
    BY <1>6, <2>2 DEF Said
<1>9. read = first
  <2>1. \A j \in 1 .. Len(read) : read[j] = first[j]
    BY <1>2, <1>7, <1>8
  <2> QED
    BY <1>6, <1>8, <2>1, SeqEqual
<1> DEFINE g == Tail(f)
           bt == [k \in 0 .. n-1 |-> at[k+1] - m]
<1>10. f # <<>> /\ Len(g) = n-1 /\ \A k \in 1 .. n-1 : g[k] = f[k+1]
  BY <1>4, HeadTailProperties, EmptySeq DEF n
<1> HIDE DEF g
<1>11. ASSUME NEW k \in 0 .. n-1
       PROVE  /\ k+1 \in 0 .. n /\ k+1 \in 1 .. n
              /\ at[k+1] \in Nat /\ at[k+1] >= m /\ bt[k] = at[k+1] - m /\ bt[k] \in Nat
  <2>1. k+1 \in 0 .. n /\ k+1 \in 1 .. n /\ 1 <= k+1
    BY <1>2
  <2>2. at[1] <= at[k+1] /\ at[k+1] \in Nat
    BY <1>1, <1>3, <1>5, <2>1 DEF Ruled, n
  <2> QED
    BY <1>2, <1>7, <1>8, <2>1, <2>2
<1>12. bt \in [0 .. n-1 -> Nat]
  BY <1>11
<1>13. bt[0] = 0 /\ bt[n-1] = Len(t)
  <2>1. 0 \in 0 .. n-1 /\ n-1 \in 0 .. n-1 /\ 0+1 = 1 /\ (n-1)+1 = n
    BY <1>2, <1>4
  <2> QED
    BY <1>2, <1>3, <1>7, <1>8, <1>11, <2>1
<1> HIDE DEF bt
<1>14. ASSUME NEW k \in 1 .. n-1
       PROVE  /\ bt[k] = bt[k-1] + Len(g[k])
              /\ \A j \in 1 .. Len(g[k]) : t[bt[k-1]+j] = g[k][j]
  <2>1. k \in 0 .. n-1 /\ k-1 \in 0 .. n-1 /\ k+1 \in 1 .. n /\ k+1-1 = k /\ k-1+1 = k
    BY <1>2
  <2>2. /\ at[k+1] = at[k] + Len(f[k+1])
        /\ \A j \in 1 .. Len(f[k+1]) : s[at[k]+j] = f[k+1][j]
    BY <1>1, <2>1, SMTT(20) DEF Ruled, n
  <2>3. bt[k] = at[k+1] - m /\ bt[k-1] = at[k] - m /\ at[k+1] \in Nat /\ at[k] \in Nat /\ at[k] >= m
    BY <1>11, <2>1
  <2>4. f[k+1] \in Seq(Bytes) /\ Len(f[k+1]) \in Nat /\ g[k] = f[k+1]
    BY <1>10, <2>1 DEF n
  <2>5. at[k+1] <= Len(s)
    BY <1>1, <1>3, <1>5, <2>1 DEF Ruled, n
  <2>6. ASSUME NEW j \in 1 .. Len(f[k+1]) PROVE t[bt[k-1]+j] = f[k+1][j]
    <3>1. bt[k-1]+j \in 1 .. Len(t) /\ m + (bt[k-1]+j) = at[k]+j
      <4> DEFINE b == bt[k-1]
                 x == at[k]
                 y == at[k+1]
                 l == Len(f[k+1])
                 z == Len(t)
      <4>1. /\ y = x + l /\ b = x - m /\ x \in Nat /\ x >= m /\ y \in Nat /\ l \in Nat
            /\ y <= m + z /\ z \in Nat /\ m \in Nat /\ j \in 1 .. l
        BY <1>2, <2>2, <2>3, <2>4, <2>5
      <4> HIDE DEF b, x, y, l, z, m
      <4>2. b+j \in 1 .. z /\ m + (b+j) = x+j
        BY <4>1
      <4> QED
        BY <4>2 DEF b, x, z
    <3> QED
      BY <1>2, <2>2, <3>1
  <2> QED
    BY <1>2, <2>2, <2>3, <2>4, <2>6, SMTT(20)
<1>15. ASSUME NEW j \in 0 .. n-1, NEW k \in 0 .. n-1, j <= k PROVE bt[j] <= bt[k]
  <2>1. j+1 <= k+1 /\ j+1 \in 0 .. n /\ k+1 \in 0 .. n
    BY <1>2, <1>15
  <2>2. at[j+1] <= at[k+1]
    BY <1>1, <2>1 DEF Ruled, n
  <2> QED
    <3>1. bt[j] = at[j+1] - m /\ bt[k] = at[k+1] - m /\ at[j+1] \in Nat /\ at[k+1] \in Nat
      BY <1>11, <1>15
    <3> QED
      BY <1>2, <2>2, <3>1
<1>16. Ruled(t, g, bt)
  BY <1>10, <1>12, <1>13, <1>14, <1>15 DEF Ruled
<1> QED
  BY <1>9, <1>10, <1>16 DEF Spells, g, first

----------------------------------------------------------------------------
(* What the streams carry.                                                  *)

Tasks == [id \in Ids |-> {Frame(id, Requests[id])}]
Replies == [id \in Ids |-> {Frame(id, size) : size \in AnswerSizes}]

\* Under each id, frames of that id.
Framing(F) ==
  /\ DOMAIN F = Ids
  /\ \A id \in Ids : \A x \in F[id] : Whole(x) /\ IdOf(x) = id

\* Of n frames, one for each id, g were taken and s has the others.
Carries(s, g, n, F) ==
  \E f \in Seq(Seq(Bytes)) :
    /\ Spells(s, f)
    /\ Len(g) + Len(f) = n
    /\ \A k \in 1 .. Len(g) : g[k] \in F[k]
    /\ \A k \in 1 .. Len(f) : f[k] \in F[Len(g)+k]

LEMMA TasksAndReplies == Framing(Tasks) /\ Framing(Replies)
<1>1. \A id \in Ids : Whole(Frame(id, Requests[id])) /\ IdOf(Frame(id, Requests[id])) = id
  BY TaskIsWhole
<1>2. ASSUME NEW id \in Ids, NEW size \in AnswerSizes
      PROVE  Whole(Frame(id, size)) /\ IdOf(Frame(id, size)) = id
  <2>1. id \in Bytes /\ size \in Nat /\ HeaderLen + size < Base * Base
    BY SizeAssumption DEF Ids, Bytes
  <2> QED
    BY <2>1, FrameIsWhole
<1> QED
  BY <1>1, <1>2 DEF Framing, Tasks, Replies

LEMMA CarriesWrite ==
  ASSUME NEW F, Framing(F), NEW s \in Seq(Bytes), NEW g \in Seq(Seq(Bytes)), NEW n \in Nat,
         n+1 \in Ids, Carries(s, g, n, F), NEW x \in F[n+1]
  PROVE  Carries(s \o x, g, n+1, F)
<1>1. PICK f \in Seq(Seq(Bytes)) :
        /\ Spells(s, f)
        /\ Len(g) + Len(f) = n
        /\ \A k \in 1 .. Len(g) : g[k] \in F[k]
        /\ \A k \in 1 .. Len(f) : f[k] \in F[Len(g)+k]
  BY DEF Carries
<1>2. x \in Seq(Bytes)
  BY DEF Framing, Whole
<1> DEFINE h == Append(f, x)
<1>3. Spells(s \o x, h)
  BY <1>1, <1>2, SpellsAppend
<1>4. h \in Seq(Seq(Bytes)) /\ Len(h) = Len(f)+1 /\ Len(f) \in Nat /\ Len(g) \in Nat
      /\ h[Len(f)+1] = x /\ \A k \in 1 .. Len(f) : h[k] = f[k]
  BY <1>2
<1> HIDE DEF h
<1>5. ASSUME NEW k \in 1 .. Len(h) PROVE h[k] \in F[Len(g)+k]
  <2>1. CASE k = Len(f)+1
    <3> DEFINE a == Len(f)
               b == Len(g)
    <3>0. a \in Nat /\ b \in Nat /\ b + a = n /\ k = a+1
      BY <1>1, <1>4, <2>1
    <3> HIDE DEF a, b
    <3>2. b+k = n+1
      BY <3>0
    <3>1. Len(g)+k = n+1
      BY <3>2 DEF b
    <3> QED
      BY <1>4, <2>1, <3>1
  <2>2. CASE k # Len(f)+1
    <3>1. k \in 1 .. Len(f)
      BY <1>4, <2>2
    <3>2. h[k] = f[k] /\ f[k] \in F[Len(g)+k]
      BY <1>1, <1>4, <3>1
    <3> QED
      BY <3>2
  <2> QED
    BY <2>1, <2>2
<1>6. Len(g) + Len(h) = n+1
  BY <1>1, <1>4
<1> QED
  BY <1>1, <1>3, <1>4, <1>5, <1>6 DEF Carries

LEMMA CarriesTake ==
  ASSUME NEW F, Framing(F), NEW t \in Seq(Bytes), NEW g \in Seq(Seq(Bytes)),
         NEW n \in 0 .. Len(Requests),
         NEW read \in Seq(Bytes), Len(read) >= HeadLen, Len(read) = HeadLen + Said(read),
         Carries(read \o t, g, n, F)
  PROVE  /\ Len(g)+1 \in 1 .. n /\ read \in F[Len(g)+1]
         /\ Carries(t, Append(g, read), n, F)
<1>1. PICK f \in Seq(Seq(Bytes)) :
        /\ Spells(read \o t, f)
        /\ Len(g) + Len(f) = n
        /\ \A k \in 1 .. Len(g) : g[k] \in F[k]
        /\ \A k \in 1 .. Len(f) : f[k] \in F[Len(g)+k]
  BY DEF Carries
<1>2. Len(f) \in Nat /\ Len(g) \in Nat /\ Len(Requests) \in Nat
  BY SizeAssumption
<1>3. \A k \in 1 .. Len(f) : Len(g)+k \in Ids
  BY <1>1, <1>2 DEF Ids
<1>4. \A k \in 1 .. Len(f) : Whole(f[k])
  BY <1>1, <1>3 DEF Framing
<1>5. f # <<>> /\ read = f[1] /\ Spells(t, Tail(f))
  BY <1>1, <1>4, SpellsFirst
<1>6. Len(f) > 0 /\ 1 \in 1 .. Len(f)
  BY <1>2, <1>5, EmptySeq
<1>7. Len(g)+1 \in 1 .. n /\ read \in F[Len(g)+1]
  BY <1>1, <1>2, <1>5, <1>6
<1> DEFINE h == Tail(f)
           e == Append(g, read)
<1>8. h \in Seq(Seq(Bytes)) /\ Len(h) = Len(f)-1 /\ \A k \in 1 .. Len(f)-1 : h[k] = f[k+1]
  BY <1>5, HeadTailProperties
<1>9. Len(e) = Len(g)+1 /\ e[Len(g)+1] = read /\ \A k \in 1 .. Len(g) : e[k] = g[k]
  OBVIOUS
<1> HIDE DEF h, e
<1>10. ASSUME NEW k \in 1 .. Len(h) PROVE h[k] \in F[Len(e)+k]
  <2>1. k+1 \in 1 .. Len(f) /\ Len(g)+(k+1) = Len(e)+k /\ h[k] = f[k+1]
    BY <1>2, <1>8, <1>9
  <2> QED
    BY <1>1, <2>1
<1>11. ASSUME NEW k \in 1 .. Len(e) PROVE e[k] \in F[k]
  <2>1. k = Len(g)+1 \/ k \in 1 .. Len(g)
    BY <1>2, <1>9
  <2> QED
    BY <1>1, <1>7, <1>9, <2>1
<1>12. Len(e) + Len(h) = n
  <2> DEFINE a == Len(f)
             b == Len(g)
  <2>1. a \in Nat /\ b \in Nat /\ b + a = n /\ Len(h) = a-1 /\ Len(e) = b+1
    BY <1>1, <1>2, <1>8, <1>9
  <2> HIDE DEF a, b
  <2> QED
    BY <2>1
<1>13. Carries(t, e, n, F)
  BY <1>5, <1>8, <1>10, <1>11, <1>12 DEF Carries, h
<1> QED
  BY <1>7, <1>13 DEF e

\* What is on its way to e: in its buffer, before the parser, in the socket.
Coming(e) == kept[e] \o arrived[e] \o wire[e]

Streams ==
  /\ Carries(Coming("worker"), got["worker"], next-1, Tasks)
  /\ Carries(Coming("server") \o unsent, got["server"], Len(got["worker"]), Replies)

LEMMA ConcatTwice ==
  ASSUME NEW a \in Seq(Bytes), NEW b \in Seq(Bytes), NEW c \in Seq(Bytes)
  PROVE  (a \o b) \o c = a \o (b \o c)
BY ConcatAssociative

LEMMA ComingIsSeq ==
  ASSUME TypeOK, NEW e \in Ends
  PROVE  Coming(e) \in Seq(Bytes)
BY ConcatProperties DEF TypeOK, Coming

\* recv moves bytes, and so does the parser until it has a frame.
LEMMA RecvMoves ==
  ASSUME TypeOK, NEW e \in Ends, Recv(e)
  PROVE  Coming(e)' = Coming(e)
<1> DEFINE k == kept[e]
           w == wire[e]
<1>1. k \in Seq(Bytes) /\ w \in Seq(Bytes) /\ arrived[e] = <<>>
  BY DEF TypeOK, Recv, Idle
<1>2. PICK n \in 1 .. Len(w) :
        /\ arrived' = [arrived EXCEPT ![e] = SubSeq(wire[e], 1, n)]
        /\ wire' = [wire EXCEPT ![e] = SubSeq(@, n+1, Len(@))]
  BY DEF Recv
<1>3. /\ arrived'[e] = SubSeq(w, 1, n) /\ wire'[e] = SubSeq(w, n+1, Len(w)) /\ kept'[e] = k
  BY <1>2 DEF TypeOK, Recv
<1> HIDE DEF k, w
<1>4. n \in 0 .. Len(w)
  BY <1>1
<1>5. /\ SubSeq(w, 1, n) \in Seq(Bytes) /\ SubSeq(w, n+1, Len(w)) \in Seq(Bytes)
      /\ SubSeq(w, 1, n) \o SubSeq(w, n+1, Len(w)) = w
  BY <1>1, <1>4, Prefix
<1>6. (k \o SubSeq(w, 1, n)) \o SubSeq(w, n+1, Len(w)) = k \o w
  <2> DEFINE x == SubSeq(w, 1, n)
             y == SubSeq(w, n+1, Len(w))
  <2>1. x \in Seq(Bytes) /\ y \in Seq(Bytes) /\ x \o y = w
    BY <1>5
  <2> HIDE DEF x, y
  <2>2. (k \o x) \o y = k \o (x \o y)
    BY <1>1, <2>1, ConcatTwice
  <2> QED
    BY <2>1, <2>2 DEF x, y
<1>7. k \o <<>> = k
  BY <1>1, ConcatEmptySeq
<1> QED
  BY <1>1, <1>3, <1>6, <1>7 DEF Coming, k, w

LEMMA RoundMoves ==
  ASSUME TypeOK, NEW e \in Ends, Parse(e), NEW r, NEW read, Round(e, r, read)
  PROVE  /\ IsDone(r.parser) => Coming(e) = read \o Coming(e)'
         /\ ~IsDone(r.parser) => Coming(e)' = Coming(e)
<1> DEFINE k == kept[e]
           d == arrived[e]
           w == wire[e]
           u == r.used
<1>1. k \in Seq(Bytes) /\ d \in Seq(Bytes) /\ w \in Seq(Bytes)
  BY DEF TypeOK
<1>2. /\ u \in 0 .. Len(d) /\ read = k \o SubSeq(d, 1, u) /\ read \in Seq(Bytes)
      /\ ~IsDone(r.parser) => u = Len(d)
  BY DEF Round, Reads
<1>3. arrived'[e] = SubSeq(d, u+1, Len(d)) /\ wire'[e] = w
  BY DEF Round, After, TypeOK, Parse
<1> HIDE DEF k, d, w, u
<1>4. /\ SubSeq(d, 1, u) \in Seq(Bytes) /\ SubSeq(d, u+1, Len(d)) \in Seq(Bytes)
      /\ SubSeq(d, 1, u) \o SubSeq(d, u+1, Len(d)) = d
  BY <1>1, <1>2, Prefix
<1> DEFINE x == SubSeq(d, 1, u)
           y == SubSeq(d, u+1, Len(d))
<1>10. x \in Seq(Bytes) /\ y \in Seq(Bytes) /\ x \o y = d /\ read = k \o x
  BY <1>2, <1>4
<1> HIDE DEF x, y
<1>11. (k \o x) \o y = k \o (x \o y)
  BY <1>1, <1>10, ConcatTwice, ZenonT(20)
<1>12. (read \o y) \o w = read \o (y \o w)
  BY <1>1, <1>2, <1>10, ConcatTwice, ZenonT(20)
<1>5. (k \o d) \o w = (read \o y) \o w
  BY <1>10, <1>11
<1>6. ASSUME IsDone(r.parser) PROVE Coming(e) = read \o Coming(e)'
  <2>1. kept'[e] = <<>>
    BY <1>6 DEF Round, TypeOK
  <2>2. <<>> \o y = y
    BY <1>10, ConcatEmptySeq
  <2>3. Coming(e)' = y \o w
    BY <1>3, <2>1, <2>2 DEF Coming, y
  <2> QED
    BY <1>5, <1>12, <2>3 DEF Coming, k, d, w
<1>7. ASSUME ~IsDone(r.parser) PROVE Coming(e)' = Coming(e)
  <2>1. kept'[e] = read
    BY <1>7 DEF Round, TypeOK
  <2>2. Coming(e)' = (read \o y) \o w
    BY <1>3, <2>1 DEF Coming, y
  <2> QED
    BY <1>5, <2>2 DEF Coming, k, d, w
<1> QED
  BY <1>6, <1>7

\* The server adds a whole frame to the stream.
LEMMA TaskMoves ==
  ASSUME ~PartialSends, TypeOK, SendTask
  PROVE  /\ next \in Ids /\ next' = next + 1
         /\ UNCHANGED <<got, unsent>>
         /\ Frame(next, Requests[next]) \in Seq(Bytes)
         /\ Coming("worker")' = Coming("worker") \o Frame(next, Requests[next])
         /\ Coming("server")' = Coming("server")
<1> DEFINE frame == Frame(next, Requests[next])
           m == kept["worker"] \o arrived["worker"]
           w == wire["worker"]
<1>1. /\ next \in Ids /\ next' = next + 1
      /\ UNCHANGED <<kept, arrived, got, unsent>>
      /\ "worker" \in Ends /\ "server" \in Ends
  BY DEF SendTask, Ends
<1>2. frame \in Seq(Bytes)
  BY <1>1, TaskIsWhole DEF Whole
<1> HIDE DEF frame
<1>4. PICK n \in 1 .. Len(frame) :
        /\ n < Len(frame) => PartialSends
        /\ wire' = [wire EXCEPT !["worker"] = @ \o SubSeq(frame, 1, n)]
  BY DEF SendTask, frame
<1>5. n = Len(frame)
  BY <1>2, <1>4
<1>6. SubSeq(frame, 1, n) = frame
  BY <1>2, <1>5, SubSeqFull
<1>7. wire'["worker"] = w \o frame /\ wire'["server"] = wire["server"]
  BY <1>1, <1>4, <1>6 DEF TypeOK
<1>8. m \in Seq(Bytes) /\ w \in Seq(Bytes)
  BY <1>1, ConcatProperties DEF TypeOK
<1> HIDE DEF m, w
<1>9. (m \o w) \o frame = m \o (w \o frame)
  BY <1>2, <1>8, ConcatTwice
<1>10. Coming("worker")' = Coming("worker") \o frame /\ Coming("server")' = Coming("server")
  BY <1>1, <1>7, <1>9 DEF Coming, m, w
<1> QED
  BY <1>1, <1>2, <1>10 DEF frame

LEMMA TaskStreams ==
  ASSUME ~PartialSends, TypeOK, Streams, SendTask
  PROVE  Streams'
<1> DEFINE frame == Frame(next, Requests[next])
           c == next-1
<1>1. /\ next \in Ids /\ next' = next + 1
      /\ UNCHANGED <<got, unsent>>
      /\ frame \in Seq(Bytes)
      /\ Coming("worker")' = Coming("worker") \o frame
      /\ Coming("server")' = Coming("server")
  BY TaskMoves
<1>2. frame \in Tasks[next]
  BY <1>1 DEF Tasks
<1> HIDE DEF frame
<1>3. Coming("worker") \in Seq(Bytes) /\ got["worker"] \in Seq(Seq(Bytes))
  BY ComingIsSeq DEF TypeOK, Ends
<1>4. c \in Nat /\ c+1 = next /\ Carries(Coming("worker"), got["worker"], c, Tasks)
  BY <1>1 DEF Ids, Streams
<1>5. next'-1 = next
  BY <1>1 DEF Ids
<1> HIDE DEF c
<1>6. Carries(Coming("worker") \o frame, got["worker"], c+1, Tasks)
  BY <1>1, <1>2, <1>3, <1>4, CarriesWrite, TasksAndReplies
<1> QED
  BY <1>1, <1>4, <1>5, <1>6 DEF Streams

\* What the kernel moves of an answer stays in the stream.
LEMMA AnswerMoves ==
  ASSUME TypeOK, WorkerSend
  PROVE  /\ UNCHANGED <<next, got>>
         /\ Coming("server")' \o unsent' = Coming("server") \o unsent
         /\ Coming("worker")' = Coming("worker")
<1> DEFINE n == AtMost(WireCap - Len(wire["server"]), Len(unsent))
           m == kept["server"] \o arrived["server"]
           w == wire["server"]
           x == SubSeq(unsent, 1, n)
           y == SubSeq(unsent, n+1, Len(unsent))
<1>1. /\ UNCHANGED <<next, kept, arrived, got>> /\ unsent' = y
      /\ wire' = [wire EXCEPT !["server"] = @ \o x]
      /\ "worker" \in Ends /\ "server" \in Ends
  BY DEF WorkerSend, Ends
<1>2. n \in 0 .. Len(unsent)
  <2> DEFINE room == WireCap - Len(wire["server"])
             length == Len(unsent)
  <2>1. room \in Int /\ length \in Nat /\ n > 0
    BY SizeAssumption DEF WorkerSend, TypeOK, Ends
  <2>2. n = AtMost(room, length)
    OBVIOUS
  <2> HIDE DEF room, length, n
  <2>3. n \in 0 .. length
    BY <2>1, <2>2 DEF AtMost
  <2> QED
    BY <2>3 DEF length
<1>3. m \in Seq(Bytes) /\ w \in Seq(Bytes) /\ unsent \in Seq(Bytes)
  BY <1>1, ConcatProperties DEF TypeOK
<1> HIDE DEF n
<1>4. x \in Seq(Bytes) /\ y \in Seq(Bytes) /\ x \o y = unsent
  BY <1>2, <1>3, Prefix
<1>5. wire'["server"] = w \o x /\ wire'["worker"] = wire["worker"]
  BY <1>1 DEF TypeOK
<1> HIDE DEF m, w, x, y
<1>6. m \o w \in Seq(Bytes)
  BY <1>3, ConcatProperties
<1>7. (m \o w) \o x = m \o (w \o x)
  BY <1>3, <1>4, ConcatTwice, SMTT(20)
<1>8. ((m \o w) \o x) \o y = (m \o w) \o (x \o y)
  BY <1>4, <1>6, ConcatTwice
<1>9. (m \o (w \o x)) \o y = (m \o w) \o unsent
  BY <1>4, <1>7, <1>8
<1>10. /\ Coming("server")' \o unsent' = Coming("server") \o unsent
       /\ Coming("worker")' = Coming("worker")
  BY <1>1, <1>5, <1>9 DEF Coming, m, w
<1> QED
  BY <1>1, <1>10

LEMMA AnswerStreams ==
  ASSUME TypeOK, Streams, WorkerSend
  PROVE  Streams'
BY AnswerMoves DEF Streams

\* A worker takes a request and starts the answer to it.
LEMMA WorkerTakes ==
  ASSUME IInv, IInv', Streams, Parse("worker"),
         NEW r, NEW read, Round("worker", r, read), IsDone(r.parser)
  PROVE  Streams'
<1> DEFINE g == got["worker"]
           t == Coming("worker")'
           c == next-1
           s == Coming("server")
<1>1. /\ unsent = <<>> /\ next' = next
      /\ kept' = [kept EXCEPT !["worker"] = <<>>]
      /\ arrived' = [arrived EXCEPT !["worker"] = After("worker", r.used)]
      /\ wire' = wire
      /\ got' = [got EXCEPT !["worker"] = Append(@, read)]
      /\ unsent' \in Answers(read)
      /\ read \in Seq(Bytes) /\ Len(read) >= HeadLen /\ Len(read) = HeadLen + Said(read)
  BY DEF Parse, Round, Reads
<1>2. TypeOK /\ TypeOK' /\ "worker" \in Ends /\ "server" \in Ends
  BY DEF IInv, Ends
<1>3. /\ s \in Seq(Bytes) /\ g \in Seq(Seq(Bytes)) /\ t \in Seq(Bytes)
      /\ Len(Requests) \in Nat
  <2>1. Coming("server") \in Seq(Bytes)
    BY <1>2, ComingIsSeq
  <2>2. Coming("worker")' \in Seq(Bytes)
    BY <1>2, ConcatProperties DEF TypeOK, Coming
  <2> QED
    BY <1>2, <2>1, <2>2, SizeAssumption DEF TypeOK
<1>4. c \in 0 .. Len(Requests)
  BY <1>2, <1>3 DEF TypeOK
<1>5. Coming("worker") = read \o t
  BY <1>2, RoundMoves
<1>6. Coming("server")' = s
  BY <1>1, <1>2 DEF Coming, TypeOK
<1>7. s \o unsent = s
  BY <1>1, <1>3, ConcatEmptySeq
<1>8. got'["worker"] = Append(g, read) /\ got'["server"] = got["server"]
  BY <1>1, <1>2 DEF TypeOK
<1>9. Len(Append(g, read)) = Len(g)+1 /\ Len(g) \in Nat
  BY <1>3
<1>10. Carries(read \o t, g, c, Tasks) /\ Carries(s, got["server"], Len(g), Replies)
  BY <1>5, <1>7 DEF Streams
<1>11. next'-1 = c
  BY <1>1
<1> HIDE DEF g, t, c, s
<1>12. /\ Len(g)+1 \in 1 .. c /\ read \in Tasks[Len(g)+1]
       /\ Carries(t, Append(g, read), c, Tasks)
  BY <1>1, <1>3, <1>4, <1>10, CarriesTake, TasksAndReplies
<1>13. Len(g)+1 \in Ids
  BY <1>3, <1>4, <1>9, <1>12 DEF Ids
<1>14. IdOf(read) = Len(g)+1
  BY <1>12, <1>13, TasksAndReplies DEF Framing
<1>15. unsent' \in Replies[Len(g)+1]
  BY <1>1, <1>13, <1>14 DEF Answers, Replies
<1>16. got["server"] \in Seq(Seq(Bytes))
  BY <1>2 DEF TypeOK
<1>17. Carries(s \o unsent', got["server"], Len(g)+1, Replies)
  BY <1>3, <1>9, <1>10, <1>13, <1>15, <1>16, CarriesWrite, TasksAndReplies
<1> QED
  BY <1>6, <1>8, <1>9, <1>11, <1>12, <1>17 DEF Streams, t

\* The server takes an answer.
LEMMA ServerTakes ==
  ASSUME IInv, IInv', Streams, Parse("server"),
         NEW r, NEW read, Round("server", r, read), IsDone(r.parser)
  PROVE  Streams'
<1> DEFINE g == got["server"]
           t == Coming("server")'
           c == Len(got["worker"])
<1>1. /\ unsent' = unsent /\ next' = next
      /\ kept' = [kept EXCEPT !["server"] = <<>>]
      /\ arrived' = [arrived EXCEPT !["server"] = After("server", r.used)]
      /\ wire' = wire
      /\ got' = [got EXCEPT !["server"] = Append(@, read)]
      /\ read \in Seq(Bytes) /\ Len(read) >= HeadLen /\ Len(read) = HeadLen + Said(read)
  BY DEF Parse, Round, Reads
<1>2. TypeOK /\ TypeOK' /\ "worker" \in Ends /\ "server" \in Ends
  BY DEF IInv, Ends
<1>3. /\ g \in Seq(Seq(Bytes)) /\ t \in Seq(Bytes) /\ unsent \in Seq(Bytes)
      /\ Len(Requests) \in Nat /\ c \in Nat
  <2>1. Coming("server")' \in Seq(Bytes)
    BY <1>2, ConcatProperties DEF TypeOK, Coming
  <2>2. g \in Seq(Seq(Bytes)) /\ got["worker"] \in Seq(Seq(Bytes)) /\ unsent \in Seq(Bytes)
    BY <1>2 DEF TypeOK
  <2>3. c \in Nat
    BY <2>2
  <2> QED
    BY <2>1, <2>2, <2>3, SizeAssumption
<1>4. c \in 0 .. Len(Requests)
  <2>1. PICK f \in Seq(Seq(Bytes)) : c + Len(f) = next-1
    BY DEF Streams, Carries
  <2> DEFINE l == Len(f)
             q == Len(Requests)
  <2>2. l \in Nat /\ q \in Nat /\ next \in 1 .. q+1 /\ c + l = next-1 /\ c \in Nat
    BY <1>2, <1>3, <2>1 DEF TypeOK
  <2> HIDE DEF l, q, c
  <2>3. c \in 0 .. q
    BY <2>2
  <2> QED
    BY <2>3 DEF q
<1>5. Coming("server") = read \o t
  BY <1>2, RoundMoves
<1>6. Coming("worker")' = Coming("worker")
  BY <1>1, <1>2 DEF Coming, TypeOK
<1>7. (read \o t) \o unsent = read \o (t \o unsent)
  BY <1>1, <1>3, ConcatTwice
<1>8. got'["server"] = Append(g, read) /\ got'["worker"] = got["worker"]
  BY <1>1, <1>2 DEF TypeOK
<1>9. t \o unsent \in Seq(Bytes)
  BY <1>3, ConcatProperties
<1>10. Carries(read \o (t \o unsent), g, c, Replies)
  BY <1>5, <1>7 DEF Streams
<1>11. Carries(Coming("worker"), got["worker"], next-1, Tasks)
  BY DEF Streams
<1> HIDE DEF g, t, c
<1>12. Carries(t \o unsent, Append(g, read), c, Replies)
  BY <1>1, <1>3, <1>4, <1>9, <1>10, CarriesTake, TasksAndReplies
<1> QED
  BY <1>1, <1>6, <1>8, <1>11, <1>12 DEF Streams, t, c

LEMMA StepStreams ==
  ASSUME ~PartialSends
  PROVE  IInv /\ IInv' /\ Streams /\ [Next]_vars => Streams'
<1> SUFFICES ASSUME IInv, IInv', Streams, [Next]_vars PROVE Streams'
  OBVIOUS
<1>0. TypeOK
  BY DEF IInv
<1>1. CASE SendTask
  BY <1>0, <1>1, TaskStreams
<1>2. CASE WorkerSend
  BY <1>0, <1>2, AnswerStreams
<1>3. ASSUME NEW e \in Ends, Recv(e) PROVE Streams'
  <2>1. Coming(e)' = Coming(e)
    BY <1>0, <1>3, RecvMoves
  <2>2. ASSUME NEW o \in Ends, o # e PROVE Coming(o)' = Coming(o)
    BY <1>0, <1>3, <2>2 DEF Recv, Coming, TypeOK
  <2>3. Coming("worker")' = Coming("worker") /\ Coming("server")' = Coming("server")
    BY <2>1, <2>2 DEF Ends
  <2> QED
    BY <1>3, <2>3 DEF Recv, Streams
<1>4. ASSUME NEW e \in Ends, SeesEnd(e) PROVE Streams'
  BY <1>4 DEF SeesEnd, Streams, Coming
<1>5. ASSUME NEW e \in Ends, Parse(e) PROVE Streams'
  <2>1. PICK r, read : Round(e, r, read)
    BY <1>5, ParseRounds
  <2>2. CASE IsDone(r.parser)
    <3>1. CASE e = "worker"
      BY <1>5, <2>1, <2>2, <3>1, WorkerTakes
    <3>2. CASE e = "server"
      BY <1>5, <2>1, <2>2, <3>2, ServerTakes
    <3> QED
      BY <3>1, <3>2 DEF Ends
  <2>3. CASE ~IsDone(r.parser)
    <3>1. Coming(e)' = Coming(e)
      BY <1>0, <1>5, <2>1, <2>3, RoundMoves
    <3>2. UNCHANGED <<next, got, unsent>>
      BY <1>5, <2>1, <2>3 DEF Parse, Round
    <3>3. ASSUME NEW o \in Ends, o # e PROVE Coming(o)' = Coming(o)
      BY <1>0, <1>5, <2>1, <2>3, <3>3 DEF Parse, Round, Coming, TypeOK
    <3>4. Coming("worker")' = Coming("worker") /\ Coming("server")' = Coming("server")
      BY <3>1, <3>3 DEF Ends
    <3> QED
      BY <3>2, <3>4 DEF Streams
  <2> QED
    BY <2>2, <2>3
<1>6. CASE UNCHANGED vars
  BY <1>6 DEF vars, Streams, Coming
<1> QED
  BY <1>1, <1>2, <1>3, <1>4, <1>5, <1>6 DEF Next

LEMMA InitStreams == Init => Streams
<1> SUFFICES ASSUME Init PROVE Streams
  OBVIOUS
<1>1. Coming("worker") = <<>> /\ Coming("server") \o unsent = <<>>
  BY DEF Init, Coming, Ends
<1>2. got["worker"] = <<>> /\ got["server"] = <<>> /\ next-1 = 0 /\ Len(<<>>) = 0
  BY DEF Init, Ends
<1>3. ASSUME NEW F PROVE Carries(<<>>, <<>>, 0, F)
  <2> DEFINE none == <<>>
  <2>1. none \in Seq(Seq(Bytes)) /\ Len(none) = 0 /\ 1 .. Len(none) = {} /\ 0+0 = 0
    OBVIOUS
  <2>2. Spells(<<>>, none)
    BY SpellsNothing
  <2> HIDE DEF none
  <2>3. \E f \in Seq(Seq(Bytes)) :
          /\ Spells(<<>>, f)
          /\ Len(none) + Len(f) = 0
          /\ \A k \in 1 .. Len(none) : none[k] \in F[k]
          /\ \A k \in 1 .. Len(f) : f[k] \in F[Len(none)+k]
    BY <2>1, <2>2
  <2> QED
    BY <2>3 DEF Carries, none
<1> QED
  BY <1>1, <1>2, <1>3 DEF Streams

\* The frames an end has taken are the first of those written to it.
LEMMA StreamsIntact == IInv /\ Streams => FramesIntact
<1> SUFFICES ASSUME IInv, Streams PROVE FramesIntact
  OBVIOUS
<1> DEFINE g == got["worker"]
           b == got["server"]
           all == [k \in 1 .. next-1 |-> Frame(k, Requests[k])]
           p == Len(g)
           u == Len(b)
           z == Len(Requests)
<1>1. /\ g \in Seq(Seq(Bytes)) /\ b \in Seq(Seq(Bytes))
      /\ z \in Nat /\ next \in 1 .. z+1
  BY SizeAssumption DEF IInv, TypeOK, Ends
<1>2. PICK f \in Seq(Seq(Bytes)) :
        Len(g) + Len(f) = next-1 /\ \A k \in 1 .. Len(g) : g[k] \in Tasks[k]
  BY DEF Streams, Carries
<1>3. PICK h \in Seq(Seq(Bytes)) :
        Len(b) + Len(h) = Len(g) /\ \A k \in 1 .. Len(b) : b[k] \in Replies[k]
  BY DEF Streams, Carries
<1>4. p \in Nat /\ u \in Nat /\ p <= next-1 /\ u <= p /\ next-1 <= z
  <2> DEFINE q == Len(f)
             v == Len(h)
  <2>1. p \in Nat /\ q \in Nat /\ u \in Nat /\ v \in Nat /\ z \in Nat
        /\ p + q = next-1 /\ u + v = p /\ next \in 1 .. z+1
    BY <1>1, <1>2, <1>3
  <2> HIDE DEF p, q, u, v, z
  <2> QED
    BY <2>1
<1>5. DOMAIN b = 1 .. u
  BY <1>1
<1>6. next-1 \in Nat /\ (\A k \in 1 .. p : k \in Ids /\ k \in 1 .. next-1) /\ \A k \in 1 .. u : k \in Ids
  <2> HIDE DEF p, u
  <2> QED
    BY <1>1, <1>4 DEF Ids
<1>7. \A k \in 1 .. p : g[k] = all[k]
  BY <1>2, <1>6 DEF Tasks
<1>8. Len(all) = next-1
  BY <1>6
<1>9. SubSeq(g, 1, p) = SubSeq(all, 1, p)
  <2> HIDE DEF g, all, p
  <2> QED
    BY <1>4, <1>7
<1>10. IsPrefix(g, all)
  BY <1>4, <1>8, <1>9 DEF IsPrefix
<1>11. ASSUME NEW k \in DOMAIN b PROVE b[k] \in {Frame(k, size) : size \in AnswerSizes}
  <2>1. k \in 1 .. Len(b) /\ k \in Ids
    BY <1>5, <1>6, <1>11
  <2> QED
    BY <1>3, <2>1 DEF Replies
<1> QED
  BY <1>10, <1>11 DEF FramesIntact

\* As long as send takes a frame whole, each end takes from the stream the frames
\* that were written to it, whole, once each and in order, whatever pieces recv
\* returns.
THEOREM FramesKept == ASSUME ~PartialSends PROVE Spec => []FramesIntact
<1>1. Init => IInv /\ Streams
  BY InitIInv, InitStreams
<1>2. IInv /\ Streams /\ [Next]_vars => IInv' /\ Streams'
  BY StepIInv, StepStreams
<1> QED
  BY <1>1, <1>2, StreamsIntact, PTL DEF Spec

----------------------------------------------------------------------------
(* Split is defined for every sequence of bytes: what its definition says of   *)
(* it follows from the shorter sequences.                                     *)

LEMMA LeastNat ==
  ASSUME NEW S, S \subseteq Nat, S # {}
  PROVE  \E x \in S : \A y \in S : x <= y
<1> DEFINE R == {ss \in Nat \X Nat : ss[1] < ss[2]}
<1>1. OpToRel(<, Nat) = R
  BY Zenon DEF OpToRel
<1>2. IsWellFoundedOn(R, Nat)
  BY <1>1, NatLessThanWellFounded, Zenon
<1>3. PICK x \in S : \A y \in S : ~ (<<y, x>> \in R)
  <2> HIDE DEF R
  <2> QED
    BY <1>2, WFMin
<1>4. ASSUME NEW y \in S PROVE x <= y
  <2>1. x \in Nat /\ y \in Nat /\ (y < x => <<y, x>> \in R)
    OBVIOUS
  <2> QED
    BY <1>3, <2>1
<1> QED
  BY <1>4

\* The size of the first frame, and what Split says of s if it is g on the rest.
FirstSize(s) == AtMost(HeadLen + s[1]*Base + s[2], Len(s))
Rest(s) == SubSeq(s, FirstSize(s)+1, Len(s))
Rule(g, s) ==
  IF Len(s) < HeadLen THEN IF s = <<>> THEN <<>> ELSE <<s>>
  ELSE <<SubSeq(s, 1, FirstSize(s))>> \o g[Rest(s)]

LEMMA RestIsShorter ==
  ASSUME NEW s \in Seq(Bytes), Len(s) >= HeadLen
  PROVE  /\ FirstSize(s) \in 1 .. Len(s)
         /\ Rest(s) \in Seq(Bytes) /\ Len(Rest(s)) < Len(s)
<1>1. Len(s) \in Nat /\ Len(s) >= 2 /\ s[1] \in Bytes /\ s[2] \in Bytes
  BY DEF HeadLen
<1>2. s[1]*Base \in Nat /\ s[2] \in Nat
  BY <1>1, BaseIsNat DEF Bytes
<1> DEFINE l == Len(s)
           x == s[1]*Base
           y == s[2]
<1> HIDE DEF l, x, y
<1>3. HeadLen + x + y \in Nat /\ HeadLen + x + y >= 2
  BY <1>2 DEF HeadLen, x, y
<1>4. FirstSize(s) = AtMost(HeadLen + x + y, l)
  BY DEF FirstSize, l, x, y
<1>5. FirstSize(s) \in 1 .. l
  BY <1>1, <1>3, <1>4 DEF AtMost, l
<1>6. FirstSize(s) \in 0 .. Len(s) /\ FirstSize(s) > 0
  BY <1>5 DEF l
<1>7. Rest(s) \in Seq(Bytes) /\ Len(Rest(s)) = Len(s) - FirstSize(s)
  BY <1>6, Prefix DEF Rest
<1>8. Len(Rest(s)) < Len(s)
  BY <1>1, <1>6, <1>7
<1> QED
  BY <1>5, <1>7, <1>8 DEF l

LEMMA RuleOfRest ==
  ASSUME NEW s \in Seq(Bytes), NEW g, NEW h,
         \A t \in Seq(Bytes) : Len(t) < Len(s) => g[t] = h[t]
  PROVE  Rule(g, s) = Rule(h, s)
<1>1. CASE Len(s) < HeadLen
  BY <1>1 DEF Rule
<1>2. CASE ~(Len(s) < HeadLen)
  <2>1. Len(s) >= HeadLen
    BY <1>2 DEF HeadLen
  <2>2. g[Rest(s)] = h[Rest(s)]
    BY <2>1, RestIsShorter
  <2> QED
    BY <1>2, <2>2 DEF Rule
<1> QED
  BY <1>1, <1>2

\* g is Split on the sequences shorter than n.
Shorter(n) == {s \in Seq(Bytes) : Len(s) < n}
Solves(g, n) == g = [s \in Shorter(n) |-> Rule(g, s)]

LEMMA Solvable == \A n \in Nat : \E g : Solves(g, n)
<1> DEFINE S == {n \in Nat : ~ \E g : Solves(g, n)}
<1>1. SUFFICES ASSUME S # {} PROVE FALSE
  OBVIOUS
<1>2. PICK m \in S : \A k \in S : m <= k
  BY <1>1, LeastNat
<1>3. m \in Nat /\ ~ \E g : Solves(g, m)
  BY <1>2
<1>4. CASE m = 0
  <2> DEFINE g == [s \in Shorter(0) |-> 0]
  <2>1. Shorter(0) = {}
    BY LenProperties DEF Shorter
  <2>2. g = [s \in Shorter(0) |-> Rule(g, s)]
    BY <2>1
  <2> QED
    BY <1>3, <1>4, <2>2 DEF Solves
<1>5. CASE m # 0
  <2>1. m-1 \in Nat /\ m-1 \notin S
    BY <1>2, <1>3, <1>5
  <2>2. PICK g : Solves(g, m-1)
    BY <2>1
  <2> DEFINE h == [s \in Shorter(m) |-> Rule(g, s)]
  <2>3. ASSUME NEW s \in Shorter(m), NEW t \in Seq(Bytes), Len(t) < Len(s) PROVE g[t] = h[t]
    <3>1. Len(s) \in Nat /\ Len(t) \in Nat /\ Len(s) < m
      BY LenProperties DEF Shorter
    <3>2. t \in Shorter(m) /\ t \in Shorter(m-1)
      BY <1>3, <2>3, <3>1 DEF Shorter
    <3>3. g[t] = Rule(g, t)
      BY <2>2, <3>2 DEF Solves
    <3> QED
      BY <3>2, <3>3
  <2> HIDE DEF h
  <2>4. ASSUME NEW s \in Shorter(m) PROVE Rule(g, s) = Rule(h, s)
    <3>1. s \in Seq(Bytes)
      BY DEF Shorter
    <3> QED
      BY <2>3, <3>1, RuleOfRest
  <2>5. h = [s \in Shorter(m) |-> Rule(h, s)]
    BY <2>4 DEF h
  <2>6. Solves(h, m)
    BY <2>5 DEF Solves
  <2> QED
    BY <1>3, <2>6
<1> QED
  BY <1>4, <1>5

LEMMA SolvedOnce ==
  ASSUME NEW m \in Nat, NEW n \in Nat, NEW g, NEW h, Solves(g, m), Solves(h, n)
  PROVE  \A s \in Shorter(m) \cap Shorter(n) : g[s] = h[s]
<1> DEFINE B == {s \in Shorter(m) \cap Shorter(n) : g[s] # h[s]}
           S == {Len(s) : s \in B}
<1>1. SUFFICES ASSUME B # {} PROVE FALSE
  OBVIOUS
<1>2. S \subseteq Nat /\ S # {}
  BY <1>1, LenProperties DEF Shorter
<1>3. PICK l \in S : \A k \in S : l <= k
  <2> HIDE DEF S
  <2> QED
    BY <1>2, LeastNat
<1>4. PICK s \in B : l = Len(s)
  OBVIOUS
<1>5. s \in Seq(Bytes) /\ s \in Shorter(m) /\ s \in Shorter(n) /\ Len(s) < m /\ Len(s) < n /\ Len(s) \in Nat
  BY LenProperties DEF Shorter
<1>6. ASSUME NEW t \in Seq(Bytes), Len(t) < Len(s) PROVE g[t] = h[t]
  <2>1. Len(t) \in Nat
    BY LenProperties
  <2>2. t \in Shorter(m) /\ t \in Shorter(n)
    BY <1>5, <1>6, <2>1 DEF Shorter
  <2>3. t \notin B
    <3>1. ASSUME t \in B PROVE FALSE
      <4>1. Len(t) \in S
        BY <3>1
      <4> QED
        BY <1>3, <1>4, <1>5, <1>6, <2>1, <4>1
    <3> QED
      BY <3>1
  <2> QED
    BY <2>2, <2>3
<1>7. Rule(g, s) = Rule(h, s)
  BY <1>5, <1>6, RuleOfRest
<1>8. g[s] = Rule(g, s) /\ h[s] = Rule(h, s)
  BY <1>5 DEF Solves
<1> QED
  BY <1>4, <1>7, <1>8

LEMMA SplitIs == \A s \in Seq(Bytes) : Split[s] = Rule(Split, s)
<1> DEFINE part(n) == CHOOSE g : Solves(g, n)
           whole == [s \in Seq(Bytes) |-> part(Len(s)+1)[s]]
<1>1. ASSUME NEW n \in Nat PROVE Solves(part(n), n)
  BY Solvable, Zenon
<1> HIDE DEF part
<1>2. ASSUME NEW s \in Seq(Bytes) PROVE whole[s] = Rule(whole, s)
  <2> DEFINE g == part(Len(s)+1)
  <2>1. Len(s) \in Nat /\ Len(s)+1 \in Nat /\ s \in Shorter(Len(s)+1)
    BY LenProperties DEF Shorter
  <2>2. Solves(g, Len(s)+1)
    BY <1>1, <2>1
  <2>3. g[s] = Rule(g, s)
    BY <2>1, <2>2 DEF Solves
  <2>4. ASSUME NEW t \in Seq(Bytes), Len(t) < Len(s) PROVE g[t] = whole[t]
    <3>1. Len(t) \in Nat /\ Len(t)+1 \in Nat /\ t \in Shorter(Len(t)+1) /\ t \in Shorter(Len(s)+1)
      BY <2>1, <2>4, LenProperties DEF Shorter
    <3>2. Solves(part(Len(t)+1), Len(t)+1)
      BY <1>1, <3>1
    <3>3. g[t] = part(Len(t)+1)[t]
      BY <2>1, <2>2, <3>1, <3>2, SolvedOnce
    <3> QED
      BY <3>3
  <2> HIDE DEF g, whole
  <2>5. Rule(g, s) = Rule(whole, s)
    BY <2>4, RuleOfRest
  <2>6. whole[s] = g[s]
    BY DEF whole, g
  <2> QED
    BY <2>3, <2>5, <2>6
<1>3. whole = [s \in Seq(Bytes) |-> Rule(whole, s)]
  <2> DEFINE again == [s \in Seq(Bytes) |-> Rule(whole, s)]
  <2>1. \A s \in Seq(Bytes) : whole[s] = again[s]
    BY <1>2
  <2> QED
    BY <2>1
<1> HIDE DEF whole
<1>4. \E f : f = [s \in Seq(Bytes) |-> Rule(f, s)]
  BY <1>3
<1>5. Split = CHOOSE f : f = [s \in Seq(Bytes) |-> Rule(f, s)]
  BY DEF Split, Rule, FirstSize, Rest
<1>6. Split = [s \in Seq(Bytes) |-> Rule(Split, s)]
  BY <1>4, <1>5, Zenon
<1> QED
  BY <1>6

----------------------------------------------------------------------------
(* What Split finds.                                                        *)

LEMMA SplitNothing == Split[<<>>] = <<>>
<1>1. <<>> \in Seq(Bytes) /\ Len(<<>>) < HeadLen
  BY DEF HeadLen
<1> QED
  BY <1>1, SplitIs DEF Rule

\* A frame at the front is found first.
LEMMA SplitFirst ==
  ASSUME NEW x \in Seq(Bytes), Len(x) >= HeadLen, Len(x) = HeadLen + Said(x),
         NEW t \in Seq(Bytes)
  PROVE  Split[x \o t] = <<x>> \o Split[t]
<1> DEFINE s == x \o t
           n == Len(x)
           l == Len(t)
<1>1. n \in Nat /\ n >= 2 /\ l \in Nat /\ x[1] \in Bytes /\ x[2] \in Bytes
  BY DEF HeadLen
<1>2. /\ s \in Seq(Bytes) /\ Len(s) = n + l
      /\ \A j \in 1 .. n + l : s[j] = IF j <= n THEN x[j] ELSE t[j-n]
  BY ConcatProperties
<1> HIDE DEF s, n, l
<1>3. \A j \in 1 .. n : s[j] = x[j]
  BY <1>1, <1>2
<1>4. s[1] = x[1] /\ s[2] = x[2]
  BY <1>1, <1>3
<1>5. x[1]*Base \in Nat /\ x[2] \in Nat
  BY <1>1, BaseIsNat DEF Bytes
<1>6. FirstSize(s) = n
  <2> DEFINE y == x[1]*Base
             z == x[2]
  <2>1. y \in Nat /\ z \in Nat /\ n = HeadLen + (y + z)
    BY <1>5 DEF Said, n
  <2>2. FirstSize(s) = AtMost(HeadLen + y + z, Len(s))
    BY <1>4 DEF FirstSize
  <2> HIDE DEF y, z
  <2> QED
    BY <1>1, <1>2, <2>1, <2>2 DEF AtMost, HeadLen
<1>7. SubSeq(s, 1, n) = x
  <2>1. n \in 0 .. Len(s)
    BY <1>1, <1>2
  <2>2. SubSeq(s, 1, n) \in Seq(Bytes) /\ Len(SubSeq(s, 1, n)) = n
    BY <1>2, <2>1, Prefix
  <2>3. \A j \in 1 .. n : SubSeq(s, 1, n)[j] = s[j]
    BY <1>1, <1>2, <2>1, SubSeqProperties
  <2>4. \A j \in 1 .. Len(SubSeq(s, 1, n)) : SubSeq(s, 1, n)[j] = x[j]
    BY <1>3, <2>2, <2>3
  <2>5. Len(SubSeq(s, 1, n)) = Len(x)
    BY <2>2 DEF n
  <2> DEFINE q == SubSeq(s, 1, n)
  <2> HIDE DEF q
  <2>6. q \in Seq(Bytes) /\ Len(q) = Len(x) /\ \A j \in 1 .. Len(q) : q[j] = x[j]
    BY <2>2, <2>4, <2>5 DEF q
  <2>7. q = x
    BY <2>6, SeqEqual
  <2> QED
    BY <2>7 DEF q
<1>8. Rest(s) = t
  <2>1. n \in 0 .. Len(s) /\ Rest(s) = SubSeq(s, n+1, Len(s))
    BY <1>1, <1>2, <1>6 DEF Rest
  <2>2. Rest(s) \in Seq(Bytes) /\ Len(Rest(s)) = Len(s) - n
    BY <1>2, <2>1, Prefix
  <2>3. Len(Rest(s)) = l
    BY <1>1, <1>2, <2>2
  <2>4. ASSUME NEW j \in 1 .. l PROVE Rest(s)[j] = t[j]
    <3>1. n+j \in 1 .. n+l /\ ~(n+j <= n) /\ (n+j)-n = j
      BY <1>1
    <3>2. s[n+j] = t[j]
      BY <1>2, <3>1
    <3>3. SubSeq(s, n+1, Len(s))[j] = s[n+1+j-1] /\ n+1+j-1 = n+j
      <4>1. \A i \in n+1 .. Len(s) : s[i] \in Bytes
        BY <1>1, <1>2
      <4>2. Len(s) \in Int /\ n+1 \in Int /\ j \in 1 .. Len(s) - (n+1) + 1
        BY <1>1, <1>2
      <4> QED
        BY <1>1, <1>2, <4>1, <4>2, SubSeqProperties
    <3> QED
      BY <2>1, <3>2, <3>3
  <2> DEFINE r == Rest(s)
  <2> HIDE DEF r
  <2>5. r \in Seq(Bytes) /\ Len(r) = Len(t) /\ \A j \in 1 .. Len(r) : r[j] = t[j]
    BY <2>2, <2>3, <2>4 DEF r, l
  <2>6. r = t
    BY <2>5, SeqEqual
  <2> QED
    BY <2>6 DEF r
<1>9. Split[s] = Rule(Split, s) /\ Len(s) \in Nat /\ Len(s) >= 2
  BY <1>1, <1>2, SplitIs
<1>10. Split[s] = <<SubSeq(s, 1, FirstSize(s))>> \o Split[Rest(s)]
  BY <1>9 DEF Rule, HeadLen
<1>11. Split[s] = <<x>> \o Split[t]
  BY <1>6, <1>7, <1>8, <1>10, Zenon
<1> QED
  BY <1>11 DEF s

\* Bytes that are made of frames are split into these.
LEMMA SplitSpelled ==
  \A f \in Seq(Seq(Bytes)), s \in Seq(Bytes) :
    Spells(s, f) /\ (\A k \in 1 .. Len(f) : Whole(f[k])) => Split[s] = f
<1> DEFINE Bad(f, s) == /\ f \in Seq(Seq(Bytes)) /\ s \in Seq(Bytes)
                        /\ Spells(s, f) /\ \A k \in 1 .. Len(f) : Whole(f[k])
                        /\ Split[s] # f
           S == {n \in Nat : \E f, s : Bad(f, s) /\ n = Len(f)}
<1>1. SUFFICES ASSUME S # {} PROVE FALSE
  <2>1. ASSUME NEW f, NEW s, Bad(f, s) PROVE S # {}
    <3>1. Len(f) \in Nat
      BY <2>1, LenProperties
    <3> QED
      BY <2>1, <3>1
  <2> QED
    BY <2>1
<1>2. PICK n \in S : \A k \in S : n <= k
  <2>1. S \subseteq Nat
    OBVIOUS
  <2> HIDE DEF S
  <2> QED
    BY <1>1, <2>1, LeastNat
<1>3. PICK f, s : Bad(f, s) /\ n = Len(f)
  BY <1>2
<1>4. /\ n \in Nat /\ f \in Seq(Seq(Bytes)) /\ s \in Seq(Bytes) /\ Len(s) \in Nat
      /\ \A k \in 1 .. n : Whole(f[k])
  BY <1>3, LenProperties
<1>5. PICK at : Ruled(s, f, at)
  BY <1>3 DEF Spells
<1>6. at \in [0 .. n -> Nat] /\ at[0] = 0 /\ at[n] = Len(s)
  BY <1>3, <1>5 DEF Ruled
<1>7. CASE n = 0
  <2>1. Len(s) = 0 /\ Len(f) = 0
    BY <1>3, <1>6, <1>7
  <2>2. s = <<>> /\ f = <<>>
    BY <1>4, <2>1, EmptySeq
  <2> QED
    BY <1>3, <2>2, SplitNothing
<1>8. CASE n > 0
  <2> DEFINE x == f[1]
             m == Len(x)
             y == SubSeq(s, 1, m)
             t == SubSeq(s, m+1, Len(s))
             g == Tail(f)
  <2>1. /\ Whole(x) /\ x \in Seq(Bytes) /\ m \in Nat /\ m >= HeadLen /\ m = HeadLen + Said(x)
    <3>1. Whole(f[1])
      BY <1>4, <1>8
    <3> QED
      BY <3>1, LenProperties DEF Whole, HeadLen
  <2>2. m \in 0 .. Len(s) /\ \A j \in 1 .. m : s[j] = x[j]
    <3>1. 1 \in 1 .. n /\ 1 \in 0 .. n /\ n \in 0 .. n /\ 1 <= n /\ 1-1 = 0
      BY <1>4, <1>8
    <3>2. /\ at[1] = at[1-1] + Len(f[1])
          /\ \A j \in 1 .. Len(f[1]) : s[at[1-1]+j] = f[1][j]
      BY <1>3, <1>5, <3>1 DEF Ruled
    <3>3. at[1] <= at[n]
      BY <1>3, <1>5, <3>1 DEF Ruled
    <3> HIDE DEF x
    <3>4. at[1] = 0 + m /\ \A j \in 1 .. m : s[0+j] = x[j]
      BY <1>6, <3>1, <3>2 DEF x
    <3> HIDE DEF m
    <3> QED
      BY <1>4, <1>6, <2>1, <3>3, <3>4
  <2> HIDE DEF x, m
  <2>3. /\ y \in Seq(Bytes) /\ Len(y) = m /\ t \in Seq(Bytes) /\ y \o t = s
    BY <1>4, <2>2, Prefix
  <2>4. y = x
    <3>1. \A j \in 1 .. m : y[j] = s[j]
      BY <1>4, <2>1, <2>2, SubSeqProperties
    <3>2. \A j \in 1 .. Len(y) : y[j] = x[j]
      BY <2>2, <2>3, <3>1
    <3>3. Len(y) = Len(x)
      BY <2>3 DEF m
    <3> HIDE DEF y
    <3> QED
      BY <2>1, <2>3, <3>2, <3>3, SeqEqual
  <2> HIDE DEF y, t
  <2>5. x \in Seq(Bytes) /\ Len(x) >= HeadLen /\ Len(x) = HeadLen + Said(x) /\ s = x \o t
    BY <2>1, <2>3, <2>4 DEF m
  <2>6. Spells(x \o t, f) /\ \A k \in 1 .. Len(f) : Whole(f[k])
    BY <1>3, <2>5
  <2>7. f # <<>> /\ x = f[1] /\ Spells(t, g)
    BY <1>4, <2>3, <2>5, <2>6, SpellsFirst
  <2>8. /\ g \in Seq(Seq(Bytes)) /\ Len(g) = n-1 /\ \A k \in 1 .. n-1 : g[k] = f[k+1]
    BY <1>3, <1>4, <2>7, HeadTailProperties
  <2>9. f = <<x>> \o g
    BY <1>4, <2>7
  <2> HIDE DEF g
  <2>10. \A k \in 1 .. Len(g) : Whole(g[k])
    BY <1>4, <1>8, <2>8
  <2>11. Split[t] = g
    <3>1. SUFFICES ASSUME Split[t] # g PROVE FALSE
      OBVIOUS
    <3>2. Bad(g, t) /\ n-1 \in Nat
      BY <1>4, <1>8, <2>3, <2>7, <2>8, <2>10, <3>1
    <3>3. n-1 \in S
      BY <2>8, <3>2
    <3> QED
      BY <1>2, <1>4, <3>3
  <2>12. Split[x \o t] = <<x>> \o Split[t]
    BY <2>3, <2>5, SplitFirst
  <2> QED
    BY <1>3, <2>5, <2>9, <2>11, <2>12
<1> QED
  BY <1>4, <1>7, <1>8

\* A stream that carries frames is split into them.
LEMMA CarriedFrames ==
  ASSUME NEW F, Framing(F), NEW s \in Seq(Bytes), NEW g \in Seq(Seq(Bytes)),
         NEW n \in 0 .. Len(Requests), Carries(s, g, n, F)
  PROVE  /\ Split[s] \in Seq(Seq(Bytes))
         /\ Spells(s, Split[s])
         /\ \A k \in 1 .. Len(Split[s]) : Whole(Split[s][k])
<1>1. PICK f \in Seq(Seq(Bytes)) :
        /\ Spells(s, f)
        /\ Len(g) + Len(f) = n
        /\ \A k \in 1 .. Len(g) : g[k] \in F[k]
        /\ \A k \in 1 .. Len(f) : f[k] \in F[Len(g)+k]
  BY DEF Carries
<1>2. Len(f) \in Nat /\ Len(g) \in Nat /\ Len(Requests) \in Nat
  BY SizeAssumption, LenProperties
<1>3. \A k \in 1 .. Len(f) : Len(g)+k \in Ids
  BY <1>1, <1>2 DEF Ids
<1>4. \A k \in 1 .. Len(f) : Whole(f[k])
  BY <1>1, <1>3 DEF Framing
<1>5. Split[s] = f
  BY <1>1, <1>4, SplitSpelled
<1> QED
  BY <1>1, <1>4, <1>5

\* One more frame is found last.
LEMMA SplitLast ==
  ASSUME NEW F, Framing(F), NEW s \in Seq(Bytes), NEW g \in Seq(Seq(Bytes)),
         NEW n \in 0 .. Len(Requests), Carries(s, g, n, F), NEW x, Whole(x)
  PROVE  Split[s \o x] = Append(Split[s], x)
<1> DEFINE f == Split[s]
           h == Append(f, x)
<1>1. /\ f \in Seq(Seq(Bytes)) /\ Spells(s, f) /\ \A k \in 1 .. Len(f) : Whole(f[k])
  BY CarriedFrames
<1>2. x \in Seq(Bytes)
  BY DEF Whole
<1> HIDE DEF f
<1>3. Spells(s \o x, h)
  BY <1>1, <1>2, SpellsAppend
<1>4. h \in Seq(Seq(Bytes)) /\ Len(h) = Len(f)+1 /\ Len(f) \in Nat
      /\ h[Len(f)+1] = x /\ \A k \in 1 .. Len(f) : h[k] = f[k]
  BY <1>1, <1>2, AppendProperties, LenProperties
<1> HIDE DEF h
<1>5. ASSUME NEW k \in 1 .. Len(h) PROVE Whole(h[k])
  <2>1. k = Len(f)+1 \/ k \in 1 .. Len(f)
    BY <1>4
  <2> QED
    BY <1>1, <1>4, <2>1
<1>6. s \o x \in Seq(Bytes)
  BY <1>2, ConcatProperties
<1>7. Split[s \o x] = h
  BY <1>3, <1>4, <1>5, <1>6, SplitSpelled
<1> QED
  BY <1>7 DEF f, h

----------------------------------------------------------------------------
(* What the frames say.                                                     *)

LEMMA FrameContent ==
  ASSUME NEW id \in Bytes, id # 0, NEW size \in Nat, HeaderLen + size < Base * Base
  PROVE  Content(Frame(id, size)) = [id |-> id, size |-> size]
<1> DEFINE x == Frame(id, size)
<1>1. /\ Whole(x) /\ Len(x) = HeadLen + HeaderLen + size /\ IdOf(x) = id
  BY FrameIsWhole
<1> HIDE DEF x
<1>2. x \in Seq(Bytes) /\ Len(x) > 2 /\ Len(x) = HeadLen + Said(x)
  BY <1>1 DEF Whole, HeadLen
<1>3. x[1] \in Bytes /\ x[2] \in Bytes
  BY <1>2
<1>4. x[1]*Base \in Nat /\ x[2] \in Nat
  BY <1>3, BaseIsNat DEF Bytes
<1>5. Len(x) = HeadLen + x[1]*Base + x[2]
  BY <1>2, <1>4 DEF Said, HeadLen
<1>6. Len(x) - HeadLen - HeaderLen = size
  BY <1>1 DEF HeadLen, HeaderLen
<1> QED
  BY <1>1, <1>5, <1>6 DEF Content, x

LEMMA TaskContent ==
  ASSUME NEW id \in Ids
  PROVE  Content(Frame(id, Requests[id])) = [id |-> id, size |-> Requests[id]]
<1>1. id \in Bytes /\ id # 0 /\ Requests[id] \in Nat /\ HeaderLen + Requests[id] < Base * Base
  BY SizeAssumption DEF Ids, Bytes
<1> QED
  BY <1>1, FrameContent

LEMMA ReplyContent ==
  ASSUME NEW id \in Ids, NEW size \in AnswerSizes
  PROVE  Whole(Frame(id, size)) /\ Content(Frame(id, size)) = [id |-> id, size |-> size]
<1>1. id \in Bytes /\ id # 0 /\ size \in Nat /\ HeaderLen + size < Base * Base
  BY SizeAssumption DEF Ids, Bytes
<1> QED
  BY <1>1, FrameContent, FrameIsWhole

LEMMA ContentsIsSeq ==
  ASSUME NEW f \in Seq(Seq(Bytes))
  PROVE  /\ DOMAIN Contents[f] = 1 .. Len(f)
         /\ Contents[f] = [k \in 1 .. Len(f) |-> Content(f[k])]
         /\ \A k \in 1 .. Len(f) : Contents[f][k] = Content(f[k])
         /\ \E T : Contents[f] \in Seq(T)
         /\ Len(Contents[f]) = Len(f)
<1>1. Contents[f] = [k \in DOMAIN f |-> Content(f[k])]
  BY DEF Contents
<1>2. DOMAIN f = 1 .. Len(f) /\ Len(f) \in Nat
  BY LenProperties
<1>3. Contents[f] = [k \in 1 .. Len(f) |-> Content(f[k])]
  BY <1>1, <1>2
<1> DEFINE n == Len(f)
           T == {Content(f[k]) : k \in 1 .. n}
           c == Contents[f]
<1> HIDE DEF n
<1>4. c \in [1 .. n -> T] /\ n \in Nat
  BY <1>2, <1>3 DEF n
<1>5. c \in Seq(T) /\ Len(c) = n
  <2> HIDE DEF c, T
  <2>1. c \in Seq(T)
    BY <1>4, SeqDef
  <2> QED
    BY <1>4, <2>1, LenProperties
<1> QED
  BY <1>2, <1>3, <1>5 DEF n

LEMMA ContentsAppend ==
  ASSUME NEW f \in Seq(Seq(Bytes)), NEW x \in Seq(Bytes)
  PROVE  Contents[Append(f, x)] = Append(Contents[f], Content(x))
<1> DEFINE h == Append(f, x)
           c == Contents[f]
           n == Len(f)
<1>1. h \in Seq(Seq(Bytes)) /\ Len(h) = n+1 /\ n \in Nat
      /\ h[n+1] = x /\ \A k \in 1 .. n : h[k] = f[k]
  BY AppendProperties, LenProperties
<1>2. /\ Len(c) = n /\ \A k \in 1 .. n : c[k] = Content(f[k])
      /\ \E T : c \in Seq(T)
  BY ContentsIsSeq
<1>3. Contents[h] = [k \in 1 .. n+1 |-> Content(h[k])]
  BY <1>1, ContentsIsSeq
<1> HIDE DEF h, c, n
<1>4. Append(c, Content(x)) = [k \in 1 .. n+1 |-> IF k = n+1 THEN Content(x) ELSE c[k]]
  <2>1. PICK T : c \in Seq(T)
    BY <1>2
  <2> DEFINE U == T \cup {Content(x)}
             b == Append(c, Content(x))
  <2>2. c \in Seq(U)
    BY <2>1, SeqMonotonic
  <2>3. /\ b \in Seq(U) /\ Len(b) = n+1 /\ b[n+1] = Content(x) /\ \A k \in 1 .. n : b[k] = c[k]
    BY <1>2, <2>2, AppendProperties
  <2> HIDE DEF b, U
  <2>4. b = [k \in 1 .. n+1 |-> b[k]]
    BY <2>3
  <2>5. \A k \in 1 .. n+1 : b[k] = IF k = n+1 THEN Content(x) ELSE c[k]
    BY <1>1, <2>3
  <2> QED
    BY <2>4, <2>5 DEF b
<1>5. \A k \in 1 .. n+1 : Content(h[k]) = IF k = n+1 THEN Content(x) ELSE c[k]
  BY <1>1, <1>2
<1> QED
  BY <1>3, <1>4, <1>5 DEF h, c

LEMMA ContentsFirst ==
  ASSUME NEW f \in Seq(Seq(Bytes)), NEW x \in Seq(Bytes)
  PROVE  /\ Contents[<<x>> \o f] # <<>>
         /\ Head(Contents[<<x>> \o f]) = Content(x)
         /\ Tail(Contents[<<x>> \o f]) = Contents[f]
<1> DEFINE h == <<x>> \o f
           c == Contents[h]
           n == Len(f)
<1>1. /\ h \in Seq(Seq(Bytes)) /\ n \in Nat /\ Len(h) = n+1
      /\ h[1] = x /\ \A k \in 1 .. n : h[k+1] = f[k]
  <2>1. <<x>> \in Seq(Seq(Bytes)) /\ Len(<<x>>) = 1 /\ <<x>>[1] = x /\ n \in Nat
    BY LenProperties
  <2>2. /\ h \in Seq(Seq(Bytes)) /\ Len(h) = 1 + n
        /\ \A k \in 1 .. 1 + n : h[k] = IF k <= 1 THEN <<x>>[k] ELSE f[k - 1]
    <3>1. /\ h \in Seq(Seq(Bytes)) /\ Len(h) = Len(<<x>>) + Len(f)
          /\ \A k \in 1 .. Len(<<x>>) + Len(f) :
               h[k] = IF k <= Len(<<x>>) THEN <<x>>[k] ELSE f[k - Len(<<x>>)]
      BY <2>1, ConcatProperties
    <3> HIDE DEF h
    <3> QED
      BY <2>1, <3>1
  <2> HIDE DEF h, n
  <2>3. ASSUME NEW k \in 1 .. n PROVE h[k+1] = f[k]
    <3>1. k+1 \in 1 .. 1+n /\ ~(k+1 <= 1) /\ (k+1)-1 = k
      BY <2>1
    <3> QED
      BY <2>2, <3>1
  <2> QED
    BY <2>1, <2>2, <2>3
<1> HIDE DEF h
<1>2. /\ Len(c) = n+1 /\ \A k \in 1 .. n+1 : c[k] = Content(h[k])
      /\ \E T : c \in Seq(T)
  BY <1>1, ContentsIsSeq
<1>3. Contents[f] = [k \in 1 .. n |-> Content(f[k])]
  BY ContentsIsSeq
<1> HIDE DEF c, n
<1>4. PICK T : c \in Seq(T)
  BY <1>2
<1>5. c # <<>>
  BY <1>1, <1>2, <1>4
<1>6. Head(c) = Content(x)
  BY <1>1, <1>2, <1>4, <1>5
<1>7. Tail(c) = [k \in 1 .. n |-> c[k+1]]
  <2>1. /\ Tail(c) \in Seq(T) /\ Len(Tail(c)) = n
        /\ \A k \in 1 .. n : Tail(c)[k] = c[k+1]
    BY <1>1, <1>2, <1>4, <1>5, HeadTailProperties
  <2> DEFINE b == Tail(c)
  <2> HIDE DEF b
  <2>2. b \in Seq(T) /\ Len(b) = n /\ \A k \in 1 .. n : b[k] = c[k+1]
    BY <2>1 DEF b
  <2>3. b = [k \in 1 .. n |-> b[k]]
    BY <2>2
  <2>4. b = [k \in 1 .. n |-> c[k+1]]
    BY <2>2, <2>3
  <2> QED
    BY <2>4 DEF b
<1>8. \A k \in 1 .. n : c[k+1] = Content(f[k])
  <2> TAKE k \in 1 .. n
  <2>1. k+1 \in 1 .. n+1
    BY <1>1
  <2> QED
    BY <1>1, <1>2, <2>1
<1>9. Tail(c) = Contents[f]
  BY <1>3, <1>7, <1>8
<1> QED
  BY <1>5, <1>6, <1>9 DEF c, h

----------------------------------------------------------------------------
(* The connection as a FrameChannel.                                        *)

ToWorker == Contents[Split[Coming("worker")]]
ToServer == Contents[Split[Coming("server") \o unsent]]
Taken == Contents[got["server"]]

LEMMA StreamsOfFrames ==
  ASSUME TypeOK, Streams
  PROVE  /\ next-1 \in 0 .. Len(Requests) /\ Len(got["worker"]) \in 0 .. Len(Requests)
         /\ Coming("worker") \in Seq(Bytes) /\ Coming("server") \o unsent \in Seq(Bytes)
         /\ got["worker"] \in Seq(Seq(Bytes)) /\ got["server"] \in Seq(Seq(Bytes))
         /\ Split[Coming("worker")] \in Seq(Seq(Bytes))
         /\ Split[Coming("server") \o unsent] \in Seq(Seq(Bytes))
<1>1. /\ got["worker"] \in Seq(Seq(Bytes)) /\ got["server"] \in Seq(Seq(Bytes))
      /\ "worker" \in Ends /\ "server" \in Ends /\ unsent \in Seq(Bytes)
  BY DEF TypeOK, Ends
<1>2. Coming("worker") \in Seq(Bytes) /\ Coming("server") \in Seq(Bytes)
  BY <1>1, ComingIsSeq
<1>3. Coming("server") \o unsent \in Seq(Bytes)
  BY <1>1, <1>2, ConcatProperties
<1>4. next-1 \in 0 .. Len(Requests)
  BY SizeAssumption DEF TypeOK
<1>5. Len(got["worker"]) \in 0 .. Len(Requests)
  <2>1. PICK f \in Seq(Seq(Bytes)) : Len(got["worker"]) + Len(f) = next-1
    BY DEF Streams, Carries
  <2> DEFINE l == Len(f)
             q == Len(Requests)
             c == Len(got["worker"])
  <2>2. l \in Nat /\ q \in Nat /\ next-1 \in 0 .. q /\ c + l = next-1 /\ c \in Nat
    BY <1>1, <1>4, <2>1, SizeAssumption, LenProperties
  <2> HIDE DEF l, q, c
  <2>3. c \in 0 .. q
    BY <2>2
  <2> QED
    BY <2>3 DEF c, q
<1>6. Split[Coming("worker")] \in Seq(Seq(Bytes))
  BY <1>1, <1>2, <1>4, CarriedFrames, TasksAndReplies DEF Streams
<1>7. Split[Coming("server") \o unsent] \in Seq(Seq(Bytes))
  BY <1>1, <1>3, <1>5, CarriedFrames, TasksAndReplies DEF Streams
<1> QED
  BY <1>1, <1>2, <1>3, <1>4, <1>5, <1>6, <1>7

\* A frame at the front of a stream is the oldest under way.
LEMMA OldestFrame ==
  ASSUME NEW t \in Seq(Bytes), Split[t] \in Seq(Seq(Bytes)),
         NEW x \in Seq(Bytes), Len(x) >= HeadLen, Len(x) = HeadLen + Said(x)
  PROVE  /\ Contents[Split[x \o t]] # <<>>
         /\ Head(Contents[Split[x \o t]]) = Content(x)
         /\ Tail(Contents[Split[x \o t]]) = Contents[Split[t]]
<1>1. Split[x \o t] = <<x>> \o Split[t]
  BY SplitFirst
<1> DEFINE f == Split[t]
<1>2. f \in Seq(Seq(Bytes)) /\ Split[x \o t] = <<x>> \o f
  BY <1>1
<1> HIDE DEF f
<1>3. /\ Contents[<<x>> \o f] # <<>>
      /\ Head(Contents[<<x>> \o f]) = Content(x)
      /\ Tail(Contents[<<x>> \o f]) = Contents[f]
  BY <1>2, ContentsFirst
<1> QED
  BY <1>2, <1>3 DEF f

\* send_local_cb makes a request.
LEMMA TaskRequests ==
  ASSUME ~PartialSends, TypeOK, Streams, SendTask
  PROVE  Channel!Request
<1> DEFINE frame == Frame(next, Requests[next])
           s == Coming("worker")
<1>1. /\ next \in Ids /\ next' = next + 1
      /\ UNCHANGED <<got, unsent>>
      /\ Coming("worker")' = s \o frame
      /\ Coming("server")' = Coming("server")
  BY TaskMoves
<1>2. /\ s \in Seq(Bytes) /\ next-1 \in 0 .. Len(Requests)
      /\ got["worker"] \in Seq(Seq(Bytes)) /\ Split[s] \in Seq(Seq(Bytes))
  BY StreamsOfFrames
<1>3. Whole(frame) /\ frame \in Seq(Bytes)
  BY <1>1, TaskIsWhole DEF Whole
<1>4. Content(frame) = [id |-> next, size |-> Requests[next]]
  BY <1>1, TaskContent
<1>5. Carries(s, got["worker"], next-1, Tasks)
  BY DEF Streams
<1> HIDE DEF frame, s
<1>6. Split[s \o frame] = Append(Split[s], frame)
  BY <1>2, <1>3, <1>5, SplitLast, TasksAndReplies
<1>7. Contents[Append(Split[s], frame)] = Append(Contents[Split[s]], Content(frame))
  BY <1>2, <1>3, ContentsAppend
<1>8. ToWorker' = Append(ToWorker, [id |-> next, size |-> Requests[next]])
  BY <1>1, <1>4, <1>6, <1>7 DEF ToWorker, s
<1>9. next \in Nat /\ next'-1 = next /\ (next-1)+1 = next /\ next-1 < Len(Requests)
  BY <1>1, SizeAssumption DEF Ids
<1>10. ToServer' = ToServer /\ Taken' = Taken
  BY <1>1 DEF ToServer, Taken
<1> QED
  BY <1>8, <1>9, <1>10 DEF Channel!Request, ToWorker, ToServer, Taken, Coming

\* The worker of echo.c takes the oldest request and starts the answer to it.
LEMMA WorkerServes ==
  ASSUME IInv, IInv', Streams, Streams', Parse("worker"),
         NEW r, NEW read, Round("worker", r, read), IsDone(r.parser)
  PROVE  Channel!Serve
<1> DEFINE g == got["worker"]
           t == Coming("worker")'
           s == Coming("server")
<1>0. TypeOK /\ TypeOK' /\ "worker" \in Ends /\ "server" \in Ends
  BY DEF IInv, Ends
<1>1. /\ unsent = <<>> /\ next' = next /\ unsent' \in Answers(read)
      /\ kept' = [kept EXCEPT !["worker"] = <<>>]
      /\ arrived' = [arrived EXCEPT !["worker"] = After("worker", r.used)]
      /\ wire' = wire
      /\ got' = [got EXCEPT !["worker"] = Append(@, read)]
      /\ read \in Seq(Bytes) /\ Len(read) >= HeadLen /\ Len(read) = HeadLen + Said(read)
  BY DEF Parse, Round, Reads
<1>2. /\ g \in Seq(Seq(Bytes)) /\ got["server"] \in Seq(Seq(Bytes))
      /\ next-1 \in 0 .. Len(Requests) /\ Len(g) \in 0 .. Len(Requests)
      /\ Split[s \o unsent] \in Seq(Seq(Bytes))
  BY <1>0, StreamsOfFrames
<1>3. t \in Seq(Bytes) /\ Split[t] \in Seq(Seq(Bytes))
  <2>1. Coming("worker")' \in Seq(Bytes)
    BY <1>0, ConcatProperties DEF TypeOK, Coming
  <2>2. Carries(t, got'["worker"], next'-1, Tasks) /\ got'["worker"] \in Seq(Seq(Bytes))
    BY <1>0 DEF Streams, TypeOK
  <2> HIDE DEF t
  <2>3. t \in Seq(Bytes)
    BY <2>1 DEF t
  <2>4. Split[t] \in Seq(Seq(Bytes))
    BY <1>1, <1>2, <2>2, <2>3, CarriedFrames, TasksAndReplies
  <2> QED
    BY <2>3, <2>4
<1>4. Coming("worker") = read \o t
  BY <1>0, RoundMoves
<1>5. Coming("server")' = s
  BY <1>0, <1>1 DEF Coming, TypeOK
<1>6. s \in Seq(Bytes) /\ s \o unsent = s
  <2>1. s \in Seq(Bytes)
    BY <1>0, ComingIsSeq
  <2> QED
    BY <1>1, <2>1, ConcatEmptySeq
<1>7. Carries(read \o t, g, next-1, Tasks) /\ Carries(s, got["server"], Len(g), Replies)
  BY <1>4, <1>6 DEF Streams
<1>8. Taken' = Taken
  BY <1>0, <1>1 DEF Taken, TypeOK
<1> HIDE DEF g, t, s
<1>9. Len(g)+1 \in 1 .. next-1 /\ read \in Tasks[Len(g)+1]
  BY <1>1, <1>2, <1>3, <1>7, CarriesTake, TasksAndReplies
<1> DEFINE id == Len(g)+1
<1>10. id \in Ids /\ read = Frame(id, Requests[id]) /\ IdOf(read) = id
  <2>1. id \in Ids
    BY <1>2, <1>9 DEF Ids
  <2>2. read \in Tasks[id]
    BY <1>9
  <2> HIDE DEF id
  <2> QED
    BY <2>1, <2>2, TasksAndReplies DEF Framing, Tasks
<1> HIDE DEF id
<1>11. Content(read).id = id
  <2>1. Content(read) = [id |-> id, size |-> Requests[id]]
    BY <1>10, TaskContent
  <2> QED
    BY <2>1
<1>12. PICK size \in AnswerSizes : unsent' = Frame(id, size)
  BY <1>1, <1>10 DEF Answers
<1>13. Whole(unsent') /\ Content(unsent') = [id |-> id, size |-> size] /\ unsent' \in Seq(Bytes)
  BY <1>10, <1>12, ReplyContent DEF Whole
<1>14. Split[s \o unsent'] = Append(Split[s], unsent')
  BY <1>2, <1>6, <1>7, <1>13, SplitLast, TasksAndReplies
<1>15. Split[s] \in Seq(Seq(Bytes))
  BY <1>2, <1>6
<1>16. Contents[Append(Split[s], unsent')] = Append(Contents[Split[s]], Content(unsent'))
  BY <1>13, <1>15, ContentsAppend
<1>17. ToServer' = Append(ToServer, [id |-> id, size |-> size])
  BY <1>5, <1>6, <1>13, <1>14, <1>16 DEF ToServer, s
<1>18. /\ Contents[Split[read \o t]] # <<>>
       /\ Head(Contents[Split[read \o t]]) = Content(read)
       /\ Tail(Contents[Split[read \o t]]) = Contents[Split[t]]
  BY <1>1, <1>3, OldestFrame
<1>19. ToWorker # <<>> /\ Head(ToWorker).id = id /\ ToWorker' = Tail(ToWorker)
  BY <1>4, <1>11, <1>18 DEF ToWorker, t
<1>20. ToServer' = Append(ToServer, [id |-> Head(ToWorker).id, size |-> size])
  BY <1>17, <1>19
<1> QED
  BY <1>1, <1>8, <1>19, <1>20 DEF Channel!Serve, ToWorker, ToServer, Taken, Coming

\* recv_local_cb takes the oldest answer.
LEMMA ServerCollects ==
  ASSUME IInv, IInv', Streams, Streams', Parse("server"),
         NEW r, NEW read, Round("server", r, read), IsDone(r.parser)
  PROVE  Channel!Collect
<1> DEFINE g == got["server"]
           t == Coming("server")'
<1>0. TypeOK /\ TypeOK' /\ "worker" \in Ends /\ "server" \in Ends
  BY DEF IInv, Ends
<1>1. /\ unsent' = unsent /\ next' = next
      /\ kept' = [kept EXCEPT !["server"] = <<>>]
      /\ arrived' = [arrived EXCEPT !["server"] = After("server", r.used)]
      /\ wire' = wire
      /\ got' = [got EXCEPT !["server"] = Append(@, read)]
      /\ read \in Seq(Bytes) /\ Len(read) >= HeadLen /\ Len(read) = HeadLen + Said(read)
  BY DEF Parse, Round, Reads
<1>2. /\ g \in Seq(Seq(Bytes)) /\ unsent \in Seq(Bytes)
      /\ Len(got["worker"]) \in 0 .. Len(Requests)
  BY <1>0, StreamsOfFrames DEF TypeOK
<1>3. t \in Seq(Bytes) /\ t \o unsent \in Seq(Bytes) /\ Split[t \o unsent] \in Seq(Seq(Bytes))
  <2>1. Coming("server")' \in Seq(Bytes)
    BY <1>0, ConcatProperties DEF TypeOK, Coming
  <2>2. Carries(t \o unsent, got'["server"], Len(got'["worker"]), Replies)
        /\ got'["server"] \in Seq(Seq(Bytes)) /\ got'["worker"] = got["worker"]
    BY <1>0, <1>1 DEF Streams, TypeOK
  <2> HIDE DEF t
  <2>3. t \in Seq(Bytes) /\ t \o unsent \in Seq(Bytes)
    BY <1>2, <2>1, ConcatProperties DEF t
  <2>4. Split[t \o unsent] \in Seq(Seq(Bytes))
    BY <1>2, <2>2, <2>3, CarriedFrames, TasksAndReplies
  <2> QED
    BY <2>3, <2>4
<1>4. Coming("server") = read \o t
  BY <1>0, RoundMoves
<1>5. Coming("worker")' = Coming("worker")
  BY <1>0, <1>1 DEF Coming, TypeOK
<1>6. (read \o t) \o unsent = read \o (t \o unsent)
  BY <1>1, <1>2, <1>3, ConcatTwice
<1>7. got'["server"] = Append(g, read)
  BY <1>0, <1>1 DEF TypeOK
<1> HIDE DEF g, t
<1>8. /\ Contents[Split[read \o (t \o unsent)]] # <<>>
      /\ Head(Contents[Split[read \o (t \o unsent)]]) = Content(read)
      /\ Tail(Contents[Split[read \o (t \o unsent)]]) = Contents[Split[t \o unsent]]
  BY <1>1, <1>3, OldestFrame
<1>9. ToServer = Contents[Split[read \o (t \o unsent)]]
  BY <1>4, <1>6 DEF ToServer
<1>10. ToServer' = Contents[Split[t \o unsent]]
  BY <1>1 DEF ToServer, t
<1>11. ToServer # <<>> /\ ToServer' = Tail(ToServer) /\ Head(ToServer) = Content(read)
  BY <1>8, <1>9, <1>10
<1>12. Contents[Append(g, read)] = Append(Contents[g], Content(read))
  BY <1>1, <1>2, ContentsAppend
<1>13. Taken' = Append(Taken, Head(ToServer))
  BY <1>7, <1>11, <1>12 DEF Taken, g
<1>14. ToWorker' = ToWorker
  BY <1>5 DEF ToWorker
<1> QED
  BY <1>1, <1>11, <1>13, <1>14 DEF Channel!Collect, ToWorker, ToServer, Taken, Coming

\* Steps that move bytes and take no frame.
LEMMA MovesStutter ==
  ASSUME UNCHANGED <<next, got>>, Coming("worker")' = Coming("worker"),
         (Coming("server") \o unsent)' = Coming("server") \o unsent
  PROVE  [Channel!Next]_(Channel!vars)
BY DEF Coming, Channel!vars

LEMMA StepRefines ==
  ASSUME ~PartialSends
  PROVE  IInv /\ IInv' /\ Streams /\ Streams' /\ [Next]_vars => [Channel!Next]_(Channel!vars)
<1> SUFFICES ASSUME IInv, IInv', Streams, Streams', [Next]_vars
             PROVE  [Channel!Next]_(Channel!vars)
  OBVIOUS
<1>0. TypeOK
  BY DEF IInv
<1>1. CASE SendTask
  <2>1. Channel!Request
    BY <1>0, <1>1, TaskRequests
  <2> QED
    BY <2>1 DEF Channel!Next
<1>2. CASE WorkerSend
  BY <1>0, <1>2, AnswerMoves, MovesStutter
<1>3. ASSUME NEW e \in Ends, Recv(e) PROVE [Channel!Next]_(Channel!vars)
  <2>1. Coming(e)' = Coming(e)
    BY <1>0, <1>3, RecvMoves
  <2>2. ASSUME NEW o \in Ends, o # e PROVE Coming(o)' = Coming(o)
    BY <1>0, <1>3, <2>2 DEF Recv, Coming, TypeOK
  <2>3. Coming("worker")' = Coming("worker") /\ Coming("server")' = Coming("server")
    BY <2>1, <2>2 DEF Ends
  <2>4. UNCHANGED <<next, got, unsent>>
    BY <1>3 DEF Recv
  <2> QED
    BY <2>3, <2>4, MovesStutter
<1>4. ASSUME NEW e \in Ends, SeesEnd(e) PROVE [Channel!Next]_(Channel!vars)
  <2>1. UNCHANGED <<next, got, unsent, kept, arrived, wire>>
    BY <1>4 DEF SeesEnd
  <2>2. Coming("worker")' = Coming("worker") /\ Coming("server")' = Coming("server")
    BY <2>1 DEF Coming
  <2> QED
    BY <2>1, <2>2, MovesStutter
<1>5. ASSUME NEW e \in Ends, Parse(e) PROVE [Channel!Next]_(Channel!vars)
  <2>1. PICK r, read : Round(e, r, read)
    BY <1>5, ParseRounds
  <2>2. CASE IsDone(r.parser)
    <3>1. CASE e = "worker"
      <4>1. Channel!Serve
        BY <1>5, <2>1, <2>2, <3>1, WorkerServes
      <4> QED
        BY <4>1 DEF Channel!Next
    <3>2. CASE e = "server"
      <4>1. Channel!Collect
        BY <1>5, <2>1, <2>2, <3>2, ServerCollects
      <4> QED
        BY <4>1 DEF Channel!Next
    <3> QED
      BY <3>1, <3>2 DEF Ends
  <2>3. CASE ~IsDone(r.parser)
    <3>1. Coming(e)' = Coming(e)
      BY <1>0, <1>5, <2>1, <2>3, RoundMoves
    <3>2. UNCHANGED <<next, got, unsent>>
      BY <1>5, <2>1, <2>3 DEF Parse, Round
    <3>3. ASSUME NEW o \in Ends, o # e PROVE Coming(o)' = Coming(o)
      BY <1>0, <1>5, <2>1, <2>3, <3>3 DEF Parse, Round, Coming, TypeOK
    <3>4. Coming("worker")' = Coming("worker") /\ Coming("server")' = Coming("server")
      BY <3>1, <3>3 DEF Ends
    <3> QED
      BY <3>2, <3>4, MovesStutter
  <2> QED
    BY <2>2, <2>3
<1>6. CASE UNCHANGED vars
  <2>1. UNCHANGED <<next, got, unsent, kept, arrived, wire>>
    BY <1>6 DEF vars
  <2>2. Coming("worker")' = Coming("worker") /\ Coming("server")' = Coming("server")
    BY <2>1 DEF Coming
  <2> QED
    BY <2>1, <2>2, MovesStutter
<1> QED
  BY <1>1, <1>2, <1>3, <1>4, <1>5, <1>6 DEF Next

LEMMA InitRefines == Init => Channel!Init
<1> SUFFICES ASSUME Init PROVE Channel!Init
  OBVIOUS
<1>1. /\ next-1 = 0 /\ got["server"] = <<>>
      /\ Coming("worker") = <<>> /\ Coming("server") \o unsent = <<>>
  BY DEF Init, Coming, Ends
<1>2. Contents[<<>>] = <<>>
  BY DEF Contents
<1> QED
  BY <1>1, <1>2, SplitNothing DEF Channel!Init, Coming

\* As long as send takes a frame whole, the connection is a queue of frames each
\* way, whatever recv cuts the bytes into: a worker takes each request once, whole
\* and in order, and the server gets one answer to it, under its own id.
THEOREM ChannelKept == ASSUME ~PartialSends PROVE Spec => RefinesChannel
<1>1. Init => IInv /\ Streams
  BY InitIInv, InitStreams
<1>2. IInv /\ Streams /\ [Next]_vars => IInv' /\ Streams'
  BY StepIInv, StepStreams
<1>3. IInv /\ IInv' /\ Streams /\ Streams' /\ [Next]_vars => [Channel!Next]_(Channel!vars)
  BY StepRefines
<1> QED
  BY <1>1, <1>2, <1>3, InitRefines, PTL DEF Spec, RefinesChannel, Channel!Spec
=============================================================================
