------------------------- MODULE HttpRequestProofs -------------------------
(* Proofs about how a request is read: for every stream, every size of the    *)
(* buffer and all pieces that recv may return.                                *)
EXTENDS HttpRequest, SequenceTheorems, WellFoundedInduction, TLAPS

----------------------------------------------------------------------------
(* The words of HTTP_METHOD_MAP.                                            *)

LEMMA MethodsAre ==
  Methods = {"DELETE", "GET", "HEAD", "POST", "PUT", "CONNECT", "OPTIONS", "TRACE", "COPY",
             "LOCK", "MKCOL", "MOVE", "PROPFIND", "PROPPATCH", "SEARCH", "UNLOCK", "BIND",
             "REBIND", "UNBIND", "ACL", "REPORT", "MKACTIVITY", "CHECKOUT", "MERGE",
             "MSEARCH", "NOTIFY", "SUBSCRIBE", "UNSUBSCRIBE", "PATCH", "PURGE",
             "MKCALENDAR", "LINK", "UNLINK", "SOURCE"}
BY DEF Methods, Spelling

LEMMA SpellingIs ==
  /\ Spelling["DELETE"] = <<"D", "E", "L", "E", "T", "E">>
  /\ Spelling["GET"] = <<"G", "E", "T">>
  /\ Spelling["HEAD"] = <<"H", "E", "A", "D">>
  /\ Spelling["POST"] = <<"P", "O", "S", "T">>
  /\ Spelling["PUT"] = <<"P", "U", "T">>
  /\ Spelling["CONNECT"] = <<"C", "O", "N", "N", "E", "C", "T">>
  /\ Spelling["OPTIONS"] = <<"O", "P", "T", "I", "O", "N", "S">>
  /\ Spelling["TRACE"] = <<"T", "R", "A", "C", "E">>
  /\ Spelling["COPY"] = <<"C", "O", "P", "Y">>
  /\ Spelling["LOCK"] = <<"L", "O", "C", "K">>
  /\ Spelling["MKCOL"] = <<"M", "K", "C", "O", "L">>
  /\ Spelling["MOVE"] = <<"M", "O", "V", "E">>
  /\ Spelling["PROPFIND"] = <<"P", "R", "O", "P", "F", "I", "N", "D">>
  /\ Spelling["PROPPATCH"] = <<"P", "R", "O", "P", "P", "A", "T", "C", "H">>
  /\ Spelling["SEARCH"] = <<"S", "E", "A", "R", "C", "H">>
  /\ Spelling["UNLOCK"] = <<"U", "N", "L", "O", "C", "K">>
  /\ Spelling["BIND"] = <<"B", "I", "N", "D">>
  /\ Spelling["REBIND"] = <<"R", "E", "B", "I", "N", "D">>
  /\ Spelling["UNBIND"] = <<"U", "N", "B", "I", "N", "D">>
  /\ Spelling["ACL"] = <<"A", "C", "L">>
  /\ Spelling["REPORT"] = <<"R", "E", "P", "O", "R", "T">>
  /\ Spelling["MKACTIVITY"] = <<"M", "K", "A", "C", "T", "I", "V", "I", "T", "Y">>
  /\ Spelling["CHECKOUT"] = <<"C", "H", "E", "C", "K", "O", "U", "T">>
  /\ Spelling["MERGE"] = <<"M", "E", "R", "G", "E">>
  /\ Spelling["MSEARCH"] = <<"M", "-", "S", "E", "A", "R", "C", "H">>
  /\ Spelling["NOTIFY"] = <<"N", "O", "T", "I", "F", "Y">>
  /\ Spelling["SUBSCRIBE"] = <<"S", "U", "B", "S", "C", "R", "I", "B", "E">>
  /\ Spelling["UNSUBSCRIBE"] = <<"U", "N", "S", "U", "B", "S", "C", "R", "I", "B", "E">>
  /\ Spelling["PATCH"] = <<"P", "A", "T", "C", "H">>
  /\ Spelling["PURGE"] = <<"P", "U", "R", "G", "E">>
  /\ Spelling["MKCALENDAR"] = <<"M", "K", "C", "A", "L", "E", "N", "D", "A", "R">>
  /\ Spelling["LINK"] = <<"L", "I", "N", "K">>
  /\ Spelling["UNLINK"] = <<"U", "N", "L", "I", "N", "K">>
  /\ Spelling["SOURCE"] = <<"S", "O", "U", "R", "C", "E">>
BY DEF Spelling

Worded(s) == Len(s) \in Nat /\ Len(s) > 0

LEMMA WordLengths == \A m \in Methods : Worded(Spelling[m])
<1>1. /\ Worded(Spelling["DELETE"]) /\ Worded(Spelling["GET"]) /\ Worded(Spelling["HEAD"])
      /\ Worded(Spelling["POST"]) /\ Worded(Spelling["PUT"]) /\ Worded(Spelling["CONNECT"])
  BY SpellingIs DEF Worded
<1>2. /\ Worded(Spelling["OPTIONS"]) /\ Worded(Spelling["TRACE"]) /\ Worded(Spelling["COPY"])
      /\ Worded(Spelling["LOCK"]) /\ Worded(Spelling["MKCOL"]) /\ Worded(Spelling["MOVE"])
  BY SpellingIs DEF Worded
<1>3. /\ Worded(Spelling["PROPFIND"]) /\ Worded(Spelling["PROPPATCH"]) /\ Worded(Spelling["SEARCH"])
      /\ Worded(Spelling["UNLOCK"]) /\ Worded(Spelling["BIND"]) /\ Worded(Spelling["REBIND"])
  BY SpellingIs DEF Worded
<1>4. /\ Worded(Spelling["UNBIND"]) /\ Worded(Spelling["ACL"]) /\ Worded(Spelling["REPORT"])
      /\ Worded(Spelling["MKACTIVITY"]) /\ Worded(Spelling["CHECKOUT"]) /\ Worded(Spelling["MERGE"])
  BY SpellingIs DEF Worded
<1>5. /\ Worded(Spelling["MSEARCH"]) /\ Worded(Spelling["NOTIFY"]) /\ Worded(Spelling["SUBSCRIBE"])
      /\ Worded(Spelling["UNSUBSCRIBE"]) /\ Worded(Spelling["PATCH"]) /\ Worded(Spelling["PURGE"])
  BY SpellingIs DEF Worded
<1>6. /\ Worded(Spelling["MKCALENDAR"]) /\ Worded(Spelling["LINK"]) /\ Worded(Spelling["UNLINK"])
      /\ Worded(Spelling["SOURCE"])
  BY SpellingIs DEF Worded
<1> QED
  BY MethodsAre, <1>1, <1>2, <1>3, <1>4, <1>5, <1>6

\* The method guessed from a first letter starts with it.
GuessAgrees(ch, m) ==
  m \in Methods /\ FirstGuess[ch] = m /\ Spelling[m][1] = ch

LEMMA GuessesAgree == \A ch \in DOMAIN FirstGuess : GuessAgrees(ch, FirstGuess[ch])
<1>1. GuessAgrees("A", "ACL")
  <2>1. Spelling["ACL"] = <<"A", "C", "L">> /\ FirstGuess["A"] = "ACL"
    BY SpellingIs DEF FirstGuess
  <2> QED
    BY <2>1, MethodsAre DEF GuessAgrees
<1>2. GuessAgrees("B", "BIND")
  <2>1. Spelling["BIND"] = <<"B", "I", "N", "D">> /\ FirstGuess["B"] = "BIND"
    BY SpellingIs DEF FirstGuess
  <2> QED
    BY <2>1, MethodsAre DEF GuessAgrees
<1>3. GuessAgrees("C", "CONNECT")
  <2>1. Spelling["CONNECT"] = <<"C", "O", "N", "N", "E", "C", "T">> /\ FirstGuess["C"] = "CONNECT"
    BY SpellingIs DEF FirstGuess
  <2> QED
    BY <2>1, MethodsAre DEF GuessAgrees
<1>4. GuessAgrees("D", "DELETE")
  <2>1. Spelling["DELETE"] = <<"D", "E", "L", "E", "T", "E">> /\ FirstGuess["D"] = "DELETE"
    BY SpellingIs DEF FirstGuess
  <2> QED
    BY <2>1, MethodsAre DEF GuessAgrees
<1>5. GuessAgrees("G", "GET")
  <2>1. Spelling["GET"] = <<"G", "E", "T">> /\ FirstGuess["G"] = "GET"
    BY SpellingIs DEF FirstGuess
  <2> QED
    BY <2>1, MethodsAre DEF GuessAgrees
<1>6. GuessAgrees("H", "HEAD")
  <2>1. Spelling["HEAD"] = <<"H", "E", "A", "D">> /\ FirstGuess["H"] = "HEAD"
    BY SpellingIs DEF FirstGuess
  <2> QED
    BY <2>1, MethodsAre DEF GuessAgrees
<1>7. GuessAgrees("L", "LOCK")
  <2>1. Spelling["LOCK"] = <<"L", "O", "C", "K">> /\ FirstGuess["L"] = "LOCK"
    BY SpellingIs DEF FirstGuess
  <2> QED
    BY <2>1, MethodsAre DEF GuessAgrees
<1>8. GuessAgrees("M", "MKCOL")
  <2>1. Spelling["MKCOL"] = <<"M", "K", "C", "O", "L">> /\ FirstGuess["M"] = "MKCOL"
    BY SpellingIs DEF FirstGuess
  <2> QED
    BY <2>1, MethodsAre DEF GuessAgrees
<1>9. GuessAgrees("N", "NOTIFY")
  <2>1. Spelling["NOTIFY"] = <<"N", "O", "T", "I", "F", "Y">> /\ FirstGuess["N"] = "NOTIFY"
    BY SpellingIs DEF FirstGuess
  <2> QED
    BY <2>1, MethodsAre DEF GuessAgrees
<1>10. GuessAgrees("O", "OPTIONS")
  <2>1. Spelling["OPTIONS"] = <<"O", "P", "T", "I", "O", "N", "S">> /\ FirstGuess["O"] = "OPTIONS"
    BY SpellingIs DEF FirstGuess
  <2> QED
    BY <2>1, MethodsAre DEF GuessAgrees
<1>11. GuessAgrees("P", "POST")
  <2>1. Spelling["POST"] = <<"P", "O", "S", "T">> /\ FirstGuess["P"] = "POST"
    BY SpellingIs DEF FirstGuess
  <2> QED
    BY <2>1, MethodsAre DEF GuessAgrees
<1>12. GuessAgrees("R", "REPORT")
  <2>1. Spelling["REPORT"] = <<"R", "E", "P", "O", "R", "T">> /\ FirstGuess["R"] = "REPORT"
    BY SpellingIs DEF FirstGuess
  <2> QED
    BY <2>1, MethodsAre DEF GuessAgrees
<1>13. GuessAgrees("S", "SUBSCRIBE")
  <2>1. Spelling["SUBSCRIBE"] = <<"S", "U", "B", "S", "C", "R", "I", "B", "E">> /\ FirstGuess["S"] = "SUBSCRIBE"
    BY SpellingIs DEF FirstGuess
  <2> QED
    BY <2>1, MethodsAre DEF GuessAgrees
<1>14. GuessAgrees("T", "TRACE")
  <2>1. Spelling["TRACE"] = <<"T", "R", "A", "C", "E">> /\ FirstGuess["T"] = "TRACE"
    BY SpellingIs DEF FirstGuess
  <2> QED
    BY <2>1, MethodsAre DEF GuessAgrees
<1>15. GuessAgrees("U", "UNLOCK")
  <2>1. Spelling["UNLOCK"] = <<"U", "N", "L", "O", "C", "K">> /\ FirstGuess["U"] = "UNLOCK"
    BY SpellingIs DEF FirstGuess
  <2> QED
    BY <2>1, MethodsAre DEF GuessAgrees
<1>16. DOMAIN FirstGuess = {"A", "B", "C", "D", "G", "H", "L", "M", "N", "O", "P", "R", "S", "T", "U"}
  BY DEF FirstGuess
<1> QED
  BY <1>1, <1>2, <1>3, <1>4, <1>5, <1>6, <1>7, <1>8, <1>9, <1>10, <1>11, <1>12, <1>13,
     <1>14, <1>15, <1>16 DEF GuessAgrees

\* A guess that gives way to another agrees with it on the letters read, and the
\* other goes on with the letter that came, with which the first does not.
JumpAgrees(j) ==
  /\ j[1] \in Methods /\ j[4] \in Methods /\ j[2] \in Nat
  /\ Spelling[j[4]][j[2]+1] = j[3] /\ j[2] < Len(Spelling[j[4]])
  /\ Spelling[j[1]][j[2]+1] # j[3] /\ j[2] < Len(Spelling[j[1]])
  /\ \A k \in 1 .. j[2] : Spelling[j[4]][k] = Spelling[j[1]][k]

LEMMA JumpsAgree == \A j \in Jumps : JumpAgrees(j)
<1>1. JumpAgrees(<<"POST", 1, "U", "PUT">>)
  <2>1. /\ Spelling["POST"] = <<"P", "O", "S", "T">>
        /\ Spelling["PUT"] = <<"P", "U", "T">>
    BY SpellingIs
  <2>2. \A k \in 1 .. 1 : Spelling["PUT"][k] = Spelling["POST"][k]
    BY <2>1
  <2>3. /\ Spelling["PUT"][1+1] = "U" /\ 1 < Len(Spelling["PUT"])
        /\ Spelling["POST"][1+1] # "U" /\ 1 < Len(Spelling["POST"])
    BY <2>1
  <2> QED
    BY <2>2, <2>3, MethodsAre DEF JumpAgrees
<1>2. JumpAgrees(<<"POST", 1, "A", "PATCH">>)
  <2>1. /\ Spelling["POST"] = <<"P", "O", "S", "T">>
        /\ Spelling["PATCH"] = <<"P", "A", "T", "C", "H">>
    BY SpellingIs
  <2>2. \A k \in 1 .. 1 : Spelling["PATCH"][k] = Spelling["POST"][k]
    BY <2>1
  <2>3. /\ Spelling["PATCH"][1+1] = "A" /\ 1 < Len(Spelling["PATCH"])
        /\ Spelling["POST"][1+1] # "A" /\ 1 < Len(Spelling["POST"])
    BY <2>1
  <2> QED
    BY <2>2, <2>3, MethodsAre DEF JumpAgrees
<1>3. JumpAgrees(<<"POST", 1, "R", "PROPFIND">>)
  <2>1. /\ Spelling["POST"] = <<"P", "O", "S", "T">>
        /\ Spelling["PROPFIND"] = <<"P", "R", "O", "P", "F", "I", "N", "D">>
    BY SpellingIs
  <2>2. \A k \in 1 .. 1 : Spelling["PROPFIND"][k] = Spelling["POST"][k]
    BY <2>1
  <2>3. /\ Spelling["PROPFIND"][1+1] = "R" /\ 1 < Len(Spelling["PROPFIND"])
        /\ Spelling["POST"][1+1] # "R" /\ 1 < Len(Spelling["POST"])
    BY <2>1
  <2> QED
    BY <2>2, <2>3, MethodsAre DEF JumpAgrees
<1>4. JumpAgrees(<<"PUT", 2, "R", "PURGE">>)
  <2>1. /\ Spelling["PUT"] = <<"P", "U", "T">>
        /\ Spelling["PURGE"] = <<"P", "U", "R", "G", "E">>
    BY SpellingIs
  <2>2. \A k \in 1 .. 2 : Spelling["PURGE"][k] = Spelling["PUT"][k]
    BY <2>1
  <2>3. /\ Spelling["PURGE"][2+1] = "R" /\ 2 < Len(Spelling["PURGE"])
        /\ Spelling["PUT"][2+1] # "R" /\ 2 < Len(Spelling["PUT"])
    BY <2>1
  <2> QED
    BY <2>2, <2>3, MethodsAre DEF JumpAgrees
<1>5. JumpAgrees(<<"CONNECT", 1, "H", "CHECKOUT">>)
  <2>1. /\ Spelling["CONNECT"] = <<"C", "O", "N", "N", "E", "C", "T">>
        /\ Spelling["CHECKOUT"] = <<"C", "H", "E", "C", "K", "O", "U", "T">>
    BY SpellingIs
  <2>2. \A k \in 1 .. 1 : Spelling["CHECKOUT"][k] = Spelling["CONNECT"][k]
    BY <2>1
  <2>3. /\ Spelling["CHECKOUT"][1+1] = "H" /\ 1 < Len(Spelling["CHECKOUT"])
        /\ Spelling["CONNECT"][1+1] # "H" /\ 1 < Len(Spelling["CONNECT"])
    BY <2>1
  <2> QED
    BY <2>2, <2>3, MethodsAre DEF JumpAgrees
<1>6. JumpAgrees(<<"CONNECT", 2, "P", "COPY">>)
  <2>1. /\ Spelling["CONNECT"] = <<"C", "O", "N", "N", "E", "C", "T">>
        /\ Spelling["COPY"] = <<"C", "O", "P", "Y">>
    BY SpellingIs
  <2>2. \A k \in 1 .. 2 : Spelling["COPY"][k] = Spelling["CONNECT"][k]
    BY <2>1
  <2>3. /\ Spelling["COPY"][2+1] = "P" /\ 2 < Len(Spelling["COPY"])
        /\ Spelling["CONNECT"][2+1] # "P" /\ 2 < Len(Spelling["CONNECT"])
    BY <2>1
  <2> QED
    BY <2>2, <2>3, MethodsAre DEF JumpAgrees
<1>7. JumpAgrees(<<"MKCOL", 1, "O", "MOVE">>)
  <2>1. /\ Spelling["MKCOL"] = <<"M", "K", "C", "O", "L">>
        /\ Spelling["MOVE"] = <<"M", "O", "V", "E">>
    BY SpellingIs
  <2>2. \A k \in 1 .. 1 : Spelling["MOVE"][k] = Spelling["MKCOL"][k]
    BY <2>1
  <2>3. /\ Spelling["MOVE"][1+1] = "O" /\ 1 < Len(Spelling["MOVE"])
        /\ Spelling["MKCOL"][1+1] # "O" /\ 1 < Len(Spelling["MKCOL"])
    BY <2>1
  <2> QED
    BY <2>2, <2>3, MethodsAre DEF JumpAgrees
<1>8. JumpAgrees(<<"MKCOL", 1, "E", "MERGE">>)
  <2>1. /\ Spelling["MKCOL"] = <<"M", "K", "C", "O", "L">>
        /\ Spelling["MERGE"] = <<"M", "E", "R", "G", "E">>
    BY SpellingIs
  <2>2. \A k \in 1 .. 1 : Spelling["MERGE"][k] = Spelling["MKCOL"][k]
    BY <2>1
  <2>3. /\ Spelling["MERGE"][1+1] = "E" /\ 1 < Len(Spelling["MERGE"])
        /\ Spelling["MKCOL"][1+1] # "E" /\ 1 < Len(Spelling["MKCOL"])
    BY <2>1
  <2> QED
    BY <2>2, <2>3, MethodsAre DEF JumpAgrees
<1>9. JumpAgrees(<<"MKCOL", 1, "-", "MSEARCH">>)
  <2>1. /\ Spelling["MKCOL"] = <<"M", "K", "C", "O", "L">>
        /\ Spelling["MSEARCH"] = <<"M", "-", "S", "E", "A", "R", "C", "H">>
    BY SpellingIs
  <2>2. \A k \in 1 .. 1 : Spelling["MSEARCH"][k] = Spelling["MKCOL"][k]
    BY <2>1
  <2>3. /\ Spelling["MSEARCH"][1+1] = "-" /\ 1 < Len(Spelling["MSEARCH"])
        /\ Spelling["MKCOL"][1+1] # "-" /\ 1 < Len(Spelling["MKCOL"])
    BY <2>1
  <2> QED
    BY <2>2, <2>3, MethodsAre DEF JumpAgrees
<1>10. JumpAgrees(<<"MKCOL", 2, "A", "MKACTIVITY">>)
  <2>1. /\ Spelling["MKCOL"] = <<"M", "K", "C", "O", "L">>
        /\ Spelling["MKACTIVITY"] = <<"M", "K", "A", "C", "T", "I", "V", "I", "T", "Y">>
    BY SpellingIs
  <2>2. \A k \in 1 .. 2 : Spelling["MKACTIVITY"][k] = Spelling["MKCOL"][k]
    BY <2>1
  <2>3. /\ Spelling["MKACTIVITY"][2+1] = "A" /\ 2 < Len(Spelling["MKACTIVITY"])
        /\ Spelling["MKCOL"][2+1] # "A" /\ 2 < Len(Spelling["MKCOL"])
    BY <2>1
  <2> QED
    BY <2>2, <2>3, MethodsAre DEF JumpAgrees
<1>11. JumpAgrees(<<"MKCOL", 3, "A", "MKCALENDAR">>)
  <2>1. /\ Spelling["MKCOL"] = <<"M", "K", "C", "O", "L">>
        /\ Spelling["MKCALENDAR"] = <<"M", "K", "C", "A", "L", "E", "N", "D", "A", "R">>
    BY SpellingIs
  <2>2. \A k \in 1 .. 3 : Spelling["MKCALENDAR"][k] = Spelling["MKCOL"][k]
    BY <2>1
  <2>3. /\ Spelling["MKCALENDAR"][3+1] = "A" /\ 3 < Len(Spelling["MKCALENDAR"])
        /\ Spelling["MKCOL"][3+1] # "A" /\ 3 < Len(Spelling["MKCOL"])
    BY <2>1
  <2> QED
    BY <2>2, <2>3, MethodsAre DEF JumpAgrees
<1>12. JumpAgrees(<<"SUBSCRIBE", 1, "E", "SEARCH">>)
  <2>1. /\ Spelling["SUBSCRIBE"] = <<"S", "U", "B", "S", "C", "R", "I", "B", "E">>
        /\ Spelling["SEARCH"] = <<"S", "E", "A", "R", "C", "H">>
    BY SpellingIs
  <2>2. \A k \in 1 .. 1 : Spelling["SEARCH"][k] = Spelling["SUBSCRIBE"][k]
    BY <2>1
  <2>3. /\ Spelling["SEARCH"][1+1] = "E" /\ 1 < Len(Spelling["SEARCH"])
        /\ Spelling["SUBSCRIBE"][1+1] # "E" /\ 1 < Len(Spelling["SUBSCRIBE"])
    BY <2>1
  <2> QED
    BY <2>2, <2>3, MethodsAre DEF JumpAgrees
<1>13. JumpAgrees(<<"SUBSCRIBE", 1, "O", "SOURCE">>)
  <2>1. /\ Spelling["SUBSCRIBE"] = <<"S", "U", "B", "S", "C", "R", "I", "B", "E">>
        /\ Spelling["SOURCE"] = <<"S", "O", "U", "R", "C", "E">>
    BY SpellingIs
  <2>2. \A k \in 1 .. 1 : Spelling["SOURCE"][k] = Spelling["SUBSCRIBE"][k]
    BY <2>1
  <2>3. /\ Spelling["SOURCE"][1+1] = "O" /\ 1 < Len(Spelling["SOURCE"])
        /\ Spelling["SUBSCRIBE"][1+1] # "O" /\ 1 < Len(Spelling["SUBSCRIBE"])
    BY <2>1
  <2> QED
    BY <2>2, <2>3, MethodsAre DEF JumpAgrees
<1>14. JumpAgrees(<<"REPORT", 2, "B", "REBIND">>)
  <2>1. /\ Spelling["REPORT"] = <<"R", "E", "P", "O", "R", "T">>
        /\ Spelling["REBIND"] = <<"R", "E", "B", "I", "N", "D">>
    BY SpellingIs
  <2>2. \A k \in 1 .. 2 : Spelling["REBIND"][k] = Spelling["REPORT"][k]
    BY <2>1
  <2>3. /\ Spelling["REBIND"][2+1] = "B" /\ 2 < Len(Spelling["REBIND"])
        /\ Spelling["REPORT"][2+1] # "B" /\ 2 < Len(Spelling["REPORT"])
    BY <2>1
  <2> QED
    BY <2>2, <2>3, MethodsAre DEF JumpAgrees
<1>15. JumpAgrees(<<"PROPFIND", 4, "P", "PROPPATCH">>)
  <2>1. /\ Spelling["PROPFIND"] = <<"P", "R", "O", "P", "F", "I", "N", "D">>
        /\ Spelling["PROPPATCH"] = <<"P", "R", "O", "P", "P", "A", "T", "C", "H">>
    BY SpellingIs
  <2>2. \A k \in 1 .. 4 : Spelling["PROPPATCH"][k] = Spelling["PROPFIND"][k]
    BY <2>1
  <2>3. /\ Spelling["PROPPATCH"][4+1] = "P" /\ 4 < Len(Spelling["PROPPATCH"])
        /\ Spelling["PROPFIND"][4+1] # "P" /\ 4 < Len(Spelling["PROPFIND"])
    BY <2>1
  <2> QED
    BY <2>2, <2>3, MethodsAre DEF JumpAgrees
<1>16. JumpAgrees(<<"LOCK", 1, "I", "LINK">>)
  <2>1. /\ Spelling["LOCK"] = <<"L", "O", "C", "K">>
        /\ Spelling["LINK"] = <<"L", "I", "N", "K">>
    BY SpellingIs
  <2>2. \A k \in 1 .. 1 : Spelling["LINK"][k] = Spelling["LOCK"][k]
    BY <2>1
  <2>3. /\ Spelling["LINK"][1+1] = "I" /\ 1 < Len(Spelling["LINK"])
        /\ Spelling["LOCK"][1+1] # "I" /\ 1 < Len(Spelling["LOCK"])
    BY <2>1
  <2> QED
    BY <2>2, <2>3, MethodsAre DEF JumpAgrees
<1>17. JumpAgrees(<<"UNLOCK", 2, "S", "UNSUBSCRIBE">>)
  <2>1. /\ Spelling["UNLOCK"] = <<"U", "N", "L", "O", "C", "K">>
        /\ Spelling["UNSUBSCRIBE"] = <<"U", "N", "S", "U", "B", "S", "C", "R", "I", "B", "E">>
    BY SpellingIs
  <2>2. \A k \in 1 .. 2 : Spelling["UNSUBSCRIBE"][k] = Spelling["UNLOCK"][k]
    BY <2>1
  <2>3. /\ Spelling["UNSUBSCRIBE"][2+1] = "S" /\ 2 < Len(Spelling["UNSUBSCRIBE"])
        /\ Spelling["UNLOCK"][2+1] # "S" /\ 2 < Len(Spelling["UNLOCK"])
    BY <2>1
  <2> QED
    BY <2>2, <2>3, MethodsAre DEF JumpAgrees
<1>18. JumpAgrees(<<"UNLOCK", 2, "B", "UNBIND">>)
  <2>1. /\ Spelling["UNLOCK"] = <<"U", "N", "L", "O", "C", "K">>
        /\ Spelling["UNBIND"] = <<"U", "N", "B", "I", "N", "D">>
    BY SpellingIs
  <2>2. \A k \in 1 .. 2 : Spelling["UNBIND"][k] = Spelling["UNLOCK"][k]
    BY <2>1
  <2>3. /\ Spelling["UNBIND"][2+1] = "B" /\ 2 < Len(Spelling["UNBIND"])
        /\ Spelling["UNLOCK"][2+1] # "B" /\ 2 < Len(Spelling["UNLOCK"])
    BY <2>1
  <2> QED
    BY <2>2, <2>3, MethodsAre DEF JumpAgrees
<1>19. JumpAgrees(<<"UNLOCK", 3, "I", "UNLINK">>)
  <2>1. /\ Spelling["UNLOCK"] = <<"U", "N", "L", "O", "C", "K">>
        /\ Spelling["UNLINK"] = <<"U", "N", "L", "I", "N", "K">>
    BY SpellingIs
  <2>2. \A k \in 1 .. 3 : Spelling["UNLINK"][k] = Spelling["UNLOCK"][k]
    BY <2>1
  <2>3. /\ Spelling["UNLINK"][3+1] = "I" /\ 3 < Len(Spelling["UNLINK"])
        /\ Spelling["UNLOCK"][3+1] # "I" /\ 3 < Len(Spelling["UNLOCK"])
    BY <2>1
  <2> QED
    BY <2>2, <2>3, MethodsAre DEF JumpAgrees
<1> QED
  BY <1>1, <1>2, <1>3, <1>4, <1>5, <1>6, <1>7, <1>8, <1>9, <1>10, <1>11, <1>12, <1>13,
     <1>14, <1>15, <1>16, <1>17, <1>18, <1>19 DEF Jumps

----------------------------------------------------------------------------
(* What a parser is, and what a symbol leaves of that.                      *)

LineStates == {"req_spaces_before_url", "req_http_start", "req_http_end",
               "req_line_almost_done"} \cup TargetStart \cup TargetEnd
States == Final \cup LineStates \cup {"req_method", "header_field_start", "header_field",
  "header_value_discard_ws", "header_value_discard_ws_almost_done", "header_value_discard_lws",
  "header_value", "header_almost_done", "header_value_lws", "headers_almost_done",
  "body_identity", "chunk_size_start", "chunk_size", "chunk_parameters",
  "chunk_size_almost_done", "chunk_data", "chunk_data_almost_done", "chunk_data_done"}
Flags == {"connection_close", "connection_keep_alive", "connection_upgrade", "chunked",
          "content_length", "upgrade", "trailing"}

\* The header_state in a name, and in a value.
NameHeaders == {"connection", "content_length", "general", "transfer_encoding", "upgrade"}
ValueHeaders == {"general", "content_length_num", "content_length_ws",
  "transfer_encoding_chunked", "transfer_encoding_token_start", "transfer_encoding_token",
  "connection_token_start", "connection_token", "connection_close", "connection_keep_alive",
  "connection_upgrade"}
InValue == {"header_value", "header_almost_done", "header_value_lws"}
InData == {"body_identity", "chunk_data"}

Lengths == 0 .. MaxLength
Parsers ==
  [state : States, header : NameHeaders \cup ValueHeaders, flags : SUBSET Flags, te : BOOLEAN,
   length : Lengths, method : Methods \cup {"none"}, index : Nat,
   version : Versions \cup {"HTTP/0.9", "none"}, upgrade : BOOLEAN, error : BOOLEAN]

\* What no state needs to be told of: the fields, and a length that was declared.
Kept(p) ==
  /\ p \in Parsers
  /\ "content_length" \in p.flags => p.length < MaxLength

\* The parser has all it needs for the state it is in.
Sound(p) ==
  /\ Kept(p)
  /\ p.state \in InData => p.length > 0
  /\ p.state \in InValue => p.header \in ValueHeaders
  /\ p.state = "req_method" =>
       p.method \in Methods /\ p.index > 0 /\ p.index <= Len(Spelling[p.method])

\* A parser that is not at the method.
Past(p) == Sound(p) /\ p.state # "req_method"

\* The states that ask for nothing.
Plain == States \ (InData \cup InValue \cup {"req_method"})

LEMMA Bounds == MaxLength \in Nat /\ MaxLength > 16 /\ 0 \in Lengths /\ MaxLength \in Lengths
BY BufAssumption DEF Lengths

LEMMA PlainAre ==
  /\ Final \subseteq Plain /\ LineStates \subseteq Plain
  /\ {"header_field_start", "header_field", "header_value_discard_ws",
      "header_value_discard_ws_almost_done", "header_value_discard_lws", "headers_almost_done",
      "chunk_size_start", "chunk_size", "chunk_parameters", "chunk_size_almost_done",
      "chunk_data_almost_done", "chunk_data_done"} \subseteq Plain
<1>1. Final \subseteq Plain
  BY DEF Plain, States, Final, InData, InValue
<1>2. LineStates \subseteq Plain
  <2>1. LineStates \subseteq States
    BY DEF States
  <2>2. \A s \in LineStates : s \notin InData /\ s \notin InValue /\ s # "req_method"
    BY DEF LineStates, TargetStart, TargetEnd, InData, InValue
  <2> QED
    BY <2>1, <2>2 DEF Plain
<1>3. {"header_field_start", "header_field", "header_value_discard_ws",
       "header_value_discard_ws_almost_done", "header_value_discard_lws", "headers_almost_done",
       "chunk_size_start", "chunk_size", "chunk_parameters", "chunk_size_almost_done",
       "chunk_data_almost_done", "chunk_data_done"} \subseteq Plain
  BY DEF Plain, States, InData, InValue
<1> QED
  BY <1>1, <1>2, <1>3

LEMMA InitPast == Past(ParserInit) /\ ~ParserInit.error
<1>1. ParserInit.state \in Plain /\ ParserInit.state # "req_method"
  BY PlainAre DEF ParserInit, Final
<1>2. ParserInit \in Parsers /\ ParserInit.flags = {} /\ ~ParserInit.error
  BY <1>1, Bounds DEF Parsers, ParserInit, NameHeaders, Plain
<1> QED
  BY <1>1, <1>2 DEF Past, Sound, Kept, Plain

LEMMA PastParser == ASSUME NEW p, Past(p) PROVE Kept(p) /\ p \in Parsers
BY DEF Past, Sound, Kept

LEMMA FailPast == ASSUME NEW p, Past(p) PROVE Past(Fail(p))
BY DEF Past, Sound, Kept, Parsers, Fail

\* To a state that asks for nothing, whichever state it is now.
LEMMA ToPast ==
  ASSUME NEW p, Kept(p), NEW s \in Plain
  PROVE  Past(To(p, s))
<1>1. s \in States /\ s \notin InData /\ s \notin InValue /\ s # "req_method"
  BY DEF Plain
<1> QED
  BY <1>1 DEF Past, Sound, Kept, Parsers, To

\* To a state in a value, with a header_state of a value.
LEMMA InPast ==
  ASSUME NEW p, Past(p), NEW s \in InValue, NEW h \in ValueHeaders
  PROVE  /\ Past([p EXCEPT !.state = s, !.header = h])
         /\ Past([To(p, s) EXCEPT !.header = h])
<1>1. s \in States /\ s \notin InData /\ s # "req_method"
  BY DEF States, InData, InValue
<1> QED
  BY <1>1 DEF Past, Sound, Kept, Parsers, To

LEMMA InPastSame ==
  ASSUME NEW p, Past(p), NEW s \in InValue, p.header \in ValueHeaders
  PROVE  Past(To(p, s))
<1>1. s \in States /\ s \notin InData /\ s # "req_method"
  BY DEF States, InData, InValue
<1> QED
  BY <1>1 DEF Past, Sound, Kept, Parsers, To

\* Another header_state of a value, in the same state.
LEMMA HeaderPast ==
  ASSUME NEW p, Past(p), NEW h \in ValueHeaders
  PROVE  Past([p EXCEPT !.header = h])
BY DEF Past, Sound, Kept, Parsers

LEMMA FlagPast ==
  ASSUME NEW p, Past(p), NEW f \in Flags, f = "content_length" => p.length < MaxLength
  PROVE  Past(Flag(p, f))
BY DEF Past, Sound, Kept, Parsers, Flag

LEMMA NewMessagePast == ASSUME NEW p, Kept(p) PROVE Past(NewMessage(p))
<1>1. "start_req" \in Plain /\ "dead" \in Plain
  BY PlainAre DEF Final
<1>2. Past(To(p, "start_req")) /\ Past(To(p, "dead"))
  BY <1>1, ToPast
<1> QED
  BY <1>2 DEF NewMessage

\* The first letter of a method starts a guess that begins with it.
LEMMA StartReqStep ==
  ASSUME NEW p, Past(p), NEW ch
  PROVE  \/ Past(StartReq(p, ch))
         \/ /\ Sound(StartReq(p, ch)) /\ StartReq(p, ch).state = "req_method"
            /\ StartReq(p, ch).method \in Methods /\ StartReq(p, ch).index = 1
            /\ Spelling[StartReq(p, ch).method][1] = ch
<1>0. ch \in EndOfLine => ch \notin DOMAIN FirstGuess
  BY DEF FirstGuess, EndOfLine
<1>1. CASE ch \in EndOfLine
  BY <1>0, <1>1 DEF StartReq, Past
<1>2. CASE ch \in DOMAIN FirstGuess /\ ch \notin EndOfLine
  <2>1. FirstGuess[ch] \in Methods /\ Spelling[FirstGuess[ch]][1] = ch
    BY <1>2, GuessesAgree DEF GuessAgrees
  <2>2. StartReq(p, ch) = [p EXCEPT !.state = "req_method", !.flags = {}, !.te = FALSE,
                   !.length = MaxLength, !.method = FirstGuess[ch], !.index = 1]
    BY <1>2 DEF StartReq
  <2>3. "req_method" \in States /\ "req_method" \notin InData /\ "req_method" \notin InValue
    BY DEF States, InData, InValue
  <2> DEFINE q == StartReq(p, ch)
             m == FirstGuess[ch]
  <2>4. q = [p EXCEPT !.state = "req_method", !.flags = {}, !.te = FALSE,
                      !.length = MaxLength, !.method = m, !.index = 1]
    BY <2>2
  <2>5. p \in Parsers
    BY PastParser
  <2> HIDE DEF q, m
  <2>6. q.state = "req_method" /\ q.method = m /\ q.index = 1
    BY <2>4, <2>5 DEF Parsers
  <2>7. q \in Parsers
    BY <2>1, <2>3, <2>4, <2>5, Bounds DEF Parsers, m
  <2>8. Len(Spelling[m]) >= 1 /\ Len(Spelling[m]) \in Nat
    BY <2>1, WordLengths DEF Worded, m
  <2>9. q.flags = {}
    BY <2>4, <2>5 DEF Parsers
  <2>10. Sound(q)
    BY <2>1, <2>3, <2>6, <2>7, <2>8, <2>9 DEF Sound, Kept, m
  <2> QED
    BY <2>1, <2>6, <2>10 DEF q, m
<1>3. CASE ch \notin DOMAIN FirstGuess /\ ch \notin EndOfLine
  <2>1. StartReq(p, ch) = Fail(p)
    BY <1>3 DEF StartReq
  <2>2. Past(Fail(p))
    BY FailPast
  <2> QED
    BY <2>1, <2>2 DEF Past
<1> QED
  BY <1>1, <1>2, <1>3

LEMMA DeadPast == ASSUME NEW p, Past(p), NEW ch PROVE Past(Dead(p, ch))
BY FailPast DEF Dead

\* The guess in q agrees with the letters that agreed with the one in p, and with ch.
Guessed(p, q, ch) ==
  /\ q.method \in Methods
  /\ q.index = p.index + 1 /\ q.index <= Len(Spelling[q.method])
  /\ Spelling[q.method][q.index] = ch
  /\ \A k \in 1 .. p.index : Spelling[q.method][k] = Spelling[p.method][k]

\* A guess that agreed with the letters read agrees with one more.
LEMMA ReqMethodStep ==
  ASSUME NEW p, Sound(p), p.state = "req_method", NEW ch
  PROVE  /\ Sound(ReqMethod(p, ch))
         /\ \/ Past(ReqMethod(p, ch))
            \/ ReqMethod(p, ch).error
            \/ ReqMethod(p, ch).state = "req_method" /\ Guessed(p, ReqMethod(p, ch), ch)
<1> DEFINE jumps == {j \in Jumps : j[1] = p.method /\ j[2] = p.index /\ j[3] = ch}
           q == ReqMethod(p, ch)
           L == Len(Spelling[p.method])
<1>m. p.method \in Methods /\ p.index > 0 /\ p.index <= L
  BY DEF Sound
<1>0. L \in Nat
  BY <1>m, WordLengths DEF Worded
<1>j. \A j \in jumps : j[3] # "SP" /\ p.index < L /\ ch # Spelling[p.method][p.index + 1]
  <2>1. \A j \in Jumps : j[3] # "SP"
    BY DEF Jumps
  <2> QED
    BY <2>1, JumpsAgree DEF JumpAgrees
<1>p. p \in Parsers
  BY DEF Sound, Kept
<1>n. p.index \in Nat
  BY <1>p DEF Parsers
<1>1. CASE ch = "SP" /\ p.index = L
  <2>1. q = To(p, "req_spaces_before_url")
    <3>1. ~(p.index < L) /\ jumps = {}
      BY <1>0, <1>1, <1>j, <1>n
    <3> QED
      BY <1>1, <3>1 DEF ReqMethod
  <2>2. "req_spaces_before_url" \in Plain
    BY PlainAre DEF LineStates
  <2> QED
    BY <2>1, <2>2, ToPast DEF Sound, Past
<1>2. CASE ~(ch = "SP" /\ p.index = L) /\ p.index < L /\ ch = Spelling[p.method][p.index + 1]
  <2>1. q = [p EXCEPT !.index = @ + 1]
    <3>1. jumps = {}
      BY <1>2, <1>j
    <3> QED
      BY <1>2, <3>1 DEF ReqMethod
  <2> HIDE DEF q, L
  <2>2. q = [p EXCEPT !.index = p.index + 1] /\ p.index + 1 \in Nat /\ p.index + 1 <= L
    BY <1>0, <1>2, <1>n, <2>1
  <2>3. q.method = p.method /\ q.index = p.index + 1 /\ q.state = "req_method"
    BY <1>p, <2>2 DEF Parsers
  <2>4. Sound(q)
    <3>1. q \in Parsers /\ q.flags = p.flags /\ q.length = p.length
      BY <1>p, <2>2 DEF Parsers
    <3>2. q.state \notin InData /\ q.state \notin InValue
      BY <2>3 DEF InData, InValue
    <3> QED
      BY <1>m, <1>n, <2>2, <2>3, <3>1, <3>2 DEF Sound, Kept, L
  <2>5. Guessed(p, q, ch)
    BY <1>2, <1>m, <2>2, <2>3 DEF Guessed, L
  <2> QED
    BY <2>3, <2>4, <2>5 DEF q
<1>3. CASE ~(ch = "SP" /\ p.index = L)
           /\ ~(p.index < L /\ ch = Spelling[p.method][p.index + 1]) /\ jumps # {}
  <2> DEFINE j == CHOOSE j \in jumps : TRUE
             m == j[4]
  <2>1. j \in jumps
    BY <1>3
  <2>2. q = [p EXCEPT !.index = @ + 1, !.method = j[4]]
    BY <1>3 DEF ReqMethod
  <2>3. j \in Jumps /\ j[1] = p.method /\ j[2] = p.index /\ j[3] = ch
    BY <2>1
  <2> HIDE DEF q, j, L
  <2>4. JumpAgrees(j)
    BY <2>3, JumpsAgree
  <2>5. /\ m \in Methods /\ p.index < Len(Spelling[m]) /\ Spelling[m][p.index+1] = ch
        /\ \A k \in 1 .. p.index : Spelling[m][k] = Spelling[p.method][k]
    BY <2>3, <2>4 DEF JumpAgrees
  <2>6. Len(Spelling[m]) \in Nat
    BY <2>5, WordLengths DEF Worded
  <2> HIDE DEF m
  <2>7. q = [p EXCEPT !.index = p.index + 1, !.method = m] /\ p.index + 1 \in Nat
    BY <1>n, <2>2 DEF m
  <2>8. p.index + 1 <= Len(Spelling[m])
    BY <1>n, <2>5, <2>6
  <2>9. q.method = m /\ q.index = p.index + 1 /\ q.state = "req_method"
    BY <1>p, <2>7 DEF Parsers
  <2>10. Sound(q)
    <3>1. q \in Parsers /\ q.flags = p.flags /\ q.length = p.length
      BY <1>p, <2>5, <2>7 DEF Parsers, m
    <3>2. q.state \notin InData /\ q.state \notin InValue
      BY <2>9 DEF InData, InValue
    <3> QED
      BY <1>n, <2>5, <2>8, <2>9, <3>1, <3>2 DEF Sound, Kept, m
  <2>11. Guessed(p, q, ch)
    BY <2>5, <2>8, <2>9 DEF Guessed
  <2> QED
    BY <2>9, <2>10, <2>11 DEF q
<1>4. CASE ~(ch = "SP" /\ p.index = L)
           /\ ~(p.index < L /\ ch = Spelling[p.method][p.index + 1]) /\ jumps = {}
  <2>1. q = [p EXCEPT !.error = TRUE]
    BY <1>4 DEF ReqMethod, Fail
  <2> HIDE DEF q
  <2>2. Sound(q) /\ q.error
    BY <1>p, <2>1 DEF Sound, Kept, Parsers
  <2> QED
    BY <2>2 DEF q
<1> QED
  BY <1>1, <1>2, <1>3, <1>4

LEMMA ParseUrlCharIs ==
  ASSUME NEW s, NEW ch, s \in LineStates
  PROVE  ParseUrlChar(s, ch) \in {"req_path", "req_schema", "req_schema_slash",
           "req_schema_slash_slash", "req_server_start", "req_query_string_start",
           "req_server_with_at", "req_server", "req_query_string", "req_fragment_start",
           "req_fragment", "dead"}
BY DEF ParseUrlChar, LineStates

LEMMA TargetPast ==
  ASSUME NEW p, Past(p), NEW s \in LineStates, NEW ch
  PROVE  Past(Target(p, s, ch))
<1> DEFINE t == ParseUrlChar(s, ch)
<1>1. CASE t = "dead"
  BY <1>1, FailPast DEF Target
<1>2. CASE t # "dead"
  <2>1. t \in LineStates
    BY <1>2, ParseUrlCharIs DEF LineStates, TargetStart, TargetEnd
  <2>2. Past(To(p, t))
    BY <2>1, PlainAre, PastParser, ToPast
  <2> QED
    BY <1>2, <2>2 DEF Target
<1> QED
  BY <1>1, <1>2

\* The request line leads to the headers, unless a character is refused.
LEMMA RequestLinePast ==
  ASSUME NEW p, Past(p), p.state \in LineStates, NEW ch
  PROVE  Past(RequestLine(p, ch))
<1>1. Past(Fail(p)) /\ p.state # "req_method"
  BY FailPast DEF Past
<1>2. \A s \in LineStates \cup {"header_field_start"} : Past(To(p, s))
  BY PlainAre, PastParser, ToPast
<1>3. \A s \in LineStates : Past(Target(p, s, ch))
  BY TargetPast
<1>4. /\ "req_server_start" \in LineStates /\ "req_http_start" \in LineStates
      /\ "req_http_end" \in LineStates /\ AfterLine(ch) \in LineStates \cup {"header_field_start"}
  BY DEF LineStates, AfterLine, TargetStart
<1>5. \A s \in LineStates \cup {"header_field_start"}, v \in Versions \cup {"HTTP/0.9"} :
        Past([p EXCEPT !.state = s, !.version = v])
  <2> SUFFICES ASSUME NEW s \in LineStates \cup {"header_field_start"},
                      NEW v \in Versions \cup {"HTTP/0.9"}
               PROVE  Past([p EXCEPT !.state = s, !.version = v])
    OBVIOUS
  <2>1. s \in States /\ s \notin InData /\ s \notin InValue /\ s # "req_method"
    BY PlainAre DEF Plain
  <2> QED
    BY <2>1 DEF Past, Sound, Kept, Parsers
<1>6. "HTTP/1.0" \in Versions
  BY DEF Versions
<1>7. CASE p.state = "req_spaces_before_url"
  <2>1. RequestLine(p, ch) \in {p, Target(p, "req_server_start", ch), Target(p, p.state, ch)}
    BY <1>7 DEF RequestLine, TargetEnd, TargetStart
  <2> QED
    BY <1>3, <1>4, <2>1
<1>8. CASE p.state \in TargetStart
  <2>1. RequestLine(p, ch) = Target(p, p.state, ch)
    BY <1>8 DEF RequestLine, TargetEnd, TargetStart
  <2> QED
    BY <1>3, <2>1
<1>9. CASE p.state \in TargetEnd
  <2>1. ch = "SP" => RequestLine(p, ch) = To(p, "req_http_start")
    BY <1>9 DEF RequestLine, TargetEnd, TargetStart, EndOfLine
  <2>2. ch \in EndOfLine =>
          RequestLine(p, ch) = [p EXCEPT !.state = AfterLine(ch), !.version = "HTTP/0.9"]
    BY <1>9 DEF RequestLine, TargetEnd, TargetStart, EndOfLine
  <2>3. ch # "SP" /\ ch \notin EndOfLine => RequestLine(p, ch) = Target(p, p.state, ch)
    BY <1>9 DEF RequestLine, TargetEnd, TargetStart
  <2>4. /\ Past(To(p, "req_http_start")) /\ Past(Target(p, p.state, ch))
        /\ Past([p EXCEPT !.state = AfterLine(ch), !.version = "HTTP/0.9"])
    BY <1>2, <1>3, <1>4, <1>5
  <2> QED
    BY <2>1, <2>2, <2>3, <2>4
<1>10. CASE p.state = "req_http_start"
  <2> DEFINE r == RequestLine(p, ch)
  <2>1. \/ r = p \/ r = Fail(p)
        \/ r = [p EXCEPT !.state = "req_http_end", !.version = "HTTP/1.0"]
        \/ ch \in Versions /\ r = [p EXCEPT !.state = "req_http_end", !.version = ch]
    BY <1>10 DEF RequestLine, TargetStart, TargetEnd
  <2>2. /\ Past([p EXCEPT !.state = "req_http_end", !.version = "HTTP/1.0"])
        /\ ch \in Versions => Past([p EXCEPT !.state = "req_http_end", !.version = ch])
    BY <1>4, <1>5, <1>6
  <2> QED
    BY <1>1, <2>1, <2>2
<1>11. CASE p.state \in {"req_http_end", "req_line_almost_done"}
  <2>1. RequestLine(p, ch) \in {Fail(p), To(p, AfterLine(ch)), To(p, "header_field_start")}
    BY <1>11 DEF RequestLine, TargetEnd, TargetStart
  <2> QED
    BY <1>1, <1>2, <1>4, <2>1
<1> QED
  BY <1>7, <1>8, <1>9, <1>10, <1>11 DEF LineStates

LEMMA HeadersDonePast ==
  ASSUME NEW p, Past(p)
  PROVE  Past(HeadersDone(p))
<1>1. Past(NewMessage(p)) /\ Past(Fail(p)) /\ Past(To(p, "chunk_size_start"))
  BY NewMessagePast, FailPast, PastParser, PlainAre, ToPast
<1>2. ASSUME p.length \notin {0, MaxLength}
      PROVE  Past(To(p, "body_identity"))
  <2>1. "body_identity" \in States /\ "body_identity" \notin InValue /\ "body_identity" # "req_method"
    BY DEF States, InValue
  <2>2. p.length > 0
    BY <1>2, PastParser, Bounds DEF Parsers, Lengths
  <2> QED
    BY <2>1, <2>2 DEF Past, Sound, Kept, Parsers, To
<1> QED
  BY <1>1, <1>2 DEF HeadersDone

LEMMA HeadersAlmostDonePast ==
  ASSUME NEW p, Past(p), NEW ch
  PROVE  Past(HeadersAlmostDone(p, ch))
<1> DEFINE up == {"upgrade", "connection_upgrade"} \subseteq p.flags \/ p.method = "CONNECT"
           q == [p EXCEPT !.upgrade = up]
<1>1. Past(NewMessage(p)) /\ Past(Fail(p))
  BY NewMessagePast, FailPast, PastParser
<1>2. Past(q)
  <2>1. up \in BOOLEAN
    OBVIOUS
  <2> HIDE DEF up
  <2> QED
    BY <2>1 DEF Past, Sound, Kept, Parsers
<1>3. Past(HeadersDone(q))
  BY <1>2, HeadersDonePast
<1>4. HeadersAlmostDone(p, ch) \in {NewMessage(p), Fail(p), HeadersDone(q)}
  BY DEF HeadersAlmostDone
<1> QED
  BY <1>1, <1>3, <1>4

LEMMA HeaderFieldStartPast ==
  ASSUME NEW p, Past(p), NEW ch
  PROVE  Past(HeaderFieldStart(p, ch))
<1> DEFINE te == p.te \/ ch \in SetsTE
           h == HeaderState[ch]
           q == [p EXCEPT !.state = "header_field", !.header = h, !.te = te]
<1>1. Past(To(p, "headers_almost_done")) /\ Past(HeadersAlmostDone(p, ch)) /\ Past(Fail(p))
  BY HeadersAlmostDonePast, FailPast, PastParser, PlainAre, ToPast
<1>2. ch \in Names => Past(q)
  <2> SUFFICES ASSUME ch \in Names PROVE Past(q)
    OBVIOUS
  <2>1. h \in NameHeaders
    BY DEF Names, HeaderState, NameHeaders
  <2>2. te \in BOOLEAN
    OBVIOUS
  <2>3. "header_field" \in States /\ "header_field" \notin InData /\ "header_field" \notin InValue
    BY DEF States, InData, InValue
  <2> HIDE DEF h, te
  <2> QED
    BY <2>1, <2>2, <2>3 DEF Past, Sound, Kept, Parsers
<1>3. \/ HeaderFieldStart(p, ch) \in {To(p, "headers_almost_done"), HeadersAlmostDone(p, ch), Fail(p)}
      \/ ch \in Names /\ HeaderFieldStart(p, ch) = q
  BY DEF HeaderFieldStart
<1> QED
  BY <1>1, <1>2, <1>3

LEMMA HeaderFieldPast == ASSUME NEW p, Past(p), NEW ch PROVE Past(HeaderField(p, ch))
<1>1. Past(To(p, "header_value_discard_ws")) /\ Past(Fail(p))
  BY FailPast, PastParser, PlainAre, ToPast
<1> QED
  BY <1>1 DEF HeaderField

\* What a digit stands for is less than its base.
LEMMA DigitValue ==
  ASSUME NEW base \in {10, 16}, NEW ch \in Digits(base)
  PROVE  Value(ch) \in 0 .. base - 1
<1>1. PICK k \in 1 .. base : Hex[k] = ch
  BY DEF Digits
<1> DEFINE n == CHOOSE i \in 1 .. 16 : Hex[i] = ch
<1>2. n \in 1 .. 16 /\ Hex[n] = ch
  <2>1. k \in 1 .. 16
    OBVIOUS
  <2> HIDE DEF Hex
  <2> QED
    BY <1>1, <2>1
<1>3. n = k
  <2>1. \A i, j \in 1 .. 16 : Hex[i] = Hex[j] => i = j
    BY SMTT(60) DEF Hex
  <2> QED
    BY <1>1, <1>2, <2>1
<1>4. Value(ch) = k - 1
  BY <1>3 DEF Value
<1> QED
  BY <1>4

\* The first digit of a length.
LEMMA LengthPast ==
  ASSUME NEW p, Past(p), p.state \notin InData, NEW v \in 0 .. 15
  PROVE  Past([p EXCEPT !.length = v])
<1>1. v \in Lengths /\ v < MaxLength
  BY Bounds DEF Lengths
<1> QED
  BY <1>1 DEF Past, Sound, Kept, Parsers

LEMMA HeaderValueStartPast ==
  ASSUME NEW p, Past(p), NEW ch
  PROVE  Past(HeaderValueStart(p, ch))
<1> DEFINE In(h) == [To(p, "header_value") EXCEPT !.header = h]
<1>1. "header_value" \in InValue
  BY DEF InValue
<1>2. \A h \in ValueHeaders : Past(In(h))
  BY <1>1, InPast
<1>3. p.header \in ValueHeaders => Past(To(p, "header_value"))
  BY <1>1, InPastSame
<1>4. Past(Fail(p))
  BY FailPast
<1>5. Past(Flag(In("general"), "upgrade"))
  <2>1. Past(In("general")) /\ "upgrade" \in Flags
    BY <1>2 DEF ValueHeaders, Flags
  <2> QED
    BY <2>1, FlagPast
<1>6. ASSUME ch \in Digits(10)
      PROVE  Past(Flag([In("content_length_num") EXCEPT !.length = Value(ch)], "content_length"))
  <2> DEFINE q == In("content_length_num")
             v == Value(ch)
  <2>1. v \in 0 .. 15
    BY <1>6, DigitValue
  <2>2. Past(q) /\ q.state = "header_value"
    BY <1>2, PastParser DEF ValueHeaders, To, Parsers
  <2>3. q.state \notin InData
    BY <2>2 DEF InData
  <2>4. q \in Parsers
    BY <2>2, PastParser
  <2> HIDE DEF q, v
  <2>5. Past([q EXCEPT !.length = v]) /\ [q EXCEPT !.length = v].length = v
    BY <2>1, <2>2, <2>3, <2>4, LengthPast DEF Parsers
  <2>6. v < MaxLength /\ "content_length" \in Flags
    BY <2>1, Bounds DEF Flags
  <2>7. Past(Flag([q EXCEPT !.length = v], "content_length"))
    BY <2>5, <2>6, FlagPast
  <2> QED
    BY <2>7 DEF q, v
<1>7. \A w \in DOMAIN ConnectionWord : ConnectionWord[w] \in ValueHeaders
  BY DEF ConnectionWord, ValueHeaders
<1>8. CASE p.header = "upgrade"
  <2>1. HeaderValueStart(p, ch) = Flag(In("general"), "upgrade")
    BY <1>8 DEF HeaderValueStart
  <2> QED
    BY <1>5, <2>1
<1>9. CASE p.header = "transfer_encoding"
  <2>1. HeaderValueStart(p, ch) \in {In("transfer_encoding_chunked"), In("transfer_encoding_token")}
    BY <1>9 DEF HeaderValueStart
  <2> QED
    BY <1>2, <2>1 DEF ValueHeaders
<1>10. CASE p.header = "content_length"
  <2>1. \/ HeaderValueStart(p, ch) = Fail(p)
        \/ /\ ch \in Digits(10)
           /\ HeaderValueStart(p, ch)
                = Flag([In("content_length_num") EXCEPT !.length = Value(ch)], "content_length")
    BY <1>10 DEF HeaderValueStart
  <2> QED
    BY <1>4, <1>6, <2>1
<1>11. CASE p.header = "connection"
  <2>1. HeaderValueStart(p, ch)
          = In(IF ch \in DOMAIN ConnectionWord THEN ConnectionWord[ch] ELSE "connection_token")
    BY <1>11 DEF HeaderValueStart
  <2>2. (IF ch \in DOMAIN ConnectionWord THEN ConnectionWord[ch] ELSE "connection_token")
          \in ValueHeaders
    BY <1>7 DEF ValueHeaders
  <2> QED
    BY <1>2, <2>1, <2>2
<1>12. CASE p.header \in {"transfer_encoding_token_start", "content_length_ws",
                          "connection_token_start"}
  <2>1. HeaderValueStart(p, ch) = To(p, "header_value") /\ p.header \in ValueHeaders
    BY <1>12 DEF HeaderValueStart, ValueHeaders
  <2> QED
    BY <1>3, <2>1
<1>13. CASE p.header \notin {"upgrade", "transfer_encoding", "content_length", "connection",
              "transfer_encoding_token_start", "content_length_ws", "connection_token_start"}
  <2>1. HeaderValueStart(p, ch) = In("general")
    BY <1>13 DEF HeaderValueStart
  <2> QED
    BY <1>2, <2>1 DEF ValueHeaders
<1> QED
  BY <1>8, <1>9, <1>10, <1>11, <1>12, <1>13

LEMMA HeaderValueDiscardWsPast ==
  ASSUME NEW p, Past(p), NEW ch
  PROVE  Past(HeaderValueDiscardWs(p, ch))
<1>1. /\ Past(To(p, "header_value_discard_ws_almost_done"))
      /\ Past(To(p, "header_value_discard_lws")) /\ Past(HeaderValueStart(p, ch))
  BY PastParser, PlainAre, ToPast, HeaderValueStartPast
<1> QED
  BY <1>1 DEF HeaderValueDiscardWs

\* A length that passes the test has room for another digit: it is below the one
\* that stands for none, and not reduced.
LEMMA RoomForDigit ==
  ASSUME NEW base \in {10, 16}, NEW n \in Lengths, NEW v \in 0 .. base - 1,
         ~((MaxLength - base) \div base < n)
  PROVE  (n * base + v) % (MaxLength + 1) = n * base + v /\ n * base + v < MaxLength
<1>1. CASE base = 10
  <2>1. n * 10 + v \in Nat /\ n * 10 + v < MaxLength
    BY <1>1, Bounds DEF Lengths
  <2> QED
    BY <1>1, <2>1, Bounds
<1>2. CASE base = 16
  <2>1. n * 16 + v \in Nat /\ n * 16 + v < MaxLength
    BY <1>2, Bounds DEF Lengths
  <2> QED
    BY <1>2, <2>1, Bounds
<1> QED
  BY <1>1, <1>2

LEMMA AccumulatePast ==
  ASSUME NEW p, Past(p), p.state \notin InData, NEW base \in {10, 16}, NEW ch \in Digits(base)
  PROVE  Past(Accumulate(p, ch, base))
<1> DEFINE n == (p.length * base + Value(ch)) % (MaxLength + 1)
<1>1. CASE (MaxLength - base) \div base < p.length
  BY <1>1, FailPast DEF Accumulate
<1>2. CASE ~((MaxLength - base) \div base < p.length)
  <2>1. p.length \in Lengths
    BY PastParser DEF Parsers
  <2>2. p.length * base + Value(ch) \in Nat
    <3>1. Value(ch) \in Nat /\ p.length \in Nat /\ base \in Nat
      BY <2>1, DigitValue, Bounds DEF Lengths
    <3> QED
      BY <3>1
  <2>3. n \in Lengths /\ n < MaxLength
    <3>1. Value(ch) \in 0 .. base - 1
      BY DigitValue
    <3>2. n = p.length * base + Value(ch) /\ p.length * base + Value(ch) < MaxLength
      BY <1>2, <2>1, <3>1, RoomForDigit
    <3> QED
      BY <2>2, <3>2, Bounds DEF Lengths
  <2>4. Accumulate(p, ch, base) = [p EXCEPT !.length = n]
    BY <1>2 DEF Accumulate
  <2> HIDE DEF n
  <2>5. Past([p EXCEPT !.length = n])
    BY <2>3 DEF Past, Sound, Kept, Parsers
  <2> QED
    BY <2>4, <2>5
<1> QED
  BY <1>1, <1>2

LEMMA ListWordPast ==
  ASSUME NEW p, Past(p), NEW ch, NEW start \in ValueHeaders, NEW token \in ValueHeaders,
         start # token, p.header \in {start, token}, NEW known,
         "SP" \notin DOMAIN known, DOMAIN known \cap Separators = {},
         \A w \in DOMAIN known : known[w] \in ValueHeaders
  PROVE  Past(ListWord(p, ch, start, token, known))
<1>1. /\ Past([p EXCEPT !.header = start]) /\ Past([p EXCEPT !.header = token])
      /\ Past([p EXCEPT !.header = "general"])
      /\ ch \in DOMAIN known => Past([p EXCEPT !.header = known[ch]])
  BY HeaderPast DEF ValueHeaders
<1>2. CASE p.header = start /\ ch = "SP"
  BY <1>2 DEF ListWord, Separators
<1>3. CASE p.header = start /\ ch \in DOMAIN known
  <2>1. ListWord(p, ch, start, token, known) = [p EXCEPT !.header = known[ch]]
    BY <1>3 DEF ListWord
  <2> QED
    BY <1>1, <1>3, <2>1
<1>4. CASE p.header = start /\ ch \in Separators /\ ch # "SP" /\ ch \notin DOMAIN known
  <2>1. ListWord(p, ch, start, token, known) = [p EXCEPT !.header = "general"]
    BY <1>4 DEF ListWord
  <2> QED
    BY <1>1, <2>1
<1>5. CASE p.header = token /\ ch = ","
  <2>1. ListWord(p, ch, start, token, known) = [p EXCEPT !.header = start]
    BY <1>5 DEF ListWord
  <2> QED
    BY <1>1, <2>1
<1>6. CASE \/ p.header = start /\ ch # "SP" /\ ch \notin DOMAIN known /\ ch \notin Separators
           \/ p.header = token /\ ch # ","
  <2>1. ListWord(p, ch, start, token, known) = [p EXCEPT !.header = token]
    BY <1>6 DEF ListWord
  <2> QED
    BY <1>1, <2>1
<1> QED
  BY <1>2, <1>3, <1>4, <1>5, <1>6

LEMMA HeaderValuePast ==
  ASSUME NEW p, Past(p), p.state = "header_value", NEW ch
  PROVE  Past(HeaderValue(p, ch))
<1>1. p.header \in ValueHeaders /\ p.state \notin InData
  BY DEF Past, Sound, InValue, InData
<1>2. Past(To(p, "header_almost_done")) /\ Past(To(p, "header_value_lws"))
  BY <1>1, InPastSame DEF InValue
<1>3. Past(Fail(p))
  BY FailPast
<1>4. \A h \in ValueHeaders : Past([p EXCEPT !.header = h])
  BY HeaderPast
<1>5. CASE ch \in EndOfLine
  <2>1. HeaderValue(p, ch) \in {To(p, "header_almost_done"), To(p, "header_value_lws")}
    BY <1>5 DEF HeaderValue, EndOfLine
  <2> QED
    BY <1>2, <2>1
<1>6. CASE ch \notin EndOfLine /\ p.header = "content_length_num"
  <2>1. \/ HeaderValue(p, ch) = [p EXCEPT !.header = "content_length_ws"]
        \/ HeaderValue(p, ch) = Fail(p)
        \/ ch \in Digits(10) /\ HeaderValue(p, ch) = Accumulate(p, ch, 10)
    <3>1. ch # "CR" /\ ch # "LF"
      BY <1>6 DEF EndOfLine
    <3>2. HeaderValue(p, ch) = CASE ch = "SP" -> [p EXCEPT !.header = "content_length_ws"]
                                 [] ch \in Digits(10) -> Accumulate(p, ch, 10)
                                 [] OTHER -> Fail(p)
      BY <1>6, <3>1 DEF HeaderValue
    <3> QED
      BY <3>2
  <2>2. ch \in Digits(10) => Past(Accumulate(p, ch, 10))
    BY <1>1, AccumulatePast
  <2> QED
    BY <1>3, <1>4, <2>1, <2>2 DEF ValueHeaders
<1>7. CASE ch \notin EndOfLine /\ p.header = "content_length_ws"
  <2>1. HeaderValue(p, ch) \in {p, Fail(p)}
    BY <1>7 DEF HeaderValue, EndOfLine
  <2> QED
    BY <1>3, <2>1
<1>8. CASE ch \notin EndOfLine /\ p.header \in {"transfer_encoding_token_start",
                                                "transfer_encoding_token"}
  <2>1. HeaderValue(p, ch)
          = ListWord(p, ch, "transfer_encoding_token_start", "transfer_encoding_token", ChunkedWord)
    BY <1>8 DEF HeaderValue, EndOfLine
  <2>2. /\ \A w \in DOMAIN ChunkedWord : ChunkedWord[w] \in ValueHeaders
        /\ "SP" \notin DOMAIN ChunkedWord /\ DOMAIN ChunkedWord \cap Separators = {}
    BY DEF Separators, ChunkedWord, ValueHeaders
  <2>3. {"transfer_encoding_token_start", "transfer_encoding_token"} \subseteq ValueHeaders
    BY DEF ValueHeaders
  <2> QED
    BY <1>8, <2>1, <2>2, <2>3, ListWordPast
<1>9. CASE ch \notin EndOfLine /\ p.header = "transfer_encoding_chunked"
  <2>1. HeaderValue(p, ch) \in {p, [p EXCEPT !.header = "transfer_encoding_token"]}
    BY <1>9 DEF HeaderValue, EndOfLine
  <2> QED
    BY <1>4, <2>1 DEF ValueHeaders
<1>10. CASE ch \notin EndOfLine /\ p.header \in {"connection_token_start", "connection_token"}
  <2>1. HeaderValue(p, ch)
          = ListWord(p, ch, "connection_token_start", "connection_token", ConnectionWord)
    BY <1>10 DEF HeaderValue, EndOfLine
  <2>2. /\ \A w \in DOMAIN ConnectionWord : ConnectionWord[w] \in ValueHeaders
        /\ "SP" \notin DOMAIN ConnectionWord /\ DOMAIN ConnectionWord \cap Separators = {}
    BY DEF Separators, ConnectionWord, ValueHeaders
  <2>3. {"connection_token_start", "connection_token"} \subseteq ValueHeaders
    BY DEF ValueHeaders
  <2> QED
    BY <1>10, <2>1, <2>2, <2>3, ListWordPast
<1>11. CASE ch \notin EndOfLine /\ p.header \in {"connection_close", "connection_keep_alive",
                                                 "connection_upgrade"}
  <2> DEFINE q == Flag(p, p.header)
  <2>1. HeaderValue(p, ch) \in {p, [q EXCEPT !.header = "connection_token_start"],
                                [p EXCEPT !.header = "connection_token"]}
    BY <1>11 DEF HeaderValue, EndOfLine
  <2>2. Past(q)
    <3>1. p.header \in Flags /\ p.header # "content_length"
      BY <1>11 DEF Flags
    <3> QED
      BY <3>1, FlagPast
  <2> HIDE DEF q
  <2>3. Past([q EXCEPT !.header = "connection_token_start"])
    BY <2>2, HeaderPast DEF ValueHeaders
  <2> QED
    BY <1>4, <2>1, <2>3 DEF ValueHeaders
<1>12. CASE ch \notin EndOfLine /\ p.header = "general"
  <2>1. HeaderValue(p, ch) = p
    BY <1>12 DEF HeaderValue, EndOfLine
  <2> QED
    BY <2>1
<1> QED
  BY <1>1, <1>5, <1>6, <1>7, <1>8, <1>9, <1>10, <1>11, <1>12 DEF ValueHeaders

LEMMA FinishHeaderPast == ASSUME NEW p, Past(p) PROVE Past(FinishHeader(p))
<1>1. ASSUME NEW f \in Flags, f # "content_length" PROVE Past(Flag(p, f))
  BY <1>1, FlagPast
<1>2. \/ FinishHeader(p) = p
      \/ FinishHeader(p) = Flag(p, "chunked")
      \/ /\ p.header \in {"connection_close", "connection_keep_alive", "connection_upgrade"}
         /\ FinishHeader(p) = Flag(p, p.header)
  BY DEF FinishHeader
<1> QED
  BY <1>1, <1>2 DEF Flags

LEMMA HeaderValueLwsPast ==
  ASSUME NEW p, Past(p), NEW ch
  PROVE  Past(HeaderValueLws(p, ch))
<1>1. Past(HeaderFieldStart(FinishHeader(p), ch))
  BY FinishHeaderPast, HeaderFieldStartPast
<1>2. Past([p EXCEPT !.header = "content_length_ws"])
  BY HeaderPast DEF ValueHeaders
<1>3. /\ Past(HeaderValueStart(p, ch))
      /\ Past(HeaderValueStart([p EXCEPT !.header = "content_length_ws"], ch))
  BY <1>2, HeaderValueStartPast
<1> QED
  BY <1>1, <1>3 DEF HeaderValueLws

LEMMA HeaderValueDiscardLwsPast ==
  ASSUME NEW p, Past(p), NEW ch
  PROVE  Past(HeaderValueDiscardLws(p, ch))
<1>1. Past(HeaderFieldStart(FinishHeader(p), ch)) /\ Past(Fail(p))
      /\ Past(To(p, "header_value_discard_ws"))
  BY FinishHeaderPast, HeaderFieldStartPast, FailPast, PastParser, PlainAre, ToPast
<1> QED
  BY <1>1 DEF HeaderValueDiscardLws

LEMMA BodyIdentityPast ==
  ASSUME NEW p, Past(p), p.state = "body_identity"
  PROVE  Past(BodyIdentity(p))
<1> DEFINE n == p.length - 1
           q == [p EXCEPT !.length = n]
<1>1. p.length > 0 /\ p.length \in Lengths /\ p \in Parsers
  BY PastParser DEF Past, Sound, InData, Parsers
<1>2. n \in Lengths /\ n < MaxLength
  BY <1>1, Bounds DEF Lengths
<1>3. BodyIdentity(p) = IF q.length = 0 THEN NewMessage(q) ELSE q
  BY DEF BodyIdentity
<1> HIDE DEF n
<1>4. Kept(q) /\ q.length = n /\ q.state = "body_identity"
  BY <1>1, <1>2 DEF Kept, Parsers
<1> HIDE DEF q
<1>5. CASE n = 0
  BY <1>3, <1>4, <1>5, NewMessagePast
<1>6. CASE n # 0
  <2>1. n > 0
    BY <1>2, <1>6 DEF Lengths
  <2>2. Past(q)
    BY <1>4, <2>1 DEF Past, Sound, InValue
  <2> QED
    BY <1>3, <1>4, <1>6, <2>2
<1> QED
  BY <1>5, <1>6

LEMMA ChunkSizeStartPast ==
  ASSUME NEW p, Past(p), p.state = "chunk_size_start", NEW ch
  PROVE  Past(ChunkSizeStart(p, ch))
<1> DEFINE v == Value(ch)
           q == [p EXCEPT !.length = v]
<1>1. CASE ch \in Digits(16)
  <2>1. v \in 0 .. 15
    BY <1>1, DigitValue
  <2>2. p.state \notin InData /\ p \in Parsers
    BY PastParser DEF InData
  <2>3. ChunkSizeStart(p, ch) = [p EXCEPT !.length = v, !.state = "chunk_size"]
    BY <1>1 DEF ChunkSizeStart
  <2> HIDE DEF v
  <2>4. Past(q)
    BY <2>1, <2>2, LengthPast
  <2>5. ChunkSizeStart(p, ch) = To(q, "chunk_size")
    BY <2>2, <2>3 DEF Parsers, To
  <2> HIDE DEF q
  <2> QED
    BY <2>4, <2>5, PastParser, PlainAre, ToPast
<1>2. CASE ch \notin Digits(16)
  BY <1>2, FailPast DEF ChunkSizeStart
<1> QED
  BY <1>1, <1>2

LEMMA ChunkSizePast ==
  ASSUME NEW p, Past(p), p.state = "chunk_size", NEW ch
  PROVE  Past(ChunkSize(p, ch))
<1>1. /\ Past(To(p, "chunk_size_almost_done")) /\ Past(To(p, "chunk_parameters"))
      /\ Past(Fail(p))
  BY FailPast, PastParser, PlainAre, ToPast
<1>2. ch \in Digits(16) => Past(Accumulate(p, ch, 16))
  BY AccumulatePast DEF InData
<1>3. {"CR", ";", "SP"} \cap Digits(16) = {}
  <2> DEFINE D == {"0", "1", "2", "3", "4", "5", "6", "7", "8", "9", "a", "b", "c", "d", "e", "f"}
  <2>1. \A k \in 1 .. 16 : Hex[k] \in D
    BY SMTT(30) DEF Hex
  <2>2. \A x \in D : x # ";" /\ x # "SP" /\ x # "CR"
    BY Zenon
  <2> QED
    BY <2>1, <2>2, Zenon DEF Digits
<1>4. ch = "CR" => ChunkSize(p, ch) = To(p, "chunk_size_almost_done")
  BY <1>3, Zenon DEF ChunkSize
<1>5. ch \in {";", "SP"} => ChunkSize(p, ch) = To(p, "chunk_parameters")
  BY <1>3, Zenon DEF ChunkSize
<1>6. ch \in Digits(16) => ChunkSize(p, ch) = Accumulate(p, ch, 16)
  BY <1>3, Zenon DEF ChunkSize
<1>7. ch \notin {"CR", ";", "SP"} /\ ch \notin Digits(16) => ChunkSize(p, ch) = Fail(p)
  BY Zenon DEF ChunkSize
<1> QED
  BY <1>1, <1>2, <1>4, <1>5, <1>6, <1>7, Zenon

LEMMA ChunkParametersPast == ASSUME NEW p, Past(p), NEW ch PROVE Past(ChunkParameters(p, ch))
<1>1. Past(To(p, "chunk_size_almost_done"))
  BY PastParser, PlainAre, ToPast
<1> QED
  BY <1>1 DEF ChunkParameters

LEMMA ChunkSizeAlmostDonePast ==
  ASSUME NEW p, Past(p), NEW ch
  PROVE  Past(ChunkSizeAlmostDone(p, ch))
<1>1. Past(Fail(p))
  BY FailPast
<1>2. Past(Flag(To(p, "header_field_start"), "trailing"))
  <2>1. Past(To(p, "header_field_start")) /\ "trailing" \in Flags
    BY PastParser, PlainAre, ToPast DEF Flags
  <2> QED
    BY <2>1, FlagPast
<1>3. p.length # 0 => Past(To(p, "chunk_data"))
  <2> SUFFICES ASSUME p.length # 0 PROVE Past(To(p, "chunk_data"))
    OBVIOUS
  <2>1. p.length > 0
    BY PastParser, Bounds DEF Parsers, Lengths
  <2>2. "chunk_data" \in States /\ "chunk_data" \notin InValue /\ "chunk_data" # "req_method"
    BY DEF States, InValue
  <2> QED
    BY <2>1, <2>2 DEF Past, Sound, Kept, Parsers, To
<1> DEFINE r == ChunkSizeAlmostDone(p, ch)
<1>4. \/ r = Fail(p) \/ r = Flag(To(p, "header_field_start"), "trailing")
      \/ p.length # 0 /\ r = To(p, "chunk_data")
  BY DEF ChunkSizeAlmostDone
<1> QED
  BY <1>1, <1>2, <1>3, <1>4

LEMMA ChunkDataPast ==
  ASSUME NEW p, Past(p), NEW ch
  PROVE  Past(ChunkData(p, ch))
<1>1. Past(Fail(p)) /\ Past(To(p, "chunk_data_done")) /\ Past(To(p, "chunk_size_start"))
  BY FailPast, PastParser, PlainAre, ToPast
<1>2. CASE p.state = "chunk_data"
  <2> DEFINE n == p.length - 1
             q == [p EXCEPT !.length = n]
  <2>1. p.length > 0 /\ p.length \in Lengths /\ p \in Parsers
    BY <1>2, PastParser DEF Past, Sound, InData, Parsers
  <2>2. n \in Lengths /\ n < MaxLength
    BY <2>1, Bounds DEF Lengths
  <2>3. ChunkData(p, ch) = IF q.length = 0 THEN To(q, "chunk_data_almost_done") ELSE q
    BY <1>2 DEF ChunkData
  <2> HIDE DEF n
  <2>4. Kept(q) /\ q.length = n /\ q.state = "chunk_data"
    BY <1>2, <2>1, <2>2 DEF Kept, Parsers
  <2> HIDE DEF q
  <2>5. CASE n = 0
    BY <2>3, <2>4, <2>5, PlainAre, ToPast
  <2>6. CASE n # 0
    <3>1. n > 0
      BY <2>2, <2>6 DEF Lengths
    <3>2. Past(q)
      BY <2>4, <3>1 DEF Past, Sound, InValue
    <3> QED
      BY <2>3, <2>4, <2>6, <3>2
  <2> QED
    BY <2>5, <2>6
<1>3. CASE p.state # "chunk_data"
  <2>1. ChunkData(p, ch) \in {Fail(p), To(p, "chunk_data_done"), To(p, "chunk_size_start")}
    BY <1>3 DEF ChunkData
  <2> QED
    BY <1>1, <2>1
<1> QED
  BY <1>2, <1>3

LEMMA ExpectPast ==
  ASSUME NEW p, Past(p), NEW ch, NEW wanted, NEW s,
         s \in Plain \/ (s \in InValue /\ p.header \in ValueHeaders)
  PROVE  Past(Expect(p, ch, wanted, s))
<1>1. Past(Fail(p)) /\ Past(To(p, s))
  BY FailPast, PastParser, ToPast, InPastSame
<1> QED
  BY <1>1 DEF Expect

\* Which operator reads a symbol.
LEMMA StepIs ==
  ASSUME NEW p, NEW ch
  PROVE  /\ p.state \in LineStates \cup {"req_method"} => Step(p, ch) = RequestLine(p, ch)
         /\ p.state = "start_req" => Step(p, ch) = StartReq(p, ch)
         /\ p.state = "dead" => Step(p, ch) = Dead(p, ch)
         /\ p.state = "header_field_start" => Step(p, ch) = HeaderFieldStart(p, ch)
         /\ p.state = "header_field" => Step(p, ch) = HeaderField(p, ch)
         /\ p.state = "header_value_discard_ws" => Step(p, ch) = HeaderValueDiscardWs(p, ch)
         /\ p.state = "header_value_discard_ws_almost_done" =>
              Step(p, ch) = Expect(p, ch, "LF", "header_value_discard_lws")
         /\ p.state = "header_value_discard_lws" => Step(p, ch) = HeaderValueDiscardLws(p, ch)
         /\ p.state = "header_value" => Step(p, ch) = HeaderValue(p, ch)
         /\ p.state = "header_almost_done" =>
              Step(p, ch) = Expect(p, ch, "LF", "header_value_lws")
         /\ p.state = "header_value_lws" => Step(p, ch) = HeaderValueLws(p, ch)
         /\ p.state = "headers_almost_done" => Step(p, ch) = HeadersAlmostDone(p, ch)
         /\ p.state = "body_identity" => Step(p, ch) = BodyIdentity(p)
         /\ p.state = "chunk_size_start" => Step(p, ch) = ChunkSizeStart(p, ch)
         /\ p.state = "chunk_size" => Step(p, ch) = ChunkSize(p, ch)
         /\ p.state = "chunk_parameters" => Step(p, ch) = ChunkParameters(p, ch)
         /\ p.state = "chunk_size_almost_done" => Step(p, ch) = ChunkSizeAlmostDone(p, ch)
         /\ p.state \in {"chunk_data", "chunk_data_almost_done", "chunk_data_done"} =>
              Step(p, ch) = ChunkData(p, ch)
<1>1. p.state \in LineStates \cup {"req_method"} => Step(p, ch) = RequestLine(p, ch)
  BY DEF Step, LineStates, TargetStart, TargetEnd
<1>2. p.state = "start_req" => Step(p, ch) = StartReq(p, ch)
  BY DEF Step, TargetStart, TargetEnd
<1>3. p.state = "dead" => Step(p, ch) = Dead(p, ch)
  BY DEF Step, TargetStart, TargetEnd
<1>4. p.state = "header_field_start" => Step(p, ch) = HeaderFieldStart(p, ch)
  BY DEF Step, TargetStart, TargetEnd
<1>5. p.state = "header_field" => Step(p, ch) = HeaderField(p, ch)
  BY DEF Step, TargetStart, TargetEnd
<1>6. p.state = "header_value_discard_ws" => Step(p, ch) = HeaderValueDiscardWs(p, ch)
  BY DEF Step, TargetStart, TargetEnd
<1>7. p.state = "header_value_discard_ws_almost_done" =>
        Step(p, ch) = Expect(p, ch, "LF", "header_value_discard_lws")
  BY DEF Step, TargetStart, TargetEnd
<1>8. p.state = "header_value_discard_lws" => Step(p, ch) = HeaderValueDiscardLws(p, ch)
  BY DEF Step, TargetStart, TargetEnd
<1>9. p.state = "header_value" => Step(p, ch) = HeaderValue(p, ch)
  BY DEF Step, TargetStart, TargetEnd
<1>10. p.state = "header_almost_done" => Step(p, ch) = Expect(p, ch, "LF", "header_value_lws")
  BY DEF Step, TargetStart, TargetEnd
<1>11. p.state = "header_value_lws" => Step(p, ch) = HeaderValueLws(p, ch)
  BY DEF Step, TargetStart, TargetEnd
<1>12. p.state = "headers_almost_done" => Step(p, ch) = HeadersAlmostDone(p, ch)
  BY DEF Step, TargetStart, TargetEnd
<1>13. p.state = "body_identity" => Step(p, ch) = BodyIdentity(p)
  BY DEF Step, TargetStart, TargetEnd
<1>14. p.state = "chunk_size_start" => Step(p, ch) = ChunkSizeStart(p, ch)
  BY DEF Step, TargetStart, TargetEnd
<1>15. p.state = "chunk_size" => Step(p, ch) = ChunkSize(p, ch)
  BY DEF Step, TargetStart, TargetEnd
<1>16. p.state = "chunk_parameters" => Step(p, ch) = ChunkParameters(p, ch)
  BY DEF Step, TargetStart, TargetEnd
<1>17. p.state = "chunk_size_almost_done" => Step(p, ch) = ChunkSizeAlmostDone(p, ch)
  BY DEF Step, TargetStart, TargetEnd
<1>18. p.state \in {"chunk_data", "chunk_data_almost_done", "chunk_data_done"} =>
        Step(p, ch) = ChunkData(p, ch)
  BY DEF Step, TargetStart, TargetEnd
<1> QED
  BY <1>1, <1>2, <1>3, <1>4, <1>5, <1>6, <1>7, <1>8, <1>9, <1>10,
     <1>11, <1>12, <1>13, <1>14, <1>15, <1>16, <1>17, <1>18

\* A symbol leaves a sound parser, and one at the method only in three ways: the
\* symbol was refused, was a first letter, or agrees with the guess.
LEMMA StepSound ==
  ASSUME NEW p, Sound(p), NEW ch
  PROVE  \/ Past(Step(p, ch))
         \/ Sound(Step(p, ch)) /\ Step(p, ch).error
         \/ /\ Sound(Step(p, ch)) /\ p.state = "start_req" /\ Step(p, ch).state = "req_method"
            /\ Step(p, ch).method \in Methods /\ Step(p, ch).index = 1
            /\ Spelling[Step(p, ch).method][1] = ch
         \/ /\ Sound(Step(p, ch)) /\ p.state = "req_method" /\ Step(p, ch).state = "req_method"
            /\ Guessed(p, Step(p, ch), ch)
<1>1. CASE p.state = "req_method"
  <2>1. Step(p, ch) = RequestLine(p, ch)
    BY <1>1, StepIs
  <2>2. RequestLine(p, ch) = ReqMethod(p, ch)
    BY <1>1 DEF RequestLine, TargetStart, TargetEnd
  <2> QED
    BY <1>1, <2>1, <2>2, ReqMethodStep
<1>2. CASE p.state # "req_method"
  <2>1. Past(p)
    BY <1>2 DEF Past
  <2>2. p.state \in States
    BY <2>1, PastParser DEF Parsers
  <2>3. CASE p.state \in LineStates
    BY <2>1, <2>3, StepIs, RequestLinePast
  <2>4. CASE p.state = "start_req"
    BY <2>1, <2>4, StepIs, StartReqStep
  <2>5. CASE p.state \in {"dead", "header_field_start", "header_field", "header_value_discard_ws",
                          "header_value_discard_lws", "headers_almost_done"}
    BY <2>1, <2>5, StepIs, DeadPast, HeaderFieldStartPast, HeaderFieldPast, HeaderValueDiscardWsPast,
       HeaderValueDiscardLwsPast, HeadersAlmostDonePast
  <2>6. CASE p.state = "header_value_discard_ws_almost_done"
    BY <2>1, <2>6, StepIs, ExpectPast, PlainAre
  <2>7. CASE p.state \in InValue
    <3>1. p.header \in ValueHeaders
      BY <2>1, <2>7 DEF Past, Sound
    <3>2. Past(Expect(p, ch, "LF", "header_value_lws"))
      BY <2>1, <3>1, ExpectPast DEF InValue
    <3>3. Past(HeaderValueLws(p, ch))
      BY <2>1, HeaderValueLwsPast
    <3>4. p.state = "header_value" => Past(HeaderValue(p, ch))
      BY <2>1, HeaderValuePast
    <3> QED
      BY <2>7, <3>2, <3>3, <3>4, StepIs DEF InValue
  <2>8. CASE p.state \in {"body_identity", "chunk_size_start", "chunk_size", "chunk_parameters",
                          "chunk_size_almost_done"}
    BY <2>1, <2>8, StepIs, BodyIdentityPast, ChunkSizeStartPast, ChunkSizePast,
       ChunkParametersPast, ChunkSizeAlmostDonePast
  <2>9. CASE p.state \in {"chunk_data", "chunk_data_almost_done", "chunk_data_done"}
    BY <2>1, <2>9, StepIs, ChunkDataPast
  <2>10. \/ p.state \in LineStates \/ p.state \in InValue
         \/ p.state \in {"start_req", "dead", "header_field_start", "header_field",
              "header_value_discard_ws", "header_value_discard_lws", "headers_almost_done",
              "header_value_discard_ws_almost_done", "body_identity", "chunk_size_start",
              "chunk_size", "chunk_parameters", "chunk_size_almost_done", "chunk_data",
              "chunk_data_almost_done", "chunk_data_done"}
    BY <1>2, <2>2 DEF States, Final, InValue
  <2> QED
    BY <2>3, <2>4, <2>5, <2>6, <2>7, <2>8, <2>9, <2>10
<1> QED
  BY <1>1, <1>2

----------------------------------------------------------------------------
(* http_parser_execute: Feed is defined for every piece, and read symbol by    *)
(* symbol.                                                                  *)

\* A set that holds 0 and, with a number, the next one holds all numbers up to n.
LEMMA Upward ==
  ASSUME NEW n \in Nat, NEW T, 0 \in T, \A k \in 1 .. n : k-1 \in T => k \in T
  PROVE  \A k \in 0 .. n : k \in T
<1> DEFINE R == {ss \in Nat \X Nat : ss[1] < ss[2]}
           S == {k \in 0 .. n : k \notin T}
<1>1. OpToRel(<, Nat) = R
  BY Zenon DEF OpToRel
<1>2. IsWellFoundedOn(R, Nat)
  BY <1>1, NatLessThanWellFounded, Zenon
<1>3. SUFFICES ASSUME S # {} PROVE FALSE
  OBVIOUS
<1>4. S \subseteq Nat
  OBVIOUS
<1>5. PICK x \in S : \A y \in S : ~ (<<y, x>> \in R)
  <2> HIDE DEF R, S
  <2> QED
    BY <1>2, <1>3, <1>4, WFMin
<1>6. x \in 1 .. n /\ x-1 \in 0 .. n /\ x \notin T
  OBVIOUS
<1>7. x-1 \notin T
  BY <1>6
<1>8. x-1 \in S /\ <<x-1, x>> \in R
  BY <1>6, <1>7
<1> QED
  BY <1>5, <1>8

\* What has become of p after no symbol, and after k of them.
Unread(p) == [parser |-> p, taken |-> 0, stop |-> p.error]
Rule(f, p, s, k) == IF k = 0 THEN Unread(p) ELSE Take(f[k-1], s[k])
Runs(f, p, s, n) == f = [k \in 0 .. n |-> Rule(f, p, s, k)]

LEMMA Runnable ==
  ASSUME NEW p, NEW s, NEW n \in Nat
  PROVE  \E f : Runs(f, p, s, n)
<1> DEFINE T == {k \in Nat : \E f : Runs(f, p, s, k)}
<1>1. 0 \in T
  <2> DEFINE f == [k \in 0 .. 0 |-> Unread(p)]
  <2>1. \A k \in 0 .. 0 : Rule(f, p, s, k) = Unread(p)
    BY DEF Rule
  <2>2. f = [k \in 0 .. 0 |-> Rule(f, p, s, k)]
    BY <2>1
  <2> QED
    BY <2>2 DEF Runs
<1>2. ASSUME NEW k \in 1 .. n, k-1 \in T PROVE k \in T
  <2>1. PICK f : Runs(f, p, s, k-1)
    BY <1>2
  <2> DEFINE g == [i \in 0 .. k |-> Rule(f, p, s, i)]
  <2>2. ASSUME NEW i \in 0 .. k-1 PROVE f[i] = g[i]
    <3>1. f[i] = Rule(f, p, s, i)
      BY <2>1, <2>2 DEF Runs
    <3> QED
      BY <3>1
  <2> HIDE DEF g
  <2>3. ASSUME NEW i \in 0 .. k PROVE Rule(f, p, s, i) = Rule(g, p, s, i)
    <3>1. CASE i = 0
      BY <3>1 DEF Rule
    <3>2. CASE i # 0
      <4>1. i-1 \in 0 .. k-1
        BY <3>2
      <4>2. f[i-1] = g[i-1]
        BY <2>2, <4>1
      <4> QED
        BY <3>2, <4>2 DEF Rule
    <3> QED
      BY <3>1, <3>2
  <2>4. g = [i \in 0 .. k |-> Rule(g, p, s, i)]
    BY <2>3 DEF g
  <2> QED
    BY <2>4 DEF Runs
<1> HIDE DEF T
<1>3. n \in T
  <2>1. \A k \in 0 .. n : k \in T
    BY <1>1, <1>2, Upward
  <2> QED
    BY <2>1
<1> QED
  BY <1>3 DEF T

LEMMA FeedIs ==
  ASSUME NEW p, NEW s, Len(s) \in Nat
  PROVE  /\ Feed(p, s)[0] = Unread(p)
         /\ \A k \in 1 .. Len(s) : Feed(p, s)[k] = Take(Feed(p, s)[k-1], s[k])
<1> DEFINE f == Feed(p, s)
<1>1. \E g : Runs(g, p, s, Len(s))
  BY Runnable
<1>2. \E g : g = [k \in 0 .. Len(s) |-> Rule(g, p, s, k)]
  BY <1>1 DEF Runs
<1>3. f = CHOOSE g : g = [k \in 0 .. Len(s) |-> Rule(g, p, s, k)]
  BY Zenon DEF Feed, Rule, Unread
<1> HIDE DEF f
<1>4. f = [k \in 0 .. Len(s) |-> Rule(f, p, s, k)]
  BY <1>2, <1>3, Zenon
<1>5. f[0] = Unread(p)
  BY <1>4 DEF Rule
<1>6. ASSUME NEW k \in 1 .. Len(s) PROVE f[k] = Take(f[k-1], s[k])
  BY <1>4 DEF Rule
<1> QED
  BY <1>5, <1>6 DEF f

\* A piece of a stream, and what has been read of a longer one.
LEMMA PieceIs ==
  ASSUME NEW B \in Seq(STRING), NEW a \in Nat, NEW b \in Nat, a <= b, b <= Len(B)
  PROVE  /\ Len(SubSeq(B, a+1, b)) = b - a /\ Len(SubSeq(B, a+1, b)) \in Nat
         /\ \A i \in 1 .. b - a : SubSeq(B, a+1, b)[i] = B[a+i]
<1>1. Len(B) \in Nat /\ \A i \in 1 .. Len(B) : B[i] \in STRING
  BY ElementOfSeq, LenProperties
<1>2. a+1 \in Int /\ b \in Int /\ \A i \in a+1 .. b : B[i] \in STRING
  BY <1>1
<1>3. /\ Len(SubSeq(B, a+1, b)) = IF a+1 <= b THEN b-(a+1)+1 ELSE 0
      /\ \A i \in 1 .. b-(a+1)+1 : SubSeq(B, a+1, b)[i] = B[(a+1)+i-1]
  BY <1>2, SubSeqProperties
<1>4. Len(SubSeq(B, a+1, b)) = b - a
  BY <1>3
<1>5. ASSUME NEW i \in 1 .. b - a PROVE SubSeq(B, a+1, b)[i] = B[a+i]
  <2>1. i \in 1 .. b-(a+1)+1 /\ (a+1)+i-1 = a+i
    OBVIOUS
  <2> QED
    BY <1>3, <2>1
<1> QED
  BY <1>4, <1>5

\* The symbols of a longer stream do not change what became of the first ones.
LEMMA FeedPrefix ==
  ASSUME NEW p, NEW B \in Seq(STRING), NEW a \in 0 .. Len(B)
  PROVE  \A k \in 0 .. a : Feed(p, SubSeq(B, 1, a))[k] = Feed(p, B)[k]
<1> DEFINE u == SubSeq(B, 1, a)
           f == Feed(p, B)
           g == Feed(p, u)
           T == {k \in 0 .. a : g[k] = f[k]}
<1>1. Len(B) \in Nat /\ a \in Nat
  BY LenProperties
<1>2. /\ f[0] = Unread(p)
      /\ \A k \in 1 .. Len(B) : f[k] = Take(f[k-1], B[k])
  BY <1>1, FeedIs
<1>3. /\ Len(SubSeq(B, 0+1, a)) = a - 0
      /\ \A i \in 1 .. a - 0 : SubSeq(B, 0+1, a)[i] = B[0+i]
  BY <1>1, PieceIs
<1>4. Len(u) = a /\ \A i \in 1 .. a : u[i] = B[i]
  BY <1>1, <1>3
<1> HIDE DEF u
<1>5. /\ g[0] = Unread(p)
      /\ \A k \in 1 .. a : g[k] = Take(g[k-1], u[k])
  <2>1. Len(u) \in Nat /\ Len(u) = a
    BY <1>1, <1>4
  <2>2. /\ Feed(p, u)[0] = Unread(p)
        /\ \A k \in 1 .. Len(u) : Feed(p, u)[k] = Take(Feed(p, u)[k-1], u[k])
    BY <2>1, FeedIs
  <2> QED
    BY <2>1, <2>2
<1> HIDE DEF f, g
<1>6. 0 \in T
  BY <1>1, <1>2, <1>5
<1>7. ASSUME NEW k \in 1 .. a, k-1 \in T PROVE k \in T
  <2>1. g[k] = Take(g[k-1], B[k]) /\ f[k] = Take(f[k-1], B[k])
    BY <1>1, <1>2, <1>4, <1>5
  <2> QED
    BY <1>7, <2>1
<1> HIDE DEF T
<1>8. \A k \in 0 .. a : k \in T
  BY <1>1, <1>6, <1>7, Upward
<1> QED
  BY <1>8 DEF T, f, g, u

\* What r is, if a symbols were read before s began.
Later(r, s, a) ==
  s.taken \in Nat /\ r = [parser |-> s.parser, taken |-> a + s.taken, stop |-> s.stop]

\* A stream that is cut where the parser had not stopped: what becomes of it is what
\* becomes of the next n, with the symbols before added to those taken.
LEMMA FeedCut ==
  ASSUME NEW p, NEW q, NEW B \in Seq(STRING), NEW a \in Nat, NEW n \in Nat, a + n <= Len(B),
         Feed(p, B)[a] = [parser |-> q, taken |-> a, stop |-> FALSE], q.error = FALSE
  PROVE  Later(Feed(p, B)[a+n], Feed(q, SubSeq(B, a+1, a+n))[n], a)
<1> DEFINE w == SubSeq(B, a+1, a+n)
           f == Feed(p, B)
           g == Feed(q, w)
           T == {k \in 0 .. n : /\ g[k].taken \in Nat
                                /\ f[a+k] = [parser |-> g[k].parser, taken |-> a + g[k].taken,
                                             stop |-> g[k].stop]}
<1>1. Len(B) \in Nat
  BY LenProperties
<1>2. \A k \in 1 .. Len(B) : f[k] = Take(f[k-1], B[k])
  BY <1>1, FeedIs
<1>3. Len(w) = n /\ \A i \in 1 .. n : w[i] = B[a+i]
  <2> DEFINE b == a+n
  <2>1. b \in Nat /\ a <= b /\ b <= Len(B) /\ b - a = n
    OBVIOUS
  <2>2. w = SubSeq(B, a+1, b)
    OBVIOUS
  <2> HIDE DEF b, w
  <2>3. /\ Len(SubSeq(B, a+1, b)) = b - a
        /\ \A i \in 1 .. b - a : SubSeq(B, a+1, b)[i] = B[a+i]
    BY <2>1, PieceIs
  <2> QED
    BY <2>1, <2>2, <2>3
<1> HIDE DEF w
<1>4. /\ g[0] = Unread(q)
      /\ \A k \in 1 .. n : g[k] = Take(g[k-1], w[k])
  <2>1. Len(w) \in Nat /\ Len(w) = n
    BY <1>3
  <2>2. /\ Feed(q, w)[0] = Unread(q)
        /\ \A k \in 1 .. Len(w) : Feed(q, w)[k] = Take(Feed(q, w)[k-1], w[k])
    BY <2>1, FeedIs
  <2> QED
    BY <2>1, <2>2
<1>5. f[a] = [parser |-> q, taken |-> a, stop |-> FALSE]
  OBVIOUS
<1> HIDE DEF f, g
<1>6. 0 \in T
  <2>1. g[0] = [parser |-> q, taken |-> 0, stop |-> FALSE]
    BY <1>4 DEF Unread
  <2>2. g[0].parser = q /\ g[0].taken = 0 /\ g[0].stop = FALSE /\ a+0 = a /\ 0 \in 0 .. n
    BY <2>1
  <2>3. f[a+0] = [parser |-> g[0].parser, taken |-> a + g[0].taken, stop |-> g[0].stop]
    BY <1>5, <2>2
  <2> QED
    BY <2>2, <2>3
<1>7. ASSUME NEW k \in 1 .. n, k-1 \in T PROVE k \in T
  <2> DEFINE u == g[k-1]
             v == f[a+(k-1)]
             s == Step(u.parser, B[a+k])
             ends == u.parser.state \notin Final /\ s.state \in Final
  <2>1. a+k \in 1 .. Len(B) /\ (a+k)-1 = a+(k-1)
    BY <1>1
  <2>2. f[a+k] = Take(v, B[a+k])
    BY <1>2, <2>1
  <2>3. g[k] = Take(u, B[a+k])
    BY <1>3, <1>4
  <2>4. /\ u.taken \in Nat
        /\ v = [parser |-> u.parser, taken |-> a + u.taken, stop |-> u.stop]
    BY <1>7
  <2>5. g[k] = IF u.stop THEN u
               ELSE [parser |-> s, taken |-> IF s.error THEN u.taken ELSE u.taken + 1,
                     stop |-> s.error \/ (ends /\ s.upgrade)]
    BY <2>3 DEF Take
  <2> HIDE DEF u
  <2>6. v.parser = u.parser /\ v.stop = u.stop /\ v.taken = a + u.taken
    BY <2>4
  <2>7. f[a+k] = IF u.stop THEN v
                 ELSE [parser |-> s, taken |-> IF s.error THEN a + u.taken ELSE a + u.taken + 1,
                       stop |-> s.error \/ (ends /\ s.upgrade)]
    BY <2>2, <2>6 DEF Take
  <2> HIDE DEF v, s, ends
  <2>8. CASE u.stop
    <3>1. g[k] = u /\ f[a+k] = [parser |-> u.parser, taken |-> a + u.taken, stop |-> u.stop]
      BY <2>4, <2>5, <2>7, <2>8 DEF v
    <3> QED
      BY <2>4, <3>1
  <2>9. CASE ~u.stop
    <3> DEFINE t == IF s.error THEN u.taken ELSE u.taken + 1
               b == s.error \/ (ends /\ s.upgrade)
    <3>1. t \in Nat /\ (IF s.error THEN a + u.taken ELSE a + u.taken + 1) = a + t
      BY <2>4
    <3>2. g[k] = [parser |-> s, taken |-> t, stop |-> b]
      BY <2>5, <2>9
    <3>3. f[a+k] = [parser |-> s, taken |-> a + t, stop |-> b]
      BY <2>7, <2>9, <3>1
    <3> HIDE DEF t, b
    <3> QED
      BY <3>1, <3>2, <3>3
  <2> QED
    BY <2>8, <2>9
<1> HIDE DEF T
<1>8. \A k \in 0 .. n : k \in T
  BY <1>6, <1>7, Upward
<1>9. n \in T
  BY <1>8
<1> QED
  BY <1>9 DEF T, f, g, w, Later

\* What is known after k symbols of B: a parser that stopped took no more since,
\* one that refused a symbol did so at the first it did not take, and a method
\* agrees with the symbols read.
Agrees(p, B, k) ==
  ~p.error /\ p.state = "req_method" =>
    p.index <= k /\ \A i \in 1 .. p.index : Spelling[p.method][i] = B[(k-p.index) + i]
Fed(f, B, k) ==
  /\ f[k] = [parser |-> f[k].parser, taken |-> f[k].taken, stop |-> f[k].stop]
  /\ Sound(f[k].parser)
  /\ f[k].taken \in 0 .. k /\ f[k].stop \in BOOLEAN
  /\ ~f[k].stop => f[k].taken = k /\ ~f[k].parser.error
  /\ f[k].stop /\ ~f[k].parser.error => f[k].parser.state \in Final /\ f[f[k].taken] = f[k]
  /\ f[k].parser.error => f[k].stop /\ f[k].taken < k /\ f[f[k].taken + 1] = f[k]
  /\ Agrees(f[k].parser, B, k)

\* One more symbol, of one that has not stopped.
LEMMA StepAgrees ==
  ASSUME NEW p, Sound(p), ~p.error, NEW B, NEW k \in Nat \ {0}, Agrees(p, B, k-1)
  PROVE  Sound(Step(p, B[k])) /\ Agrees(Step(p, B[k]), B, k)
<1> DEFINE q == Step(p, B[k])
<1>1. \/ Past(q)
      \/ Sound(q) /\ q.error
      \/ /\ Sound(q) /\ p.state = "start_req" /\ q.state = "req_method"
         /\ q.method \in Methods /\ q.index = 1 /\ Spelling[q.method][1] = B[k]
      \/ /\ Sound(q) /\ p.state = "req_method" /\ q.state = "req_method"
         /\ Guessed(p, q, B[k])
  BY StepSound
<1> SUFFICES Sound(q) /\ Agrees(q, B, k)
  OBVIOUS
<1> HIDE DEF q
<1>2. CASE Past(q)
  BY <1>2 DEF Past, Agrees
<1>3. CASE Sound(q) /\ q.error
  BY <1>3 DEF Agrees
<1>4. CASE Sound(q) /\ q.index = 1 /\ Spelling[q.method][1] = B[k]
  BY <1>4 DEF Agrees
<1>5. CASE Sound(q) /\ p.state = "req_method" /\ Guessed(p, q, B[k])
  <2>1. p.index \in Nat
    BY DEF Sound, Kept, Parsers
  <2>2. p.index <= k-1 /\ \A i \in 1 .. p.index : Spelling[p.method][i] = B[(k-1-p.index) + i]
    BY <1>5 DEF Agrees
  <2>3. /\ q.index = p.index + 1 /\ Spelling[q.method][q.index] = B[k]
        /\ \A i \in 1 .. p.index : Spelling[q.method][i] = Spelling[p.method][i]
    BY <1>5 DEF Guessed
  <2>4. ASSUME NEW i \in 1 .. q.index
        PROVE  Spelling[q.method][i] = B[(k-q.index) + i]
    <3>1. CASE i = q.index
      BY <2>1, <2>3, <3>1
    <3>2. CASE i # q.index
      <4>1. i \in 1 .. p.index /\ (k-1-p.index) + i = (k-q.index) + i
        BY <2>1, <2>3, <3>2
      <4> QED
        BY <2>2, <2>3, <4>1
    <3> QED
      BY <3>1, <3>2
  <2> QED
    BY <1>5, <2>1, <2>2, <2>3, <2>4 DEF Agrees
<1> QED
  BY <1>1, <1>2, <1>3, <1>4, <1>5

LEMMA AllFed ==
  ASSUME NEW B, Len(B) \in Nat
  PROVE  \A k \in 0 .. Len(B) : Fed(Feed(ParserInit, B), B, k)
<1> DEFINE f == Feed(ParserInit, B)
           T == {k \in 0 .. Len(B) : Fed(f, B, k)}
<1>1. /\ f[0] = Unread(ParserInit)
      /\ \A k \in 1 .. Len(B) : f[k] = Take(f[k-1], B[k])
  BY FeedIs
<1> HIDE DEF f
<1>2. 0 \in T
  <2>1. f[0] = [parser |-> ParserInit, taken |-> 0, stop |-> FALSE] /\ Past(ParserInit)
        /\ ParserInit.error = FALSE
    BY <1>1, InitPast DEF Unread, ParserInit
  <2>2. /\ f[0].parser = ParserInit /\ f[0].taken = 0 /\ f[0].stop = FALSE
        /\ f[0] = [parser |-> f[0].parser, taken |-> f[0].taken, stop |-> f[0].stop]
    BY <2>1
  <2>3. Agrees(ParserInit, B, 0) /\ Sound(ParserInit)
    BY <2>1 DEF Past, Agrees
  <2>4. Fed(f, B, 0)
    BY <2>1, <2>2, <2>3 DEF Fed
  <2> QED
    BY <2>4
<1>3. ASSUME NEW k \in 1 .. Len(B), k-1 \in T PROVE k \in T
  <2> DEFINE r == f[k-1]
             q == Step(r.parser, B[k])
             ends == r.parser.state \notin Final /\ q.state \in Final
  <2>1. Fed(f, B, k-1) /\ k-1 \in Nat
    BY <1>3
  <2>2. f[k] = IF r.stop THEN r
               ELSE [parser |-> q, taken |-> IF q.error THEN r.taken ELSE r.taken + 1,
                     stop |-> q.error \/ (ends /\ q.upgrade)]
    BY <1>1 DEF Take
  <2>3. CASE r.stop
    <3>1. f[k] = f[k-1]
      BY <2>2, <2>3
    <3>2. f[k].taken \in 0 .. k-1
      BY <2>1, <3>1 DEF Fed
    <3>3. Agrees(f[k].parser, B, k)
      BY <2>1, <2>3, <3>1 DEF Fed, Agrees, Final
    <3>4. Fed(f, B, k)
      <4>1. /\ f[k] = [parser |-> f[k].parser, taken |-> f[k].taken, stop |-> f[k].stop]
            /\ Sound(f[k].parser) /\ f[k].stop \in BOOLEAN /\ f[k].stop
        BY <2>1, <2>3, <3>1 DEF Fed
      <4>2. /\ ~f[k].parser.error => f[k].parser.state \in Final /\ f[f[k].taken] = f[k]
            /\ f[k].parser.error => f[k].taken < k-1 /\ f[f[k].taken + 1] = f[k]
        BY <2>1, <2>3, <3>1 DEF Fed
      <4>3. f[k].taken \in 0 .. k /\ (f[k].taken < k-1 => f[k].taken < k)
        BY <3>2
      <4> HIDE DEF r, q, ends
      <4> QED
        BY <3>3, <4>1, <4>2, <4>3 DEF Fed
    <3> QED
      BY <3>4
  <2>4. CASE ~r.stop
    <3> DEFINE b == q.error \/ (ends /\ q.upgrade)
    <3>1. Sound(r.parser) /\ ~r.parser.error /\ r.taken = k-1 /\ Agrees(r.parser, B, k-1)
      BY <2>1, <2>4 DEF Fed
    <3>2. Sound(q) /\ Agrees(q, B, k)
      BY <3>1, StepAgrees
    <3>3. f[k] = [parser |-> q, taken |-> IF q.error THEN k-1 ELSE k, stop |-> b]
      BY <2>2, <2>4, <3>1
    <3>4. b \in BOOLEAN /\ (b /\ ~q.error => q.state \in Final) /\ (q.error => b)
      <4>1. q.error \in BOOLEAN
        BY <3>2 DEF Sound, Kept, Parsers
      <4> QED
        BY <4>1
    <3> HIDE DEF b, q, r
    <3>5. f[k].parser = q /\ f[k].stop = b
      BY <3>3
    <3>6. CASE q.error
      <4>1. f[k].taken = k-1
        BY <3>3, <3>6
      <4>2. f[k].taken + 1 = k
        BY <4>1
      <4>3. Fed(f, B, k)
        BY <3>2, <3>3, <3>4, <3>5, <3>6, <4>1, <4>2 DEF Fed
      <4> QED
        BY <4>3
    <3>7. CASE ~q.error
      <4>1. f[k].taken = k
        BY <3>3, <3>7
      <4> QED
        BY <3>2, <3>3, <3>4, <3>5, <3>7, <4>1 DEF Fed
    <3> QED
      BY <3>6, <3>7
  <2> QED
    BY <2>3, <2>4
<1> HIDE DEF T
<1>4. \A k \in 0 .. Len(B) : k \in T
  BY <1>2, <1>3, Upward
<1> QED
  BY <1>4 DEF T, f

LEMMA ExecuteIs ==
  ASSUME NEW p, NEW B \in Seq(STRING), NEW a \in 0 .. Len(B)
  PROVE  Execute(p, SubSeq(B, 1, a)) = Feed(p, B)[a]
<1> DEFINE u == SubSeq(B, 1, a)
<1>1. a \in Nat /\ a <= Len(B) /\ a \in 0 .. a /\ 0 \in Nat /\ 0 <= a
  BY LenProperties
<1>2. Len(SubSeq(B, 0+1, a)) = a - 0
  BY <1>1, PieceIs
<1>3. Len(u) = a
  BY <1>1, <1>2
<1>4. Feed(p, u)[a] = Feed(p, B)[a]
  BY <1>1, FeedPrefix
<1> HIDE DEF u
<1>5. Execute(p, u) = Feed(p, u)[a]
  BY <1>3 DEF Execute
<1> QED
  BY <1>4, <1>5 DEF u

----------------------------------------------------------------------------
(* The buffer.                                                              *)

\* A factor of which every divisor but 1 is even is 1 or twice another.
LEMMA HalfDoubling ==
  ASSUME NEW d \in Doublings, d # 1
  PROVE  \E e \in Doublings : d = 2 * e
<1>0. MaxBuf \in Nat /\ d \in 1 .. MaxBuf
  BY BufAssumption DEF Doublings
<1>1. \A a, b \in 1 .. d : a * b = d => a = 1 \/ a % 2 = 0
  BY DEF Doublings
<1>2. d % 2 = 0
  <2>1. d \in 1 .. d /\ 1 \in 1 .. d /\ d * 1 = d
    BY <1>0
  <2> QED
    BY <1>1, <2>1
<1> DEFINE e == d \div 2
<1>3. e \in 1 .. MaxBuf /\ d = 2 * e /\ e < d
  BY <1>0, <1>2
<1> HIDE DEF e
<1>4. ASSUME NEW a \in 1 .. e, NEW b \in 1 .. e, a * b = e PROVE a = 1 \/ a % 2 = 0
  <2>1. a \in 1 .. d /\ 2 * b \in 1 .. d
    BY <1>0, <1>3
  <2>2. a * (2 * b) = 2 * (a * b)
    OBVIOUS
  <2> QED
    BY <1>1, <1>3, <1>4, <2>1, <2>2
<1>5. e \in Doublings
  BY <1>3, <1>4 DEF Doublings
<1> QED
  BY <1>3, <1>5

\* app_buf_cap is REMOTE_MIN_BUF doubled some number of times, and can reach
\* REMOTE_MAX_BUF by being doubled.
Sized(c) == c \in Nat /\ MinBuf <= c /\ \E d \in Doublings : MaxBuf = c * d

LEMMA SizedFits == ASSUME NEW c, Sized(c) PROVE c \in MinBuf .. MaxBuf
<1>1. PICK d \in Doublings : MaxBuf = c * d
  BY DEF Sized
<1>2. c \in Nat /\ MinBuf \in Nat /\ MinBuf <= c /\ MaxBuf \in Nat /\ d \in 1 .. MaxBuf
  BY BufAssumption DEF Sized, Doublings
<1>3. c <= c * d
  <2>1. c * d = c + c * (d-1) /\ d-1 \in Nat
    BY <1>2
  <2>2. c * (d-1) \in Nat
    BY <1>2, <2>1
  <2> QED
    BY <1>2, <2>1, <2>2
<1> QED
  BY <1>1, <1>2, <1>3

LEMMA SizedDoubles == ASSUME NEW c, Sized(c), c < MaxBuf PROVE Sized(2 * c)
<1>1. PICK d \in Doublings : MaxBuf = c * d
  BY DEF Sized
<1>2. c \in Nat /\ MinBuf \in Nat /\ MinBuf <= c
  BY BufAssumption DEF Sized
<1>3. d # 1
  BY <1>1, <1>2
<1>4. PICK e \in Doublings : d = 2 * e
  BY <1>3, HalfDoubling
<1>5. e \in Nat
  BY DEF Doublings
<1>6. c * (2 * e) = (2 * c) * e
  BY <1>2, <1>5
<1>7. MaxBuf = (2 * c) * e /\ 2 * c \in Nat /\ MinBuf <= 2 * c
  BY <1>1, <1>2, <1>4, <1>6
<1> QED
  BY <1>7 DEF Sized

----------------------------------------------------------------------------
(* The invariant: the parser is what one piece would have made of it, and what *)
(* it is at the method agrees with the symbols read.                        *)

Whole == Feed(ParserInit, stream.bytes)
Reasons == {"format", "full", "peer", "error"}

Inv ==
  /\ stream \in Streams /\ len \in 0 .. Len(stream.bytes)
  /\ Sized(cap) /\ len <= cap
  /\ Sound(parser)
  /\ status \in {"recv", "wait", "close"} /\ (status = "close") = (why \in Reasons)
  /\ status = "recv" =>
       parser.error = FALSE /\ Whole[len] = [parser |-> parser, taken |-> len, stop |-> FALSE]
  /\ status = "wait" => Whole[len].parser = parser /\ Whole[len].taken = len
  /\ why = "format" =>
       len < Len(stream.bytes) /\ Whole[len+1].parser = parser /\ Whole[len+1].taken = len

LEMMA BytesAre ==
  ASSUME stream \in Streams
  PROVE  stream.bytes \in Seq(STRING) /\ Len(stream.bytes) \in Nat
BY BufAssumption, LenProperties

LEMMA InitInv == Init => Inv
<1> SUFFICES ASSUME Init PROVE Inv
  OBVIOUS
<1>1. stream \in Streams /\ len = 0 /\ cap = MinBuf /\ parser = ParserInit /\ status = "recv"
      /\ why = "open"
  BY DEF Init
<1>2. Len(stream.bytes) \in Nat
  BY <1>1, BytesAre
<1>3. Sized(cap) /\ len <= cap
  <2>1. cap \in Nat /\ MinBuf <= cap /\ \E d \in Doublings : MaxBuf = cap * d
    BY <1>1, BufAssumption
  <2> QED
    BY <1>1, <2>1 DEF Sized
<1>4. Sound(parser) /\ parser.error = FALSE
  BY <1>1, InitPast DEF Past, ParserInit
<1>5. Whole[0] = [parser |-> parser, taken |-> 0, stop |-> FALSE]
  <2>1. Whole[0] = Unread(ParserInit)
    BY <1>2, FeedIs DEF Whole
  <2> QED
    BY <1>1, <1>4, <2>1 DEF Unread
<1> HIDE DEF Init
<1> QED
  BY <1>1, <1>2, <1>3, <1>4, <1>5 DEF Inv, Reasons

\* The buffer after it was doubled or not.
LEMMA GrownSized ==
  ASSUME Inv
  PROVE  Sized(Grown) /\ cap <= Grown
<1>1. Sized(cap) /\ cap \in Nat
  BY DEF Inv, Sized
<1>2. (Grown = 2 * cap /\ cap < MaxBuf) \/ Grown = cap
  BY DEF Grown
<1>3. cap <= 2 * cap
  BY <1>1
<1> QED
  BY <1>1, <1>2, <1>3, SizedDoubles

LEMMA RecvInv ==
  ASSUME Inv, NEW n \in 1 .. Len(stream.bytes) - len, Recv(n)
  PROVE  Inv'
<1> DEFINE B == stream.bytes
           w == Received(n)
           r == Execute(parser, w)
           k == len + n
<1>1. /\ status = "recv" /\ cap' = Grown /\ n <= cap' - len /\ parser' = r.parser
      /\ len' = len + r.taken /\ stream' = stream
      /\ r.parser.error => status' = "close" /\ why' = "format"
      /\ ~r.parser.error => /\ status' = IF IsDone(r.parser) THEN "wait" ELSE "recv"
                            /\ why' = why
  BY DEF Recv, Close
<1>2. /\ B \in Seq(STRING) /\ Len(B) \in Nat /\ len \in Nat /\ n \in Nat /\ k \in 0 .. Len(B)
      /\ k <= Len(B) /\ n > 0
  BY BytesAre DEF Inv
<1>3. Sized(cap') /\ cap' \in Nat /\ k <= cap'
  <2>1. Sized(cap')
    BY <1>1, GrownSized
  <2>2. cap' \in Nat
    BY <2>1 DEF Sized
  <2> QED
    BY <1>1, <1>2, <2>1, <2>2
<1>4. /\ parser.error = FALSE
      /\ Whole[len] = [parser |-> parser, taken |-> len, stop |-> FALSE]
      /\ why \notin Reasons
  BY <1>1 DEF Inv
<1>5. w = SubSeq(B, len+1, len+n)
  BY DEF Received
<1>6. Len(w) = n
  <2>1. k \in Nat /\ len <= k /\ k - len = n
    BY <1>2
  <2> HIDE DEF k, w
  <2>2. Len(SubSeq(B, len+1, k)) = k - len
    BY <1>2, <2>1, PieceIs
  <2> QED
    BY <1>5, <2>1, <2>2 DEF k
<1>7. r = Feed(parser, w)[n]
  BY <1>6 DEF Execute
<1>8. /\ Feed(parser, w)[n].taken \in Nat
      /\ Whole[k] = [parser |-> Feed(parser, w)[n].parser,
                     taken |-> len + Feed(parser, w)[n].taken, stop |-> Feed(parser, w)[n].stop]
  <2> HIDE DEF w
  <2> QED
    <3>1. len + n <= Len(B)
      BY <1>2
    <3>2. Feed(ParserInit, B)[len] = [parser |-> parser, taken |-> len, stop |-> FALSE]
      BY <1>4 DEF Whole
    <3>3. Later(Feed(ParserInit, B)[len+n], Feed(parser, SubSeq(B, len+1, len+n))[n], len)
      BY <1>2, <1>4, <3>1, <3>2, FeedCut
    <3> QED
      BY <1>5, <3>3 DEF Whole, Later
<1> HIDE DEF w, r, k
<1>9. Whole[k] = [parser |-> r.parser, taken |-> len', stop |-> r.stop] /\ r.taken \in Nat
  BY <1>1, <1>7, <1>8
<1>10. Whole[k].parser = parser' /\ Whole[k].taken = len' /\ Whole[k].stop = r.stop
  BY <1>1, <1>9
<1>11. Fed(Whole, B, k)
  BY <1>2, AllFed DEF Whole
<1> DEFINE f == Whole
<1> HIDE DEF f
<1>12. /\ Sound(parser') /\ len' \in 0 .. k /\ r.stop \in BOOLEAN
       /\ ~r.stop => len' = k /\ ~parser'.error
       /\ r.stop /\ ~parser'.error => parser'.state \in Final /\ Whole[len'] = Whole[k]
       /\ parser'.error => len' < k /\ Whole[len'+1] = Whole[k]
  BY <1>10, <1>11 DEF Fed
<1>13. parser'.error \in BOOLEAN
  BY <1>12 DEF Sound, Kept, Parsers
<1>14. Whole' = Whole /\ stream'.bytes = B /\ stream' \in Streams
  BY <1>1 DEF Whole, Inv
<1>15. len' \in 0 .. Len(B) /\ len' <= cap' /\ len' \in Nat
  BY <1>2, <1>3, <1>12
<1>16. CASE parser'.error
  <2>1. status' = "close" /\ why' = "format"
    BY <1>1, <1>16
  <2>2. /\ len' < Len(B) /\ Whole[len'+1].parser = parser' /\ Whole[len'+1].taken = len'
    BY <1>2, <1>10, <1>12, <1>15, <1>16
  <2> QED
    BY <1>3, <1>12, <1>14, <1>15, <2>1, <2>2 DEF Inv, Reasons
<1>17. CASE ~parser'.error
  <2>1. /\ status' = IF IsDone(parser') THEN "wait" ELSE "recv"
        /\ why' = why
    BY <1>1, <1>17
  <2>2. why' \notin Reasons /\ why' # "format" /\ status' \in {"recv", "wait", "close"}
        /\ status' # "close"
    BY <1>4, <2>1 DEF Reasons
  <2>3. Whole[len'] = Whole[k] /\ (status' = "recv" => ~r.stop)
    BY <1>12, <1>17, <2>1 DEF IsDone
  <2>4. status' = "recv" => Whole[len'] = [parser |-> parser', taken |-> len', stop |-> FALSE]
    BY <1>1, <1>9, <1>12, <2>3
  <2>5. Whole[len'].parser = parser' /\ Whole[len'].taken = len' /\ parser'.error = FALSE
    BY <1>10, <1>13, <1>17, <2>3
  <2> QED
    BY <1>3, <1>12, <1>14, <1>15, <2>2, <2>4, <2>5 DEF Inv
<1> QED
  BY <1>16, <1>17

\* A step that reads nothing: the buffer may have grown.
LEMMA NothingInv ==
  ASSUME Inv, status = "recv", cap' = Grown, UNCHANGED <<stream, len, parser>>,
         \/ UNCHANGED <<status, why>>
         \/ status' = "close" /\ why' \in Reasons \ {"format"}
  PROVE  Inv'
<1>1. Sized(cap') /\ len' <= cap'
  <2>1. Sized(Grown) /\ cap <= Grown
    BY GrownSized
  <2>2. Grown \in Nat /\ cap \in Nat /\ len \in Nat /\ len <= cap
    BY <2>1, BytesAre DEF Inv, Sized
  <2> QED
    BY <2>1, <2>2
<1>2. Whole' = Whole
  BY DEF Whole
<1>3. why # "format"
  BY DEF Inv, Reasons
<1> QED
  BY <1>1, <1>2, <1>3 DEF Inv, Reasons

LEMMA NextInv == Inv /\ [Next]_vars => Inv'
<1> SUFFICES ASSUME Inv, [Next]_vars PROVE Inv'
  OBVIOUS
<1>1. ASSUME NEW n \in 1 .. Len(stream.bytes) - len, Recv(n) PROVE Inv'
  BY <1>1, RecvInv
<1>2. CASE RecvZero
  <2>1. (IF len = cap' THEN "full" ELSE "peer") \in Reasons \ {"format"}
    BY DEF Reasons
  <2> QED
    BY <1>2, <2>1, NothingInv DEF RecvZero, Close
<1>3. CASE RecvAgain
  BY <1>3, NothingInv DEF RecvAgain
<1>4. CASE RecvFails
  <2>1. "error" \in Reasons \ {"format"}
    BY DEF Reasons
  <2> QED
    BY <1>4, <2>1, NothingInv DEF RecvFails, Close
<1>5. CASE UNCHANGED vars
  <2>1. Whole' = Whole
    BY <1>5 DEF vars, Whole
  <2>2. Grown = Grown /\ Sized(cap) = Sized(cap')
    BY <1>5 DEF vars
  <2> QED
    BY <1>5, <2>1, <2>2 DEF vars, Inv
<1> QED
  BY <1>1, <1>2, <1>3, <1>4, <1>5 DEF Next

LEMMA InvHolds == Spec => []Inv
<1>1. Init => Inv
  BY InitInv
<1>2. Inv /\ [Next]_vars => Inv'
  BY NextInv
<1> QED
  BY <1>1, <1>2, PTL DEF Spec

----------------------------------------------------------------------------
(* Theorems.                                                                *)

\* Whatever clients send and however recv cuts it, what is stored stays within its
\* buffer, the buffer within REMOTE_MAX_BUF, and a length within its range, where it
\* is never mistaken (recv_http_cb).
THEOREM Types == Spec => []TypeOK
<1>1. Inv => TypeOK
  <2> SUFFICES ASSUME Inv PROVE TypeOK
    OBVIOUS
  <2>1. cap \in MinBuf .. MaxBuf /\ cap \in Nat
    BY SizedFits DEF Inv, Sized
  <2>2. len \in 0 .. cap
    BY <2>1, BytesAre DEF Inv
  <2>3. parser.length \in 0 .. MaxLength
    BY DEF Inv, Sound, Kept, Parsers, Lengths
  <2>4. DeclaredLength
    BY DEF Inv, Sound, Kept, DeclaredLength
  <2> QED
    BY <2>1, <2>2, <2>3, <2>4 DEF Inv, Reasons, TypeOK
<1> QED
  BY <1>1, InvHolds, PTL

\* A length that was declared is never the one that stands for none, whatever digits
\* a Content-Length or a chunk size has (the overflow tests of http_parser.c).
THEOREM NeverUndeclared == Spec => []DeclaredLength
<1>1. Inv => DeclaredLength
  BY DEF Inv, Sound, Kept, DeclaredLength
<1> QED
  BY <1>1, InvHolds, PTL

\* Where recv cuts the stream leaves no trace in the parser (recv_http_cb and
\* http_parser_execute): it has come to what one piece would have made of it.
THEOREM NoTraceOfCuts == Spec => []CutsInvisible
<1>1. Inv => CutsInvisible
  <2> SUFFICES ASSUME Inv PROVE CutsInvisible
    OBVIOUS
  <2>1. stream.bytes \in Seq(STRING) /\ len \in 0 .. Len(stream.bytes) /\ len \in Nat
        /\ Len(stream.bytes) \in Nat
    BY BytesAre DEF Inv
  <2>2. Execute(ParserInit, SubSeq(stream.bytes, 1, len)) = Whole[len]
    BY <2>1, ExecuteIs DEF Whole
  <2>3. ASSUME status # "close" PROVE Whole[len].parser = parser /\ Whole[len].taken = len
    BY <2>3 DEF Inv
  <2>4. ASSUME why = "format"
        PROVE  /\ Execute(ParserInit, SubSeq(stream.bytes, 1, len+1)) = Whole[len+1]
               /\ Whole[len+1].parser = parser /\ Whole[len+1].taken = len
    <3>1. len+1 \in 0 .. Len(stream.bytes)
      BY <2>1, <2>4 DEF Inv
    <3>2. Execute(ParserInit, SubSeq(stream.bytes, 1, len+1)) = Whole[len+1]
      BY <2>1, <3>1, ExecuteIs DEF Whole
    <3> QED
      BY <2>4, <3>2 DEF Inv
  <2> QED
    BY <2>2, <2>3, <2>4 DEF CutsInvisible
<1> QED
  BY <1>1, InvHolds, PTL

\* While the method is read, the guess agrees with all letters read so far, whichever
\* jumps of http_parser_execute led to it.
THEOREM GuessesRight == Spec => []MethodAgrees
<1>1. Inv => MethodAgrees
  <2> SUFFICES ASSUME Inv, status = "recv", parser.state = "req_method"
               PROVE  /\ parser.method \in Methods
                      /\ SubSeq(stream.bytes, len - parser.index + 1, len)
                           = SubSeq(Spelling[parser.method], 1, parser.index)
    BY DEF MethodAgrees
  <2> DEFINE B == stream.bytes
             i == parser.index
             S == Spelling[parser.method]
  <2>1. B \in Seq(STRING) /\ len \in 0 .. Len(B) /\ len \in Nat /\ Len(B) \in Nat
    BY BytesAre DEF Inv
  <2>2. parser.method \in Methods /\ i > 0 /\ i <= Len(S) /\ i \in Nat
    BY DEF Inv, Sound, Kept, Parsers
  <2>3. Whole[len].parser = parser /\ parser.error = FALSE
    BY DEF Inv
  <2>4. Fed(Whole, B, len)
    BY <2>1, AllFed DEF Whole
  <2>5. i <= len /\ \A k \in 1 .. i : S[k] = B[(len-i) + k]
    BY <2>3, <2>4 DEF Fed, Agrees
  <2> HIDE DEF B, i, S
  <2>6. \A k \in 1 .. Len(B) : B[k] \in STRING
    BY <2>1, ElementOfSeq
  <2>7. \A k \in 1 .. i : S[k] \in STRING
    BY <2>1, <2>2, <2>5, <2>6
  <2>8. /\ SubSeq(S, 1, i) \in Seq(STRING) /\ Len(SubSeq(S, 1, i)) = i
        /\ \A k \in 1 .. i : SubSeq(S, 1, i)[k] = S[k]
    <3>1. /\ SubSeq(S, 1, i) \in Seq(STRING)
          /\ Len(SubSeq(S, 1, i)) = IF 1 <= i THEN i-1+1 ELSE 0
          /\ \A k \in 1 .. i-1+1 : SubSeq(S, 1, i)[k] = S[1+k-1]
      BY <2>2, <2>7, SubSeqProperties
    <3> QED
      BY <2>2, <3>1
  <2> DEFINE a == len - i
             u == SubSeq(B, a+1, len)
  <2>9. a \in Nat /\ a <= len /\ len <= Len(B) /\ len - a = i
    BY <2>1, <2>2, <2>5
  <2>10. Len(u) = i /\ \A k \in 1 .. i : u[k] = B[a+k]
    <3> HIDE DEF a
    <3>1. Len(SubSeq(B, a+1, len)) = len - a
          /\ \A k \in 1 .. len - a : SubSeq(B, a+1, len)[k] = B[a+k]
      BY <2>1, <2>9, PieceIs
    <3> QED
      BY <2>9, <3>1
  <2>11. u \in Seq(STRING)
    <3> HIDE DEF a
    <3>1. a+1 \in Int /\ len \in Int /\ \A k \in a+1 .. len : B[k] \in STRING
      BY <2>1, <2>6, <2>9
    <3> QED
      BY <3>1, SubSeqProperties
  <2> DEFINE v == SubSeq(S, 1, i)
  <2>12. \A k \in 1 .. i : u[k] = v[k]
    BY <2>5, <2>8, <2>10
  <2> HIDE DEF u, v
  <2>13. u = v
    BY <2>2, <2>8, <2>10, <2>11, <2>12, SeqEqual DEF v
  <2>14. u = SubSeq(B, len - i + 1, len)
    BY DEF u
  <2> QED
    BY <2>2, <2>13, <2>14 DEF u, v, B, i, S
<1> QED
  BY <1>1, InvHolds, PTL
============================================================================
