--------------------------- MODULE ResponderProofs ---------------------------
(***************************************************************************)
(* Proofs about Responder, for any numbers of workers, pages and edits and *)
(* any sizes of files and of the cache.                                    *)
(***************************************************************************)
EXTENDS Responder, SequenceTheorems, TLAPS

-----------------------------------------------------------------------------
(* Strings *)

\* The length, the indices and the blocks of a string that access may hold.
LEMMA TextProperties ==
    ASSUME NEW s \in Text
    PROVE  /\ Len(s) \in 0..MaxLen + 1 /\ DOMAIN s = 1..Len(s)
           /\ \A i \in 1..Len(s) : s[i] \in Block
<1>1. s \in Seq(Block) /\ Len(s) <= MaxLen + 1
    BY DEF Text
<1> QED BY <1>1, ResponderAssumption, LenProperties, ElementOfSeq

\* The default page, a block of zeros and the empty string have their types.
LEMMA Constants ==
    /\ Zero \in Block /\ <<>> \in Text /\ DefaultPage \in Text
    /\ NoBody \in [page : Page \cup {Null}, text : {Null} \cup Text]
    /\ Page404 \in Page /\ Page500 \in Page /\ Null \notin Page
<1>1. Zero \in Block /\ <<Null, 0, 1>> \in Block
    BY ResponderAssumption DEF Zero, Block
<1>2. <<>> \in Text
    BY ResponderAssumption DEF Text
<1>3. DefaultPage \in Text
    BY <1>1, ResponderAssumption DEF Text, DefaultPage
<1> QED BY <1>1, <1>2, <1>3, ResponderAssumption DEF NoBody, Page

\* The string that access makes room in
LEMMA TextOfZeros ==
    ASSUME NEW n \in 0..MaxLen, NEW s, s = [i \in 1..n |-> Zero]
    PROVE  s \in Text /\ Len(s) = n
<1>1. n \in Nat /\ n <= MaxLen + 1
    BY ResponderAssumption
<1>2. s \in Seq(Block)
    BY <1>1, Constants, IsASeq
<1>3. Len(s) = n
    BY <1>1, <1>2, LenProperties
<1> QED BY <1>1, <1>2, <1>3 DEF Text

\* A block is read into a string.
LEMMA TextExcept ==
    ASSUME NEW s \in Text, NEW i \in 1..Len(s), NEW b \in Block,
           NEW t, t = [s EXCEPT ![i] = b]
    PROVE  /\ t \in Text /\ Len(t) = Len(s)
           /\ \A j \in 1..Len(s) : t[j] = IF j = i THEN b ELSE s[j]
<1>1. s \in Seq(Block) /\ Len(s) <= MaxLen + 1
    BY DEF Text
<1>2. t \in Seq(Block) /\ Len(t) = Len(s) /\ \A j \in 1..Len(s) : t[j] = IF j = i THEN b ELSE s[j]
    BY <1>1, ExceptSeq
<1> QED BY <1>1, <1>2 DEF Text

-----------------------------------------------------------------------------
\* Before the first request there is no answer, nothing cached and nothing to send.
LEMMA InitInvariant == Init => IInv
<1> SUFFICES ASSUME Init PROVE IInv
    OBVIOUS
<1>1. TypeOK
  <2>1. file \in [Page -> {Null} \cup File] /\ edits \in 0..MaxEdits
      BY ResponderAssumption DEF Init, File
  <2>2. /\ bad \in [Worker -> BOOLEAN] /\ mixed \in [Worker -> BOOLEAN]
      BY Zenon DEF Init
  <2>3. /\ req \in [Worker -> Request] /\ target \in [Worker -> Page]
        /\ cache \in [Page -> {Null} \cup Text] /\ text \in [Worker -> Text]
        /\ body \in [Worker -> [page : Page \cup {Null}, text : {Null} \cup Text]]
      BY Constants DEF Init, Request
  <2> QED BY <2>1, <2>2, <2>3, Constants, ResponderAssumption DEF Init, TypeOK
<1> QED BY <1>1, Constants DEF Init, IInv, CacheIntact, AnswerFits, LengthKept,
           Accessing, Reading, BodyThere, Sending

\* A file that is edited in place disturbs nobody: what was read, cached or measured
\* of it stays as it is.
LEMMA EditStep ==
    ASSUME IInv, NEW p \in Page, Edit(p)
    PROVE  IInv'
<1>1. PICK f \in File :
         /\ file' = [file EXCEPT ![p] = f] /\ f # Null
         /\ edits' \in 0..MaxEdits
         /\ UNCHANGED <<cache, buff, pc, req, code, access, rest, output>>
  <2>1. PICK n \in 0..MaxLen : file' = [file EXCEPT ![p] = [ver |-> edits', len |-> n]]
      BY DEF Edit, Set
  <2>2. edits' \in 0..MaxEdits
      BY ResponderAssumption DEF Edit, IInv, TypeOK
  <2>3. [ver |-> edits', len |-> n] \in File
      BY <2>2 DEF File
  <2> QED BY <2>1, <2>2, <2>3, NullAssumption DEF Edit
<1>2. TypeOK'
    BY <1>1 DEF IInv, TypeOK, access, output
<1>3. \A q \in Page : file[q] # Null => file'[q] # Null
    BY <1>1 DEF IInv, TypeOK
<1>4. Reading' /\ BodyThere'
    BY <1>1, <1>3 DEF IInv, TypeOK, Reading, BodyThere, access, output
<1> QED BY <1>1, <1>2, <1>4 DEF IInv, CacheIntact, AnswerFits, LengthKept,
           Accessing, Sending, access, output

\* Which codes have a page in Router::__errMapper.
LEMMA ErrorPages ==
    /\ ErrorPage(404) = Page404 /\ ErrorPage(500) = Page500
    /\ ErrorPage(501) = Null /\ ErrorPage(505) = Null
BY DEF ErrorPage

\* Access to the page of code c begins, or the default page is the answer.
LEMMA FailWithStep ==
    ASSUME IInv, NEW w \in Worker, NEW c \in {404, 500, 501, 505}, FailWith(w, c),
           pc[w] \in {"idle", "open", "read"},
           req' \in [Worker -> Request], text' \in [Worker -> Text],
           rest' \in [Worker -> 0..MaxLen + 1],
           \A u \in Worker \ {w} :
              req'[u] = req[u] /\ text'[u] = text[u] /\ rest'[u] = rest[u],
           UNCHANGED <<files, cache, buff, output>>
    PROVE  IInv'
<1>1. CASE ErrorPage(c) # Null
  <2>1. /\ code' = [code EXCEPT ![w] = c] /\ target' = [target EXCEPT ![w] = ErrorPage(c)]
        /\ pc' = [pc EXCEPT ![w] = "get"] /\ UNCHANGED body
        /\ ErrorPage(c) \in Page
      BY <1>1, ErrorPages, Constants DEF FailWith, Goto, Set
  <2>2. TypeOK'
      BY <2>1 DEF IInv, TypeOK, files, output
  <2>3. CacheIntact' /\ AnswerFits' /\ LengthKept'
      BY <2>1 DEF IInv, TypeOK, CacheIntact, AnswerFits, LengthKept, output
  <2>4. Accessing'
      BY <2>1 DEF IInv, TypeOK, Accessing
  <2>5. Reading'
      BY <2>1 DEF IInv, TypeOK, Reading, files
  <2>6. BodyThere' /\ Sending'
      BY <2>1 DEF IInv, TypeOK, BodyThere, Sending, files, output
  <2> QED BY <2>2, <2>3, <2>4, <2>5, <2>6 DEF IInv
<1>2. CASE ErrorPage(c) = Null
  <2>1. /\ code' = [code EXCEPT ![w] = c] /\ UNCHANGED target
        /\ pc' = [pc EXCEPT ![w] = "line"]
        /\ body' = [body EXCEPT ![w] = [page |-> Null, text |-> DefaultPage]]
      BY <1>2 DEF FailWith, Respond, Goto, Set
  <2>2. TypeOK'
      BY <2>1, Constants DEF IInv, TypeOK, files, output
  <2>3. CacheIntact' /\ AnswerFits' /\ LengthKept'
      BY <2>1 DEF IInv, TypeOK, CacheIntact, AnswerFits, LengthKept, output
  <2>4. Accessing'
      BY <2>1 DEF IInv, TypeOK, Accessing
  <2>5. Reading'
      BY <2>1 DEF IInv, TypeOK, Reading, files
  <2>6. BodyThere' /\ Sending'
      BY <2>1, NullAssumption DEF IInv, TypeOK, BodyThere, Sending, files, output
  <2> QED BY <2>2, <2>3, <2>4, <2>5, <2>6 DEF IInv
<1> QED BY <1>1, <1>2

\* The answer is page p, from the text s or, if s is Null, from its open file.
LEMMA RespondStep ==
    ASSUME IInv, NEW w \in Worker, NEW p \in Page \cup {Null},
           NEW s \in {Null} \cup Text, Respond(w, p, s),
           s = Null => p # Null /\ file[p] # Null,
           IF code[w] = 200 THEN p = req[w] ELSE p \in {Null, ErrorPage(code[w])},
           pc[w] \in {"get", "open", "read"},
           text' \in [Worker -> Text], rest' \in [Worker -> 0..MaxLen + 1],
           \A u \in Worker \ {w} : text'[u] = text[u] /\ rest'[u] = rest[u],
           cache' \in [Page -> {Null} \cup Text], CacheIntact',
           UNCHANGED <<files, buff, req, code, target, output>>
    PROVE  IInv'
<1>1. /\ pc' = [pc EXCEPT ![w] = "line"]
      /\ body' = [body EXCEPT ![w] = [page |-> p, text |-> s]]
    BY DEF Respond, Goto, Set
<1>2. TypeOK'
    BY <1>1 DEF IInv, TypeOK, files, output
<1>3. AnswerFits'
    BY <1>1 DEF IInv, TypeOK, AnswerFits
<1>4. Accessing'
    BY <1>1 DEF IInv, TypeOK, Accessing
<1>5. Reading'
    BY <1>1 DEF IInv, TypeOK, Reading, files
<1>6. BodyThere' 
    BY <1>1 DEF IInv, TypeOK, BodyThere, files
<1>7. LengthKept' /\ Sending'
    BY <1>1 DEF IInv, TypeOK, LengthKept, Sending, output
<1> QED BY <1>2, <1>3, <1>4, <1>5, <1>6, <1>7 DEF IInv

\* access has returned an error.
LEMMA AccessFailedStep ==
    ASSUME IInv, NEW w \in Worker, accessFailed(w), pc[w] \in {"open", "read"},
           text' \in [Worker -> Text], rest' \in [Worker -> 0..MaxLen + 1],
           \A u \in Worker \ {w} : text'[u] = text[u] /\ rest'[u] = rest[u],
           UNCHANGED <<files, cache, buff, req, output>>
    PROVE  IInv'
<1>1. CASE code[w] = 200
  <2>1. FailWith(w, 500) /\ req' \in [Worker -> Request]
      BY <1>1 DEF accessFailed, IInv, TypeOK
  <2> QED BY <2>1, FailWithStep
<1>2. CASE code[w] # 200
  <2>1. Respond(w, Null, DefaultPage) /\ UNCHANGED <<code, target>>
      BY <1>2 DEF accessFailed
  <2>2. /\ cache' \in [Page -> {Null} \cup Text] /\ CacheIntact'
      BY DEF IInv, TypeOK, CacheIntact
  <2> QED BY <1>2, <2>1, <2>2, Constants, NullAssumption, RespondStep
<1> QED BY <1>1, <1>2

\* getResponseFromRequest chooses the code, and with it the page.
LEMMA RequestStep ==
    ASSUME IInv, NEW w \in Worker, getResponseFromRequest(w)
    PROVE  IInv'
<1>1. PICK q \in Request :
         /\ pc[w] = "idle" /\ req' = [req EXCEPT ![w] = q]
         /\ \/ \E c \in {404, 501, 505} : FailWith(w, c)
            \/ /\ q \in Uri /\ code' = [code EXCEPT ![w] = 200]
               /\ target' = [target EXCEPT ![w] = q]
               /\ pc' = [pc EXCEPT ![w] = "get"] /\ UNCHANGED body
         /\ UNCHANGED <<files, cache, buff, text, rest, output>>
  <2>1. PICK q \in Request :
           /\ req' = Set(req, w, q)
           /\ CASE q = "version"  -> FailWith(w, 505)
                [] q = "method"   -> FailWith(w, 501)
                [] q = "unmapped" -> FailWith(w, 404)
                [] OTHER -> /\ code' = Set(code, w, 200)
                            /\ target' = Set(target, w, q)
                            /\ Goto(w, "get") /\ UNCHANGED body
      BY DEF getResponseFromRequest
  <2>2. \/ FailWith(w, 505) \/ FailWith(w, 501) \/ FailWith(w, 404)
        \/ /\ q \in Uri /\ code' = Set(code, w, 200)
           /\ target' = Set(target, w, q) /\ Goto(w, "get") /\ UNCHANGED body
      BY <2>1 DEF Request
  <2>3. pc[w] = "idle" /\ UNCHANGED <<files, cache, buff, text, rest, output>>
      BY DEF getResponseFromRequest
  <2>4. \/ \E c \in {404, 501, 505} : FailWith(w, c)
        \/ /\ q \in Uri /\ code' = Set(code, w, 200)
           /\ target' = Set(target, w, q) /\ Goto(w, "get") /\ UNCHANGED body
    <3>1. ASSUME NEW c \in {404, 501, 505}, FailWith(w, c)
          PROVE  \E d \in {404, 501, 505} : FailWith(w, d)
        BY <3>1
    <3> QED BY <2>2, <3>1
  <2> QED BY <2>1, <2>3, <2>4, Zenon DEF Set, Goto
<1>2. req' \in [Worker -> Request] /\ \A u \in Worker \ {w} : req'[u] = req[u]
    BY <1>1 DEF IInv, TypeOK
<1>3. ASSUME NEW c \in {404, 501, 505}, FailWith(w, c)
      PROVE  IInv'
  <2>1. c \in {404, 500, 501, 505} /\ pc[w] \in {"idle", "open", "read"}
      BY <1>1, <1>3
  <2>2. text' \in [Worker -> Text] /\ rest' \in [Worker -> 0..MaxLen + 1]
      BY <1>1 DEF IInv, TypeOK
  <2>3. /\ \A u \in Worker \ {w} :
              req'[u] = req[u] /\ text'[u] = text[u] /\ rest'[u] = rest[u]
        /\ UNCHANGED <<files, cache, buff, output>>
      BY <1>1, <1>2
  <2> QED BY <1>2, <1>3, <2>1, <2>2, <2>3, FailWithStep
<1>4. CASE /\ q \in Uri /\ code' = [code EXCEPT ![w] = 200]
           /\ target' = [target EXCEPT ![w] = q]
           /\ pc' = [pc EXCEPT ![w] = "get"] /\ UNCHANGED body
  <2>1. TypeOK'
      BY <1>1, <1>2, <1>4 DEF IInv, TypeOK, Page, files, output
  <2>2. CacheIntact' /\ AnswerFits' /\ LengthKept'
      BY <1>1, <1>2, <1>4 DEF IInv, TypeOK, CacheIntact, AnswerFits, LengthKept, output
  <2>3. Accessing'
      BY <1>1, <1>2, <1>4 DEF IInv, TypeOK, Accessing
  <2>4. Reading' /\ BodyThere'
      BY <1>1, <1>4 DEF IInv, TypeOK, Reading, BodyThere, files
  <2>5. Sending'
      BY <1>1, <1>4 DEF IInv, TypeOK, Sending, output
  <2> QED BY <2>1, <2>2, <2>3, <2>4, <2>5 DEF IInv
<1> QED BY <1>1, <1>3, <1>4

-----------------------------------------------------------------------------
(* access *)

\* A hit of the cache becomes the body; a miss goes on with the file.
LEMMA GetStep ==
    ASSUME IInv, NEW w \in Worker, get(w)
    PROVE  IInv'
<1>1. /\ pc[w] = "get" /\ target[w] \in Page
      /\ UNCHANGED <<files, cache, buff, req, code, target, text, rest, output>>
      /\ target[w] = IF code[w] = 200 THEN req[w] ELSE ErrorPage(code[w])
    BY DEF get, IInv, TypeOK, Accessing
<1>2. CASE cache[target[w]] # Null /\ Respond(w, target[w], cache[target[w]])
  <2>1. /\ text' \in [Worker -> Text] /\ rest' \in [Worker -> 0..MaxLen + 1]
        /\ cache' \in [Page -> {Null} \cup Text] /\ CacheIntact'
        /\ cache[target[w]] \in {Null} \cup Text
      BY <1>1 DEF IInv, TypeOK, CacheIntact
  <2> QED BY <1>1, <1>2, <2>1, RespondStep
<1>3. CASE Goto(w, "open") /\ UNCHANGED body
  <2>1. pc' = [pc EXCEPT ![w] = "open"]
      BY <1>3 DEF Goto, Set
  <2>2. TypeOK'
      BY <1>1, <1>3, <2>1 DEF IInv, TypeOK, files, output
  <2>3. CacheIntact' /\ AnswerFits' /\ Accessing'
      BY <1>1, <1>3, <2>1 DEF IInv, TypeOK, CacheIntact, AnswerFits, Accessing
  <2>4. Reading' /\ BodyThere'
      BY <1>1, <1>3, <2>1 DEF IInv, TypeOK, Reading, BodyThere, files
  <2>5. LengthKept' /\ Sending'
      BY <1>1, <2>1 DEF IInv, TypeOK, LengthKept, Sending, output
  <2> QED BY <2>2, <2>3, <2>4, <2>5 DEF IInv
<1> QED BY <1>2, <1>3 DEF get

\* access has the file's size and makes room, leaves the file open, or fails.
LEMMA OpenStep ==
    ASSUME IInv, NEW w \in Worker, openFile(w)
    PROVE  IInv'
<1> DEFINE n == file[target[w]].len
           s == [i \in 1..n |-> Zero]
<1>1. /\ pc[w] = "open" /\ target[w] \in Page
      /\ target[w] = IF code[w] = 200 THEN req[w] ELSE ErrorPage(code[w])
      /\ UNCHANGED <<files, cache, buff, req, output>>
    BY DEF openFile, IInv, TypeOK, Accessing
<1>2. CASE accessFailed(w) /\ UNCHANGED <<text, rest>>
    BY <1>1, <1>2, AccessFailedStep DEF IInv, TypeOK
<1>3. CASE /\ file[target[w]] # Null
           /\ text' = [text EXCEPT ![w] = s] /\ rest' = [rest EXCEPT ![w] = n]
           /\ pc' = [pc EXCEPT ![w] = "read"] /\ UNCHANGED <<code, target, body>>
  <2>1. n \in 0..MaxLen
      BY <1>1, <1>3 DEF IInv, TypeOK, File
  <2> HIDE DEF n
  <2>2. s \in Text /\ Len(s) = n
      BY <2>1, TextOfZeros
  <2> HIDE DEF s
  <2>3. /\ text' \in [Worker -> Text] /\ rest' \in [Worker -> 0..MaxLen + 1]
        /\ text'[w] = s /\ rest'[w] = n
        /\ \A u \in Worker \ {w} : text'[u] = text[u] /\ rest'[u] = rest[u]
      BY <1>3, <2>1, <2>2, ResponderAssumption DEF IInv, TypeOK
  <2>4. TypeOK'
    <3>1. \A u \in Worker :
            /\ pc'[u] = "read" => rest'[u] <= Len(text'[u])
            /\ pc'[u] \in {"body", "write"} => rest'[u] <= length'[u]
        BY <1>1, <1>3, <2>1, <2>2, <2>3 DEF IInv, TypeOK, output
    <3> QED BY <1>1, <1>3, <2>3, <3>1 DEF IInv, TypeOK, files, output
  <2>5. CacheIntact' /\ AnswerFits' /\ Accessing'
      BY <1>1, <1>3 DEF IInv, TypeOK, CacheIntact, AnswerFits, Accessing
  <2>6. Reading'
    <3> SUFFICES ASSUME NEW u \in Worker, pc'[u] = "read"
                 PROVE  /\ file'[target'[u]] # Null
                        /\ \A i \in 1..Len(text'[u]) - rest'[u] :
                              text'[u][i][1] = target'[u] /\ text'[u][i][3] = i
        BY DEF Reading
    <3>1. CASE u = w
        BY <1>1, <1>3, <2>1, <2>2, <2>3, <3>1 DEF files
    <3>2. CASE u # w
        BY <1>1, <1>3, <2>3, <3>2 DEF IInv, TypeOK, Reading, files
    <3> QED BY <3>1, <3>2
  <2>7. BodyThere'
      BY <1>1, <1>3 DEF IInv, TypeOK, BodyThere, files
  <2>8. LengthKept' /\ Sending'
      BY <1>1, <1>3, <2>3 DEF IInv, TypeOK, LengthKept, Sending, output
  <2> QED BY <2>4, <2>5, <2>6, <2>7, <2>8 DEF IInv
<1>4. CASE /\ file[target[w]] # Null /\ Respond(w, target[w], Null)
           /\ UNCHANGED <<code, target, text, rest>>
  <2>1. /\ text' \in [Worker -> Text] /\ rest' \in [Worker -> 0..MaxLen + 1]
        /\ cache' \in [Page -> {Null} \cup Text] /\ CacheIntact'
      BY <1>1, <1>4 DEF IInv, TypeOK, CacheIntact
  <2> QED BY <1>1, <1>4, <2>1, Constants, RespondStep
<1> QED BY <1>2, <1>3, <1>4 DEF openFile, Goto, Set

\* readFile adds a block of the page to those read before.
LEMMA ReadStep ==
    ASSUME IInv, NEW w \in Worker, readFile(w)
    PROVE  IInv'
<1> DEFINE i == Len(text[w]) - rest[w] + 1
           b == FileBlock(target[w], i)
           s == [text[w] EXCEPT ![i] = b]
<1>1. /\ pc[w] = "read" /\ rest[w] > 0 /\ i <= file[target[w]].len
      /\ text' = [text EXCEPT ![w] = s]
      /\ rest' = [rest EXCEPT ![w] = rest[w] - 1]
      /\ UNCHANGED <<files, cache, buff, pc, req, code, target, body, output>>
    BY DEF readFile, Set
<1>2. /\ text[w] \in Text /\ Len(text[w]) \in Nat
      /\ rest[w] \in 1..Len(text[w]) /\ rest[w] - 1 \in 0..MaxLen + 1
      /\ i \in 1..Len(text[w])
    BY <1>1, TextProperties, ResponderAssumption DEF IInv, TypeOK
<1>3. b \in Block /\ b[1] = target[w] /\ b[3] = i
  <2>1. file[target[w]] \in File /\ target[w] \in Page
      BY <1>1 DEF IInv, TypeOK, Reading
  <2> HIDE DEF i
  <2> QED BY <1>1, <1>2, <2>1, ResponderAssumption DEF FileBlock, Block, File
<1> HIDE DEF b
<1>4. /\ s \in Text /\ Len(s) = Len(text[w])
      /\ \A j \in 1..Len(s) : s[j] = IF j = i THEN b ELSE text[w][j]
  <2> HIDE DEF i
  <2> QED BY <1>2, <1>3, TextExcept
<1> HIDE DEF s
<1>5. /\ text' \in [Worker -> Text] /\ rest' \in [Worker -> 0..MaxLen + 1]
      /\ text'[w] = s /\ rest'[w] = rest[w] - 1
      /\ \A u \in Worker \ {w} : text'[u] = text[u] /\ rest'[u] = rest[u]
    BY <1>1, <1>2, <1>4 DEF IInv, TypeOK
<1>6. TypeOK'
  <2>1. \A u \in Worker :
          /\ pc'[u] = "read" => rest'[u] <= Len(text'[u])
          /\ pc'[u] \in {"body", "write"} => rest'[u] <= length'[u]
      BY <1>1, <1>2, <1>4, <1>5 DEF IInv, TypeOK, output
  <2> QED BY <1>1, <1>5, <2>1 DEF IInv, TypeOK, files, output
<1>7. Reading'
  <2> SUFFICES ASSUME NEW u \in Worker, pc'[u] = "read"
               PROVE  /\ file'[target'[u]] # Null
                      /\ \A j \in 1..Len(text'[u]) - rest'[u] :
                            text'[u][j][1] = target'[u] /\ text'[u][j][3] = j
      BY DEF Reading
  <2>1. CASE u = w
    <3>1. /\ file[target[w]] # Null
          /\ \A j \in 1..i - 1 : text[w][j][1] = target[w] /\ text[w][j][3] = j
        BY <1>1, <1>2 DEF IInv, Reading
    <3>2. Len(text'[u]) - rest'[u] = i
        BY <1>2, <1>4, <1>5, <2>1
    <3> HIDE DEF i
    <3>3. \A j \in 1..i : s[j][1] = target[w] /\ s[j][3] = j
      <4> SUFFICES ASSUME NEW j \in 1..i PROVE s[j][1] = target[w] /\ s[j][3] = j
          OBVIOUS
      <4>1. j \in 1..Len(s)
          BY <1>2, <1>4
      <4>2. CASE j = i
          BY <1>3, <1>4, <4>1, <4>2
      <4>3. CASE j # i
        <5>1. j \in 1..i - 1
            BY <1>2, <4>3
        <5> QED BY <1>4, <3>1, <4>1, <4>3, <5>1
      <4> QED BY <4>2, <4>3
    <3> QED BY <1>1, <1>5, <2>1, <3>1, <3>2, <3>3 DEF files
  <2>2. CASE u # w
      BY <1>1, <1>5, <2>2 DEF IInv, TypeOK, Reading, files
  <2> QED BY <2>1, <2>2
<1>8. CacheIntact' /\ AnswerFits' /\ Accessing' /\ BodyThere'
    BY <1>1 DEF IInv, CacheIntact, AnswerFits, Accessing, BodyThere, files
<1>9. LengthKept' /\ Sending'
    BY <1>1, <1>5 DEF IInv, TypeOK, LengthKept, Sending, output
<1> QED BY <1>6, <1>7, <1>8, <1>9 DEF IInv

\* A read that fails drops what was read and answers with an error.
LEMMA AbortStep ==
    ASSUME IInv, NEW w \in Worker, readFileAborts(w)
    PROVE  IInv'
<1>1. /\ pc[w] = "read" /\ accessFailed(w)
      /\ text' = [text EXCEPT ![w] = <<>>] /\ rest' = [rest EXCEPT ![w] = 0]
      /\ UNCHANGED <<files, cache, buff, req, output>>
    BY DEF readFileAborts, Set
<1>2. /\ text' \in [Worker -> Text] /\ rest' \in [Worker -> 0..MaxLen + 1]
      /\ \A u \in Worker \ {w} : text'[u] = text[u] /\ rest'[u] = rest[u]
    BY <1>1, Constants, ResponderAssumption DEF IInv, TypeOK
<1> QED BY <1>1, <1>2, AccessFailedStep

\* What put stores is whole: there is nothing left to read.
LEMMA PutStep ==
    ASSUME IInv, NEW w \in Worker, put(w)
    PROVE  IInv'
<1>1. /\ pc[w] = "read" /\ rest[w] = 0 /\ Respond(w, target[w], text[w])
      /\ cache' = cache \/ cache' = [cache EXCEPT ![target[w]] = text[w]]
      /\ text' = [text EXCEPT ![w] = <<>>]
      /\ UNCHANGED <<files, buff, req, code, target, rest, output>>
    BY DEF put, Set
<1>2. /\ text[w] \in Text /\ target[w] \in Page /\ file[target[w]] # Null
      /\ target[w] = IF code[w] = 200 THEN req[w] ELSE ErrorPage(code[w])
      /\ target[w] # Null
    BY <1>1, Constants DEF IInv, TypeOK, Reading, Accessing
<1>3. \A i \in DOMAIN text[w] : text[w][i][1] = target[w] /\ text[w][i][3] = i
  <2>1. DOMAIN text[w] = 1..Len(text[w]) - rest[w]
      BY <1>1, <1>2, TextProperties
  <2> QED BY <1>1, <2>1 DEF IInv, Reading
<1>4. cache' \in [Page -> {Null} \cup Text] /\ CacheIntact'
  <2>1. cache' \in [Page -> {Null} \cup Text]
    <3>1. cache \in [Page -> {Null} \cup Text]
        BY DEF IInv, TypeOK
    <3>2. [cache EXCEPT ![target[w]] = text[w]] \in [Page -> {Null} \cup Text]
        BY <1>2, <3>1
    <3> QED BY <1>1, <3>1, <3>2
  <2>2. ASSUME NEW p \in Page, cache'[p] # Null, NEW i \in DOMAIN cache'[p]
        PROVE  cache'[p][i][1] = p /\ cache'[p][i][3] = i
    <3>1. CASE cache'[p] = cache[p]
        BY <2>2, <3>1 DEF IInv, CacheIntact
    <3>2. CASE p = target[w] /\ cache'[p] = text[w]
        BY <1>3, <2>2, <3>2
    <3> QED BY <1>1, <1>2, <3>1, <3>2 DEF IInv, TypeOK
  <2> QED BY <2>1, <2>2 DEF CacheIntact
<1>5. /\ text' \in [Worker -> Text] /\ rest' \in [Worker -> 0..MaxLen + 1]
      /\ \A u \in Worker \ {w} : text'[u] = text[u] /\ rest'[u] = rest[u]
    BY <1>1, Constants DEF IInv, TypeOK
<1> QED BY <1>1, <1>2, <1>4, <1>5, RespondStep

-----------------------------------------------------------------------------
(* response *)

\* A body has a length, and blocks up to it.
LEMMA BodyProperties ==
    ASSUME IInv, NEW w \in Worker, pc[w] \in {"line", "body", "write"}
    PROVE  /\ BodyLen(w) \in 0..MaxLen + 1
           /\ \A i \in 1..BodyLen(w) : BodyBlock(w, i) \in Block
<1>1. CASE body[w].text # Null
  <2>1. body[w].text \in Text
      BY <1>1 DEF IInv, TypeOK
  <2> QED BY <1>1, <2>1, TextProperties DEF BodyLen, BodyBlock
<1>2. CASE body[w].text = Null
  <2> DEFINE p == body[w].page
  <2>1. p \in Page /\ file[p] \in File
      BY <1>2 DEF IInv, TypeOK, BodyThere
  <2>2. BodyLen(w) = file[p].len /\ \A i : BodyBlock(w, i) = <<p, file[p].ver, i>>
      BY <1>2 DEF BodyLen, BodyBlock, FileBlock
  <2> HIDE DEF p
  <2> QED BY <2>1, <2>2, ResponderAssumption DEF File, Block
<1> QED BY <1>1, <1>2

\* Content-Length and the counter of the loop are the length of the body.
LEMMA HeadStep ==
    ASSUME IInv, NEW w \in Worker, genResponseHead(w)
    PROVE  IInv'
<1> DEFINE n == BodyLen(w)
<1>1. /\ pc[w] = "line" /\ pc' = [pc EXCEPT ![w] = "body"]
      /\ length' = [length EXCEPT ![w] = n] /\ rest' = [rest EXCEPT ![w] = n]
      /\ UNCHANGED <<files, cache, buff, req, code, access, sent, bad, mixed>>
      /\ n \in 0..MaxLen + 1
    BY BodyProperties DEF genResponseHead, Set, Goto
<1> HIDE DEF n
<1>2. TypeOK'
    BY <1>1, ResponderAssumption DEF IInv, TypeOK, files, access
<1>3. CacheIntact' /\ AnswerFits' /\ Accessing'
    BY <1>1 DEF IInv, TypeOK, CacheIntact, AnswerFits, Accessing, access
<1>4. Reading' /\ BodyThere'
    BY <1>1 DEF IInv, TypeOK, Reading, BodyThere, files, access
<1>5. LengthKept' /\ Sending'
    BY <1>1 DEF IInv, TypeOK, LengthKept, Sending
<1> QED BY <1>2, <1>3, <1>4, <1>5 DEF IInv

\* _output fails, or the body is all written: only the control moves on.
LEMMA EndStep ==
    ASSUME IInv, NEW w \in Worker, outputFails(w) \/ responded(w)
    PROVE  IInv'
<1>1. PICK label \in {"broken", "sent"} :
         /\ pc' = [pc EXCEPT ![w] = label]
         /\ label = "sent" => pc[w] = "body" /\ rest[w] = 0
         /\ UNCHANGED <<files, cache, buff, req, code, access, rest, output>>
    BY DEF outputFails, responded, Goto, Set
<1>2. TypeOK'
    BY <1>1 DEF IInv, TypeOK, files, access, output
<1>3. CacheIntact' /\ AnswerFits' /\ Accessing'
    BY <1>1 DEF IInv, TypeOK, CacheIntact, AnswerFits, Accessing, access
<1>4. Reading' /\ BodyThere'
    BY <1>1 DEF IInv, TypeOK, Reading, BodyThere, files, access
<1>5. LengthKept' /\ Sending'
    BY <1>1 DEF IInv, TypeOK, LengthKept, Sending, output
<1> QED BY <1>2, <1>3, <1>4, <1>5 DEF IInv

\* A block comes into the buffer.
LEMMA ReadBodyStep ==
    ASSUME IInv, NEW w \in Worker, readBody(w)
    PROVE  IInv'
<1>1. /\ pc[w] = "body" /\ rest[w] > 0 /\ pc' = [pc EXCEPT ![w] = "write"]
      /\ UNCHANGED <<files, cache, req, code, access, rest, output>>
    BY DEF readBody, Goto, Set
<1>2. buff' \in Block
  <2>1. length[w] - rest[w] + 1 \in Nat \ {0}
      BY <1>1, ResponderAssumption DEF IInv, TypeOK
  <2>2. \A i \in 1..BodyLen(w) : BodyBlock(w, i) \in Block
      BY <1>1, BodyProperties
  <2>3. BodyLen(w) \in Nat
      BY <1>1, BodyProperties, ResponderAssumption
  <2> QED BY <2>1, <2>2, <2>3 DEF readBody, IInv, TypeOK
<1>3. TypeOK'
    BY <1>1, <1>2 DEF IInv, TypeOK, files, access, output
<1>4. CacheIntact' /\ AnswerFits' /\ Accessing'
    BY <1>1 DEF IInv, TypeOK, CacheIntact, AnswerFits, Accessing, access
<1>5. Reading' /\ BodyThere'
    BY <1>1 DEF IInv, TypeOK, Reading, BodyThere, files, access
<1>6. LengthKept' /\ Sending'
    BY <1>1 DEF IInv, TypeOK, LengthKept, Sending, output
<1> QED BY <1>3, <1>4, <1>5, <1>6 DEF IInv

\* A body that cannot be read on keeps its length.
LEMMA ReadBodyFailsStep ==
    ASSUME IInv, NEW w \in Worker, readBodyFails(w)
    PROVE  IInv'
<1>1. /\ bad' = [bad EXCEPT ![w] = TRUE] /\ buff' = Zero
      /\ UNCHANGED <<files, cache, pc, req, code, access, rest, length, sent, mixed>>
    BY DEF readBodyFails, Set
<1>2. bad' \in [Worker -> BOOLEAN]
    BY <1>1, Zenon DEF IInv, TypeOK
<1>3. TypeOK'
    BY <1>1, <1>2, Constants DEF IInv, TypeOK, files, access
<1> QED BY <1>1, <1>3 DEF IInv, CacheIntact, AnswerFits, LengthKept, Accessing, Reading,
           BodyThere, Sending, files, access

\* A block is written: what was sent and what is left still make up the length.
LEMMA WriteStep ==
    ASSUME IInv, NEW w \in Worker, writeBody(w)
    PROVE  IInv'
<1>1. /\ pc[w] = "write" /\ pc' = [pc EXCEPT ![w] = "body"]
      /\ sent' = [sent EXCEPT ![w] = sent[w] + 1]
      /\ rest' = [rest EXCEPT ![w] = rest[w] - 1]
      /\ buff' \in {buff, Zero}
      /\ UNCHANGED <<files, cache, req, code, access, length, bad>>
    BY DEF writeBody, Goto, Set
<1>2. mixed' \in [Worker -> BOOLEAN]
  <2>1. mixed' = [mixed EXCEPT ![w] = mixed[w] \/ ~Own(w, sent[w] + 1)]
      BY DEF writeBody, Set
  <2>2. mixed \in [Worker -> BOOLEAN]
      BY DEF IInv, TypeOK
  <2>3. (mixed[w] \/ ~Own(w, sent[w] + 1)) \in BOOLEAN
      BY Zenon
  <2> QED BY <2>1, <2>2, <2>3, Zenon
<1>3. rest[w] \in 1..MaxLen + 1 /\ sent[w] \in Nat
    BY <1>1, ResponderAssumption DEF IInv, TypeOK, Sending
<1>4. TypeOK'
  <2>1. /\ rest' \in [Worker -> 0..MaxLen + 1] /\ sent' \in [Worker -> Nat]
      BY <1>1, <1>3, ResponderAssumption DEF IInv, TypeOK
  <2>2. \A u \in Worker :
          /\ pc'[u] = "read" => rest'[u] <= Len(text'[u])
          /\ pc'[u] \in {"body", "write"} => rest'[u] <= length'[u]
      BY <1>1, <1>3, ResponderAssumption DEF IInv, TypeOK, access
  <2> QED BY <1>1, <1>2, <2>1, <2>2, Constants DEF IInv, TypeOK, files, access
<1>5. CacheIntact' /\ AnswerFits' /\ Accessing'
    BY <1>1 DEF IInv, TypeOK, CacheIntact, AnswerFits, Accessing, access
<1>6. Reading' /\ BodyThere'
    BY <1>1 DEF IInv, TypeOK, Reading, BodyThere, files, access
<1>7. LengthKept' /\ Sending'
    BY <1>1, <1>3 DEF IInv, TypeOK, LengthKept, Sending
<1> QED BY <1>4, <1>5, <1>6, <1>7 DEF IInv

\* The next request starts with nothing left over of the last one.
LEMMA NextRequestStep ==
    ASSUME IInv, NEW w \in Worker, next(w)
    PROVE  IInv'
<1>1. /\ pc' = [pc EXCEPT ![w] = "idle"] /\ req' = [req EXCEPT ![w] = "unmapped"]
      /\ code' = [code EXCEPT ![w] = 404] /\ target' = [target EXCEPT ![w] = Page404]
      /\ body' = [body EXCEPT ![w] = NoBody] /\ rest' = [rest EXCEPT ![w] = 0]
      /\ length' = [length EXCEPT ![w] = 0] /\ sent' = [sent EXCEPT ![w] = 0]
      /\ UNCHANGED <<files, cache, buff, text>>
    BY DEF next, Goto, Set
<1>2. bad' \in [Worker -> BOOLEAN] /\ mixed' \in [Worker -> BOOLEAN]
  <2>1. bad' = [bad EXCEPT ![w] = FALSE] /\ mixed' = [mixed EXCEPT ![w] = FALSE]
      BY DEF next, Set
  <2> QED BY <2>1, Zenon DEF IInv, TypeOK
<1>3. TypeOK'
  <2>1. /\ req' \in [Worker -> Request] /\ target' \in [Worker -> Page]
        /\ body' \in [Worker -> [page : Page \cup {Null}, text : {Null} \cup Text]]
      BY <1>1, Constants DEF IInv, TypeOK, Request
  <2>2. /\ rest' \in [Worker -> 0..MaxLen + 1] /\ sent' \in [Worker -> Nat]
        /\ length' \in [Worker -> 0..MaxLen + 1]
      BY <1>1, ResponderAssumption DEF IInv, TypeOK
  <2> QED BY <1>1, <1>2, <2>1, <2>2 DEF IInv, TypeOK, files
<1>4. CacheIntact' /\ AnswerFits' /\ Accessing'
    BY <1>1 DEF IInv, TypeOK, CacheIntact, AnswerFits, Accessing
<1>5. Reading' /\ BodyThere'
  <2>1. pc'[w] = "idle" /\ UNCHANGED file
      BY <1>1 DEF IInv, TypeOK, files
  <2>2. \A u \in Worker \ {w} :
           /\ pc'[u] = pc[u] /\ target'[u] = target[u] /\ body'[u] = body[u]
           /\ text'[u] = text[u] /\ rest'[u] = rest[u]
      BY <1>1 DEF IInv, TypeOK
  <2>3. Reading'
      BY <2>1, <2>2 DEF IInv, Reading
  <2>4. BodyThere'
      BY <2>1, <2>2 DEF IInv, BodyThere
  <2> QED BY <2>3, <2>4
<1>6. LengthKept' /\ Sending'
    BY <1>1 DEF IInv, TypeOK, LengthKept, Sending
<1> QED BY <1>3, <1>4, <1>5, <1>6 DEF IInv

-----------------------------------------------------------------------------
\* The inductive invariant of the responder holds in every reachable state.
THEOREM Inductive == Spec => []IInv
<1>1. IInv /\ [Next]_vars => IInv'
  <2> SUFFICES ASSUME IInv, [Next]_vars PROVE IInv'
      OBVIOUS
  <2>1. ASSUME NEW w \in Worker, Answering(w)
        PROVE  IInv'
      BY <2>1, RequestStep, GetStep, OpenStep, ReadStep, AbortStep, PutStep, HeadStep,
         EndStep, ReadBodyStep, ReadBodyFailsStep, WriteStep, NextRequestStep
         DEF Answering
  <2>2. CASE UNCHANGED vars
      BY <2>2 DEF vars, files, access, output, IInv, TypeOK, CacheIntact, AnswerFits,
         LengthKept, Accessing, Reading, BodyThere, Sending
  <2> QED BY <2>1, <2>2, EditStep DEF Next
<1> QED BY <1>1, InitInvariant, PTL DEF Spec

\* Every variable keeps its type; neither loop, of access or of genResponseBody,
\* has more to do than was measured.
THEOREM TypeCorrect == Spec => []TypeOK
<1>1. IInv => TypeOK
    BY DEF IInv
<1> QED BY <1>1, Inductive, PTL

\* CachedResourceAccessor puts only whole pages into the cache, under their own
\* names, whatever other workers and the editors of the files do meanwhile.
THEOREM CacheStaysIntact == Spec => []CacheIntact
<1>1. IInv => CacheIntact
    BY DEF IInv
<1> QED BY <1>1, Inductive, PTL

\* getResponseFromRequest answers 200 with the page asked for, an error with the
\* error's page or the default page, whichever access fails.
THEOREM AnswersFit == Spec => []AnswerFits
<1>1. IInv => AnswerFits
    BY DEF IInv
<1> QED BY <1>1, Inductive, PTL

\* genResponseBody sends exactly what Content-Length announced.
THEOREM LengthIsKept == Spec => []LengthKept
<1>1. IInv => LengthKept
    BY DEF IInv
<1> QED BY <1>1, Inductive, PTL
=============================================================================
