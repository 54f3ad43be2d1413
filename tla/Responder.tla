------------------------------ MODULE Responder ------------------------------
(***************************************************************************)
(* How a worker answers one request: the status code, the resource from    *)
(* the Redis cache or from its file, and the body, block by block.         *)
(*                                                                         *)
(* Sources: HttpUtils/HttpResponse.cc, HttpUtils/ResourceAccessor.cc,      *)
(* HttpUtils/Router.cc.                                                    *)
(*                                                                         *)
(* A resource is a sequence of blocks of BFSIZE bytes.  Block i of version *)
(* v of page p is <<p, v, i>>.  Files are edited in place while they are   *)
(* read.  Of RedisCache (module RedisPool) only the outcome matters: get   *)
(* and put may fail at any time.                                           *)
(***************************************************************************)
EXTENDS Integers, Sequences

CONSTANTS
    Worker,     \* the threads that answer requests
    Uri,        \* the pages Router::__uriMapper names
    Page404,    \* the pages of Router::__errMapper
    Page500,
    MaxLen,     \* bound: blocks in a file
    MaxVal,     \* RedisCache::MAX_VAL_LEN, in blocks: a cached value is shorter
                \* (0 if there is no cache)
    MaxEdits,   \* bound: edits of files
    Null        \* no page, no entry, no file

ASSUME ResponderAssumption ==
    /\ MaxLen \in Nat /\ MaxVal \in Nat /\ MaxEdits \in Nat
    /\ Page404 # Page500 /\ {Page404, Page500} \cap Uri = {}
    /\ Null \notin Uri \cup {Page404, Page500}

Page == Uri \cup {Page404, Page500}

\* Requests: for a page, or one of the three kinds that have none.
Request == Uri \cup {"version", "method", "unmapped"}

File == [ver : 0..MaxEdits, len : 0..MaxLen]
Block == (Page \cup {Null}) \X (0..MaxEdits) \X (0..MaxLen + 1)
Zero == <<Null, 0, 0>>          \* a block of zeros
DefaultPage == <<<<Null, 0, 1>>>>
NoBody == [page |-> Null, text |-> <<>>]

\* What is in a string.
Text == {s \in Seq(Block) : Len(s) <= MaxLen + 1}

ASSUME NullAssumption == Null # DefaultPage /\ Null \notin File

VARIABLES
    file,    \* the files: version and length, or Null
    edits,   \* how many edits there were
    cache,   \* the values in Redis, or Null
    buff,    \* _local_static_buff of HttpResponse.cc, shared by all threads
    pc,      \* the threads, in getResponseFromRequest and response
    req,     \* _request
    code,    \* code
    target,  \* the page being accessed
    text,    \* the string resource in CachedResourceAccessor::access
    rest,    \* rest, in access and in genResponseBody
    body,    \* the body: its page, and its text or Null for an open file
    bad,     \* body->fail()
    length,  \* the value of Content-Length
    sent,    \* how many blocks of the body were written to _output
    mixed    \* history: one of them was not the body's

files  == <<file, edits>>
access == <<target, text, body>>
output == <<length, sent, bad, mixed>>
vars == <<files, cache, buff, pc, req, code, access, rest, output>>

Set(f, w, value) == [f EXCEPT ![w] = value]
Goto(w, label) == pc' = Set(pc, w, label)

-----------------------------------------------------------------------------
(* Files, edited by somebody else *)

Edit(p) ==
    /\ edits < MaxEdits /\ file[p] # Null
    /\ edits' = edits + 1
    /\ \E n \in 0..MaxLen : file' = Set(file, p, [ver |-> edits', len |-> n])
    /\ UNCHANGED <<cache, buff, pc, req, code, access, rest, output>>

FileBlock(p, i) == <<p, file[p].ver, i>>

-----------------------------------------------------------------------------
(* HttpResponsor::getResponseFromRequest *)

\* Router::operator[](statecode_t)
ErrorPage(c) == CASE c = 404 -> Page404 [] c = 500 -> Page500 [] OTHER -> Null

\* The body of w is the text s of page p, or p's open file; response begins.
Respond(w, p, s) ==
    /\ body' = Set(body, w, [page |-> p, text |-> s])
    /\ Goto(w, "line")

\* The error page of code c: from its file, or the default page
FailWith(w, c) ==
    /\ code' = Set(code, w, c)
    /\ IF ErrorPage(c) # Null
       THEN /\ target' = Set(target, w, ErrorPage(c))
            /\ Goto(w, "get") /\ UNCHANGED body
       ELSE Respond(w, Null, DefaultPage) /\ UNCHANGED target

getResponseFromRequest(w) ==
    /\ pc[w] = "idle"
    /\ \E q \in Request :
         /\ req' = Set(req, w, q)
         /\ CASE q = "version"  -> FailWith(w, 505)
              [] q = "method"   -> FailWith(w, 501)
              [] q = "unmapped" -> FailWith(w, 404)
              [] OTHER -> /\ code' = Set(code, w, 200)
                          /\ target' = Set(target, w, q)
                          /\ Goto(w, "get") /\ UNCHANGED body
    /\ UNCHANGED <<files, cache, buff, text, rest, output>>

\* The error page is looked up and sent under the code 200.
accessFailedKeepsCode(w) ==
    IF code[w] = 200
    THEN /\ target' = Set(target, w, Page500) /\ Goto(w, "get")
         /\ UNCHANGED <<code, body>>
    ELSE Respond(w, Null, DefaultPage) /\ UNCHANGED <<code, target>>

\* access has returned an error: 500 if it was for the page itself, the default
\* page if it was for the error page
accessFailed(w) ==
    IF code[w] = 200 THEN FailWith(w, 500)
    ELSE Respond(w, Null, DefaultPage) /\ UNCHANGED <<code, target>>

-----------------------------------------------------------------------------
(* CachedResourceAccessor::access and FileAccessor::access *)

get(w) ==
    /\ pc[w] = "get"
    /\ \/ /\ cache[target[w]] # Null
          /\ Respond(w, target[w], cache[target[w]])
       \/ Goto(w, "open") /\ UNCHANGED body
    /\ UNCHANGED <<files, cache, buff, req, code, target, text, rest, output>>

\* One block more than the file has is waited for.
openFileOffByOne(w) ==
    LET n == file[target[w]].len IN
    /\ pc[w] = "open"
    /\ \/ accessFailed(w) /\ UNCHANGED <<text, rest>>
       \/ /\ file[target[w]] # Null
          /\ n < MaxVal
          /\ text' = Set(text, w, [i \in 1..n |-> Zero])
          /\ rest' = Set(rest, w, n + 1)
          /\ Goto(w, "read") /\ UNCHANGED <<code, target, body>>
       \/ /\ file[target[w]] # Null
          /\ n >= MaxVal
          /\ Respond(w, target[w], Null)
          /\ UNCHANGED <<code, target, text, rest>>
    /\ UNCHANGED <<files, cache, buff, req, output>>

\* The file is opened, and its size taken, if it is there and a descriptor is
\* free.  What fits into the cache is read first.
openFile(w) ==
    LET n == file[target[w]].len IN
    /\ pc[w] = "open"
    /\ \/ accessFailed(w) /\ UNCHANGED <<text, rest>>
       \/ /\ file[target[w]] # Null
          /\ n < MaxVal
          /\ text' = Set(text, w, [i \in 1..n |-> Zero])
          /\ rest' = Set(rest, w, n)
          /\ Goto(w, "read") /\ UNCHANGED <<code, target, body>>
       \/ /\ file[target[w]] # Null
          /\ n >= MaxVal
          /\ Respond(w, target[w], Null)
          /\ UNCHANGED <<code, target, text, rest>>
    /\ UNCHANGED <<files, cache, buff, req, output>>

\* readsome takes the next block.  At the end of a file that has become shorter
\* it returns 0 and no error: the loop goes round without progress.
readFile(w) ==
    LET i == Len(text[w]) - rest[w] + 1 IN
    /\ pc[w] = "read" /\ rest[w] > 0
    /\ i <= file[target[w]].len
    /\ text' = [text EXCEPT ![w][i] = FileBlock(target[w], i)]
    /\ rest' = Set(rest, w, rest[w] - 1)
    /\ UNCHANGED <<files, cache, buff, pc, req, code, target, body, output>>

\* What was read so far is put into the cache.
readFileAbortsCached(w) ==
    /\ pc[w] = "read" /\ rest[w] > 0
    /\ cache' = Set(cache, target[w], text[w])
    /\ accessFailed(w)
    /\ text' = Set(text, w, <<>>) /\ rest' = Set(rest, w, 0)
    /\ UNCHANGED <<files, buff, req, output>>

\* in->fail(): FILE_READ_ABORT
readFileAborts(w) ==
    /\ pc[w] = "read" /\ rest[w] > 0
    /\ accessFailed(w)
    /\ text' = Set(text, w, <<>>) /\ rest' = Set(rest, w, 0)
    /\ UNCHANGED <<files, cache, buff, req, output>>

\* __cache->put(path, resource), successful or not
put(w) ==
    /\ pc[w] = "read" /\ rest[w] = 0
    /\ cache' \in {cache, Set(cache, target[w], text[w])}
    /\ Respond(w, target[w], text[w])
    /\ text' = Set(text, w, <<>>)
    /\ UNCHANGED <<files, buff, req, code, target, rest, output>>

-----------------------------------------------------------------------------
(* HttpResponsor::response *)

BodyLen(w) == IF body[w].text # Null THEN Len(body[w].text)
              ELSE file[body[w].page].len
BodyBlock(w, i) == IF body[w].text # Null THEN body[w].text[i]
                   ELSE FileBlock(body[w].page, i)

\* The response line, Content-Length and the headers.
genResponseHead(w) ==
    /\ pc[w] = "line"
    /\ length' = Set(length, w, BodyLen(w))
    /\ rest' = Set(rest, w, BodyLen(w))
    /\ Goto(w, "body")
    /\ UNCHANGED <<files, cache, buff, req, code, access, sent, bad, mixed>>

\* _output fails, the body cannot be measured, or a write of the body fails:
\* the connection is given up.
outputFails(w) ==
    /\ pc[w] \in {"line", "write"}
    /\ Goto(w, "broken")
    /\ UNCHANGED <<files, cache, buff, req, code, access, rest, output>>

\* One turn of the loop of genResponseBody, up to write: the next block comes
\* into the static buffer, or, after a failure, the buffer is sent as it is.
readBody(w) ==
    LET i == length[w] - rest[w] + 1 IN
    /\ pc[w] = "body" /\ rest[w] > 0
    /\ \/ /\ ~bad[w] /\ i <= BodyLen(w)
          /\ buff' = BodyBlock(w, i)
       \/ bad[w] /\ UNCHANGED buff
    /\ Goto(w, "write")
    /\ UNCHANGED <<files, cache, req, code, access, rest, output>>

\* The response ends where the body cannot be read on.
readBodyFailsBreaks(w) ==
    /\ pc[w] = "body" /\ rest[w] > 0 /\ ~bad[w]
    /\ body[w].text = Null
    /\ Goto(w, "sent")
    /\ UNCHANGED <<files, cache, buff, req, code, access, rest, output>>

\* A file that cannot be read on: the buffer is zeroed and the rest is padding.
readBodyFails(w) ==
    /\ pc[w] = "body" /\ rest[w] > 0 /\ ~bad[w]
    /\ body[w].text = Null
    /\ bad' = Set(bad, w, TRUE)
    /\ buff' = Zero
    /\ UNCHANGED <<files, cache, pc, req, code, access, rest, length, sent,
                   mixed>>

\* The static buffer holds block i of the body, or padding after a failure.
Own(w, i) ==
    \/ buff[1] = body[w].page /\ buff[3] = i
    \/ buff = Zero /\ bad[w]

\* _output.write of the static buffer; after a failure it is zeroed once more.
writeBody(w) ==
    /\ pc[w] = "write"
    /\ sent' = Set(sent, w, sent[w] + 1)
    /\ mixed' = Set(mixed, w, mixed[w] \/ ~Own(w, sent[w] + 1))
    /\ rest' = Set(rest, w, rest[w] - 1)
    /\ buff' = IF rest'[w] > 0 /\ bad[w] THEN Zero ELSE buff
    /\ Goto(w, "body")
    /\ UNCHANGED <<files, cache, req, code, access, length, bad>>

responded(w) ==
    /\ pc[w] = "body" /\ rest[w] = 0
    /\ Goto(w, "sent")
    /\ UNCHANGED <<files, cache, buff, req, code, access, rest, output>>

\* IOEventHandler::handle goes on to the next request, of this connection or, if
\* the output has failed, of another one; this one's variables are gone.
next(w) ==
    /\ pc[w] \in {"sent", "broken"}
    /\ Goto(w, "idle")
    /\ req' = Set(req, w, "unmapped") /\ code' = Set(code, w, 404)
    /\ target' = Set(target, w, Page404) /\ body' = Set(body, w, NoBody)
    /\ rest' = Set(rest, w, 0) /\ bad' = Set(bad, w, FALSE)
    /\ length' = Set(length, w, 0)
    /\ sent' = Set(sent, w, 0) /\ mixed' = Set(mixed, w, FALSE)
    /\ UNCHANGED <<files, cache, buff, text>>

-----------------------------------------------------------------------------
Init ==
    /\ file \in [Page -> {Null, [ver |-> 0, len |-> MaxLen]}]
    /\ edits = 0
    /\ cache = [p \in Page |-> Null]
    /\ buff = Zero
    /\ pc = [w \in Worker |-> "idle"]
    /\ req = [w \in Worker |-> "unmapped"]
    /\ code = [w \in Worker |-> 404]
    /\ target = [w \in Worker |-> Page404]
    /\ text = [w \in Worker |-> <<>>]
    /\ rest = [w \in Worker |-> 0]
    /\ body = [w \in Worker |-> NoBody]
    /\ bad = [w \in Worker |-> FALSE]
    /\ length = [w \in Worker |-> 0]
    /\ sent = [w \in Worker |-> 0]
    /\ mixed = [w \in Worker |-> FALSE]

Answering(w) ==
    \/ getResponseFromRequest(w) \/ get(w) \/ openFile(w)
    \/ readFile(w) \/ readFileAborts(w) \/ put(w)
    \/ genResponseHead(w) \/ outputFails(w)
    \/ readBody(w) \/ readBodyFails(w) \/ writeBody(w)
    \/ responded(w) \/ next(w)

Next == (\E p \in Page : Edit(p)) \/ \E w \in Worker : Answering(w)

Spec == Init /\ [][Next]_vars

-----------------------------------------------------------------------------
(* Properties *)

\* Every variable keeps its type; what is left to read or write never exceeds
\* what was measured.
TypeOK ==
    /\ file \in [Page -> {Null} \cup File] /\ edits \in 0..MaxEdits
    /\ cache \in [Page -> {Null} \cup Text]
    /\ buff \in Block
    /\ pc \in [Worker -> {"idle", "get", "open", "read", "line", "body",
                          "write", "sent", "broken"}]
    /\ req \in [Worker -> Request]
    /\ code \in [Worker -> {200, 404, 500, 501, 505}]
    /\ target \in [Worker -> Page]
    /\ text \in [Worker -> Text]
    /\ rest \in [Worker -> 0..MaxLen + 1]
    /\ body \in [Worker -> [page : Page \cup {Null}, text : {Null} \cup Text]]
    /\ length \in [Worker -> 0..MaxLen + 1] /\ sent \in [Worker -> Nat]
    /\ bad \in [Worker -> BOOLEAN] /\ mixed \in [Worker -> BOOLEAN]
    /\ \A w \in Worker :
         /\ pc[w] = "read" => rest[w] <= Len(text[w])
         /\ pc[w] \in {"body", "write"} => rest[w] <= length[w]

\* A value in the cache is a whole page, the one it is filed under: no block
\* of another page or worker, and none that was never read, although several
\* workers read, fail and put at the same time.
CacheIntact ==
    \A p \in Page : cache[p] # Null =>
        \A i \in DOMAIN cache[p] : cache[p][i][1] = p /\ cache[p][i][3] = i

\* The answer fits its code: 200 comes with the page that was asked for, an
\* error with its own page or the default page.
AnswerFits ==
    \A w \in Worker : pc[w] \in {"line", "body", "write", "sent"} =>
        IF code[w] = 200 THEN body[w].page = req[w]
        ELSE body[w].page \in {Null, ErrorPage(code[w])}

\* A response that ends as it should has a body of exactly the announced
\* length, even if its file was edited or could not be read to the end.
LengthKept ==
    \A w \in Worker : pc[w] = "sent" => sent[w] = length[w]

\* "Sends back the resource that belongs to the URI": every block a client gets
\* is the block of its own body, or zero padding after a failure.
BodyIntact == \A w \in Worker : ~mixed[w]

-----------------------------------------------------------------------------
(* The inductive invariant *)

\* While a page is accessed, it is the one the answer needs.
Accessing ==
    \A w \in Worker : pc[w] \in {"get", "open", "read"} =>
        target[w] = IF code[w] = 200 THEN req[w] ELSE ErrorPage(code[w])

\* What access has read so far are the first blocks of its page.
Reading ==
    \A w \in Worker : pc[w] = "read" =>
        /\ file[target[w]] # Null
        /\ \A i \in 1..Len(text[w]) - rest[w] :
              text[w][i][1] = target[w] /\ text[w][i][3] = i

\* A body without text is an open file.
BodyThere ==
    \A w \in Worker : pc[w] \in {"line", "body", "write"} /\ body[w].text = Null
        => body[w].page # Null /\ file[body[w].page] # Null

\* What was written and what is left make up the announced length.
Sending ==
    \A w \in Worker :
        /\ pc[w] \in {"idle", "get", "open", "read", "line"} => sent[w] = 0
        /\ pc[w] \in {"body", "write"} => sent[w] + rest[w] = length[w]
        /\ pc[w] = "write" => rest[w] > 0

IInv == /\ TypeOK /\ CacheIntact /\ AnswerFits /\ LengthKept
        /\ Accessing /\ Reading /\ BodyThere /\ Sending
=============================================================================
