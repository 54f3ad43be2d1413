----------------------------- MODULE Connection -----------------------------
(***************************************************************************)
(* One connection in the hands of IOEventHandler::handle: requests are     *)
(* parsed from its input stream and answered on its output stream until    *)
(* the input ends.                                                         *)
(*                                                                         *)
(* Sources: HttpUtils/HttpRequest.cc, HttpUtils/HttpConfig.cc,             *)
(* IOEventHandler.cc, over module SocketStream.                            *)
(*                                                                         *)
(* The client sends well-formed requests, one after the other; where its   *)
(* bytes are cut into segments is open.  A word of the request line is one *)
(* byte; keys and values have any length: a request can be cut at every    *)
(* place at which the parser behaves differently.  The answer to the i-th  *)
(* request is a number of bytes <<i, 1>>, <<i, 2>>, ...; what it says is   *)
(* module Responder's matter.                                              *)
(***************************************************************************)
EXTENDS SocketStream, SequencesExt, TLC

CONSTANTS
    Char,      \* the characters; a word of the request line counts as one
    Scripts,   \* the sequences of requests a client may send
    AnswerLens \* the numbers of bytes an answer may have

\* An answer has at least its response line.
ASSUME AnswerAssumption == AnswerLens \subseteq Nat \ {0}

VARIABLES
    script,   \* the requests of this client ...
    unsent,   \* ... and the bytes of them it has yet to send
    pc,       \* the worker's thread, in IOEventHandler::handle
    cur,      \* the word or the header line being read
    req,      \* the HttpRequest being built
    need,     \* rest, in parseBody
    put,      \* bytes of the answer given to the ostream
    taken     \* history: the accepted requests, with the length of their answers

client == <<script, unsent>>
parser == <<cur, req, need, taken>>
vars == <<input, output, client, pc, parser, put>>

-----------------------------------------------------------------------------
(* Requests *)

Blank == " "
IsSpace(c) == c \in {Blank, "\r", "\n"}

\* std::stoul on the values that occur.  It throws on a value that is no number or is
\* out of range, and the process ends; WellFormed leaves such requests out.
stoul == [v \in {<<"1">>, <<"2">>} |-> IF v = <<"1">> THEN 1 ELSE 2]
Content_Length == <<"C", "l">>
Host == <<"H", "o">>

requestBodyLength(header) ==
    IF Content_Length \in DOMAIN header THEN stoul[header[Content_Length]] ELSE 0

\* A request as the client means it: two words (the URI is the same in all), a sequence
\* of header fields <<key, value>> with different keys, and a body of the length they
\* announce.
HeaderOf(fields) ==
    [k \in {fields[i][1] : i \in DOMAIN fields} |->
        fields[CHOOSE i \in DOMAIN fields : fields[i][1] = k][2]]

FieldText(f) == f[1] \o <<":", Blank>> \o f[2] \o <<"\r", "\n">>

Text(r) ==
    <<r.method, Blank, "/", Blank, r.version, "\r", "\n">>
    \o FlattenSeq([i \in DOMAIN r.fields |-> FieldText(r.fields[i])])
    \o <<"\r", "\n">> \o [i \in 1..requestBodyLength(HeaderOf(r.fields)) |-> "b"]

\* A key has no colon, a value does not begin with a blank, and no line is broken.
WellFormed(r) ==
    /\ ~IsSpace(r.method) /\ ~IsSpace(r.version)
    /\ \A i, j \in DOMAIN r.fields :
          LET key == r.fields[i][1]
              value == r.fields[i][2]
          IN /\ value # <<>> => value[1] # Blank
             /\ key = Content_Length => value \in DOMAIN stoul
             /\ key = r.fields[j][1] => i = j

Requests ==
    {r \in [method : Char, version : Char,
            fields : Seq(Seq(Char \ {":", "\n"}) \X Seq(Char \ {"\n"}))] :
        WellFormed(r)}

ASSUME ScriptAssumption ==
    /\ {Blank, "/", ":", "\r", "\n", "b"} \subseteq Char
    /\ Scripts \subseteq Seq(Requests)

Methods == {"GET", "HEAD", "POST", "PUT", "DELETE", "CONNECT", "OPTIONS", "TRACE",
            "PATCH"}
toRequestMethod(s) == IF s \in Methods THEN s ELSE "UNKNOWN_REQUEST_METHOD"

Versions == {"HTTP/1.0", "HTTP/1.1"}
toHttpVersion(s) == IF s \in Versions THEN s ELSE "UNKNOWN_HTTP_VERSION"

\* HttpRequest::HttpRequest
NewRequest == [method |-> toRequestMethod(""), version |-> toHttpVersion(""),
               header |-> <<>>, body |-> 0]

\* __header[_k] = _v
setHeader(r, k, v) ==
    [r EXCEPT !.header = [x \in DOMAIN @ \cup {k} |-> IF x = k THEN v ELSE @[x]]]

-----------------------------------------------------------------------------
(* The client *)

Arrive ==
    /\ unsent # <<>> /\ pc \notin {"done", "terminated"}
    /\ arrived' = Append(arrived, Head(unsent))
    /\ unsent' = Tail(unsent)
    /\ UNCHANGED <<gbuf, eof, output, script, pc, parser, put>>

-----------------------------------------------------------------------------
(* IOEventHandler::handle *)

\* epoll_wait has reported the connection.
handle ==
    /\ pc = "idle" /\ arrived # <<>>
    /\ pc' = "method"
    /\ UNCHANGED <<input, output, client, parser, put>>

\* The loop ends only when the client has sent everything.
AgainOn == pc' = "method"

\* while (!in->eof())
Again == pc' = IF eof THEN "delete" ELSE "method"

\* getOneHttpRequest returns an error: the request is logged and dropped.
Error == Again /\ req' = NewRequest /\ cur' = <<>> /\ need' = 0

Receive ==
    /\ pc \in {"method", "uri", "version", "cr", "lf", "head"}
    /\ underflow
    /\ UNCHANGED <<output, client, pc, parser, put>>

-----------------------------------------------------------------------------
(* HttpRequestAnalyser *)

\* _input >> word: white space is skipped and the word ends before the next one,
\* or where the input ends.
ReadWord ==
    /\ pc \in {"method", "uri", "version"}
    /\ gbuf # <<>> /\ (IsSpace(Head(gbuf)) => cur = <<>>)
    /\ cur' = IF IsSpace(Head(gbuf)) THEN cur ELSE Append(cur, Head(gbuf))
    /\ GetChar
    /\ UNCHANGED <<output, client, pc, req, need, taken, put>>

WordRead == cur # <<>> /\ (eof \/ (gbuf # <<>> /\ IsSpace(Head(gbuf))))

parseLine ==
    /\ WordRead
    /\ \/ /\ pc = "method" /\ pc' = "uri"
          /\ req' = [req EXCEPT !.method = toRequestMethod(Head(cur))]
       \/ pc = "uri" /\ pc' = "version" /\ UNCHANGED req
       \/ /\ pc = "version" /\ pc' = "cr"
          /\ req' = [req EXCEPT !.version = toHttpVersion(Head(cur))]
    /\ cur' = <<>>
    /\ UNCHANGED <<input, output, client, need, taken, put>>

\* Nothing can be read any more: a word, a terminator or a line is missing.
InputEnds ==
    /\ pc \in {"method", "uri", "version", "cr", "lf", "head"}
    /\ eof /\ cur = <<>>
    /\ Error
    /\ UNCHANGED <<input, output, client, taken, put>>

skipTerminateCH ==
    /\ gbuf # <<>> /\ GetChar
    /\ \/ pc = "cr" /\ IF NextIs("\r") THEN pc' = "lf" /\ UNCHANGED <<req, cur, need>>
                       ELSE Error
       \/ pc = "lf" /\ IF NextIs("\n") THEN pc' = "head" /\ UNCHANGED <<req, cur, need>>
                       ELSE Error
    /\ UNCHANGED <<output, client, taken, put>>

\* One line without its '\n', as parseHead treats it: the carriage return is taken off
\* unseen, the value begins at the first character behind the colon that is no blank,
\* and value = cur.substr(tok) throws if the colon was the last character.
Colon(line) == SelectInSeq(line, LAMBDA c : c = ":")

Value(line) ==
    LET slen == Len(line) - 1
        tok == Min({i \in Colon(line) + 1..slen + 1 : i <= slen => line[i] # Blank})
    IN SubSeq(line, tok, slen)

HeaderLine(line) ==
    CASE Len(line) = 1 ->            \* the blank line: "\r"
           /\ pc' = "body"
           /\ need' = requestBodyLength(req.header)
           /\ cur' = <<>> /\ UNCHANGED req
      [] Len(line) # 1 /\ Colon(line) = 0 -> Error
      [] Len(line) # 1 /\ Colon(line) = Len(line) ->
           pc' = "terminated" /\ UNCHANGED <<req, cur, need>>
      [] OTHER ->
           /\ req' = setHeader(req, SubSeq(line, 1, Colon(line) - 1), Value(line))
           /\ cur' = <<>> /\ UNCHANGED <<pc, need>>

\* getline(_input, cur, '\n'): the '\n' is taken off the stream; where the input
\* ends a line that is not empty is taken for complete.
ReadLine ==
    /\ pc = "head" /\ gbuf # <<>> /\ ~NextIs("\n")
    /\ cur' = Append(cur, Head(gbuf))
    /\ GetChar
    /\ UNCHANGED <<output, client, pc, req, need, taken, put>>

parseHead ==
    /\ pc = "head"
    /\ \/ NextIs("\n") /\ GetChar
       \/ eof /\ cur # <<>> /\ UNCHANGED input
    /\ HeaderLine(cur)
    /\ UNCHANGED <<output, client, taken, put>>

\* The request is complete; its answer will have n bytes.
Accept(r) ==
    /\ \E n \in AnswerLens : taken' = Append(taken, [request |-> r, len |-> n])
    /\ pc' = "write" /\ put' = 0

\* The bytes that are buffered count as the body.
parseBodyShort ==
    /\ pc = "body"
    /\ Accept([req EXCEPT !.body = MinOf(need, Len(gbuf))])
    /\ gbuf' = SubSeq(gbuf, MinOf(need, Len(gbuf)) + 1, Len(gbuf))
    /\ UNCHANGED <<arrived, eof, output, client, cur, req, need>>

\* readsome takes what is buffered and never calls underflow: with an empty buffer
\* the loop goes round for ever (no step).  After eof it sets failbit.
parseBody ==
    LET n == MinOf(need, Len(gbuf)) IN
    /\ pc = "body"
    /\ \/ /\ need = 0
          /\ Accept(req)
          /\ UNCHANGED <<input, cur, req, need>>
       \/ /\ n > 0
          /\ gbuf' = SubSeq(gbuf, n + 1, Len(gbuf))
          /\ req' = [req EXCEPT !.body = @ + n]
          /\ need' = need - n
          /\ UNCHANGED <<arrived, eof, cur, taken, pc, put>>
       \/ /\ need > 0 /\ eof
          /\ Error
          /\ UNCHANGED <<input, taken, put>>
    /\ UNCHANGED <<output, client>>

-----------------------------------------------------------------------------
(* HttpResponsor::response, on the ostream *)

Answered == Last(taken)

Write ==
    /\ pc = "write" /\ put < Answered.len
    /\ PutChar(<<Len(taken), put + 1>>)
    /\ put' = put + 1
    /\ UNCHANGED <<input, client, pc, parser>>

\* _output.flush(), after the last byte or at "goto out".  Before GCC 12 it calls
\* sync whatever the state of the stream, since then only if it is good.
responseFlush ==
    /\ pc = "write" /\ caller = "none" /\ (bad \/ put = Answered.len)
    /\ pc' = "sync"
    /\ sync("sync") \/ (bad /\ UNCHANGED output)
    /\ UNCHANGED <<input, client, parser, put>>

response ==
    /\ pc = "sync" /\ caller = "none"
    /\ Again
    /\ req' = NewRequest
    /\ UNCHANGED <<input, output, client, cur, need, taken, put>>

\* Everything that can happen inside flush()
Transmit == Sending /\ UNCHANGED <<input, client, pc, parser, put>>

-----------------------------------------------------------------------------
(* The end of handle *)

\* delEvent; then out goes, and its buffer with it.
delEvent ==
    /\ pc = "delete"
    /\ sync("destructor")
    /\ pc' = "return"
    /\ UNCHANGED <<input, client, parser, put>>

handled ==
    /\ pc = "return" /\ caller = "none"
    /\ pc' = "done"
    /\ UNCHANGED <<input, output, client, parser, put>>

-----------------------------------------------------------------------------
Init ==
    /\ script \in Scripts
    /\ unsent = FlattenSeq([i \in DOMAIN script |-> Text(script[i])])
    /\ arrived = <<>> /\ gbuf = <<>> /\ eof = FALSE
    /\ pbuf = <<>> /\ bad = FALSE /\ caller = "none" /\ rest = 0 /\ sent = <<>>
    /\ pc = "idle" /\ cur = <<>> /\ req = NewRequest /\ need = 0
    /\ put = 0 /\ taken = <<>>

Handler ==
    \/ Receive \/ ReadWord \/ parseLine \/ InputEnds \/ skipTerminateCH
    \/ ReadLine \/ parseHead \/ parseBody
    \/ Write \/ responseFlush \/ response \/ Transmit \/ delEvent \/ handled

Next == Arrive \/ handle \/ Handler

Spec == Init /\ [][Next]_vars

\* The worker's thread goes on as long as it can.  The client owes nothing.
FairSpec == Spec /\ WF_vars(Handler)

-----------------------------------------------------------------------------
(* Properties *)

\* The output buffer does not outgrow BFSIZE: overflow finds a place for its character
\* behind epptr(), after a flush that failed too.  send is never asked for more than is
\* there.
OutputFits == Len(pbuf) <= BFSIZE /\ rest \in 0..Len(pbuf)

\* Every variable has its type, and neither buffer outgrows its bounds.
TypeOK ==
    /\ script \in Scripts
    /\ Len(gbuf) <= BFSIZE /\ OutputFits
    /\ eof \in BOOLEAN /\ bad \in BOOLEAN
    /\ caller \in {"none", "overflow", "sync", "destructor"}
    /\ pc \in {"idle", "method", "uri", "version", "cr", "lf", "head", "body",
               "write", "sync", "delete", "return", "done", "terminated"}
    /\ need \in 0..2 /\ Len(taken) <= Len(script)

\* The request r as the analyser should build it
Parsed(r) == [method |-> toRequestMethod(r.method),
              version |-> toHttpVersion(r.version),
              header |-> HeaderOf(r.fields),
              body |-> requestBodyLength(HeaderOf(r.fields))]

\* What IOEventHandler answers is what the client sent, request by request, however
\* the bytes were cut into segments.  There is one exception: if the input ends one
\* byte after a header line began, parseHead takes that byte for the blank line
\* (cur.length() == 1), and the last request loses the rest of its header.
TakenWasSent ==
    \A i \in DOMAIN taken :
      LET t == taken[i].request
          r == Parsed(script[i])
      IN \/ t = r
         \/ /\ i = Len(taken) /\ eof
            /\ t.method = r.method /\ t.version = r.version
            /\ \E n \in DOMAIN script[i].fields :
                  t.header = HeaderOf(SubSeq(script[i].fields, 1, n - 1))
            /\ t.body = 0

\* Byte k of answer i is followed by byte k + 1, and the last one by the first byte of
\* the next answer.
After(b) == IF b[2] < taken[b[1]].len THEN <<b[1], b[2] + 1>> ELSE <<b[1] + 1, 1>>

\* The bytes in s are a beginning of the answers, one after the other.
InSequence(s) ==
    /\ \A i \in DOMAIN s :
          s[i][1] \in DOMAIN taken /\ s[i][2] \in 1..taken[s[i][1]].len
    /\ s # <<>> => s[1] = <<1, 1>>
    /\ \A i \in 1..Len(s) - 1 : s[i + 1] = After(s[i])

\* What SocketStreamBuffer::flush has sent is a beginning of the answers: no byte is
\* sent twice, left out or overtaken, whatever flush is cut short by a failing send.
SentIsPrefix == InSequence(sent)

\* parseBody waits for bytes that readsome will never fetch.
Spinning == pc = "body" /\ need > 0 /\ gbuf = <<>> /\ ~eof

\* A handler that was called comes to its end, answers refused by the client and
\* requests cut off included, unless it spins in parseBody or an exception ended
\* the process.
HandlerEnds == pc # "idle" ~> pc \in {"done", "terminated"} \/ Spinning

\* No well-formed request, however it is cut into segments, ends the server:
\* getOneHttpRequest returns an error code instead.
ServerSurvives == pc # "terminated"

-----------------------------------------------------------------------------
(* The inductive invariant behind OutputFits and SentIsPrefix *)

\* A buffer that may get another character has a place for it.
Writer ==
    /\ pbuf \in Seq(Nat \X Nat) /\ sent \in Seq(Nat \X Nat)
    /\ OutputFits
    /\ caller = "none" => rest = 0
    /\ caller = "none" /\ ~bad => Len(pbuf) < BFSIZE

\* The answer that is being written has its number and its length.
Writing ==
    /\ \A i \in DOMAIN taken : taken[i].len \in Nat \ {0}
    /\ pc = "write" => taken # <<>> /\ put \in 0..taken[Len(taken)].len

\* What was sent, and what will be by the flush that is going on or by the next one
Out == IF caller # "none" /\ rest = 0 THEN sent ELSE sent \o pbuf

\* s ends with the last byte of answer i.
EndsWith(s, i) ==
    IF i = 0 THEN s = <<>> ELSE s # <<>> /\ s[Len(s)] = <<i, taken[i].len>>

\* send takes all or nothing, and every byte was given to the ostream once: as long as
\* the stream is good, Out ends where the answers do.
Progress ==
    /\ caller # "none" => rest \in {0, Len(pbuf)}
    /\ InSequence(Out)
    /\ ~bad =>
         CASE pc = "write" /\ put > 0 ->
                Out # <<>> /\ Out[Len(Out)] = <<Len(taken), put>>
           [] pc = "write" /\ put = 0 -> EndsWith(Out, Len(taken) - 1)
           [] OTHER -> EndsWith(Out, Len(taken))

IInv == Writer /\ Writing /\ (~PartialSend => Progress)

-----------------------------------------------------------------------------
(* The inductive invariant behind TypeOK and TakenWasSent *)

\* What the parser has yet to read, of all that the client will have sent
Left == gbuf \o (arrived \o unsent)

\* q without its first n elements
Drop(q, n) == SubSeq(q, n + 1, Len(q))

\* The texts of the requests of script s after the k-th
Ahead(s, k) == FlattenSeq([i \in 1..Len(s) - k |-> Text(s[k + i])])

\* The text of request r after its line and j of its header fields
Fields(r, j) ==
    FlattenSeq([i \in 1..Len(r.fields) - j |-> FieldText(r.fields[j + i])])
Body(r) == [i \in 1..requestBodyLength(HeaderOf(r.fields)) |-> "b"]
HeadText(r, j) == Fields(r, j) \o (<<"\r", "\n">> \o Body(r))

\* Request r as far as it was read: the line, j header fields and b bytes of the body
Begun(r, j, b) ==
    [method  |-> toRequestMethod(r.method),
     version |-> toHttpVersion(r.version),
     header  |-> HeaderOf(SubSeq(r.fields, 1, j)),
     body    |-> b]

\* The request that is being read is the one after the last that was taken.
Reading == script[Len(taken) + 1]

\* p bytes of it were read, the last of them into cur.
At(p, word) == Left = Drop(Ahead(script, Len(taken)), p) /\ cur = word

AtMethod ==
    /\ req = NewRequest
    /\ At(0, <<>>) \/ (Len(taken) < Len(script) /\ At(1, <<Reading.method>>))

AtUri ==
    /\ req = [NewRequest EXCEPT !.method = toRequestMethod(Reading.method)]
    /\ At(1, <<>>) \/ At(2, <<>>) \/ At(3, <<"/">>)

AtVersion ==
    /\ req = [NewRequest EXCEPT !.method = toRequestMethod(Reading.method)]
    /\ At(3, <<>>) \/ At(4, <<>>) \/ At(5, <<Reading.version>>)

AtTerminator ==
    /\ req = Begun(Reading, 0, 0)
    /\ At(IF pc = "cr" THEN 5 ELSE 6, <<>>)

\* j header fields were read and the beginning of a line.  A line that was cut off is
\* taken for complete, and nothing can be read after it.
AtHead ==
    \/ \E j \in 0..Len(Reading.fields) :
          /\ req = Begun(Reading, j, 0)
          /\ cur \o Left = HeadText(Reading, j) \o Ahead(script, Len(taken) + 1)
          /\ \A i \in DOMAIN cur : cur[i] # "\n"
    \/ eof /\ cur = <<>>

\* The first byte of header field n, or the blank line, was read last.
AtBody ==
    /\ cur = <<>>
    /\ \/ \E b \in 0..requestBodyLength(HeaderOf(Reading.fields)) :
             /\ req = Begun(Reading, Len(Reading.fields), b)
             /\ need = requestBodyLength(HeaderOf(Reading.fields)) - b
             /\ eof \/ Left = [i \in 1..need |-> "b"] \o Ahead(script, Len(taken) + 1)
       \/ /\ eof
          /\ \E n \in DOMAIN Reading.fields : req = Begun(Reading, n - 1, 0)
          /\ need = requestBodyLength(req.header)

\* The parser is where it believes to be, in the request it believes to be in.
OnTrack ==
    /\ pc \in {"uri", "version", "cr", "lf", "head", "body"} => Len(taken) < Len(script)
    /\ pc \in {"idle", "method"} => AtMethod
    /\ pc = "uri" => AtUri
    /\ pc = "version" => AtVersion
    /\ pc \in {"cr", "lf"} => AtTerminator
    /\ pc = "head" => AtHead
    /\ pc = "body" => AtBody
    /\ pc \in {"write", "sync"} =>
          cur = <<>> /\ (eof \/ Left = Ahead(script, Len(taken)))

\* No request is taken after one that lost header fields.
TakenSoFar ==
    \A i \in DOMAIN taken :
       LET t == taken[i].request
           r == script[i]
       IN \/ t = Parsed(r)
          \/ /\ i = Len(taken) /\ eof
             /\ pc \in {"write", "sync", "delete", "return", "done"}
             /\ \E n \in DOMAIN r.fields : t = Begun(r, n - 1, 0)

\* The bytes of the client are in three places.  After eof the buffer stays empty.
InputOK ==
    /\ gbuf \in Seq(Char) /\ arrived \in Seq(Char) /\ unsent \in Seq(Char)
    /\ Len(gbuf) <= BFSIZE
    /\ eof \in BOOLEAN /\ (eof => gbuf = <<>>)

OutputOK == bad \in BOOLEAN /\ caller \in {"none", "overflow", "sync", "destructor"}

Typed ==
    /\ script \in Scripts /\ InputOK /\ OutputOK
    /\ cur \in Seq(Char)
    /\ pc \in {"idle", "method", "uri", "version", "cr", "lf", "head", "body",
               "write", "sync", "delete", "return", "done", "terminated"}
    /\ pc # "body" => need = 0
    /\ Len(taken) <= Len(script)

Reader == Typed /\ OnTrack /\ TakenSoFar
=============================================================================
