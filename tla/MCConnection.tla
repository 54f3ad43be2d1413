---------------------------- MODULE MCConnection ----------------------------
(***************************************************************************)
(* Connection for TLC: clients that send one or two requests, with and     *)
(* without header fields, body, known method and known version.            *)
(***************************************************************************)
EXTENDS Connection

Request(m, v, f) == [method |-> m, version |-> v, fields |-> f]

Plain  == Request("GET", "HTTP/1.1", <<>>)
Hosted == Request("GET", "HTTP/2", <<<<Host, <<"h", Blank, "h">>>>>>)
Post1  == Request("POST", "HTTP/1.1", <<<<Content_Length, <<"1">>>>>>)
Post2  == Request("BREW", "HTTP/1.0",
                  <<<<Content_Length, <<"2">>>>, <<Host, <<"h">>>>>>)
Post3  == Request("POST", "HTTP/1.1",
                  <<<<Host, <<"h">>>>, <<Content_Length, <<"2">>>>>>)

MCChar ==
    {"GET", "POST", "BREW", "HTTP/1.0", "HTTP/1.1", "HTTP/2",
     Blank, "/", ":", "\r", "\n", "b", "C", "l", "H", "o", "h", "1", "2"}

MCScripts ==
    {<<Post2>>, <<Post3>>, <<Plain, Hosted>>, <<Hosted, Plain>>, <<Post1, Hosted>>,
     <<Post3, Plain>>, <<Plain, Plain, Post1>>}
=============================================================================
