---------------------------- MODULE MCHttpParser ----------------------------
(***************************************************************************)
(* HttpParser over a few messages chosen so that every state of the parser *)
(* is met: each framing, every kind of field the parser acts on, folds and *)
(* empty values, chunk extensions and a trailer, messages it must refuse,  *)
(* damaged octets, and connections that carry two messages.                *)
(***************************************************************************)
EXTENDS HttpParser

Field(n, o, v) == [name |-> <<n>>, ows |-> o, value |-> v]
Space == <<"SP">>
Fold == <<"CR", "LF", "SP">>

Request(fs, framing, chunks) ==
  [req |-> TRUE, minor |-> "HTTP/1.1", status |-> "", reason |-> << >>, fields |-> fs,
   framing |-> framing, chunks |-> chunks, ext |-> << >>, trailer |-> << >>, bad |-> 0,
   ill |-> "no"]

Response(code, fs, framing, chunks) ==
  [Request(fs, framing, chunks) EXCEPT !.req = FALSE, !.status = code, !.reason = <<"t">>]

Old(m) == [m EXCEPT !.minor = "HTTP/1.0"]
Refused(m) == [m EXCEPT !.ill = "headers"]
Damaged(m, is) == {[m EXCEPT !.bad = i] : i \in is}

Length(v) == Field("Content-Length", Space, v)
Chunked(v) == Field("Transfer-Encoding", << >>, v)
Connection(v) == Field("Connection", << >>, v)
Plain(o, v) == Field("t", o, v)

Get == Request(<< >>, "none", << >>)
Post == Request(<<Length(<<"1", "0", "SP">>)>>, "length", <<2>>)
Chunks ==
  [Request(<<Chunked(<<"t", ",", "chunked", "SP">>)>>, "chunked", <<2, 1>>)
     EXCEPT !.ext = <<";", "t", ";", "t", "=", "x">>, !.trailer = <<Plain(<< >>, <<"x">>)>>]
ChunksOnly == Request(<<Chunked(<<"chunked">>)>>, "chunked", <<1>>)
TwoChunks == [ChunksOnly EXCEPT !.chunks = <<2, 1>>]
NotChunked == Request(<<Chunked(<<"chunked", ",", "t", "pre", "t">>)>>, "none", << >>)
Folds ==
  Request(<<Plain(Fold, <<"x">> \o Fold \o <<"t">>), Plain(<< >>, << >>),
            [Plain(Space \o Fold, << >>) EXCEPT !.name = <<"Upgrade", "t">>]>>, "none", << >>)
LastFold == Plain(<< >>, <<"x">> \o Fold)
FoldAtEnd == Request(<<LastFold>>, "none", << >>)
FoldInTrailer == [ChunksOnly EXCEPT !.trailer = <<LastFold>>]
Close ==
  Request(<<Connection(<<"t", "SP", ",", "close">> \o Fold \o <<"SP", ",", "keep-alive">>)>>,
          "none", << >>)
Token == Request(<<Connection(<<"close", "t", ",", "t", "close", ",", "pre">>)>>, "none", << >>)
Keep ==
  Old(Request(<<Field("Proxy-Connection", Space, <<"keep-alive", "SP">>)>>, "none", << >>))
Upgrading ==
  Request(<<Field("Upgrade", << >>, <<"x">>), Connection(<<"upgrade">>)>>, "none", << >>)
UntilEof == Old(Response("200", << >>, "eof", <<2>>))
NoContent == [Response("204", << >>, "none", << >>) EXCEPT !.reason = << >>]
ToHead == Response("200", <<Length(<<"1">>)>>, "head", << >>)

BadLength(v) == Refused(Request(<<Length(v)>>, "none", << >>))

Ill ==
  {BadLength(v) : v \in {<<"1", "1", "1">>, <<"t">>, << >>, <<"1", "SP", "1">>}}
  \cup {Refused(Request(<<Length(<<"0">>), Length(<<"0">>)>>, "none", << >>)),
        Refused(Request(<<Length(<<"0">>), Chunked(<<"chunked">>)>>, "none", << >>)),
        Refused(Request(<<Connection(<<"close", "SP", "t">>)>>, "none", << >>)),
        [ChunksOnly EXCEPT !.ill = "body", !.ext = <<"1", "1">>]}

MCCallers ==
  [hmax : {0}, bmax : {0}, stages : BOOLEAN] \cup [hmax : {7}, bmax : {1, 2}, stages : BOOLEAN]
  \cup [hmax : {2, 5}, bmax : {2}, stages : {FALSE}]

MCStreams ==
  {<<m>> : m \in {Chunks, TwoChunks, NotChunked, Folds, FoldAtEnd, FoldInTrailer, Token,
                   Upgrading, UntilEof, ToHead} \cup Ill}
  \cup {<<m>> : m \in Damaged(ChunksOnly, {1, 2, 4, 6, 7, 8, 9, 10, 12, 15, 16, 17, 18, 20})
                 \cup Damaged(NoContent, {1, 3}) \cup Damaged(Chunks, {22, 23})}
  \cup {<<Post, Get>>, <<Close, Get>>, <<Keep, Post>>, <<NoContent, UntilEof>>, <<Get, Post>>, <<ToHead, NoContent>>}

MCOnePost == {<<Post>>}
MCTwoGets == {<<Get, Get>>}
MCUnlimited == [hmax : {0}, bmax : {0}, stages : BOOLEAN]

=============================================================================
