-------------------------------- MODULE Page --------------------------------
(***************************************************************************)
(* src/apps/browser.c around the connection: splitting the URL, finding    *)
(* the body of the answer, undoing the chunked encoding, and turning HTML  *)
(* into text in place, character by character.  A header line and the size *)
(* of a chunk are one character each here; a page is made of pieces.       *)
(***************************************************************************)
EXTENDS Integers, Sequences, SequencesExt, TLC

CONSTANTS
  Prefix,            \* what a URL may start with
  MaxUrl,            \* bound: characters of a URL behind its prefix
  HostCap, PathCap,  \* sizes of host and path, with their terminator
  Answers            \* bound: what servers send, as [pieces, framing, cut, first]

CR == "cr"
LF == "lf"
Newline == <<CR, LF>>
Size(n) == "size" \o ToString(n)
ContentLength(n) == "length" \o ToString(n)
Chunked == "chunked"

VARIABLES
  phase,             \* "url", "fetch", "parse", "chunks", "text", "done"
  url, prefix, host, path,
  sent,              \* ghost: [pieces, framing, cut, first], what the server sent and how much arrived
  raw,               \* the answer
  p, content,        \* the loops' position in raw and in content; the content
  o, in_tag, tag,
  decoded            \* ghost: the content before the conversion

vars == <<phase, url, prefix, host, path, sent, raw, p, content, o, in_tag, tag, decoded>>
urlvars == <<url, prefix, host, path>>

Shorter(m, n) == IF m < n THEN m ELSE n

Body(s) == FlattenSeq(s.pieces)

Init ==
  /\ phase = "url"
  /\ prefix \in Prefix /\ url \in UNION {[1 .. n -> {"c", "/"}] : n \in 0 .. MaxUrl}
  /\ host = <<>> /\ path = <<>>
  /\ sent = [pieces |-> <<>>, framing |-> "close", cut |-> 0, first |-> 0]
  /\ raw = <<>> /\ p = 1 /\ content = <<>> /\ o = 0 /\ in_tag = FALSE /\ tag = <<>> /\ decoded = <<>>

\* Mutant: one byte too many fits.
Fits_One(n, cap) == n <= cap

Fits(n, cap) == n < cap

Slashes == {i \in DOMAIN url : url[i] = "/"}
FirstSlash == IF Slashes = {} THEN Len(url) + 1 ELSE CHOOSE i \in Slashes : \A j \in Slashes : i <= j

\* browser_parse_url.
browser_parse_url ==
  LET h == SubSeq(url, 1, FirstSlash - 1)
      q == SubSeq(url, FirstSlash, Len(url))
      ok == prefix # "https" /\ h # <<>> /\ Fits(Len(h), HostCap)
  IN  /\ phase = "url" /\ phase' = IF ok THEN "fetch" ELSE "done"
      /\ host' = IF ok THEN h ELSE <<>>
      /\ path' = IF ~ok THEN <<>> ELSE IF q = <<>> THEN <<"/">>
                 ELSE SubSeq(q, 1, IF Fits(Len(q), PathCap) THEN Len(q) ELSE PathCap - 1)
      /\ UNCHANGED <<url, prefix, sent, raw, p, content, o, in_tag, tag, decoded>>

-----------------------------------------------------------------------------
\* The server: one header line for the framing, an empty line, the body, in one or two chunks.
Chunk(b) == IF b = <<>> THEN <<>> ELSE <<Size(Len(b))>> \o Newline \o b \o Newline
Response(s) ==
  LET b == Body(s)
  IN  CASE s.framing = "close"   -> <<"other">> \o Newline \o Newline \o b
        [] s.framing = "length"  -> <<"other">> \o Newline \o <<ContentLength(Len(b))>> \o Newline \o Newline \o b \o <<"trash">>
        [] s.framing = "chunked" -> <<Chunked>> \o Newline \o Newline
                                    \o Chunk(SubSeq(b, 1, Shorter(s.first, Len(b)))) \o Chunk(SubSeq(b, s.first + 1, Len(b)))
                                    \o <<Size(0)>> \o Newline \o Newline

\* The answer comes, whole or cut short by a timeout.
Receive(s) ==
  /\ phase = "fetch" /\ phase' = "parse"
  /\ sent' = s /\ raw' = SubSeq(Response(s), 1, Len(Response(s)) - s.cut)
  /\ UNCHANGED <<urlvars, p, content, o, in_tag, tag, decoded>>

\* The first empty line.
HeaderEnds == {i \in 1 .. Len(raw) - 3 : SubSeq(raw, i, i + 3) = Newline \o Newline}
BodyStart == IF HeaderEnds = {} THEN 1 ELSE (CHOOSE i \in HeaderEnds : \A j \in HeaderEnds : i <= j) + 4

\* browser_find_header: the first line of the whole answer, body included, that has the key.
LineStarts == {i \in DOMAIN raw : i = 1 \/ (i > 2 /\ SubSeq(raw, i - 2, i - 1) = Newline)}
Lengths == {i \in LineStarts : \E n \in 0 .. Len(raw) : raw[i] = ContentLength(n)}
content_length == CHOOSE n \in 0 .. Len(raw) : raw[CHOOSE i \in Lengths : \A j \in Lengths : i <= j] = ContentLength(n)
is_chunked == HeaderEnds # {} /\ \E i \in LineStarts : raw[i] = Chunked

\* Mutant: the length the server gave is not looked at.
BodyLen_All == Len(raw) - BodyStart + 1

BodyLen ==
  LET n == Len(raw) - BodyStart + 1
  IN  IF HeaderEnds # {} /\ Lengths # {} THEN Shorter(content_length, n) ELSE n

Parse ==
  /\ phase = "parse"
  /\ \/ is_chunked /\ phase' = "chunks" /\ p' = BodyStart /\ UNCHANGED <<content, decoded>>
     \/ /\ ~is_chunked /\ phase' = "text" /\ p' = 1
        /\ content' = SubSeq(raw, BodyStart, BodyStart + BodyLen - 1) /\ decoded' = content'
  /\ UNCHANGED <<urlvars, sent, raw, o, in_tag, tag>>

\* Skips carriage returns and line feeds from position i.
Skip(i) ==
  LET J == {j \in i .. Len(raw) : raw[j] \notin {CR, LF}}
  IN  IF J = {} THEN Len(raw) + 1 ELSE CHOOSE j \in J : \A k \in J : j <= k

\* Where the size line at i ends; a line that is no size reads as the size 0.
LineEnd(i) ==
  LET J == {j \in i .. Len(raw) : raw[j] \in {CR, LF}}
  IN  IF J = {} THEN Len(raw) + 1 ELSE CHOOSE j \in J : \A k \in J : j <= k

SizeAt(i) ==
  LET N == {n \in 1 .. Len(raw) : i <= Len(raw) /\ raw[i] = Size(n)}
  IN  IF N = {} THEN 0 ELSE CHOOSE n \in N : TRUE

\* One round of the chunk loop.
NextChunk ==
  LET i == Skip(p)
      d == Skip(LineEnd(i))
      n == Shorter(SizeAt(i), Len(raw) - d + 1)
  IN  /\ phase = "chunks"
      /\ \/ /\ p > Len(raw) \/ SizeAt(i) = 0
            /\ phase' = "text" /\ p' = 1 /\ content' = content /\ decoded' = content
         \/ /\ p <= Len(raw) /\ SizeAt(i) # 0
            /\ content' = content \o SubSeq(raw, d, d + n - 1) /\ p' = d + n
            /\ UNCHANGED <<phase, decoded>>
      /\ UNCHANGED <<urlvars, sent, raw, o, in_tag, tag>>

-----------------------------------------------------------------------------
(* browser_html_to_text with in = out = content. *)
Breaks == {<<"b", "r">>, <<"p">>}
Entity == [lt |-> <<"l", "t", ";">>, amp |-> <<"a", "m", "p", ";">>]
Meaning == [lt |-> "<", amp |-> "&"]
Known == {e \in DOMAIN Entity : p + Len(Entity[e]) <= Len(content) /\ SubSeq(content, p + 1, p + Len(Entity[e])) = Entity[e]}

\* Mutant: the name of an entity is not skipped to its end.
Skipped_Short(e) == Len(Entity[e]) - 1

Skipped(e) == Len(Entity[e])

Put(c) == o' = o + 1 /\ content' = [content EXCEPT ![o + 1] = c]

Step ==
  LET c == content[p]
  IN  /\ phase = "text" /\ p <= Len(content)
      /\ \/ /\ ~in_tag /\ c = "<"
            /\ in_tag' = TRUE /\ tag' = <<>> /\ p' = p + 1 /\ UNCHANGED <<o, content>>
         \/ /\ ~in_tag /\ c = "&" /\ Known # {}
            /\ \E e \in Known : Put(Meaning[e]) /\ p' = p + 1 + Skipped(e)
            /\ UNCHANGED <<in_tag, tag>>
         \/ /\ ~in_tag /\ c # "<" /\ (c = "&" => Known = {})
            /\ Put(c) /\ p' = p + 1 /\ UNCHANGED <<in_tag, tag>>
         \/ /\ in_tag /\ c = ">" /\ in_tag' = FALSE /\ p' = p + 1 /\ tag' = tag
            /\ IF tag \in Breaks THEN Put(LF) ELSE UNCHANGED <<o, content>>
         \/ /\ in_tag /\ c # ">" /\ p' = p + 1
            /\ tag' = IF c \in {"/", CR, LF} THEN tag ELSE Append(tag, c)
            /\ UNCHANGED <<o, content, in_tag>>
      /\ UNCHANGED <<phase, urlvars, sent, raw, decoded>>

\* The terminator.
Terminate ==
  /\ phase = "text" /\ p > Len(content) /\ phase' = "done"
  /\ content' = SubSeq(content, 1, o)
  /\ UNCHANGED <<urlvars, sent, raw, p, o, in_tag, tag, decoded>>

Next ==
  \/ browser_parse_url \/ Parse \/ NextChunk \/ Step \/ Terminate
  \/ \E s \in Answers : Receive(s)

Spec == Init /\ [][Next]_vars

-----------------------------------------------------------------------------
(* Properties. *)

\* What a piece shows as.
Shown(q) ==
  CASE q \in {<<"<", "b", "r", ">">>, <<"<", "/", "p", ">">>} -> <<LF>>
    [] q = <<"&", "l", "t", ";">> -> <<"<">>
    [] q = <<"&", "a", "m", "p", ";">> -> <<"&">>
    [] q[1] = "<" -> <<>>
    [] OTHER -> q

\* What the decoders cannot tell: a chunk that begins with a line break, a body that has a
\* line like a header the real header has not.
Misread ==
  LET b == Body(sent)
  IN  \/ sent.framing = "chunked" /\ \E i \in {1, sent.first + 1} \cap DOMAIN b : b[i] \in {CR, LF}
      \/ sent.framing # "length" /\ Lengths # {}
      \/ sent.framing # "chunked" /\ \E i \in LineStarts : raw[i] = Chunked

\* The content is the page the server sent, or the first part of it when the answer was
\* cut short: none of the framing is in it and nothing is left out.
BodyExact ==
  phase \in {"text", "done"} /\ HeaderEnds # {} /\ ~Misread =>
    /\ IsPrefix(decoded, Body(sent))
    /\ sent.cut = 0 => decoded = Body(sent)

\* Turning the page into text in place gives what every piece stands for, in order: the
\* output never runs into input that is still to be read, and a "<" that came from an
\* entity opens no tag.
TextExact ==
  phase = "done" /\ decoded # <<>> /\ decoded = Body(sent) =>
    content = FlattenSeq([i \in DOMAIN sent.pieces |-> Shown(sent.pieces[i])])

\* A URL that is taken is cut at its first slash into a host that fits and a path that is
\* the rest of it, shortened only at its end.
UrlSplit ==
  phase # "url" /\ host # <<>> =>
    /\ prefix # "https" /\ Len(host) < HostCap /\ Len(path) < PathCap
    /\ IsPrefix(host \o path, url) \/ (host = url /\ path = <<"/">>)
    /\ "/" \notin ToSet(host) /\ path[1] = "/"
=============================================================================
