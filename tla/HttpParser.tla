---------------------------- MODULE HttpParser ----------------------------
(***************************************************************************)
(* How src/http.c reads one message: byte by byte, from segments that may  *)
(* be cut anywhere.                                                        *)
(*                                                                         *)
(* A message is made of one-character strings.  "A" stands for a capital   *)
(* letter, "x" for any other character of no meaning, "k" for a letter of  *)
(* the header name that is looked up ("Content-Length"), "0" to "9" for    *)
(* themselves.                                                             *)
(***************************************************************************)
EXTENDS Integers, SequencesExt

CONSTANTS
  MaxMethod,  \* HTTP_MAX_METHOD_LENGTH
  MaxUrl,     \* HTTP_MAX_URL_LENGTH
  MaxStatus,  \* HTTP_MAX_STATUS_MESSAGE_LENGTH
  MaxHeaders, \* HTTP_MAX_HEADER_ROWS_LENGTH
  MaxData,    \* HTTP_MAX_DATA_LENGTH
  LongSize,   \* an unsigned long has the values below it: 2^32
  Bodyless,   \* the methods HEAD, GET and OPTIONS
  Messages    \* messages that may arrive

ASSUME LimitAssumption ==
  /\ {MaxMethod, MaxUrl, MaxStatus, MaxHeaders, MaxData} \subseteq Nat \ {0}
  /\ MaxData < 256  \* HttpMessage.dataLength is an unsigned char
  /\ LongSize \in Nat /\ LongSize > 65535

VARIABLES
  message,  \* the message that arrives: its parts, see Text
  arrived,  \* bytes of it that have been handled
  parser    \* incomingRequest or incomingResponse, with incomingMessage

vars == <<message, arrived, parser>>

CR == "\r"
LF == "\n"
Key == <<"k">>
Digits == <<"0", "1", "2", "3", "4", "5", "6", "7", "8", "9">>
IsDigit(ch) == ch \in ToSet(Digits)
Value(ch) == CHOOSE v \in 0..9 : Digits[v + 1] = ch

(* What arrives: a first line, rows of headers, an empty line and a body,  *)
(* the lines ended as eol says.                                            *)
Rows(m) == FlattenSeq([k \in DOMAIN m.rows |-> m.rows[k] \o m.eol])
FirstLine(m) ==
  IF m.kind = "request" THEN m.method \o <<" ">> \o m.url \o <<" ">> \o m.version
  ELSE m.version \o <<" ">> \o m.code \o <<" ">> \o m.status
Text(m) == FirstLine(m) \o m.eol \o Rows(m) \o m.eol \o m.body

Init ==
  /\ message \in Messages
  /\ arrived = 0
  /\ parser = [state |-> "START", answer |-> "", method |-> <<>>, url |-> <<>>,
               status |-> <<>>, code |-> 0, headers |-> <<>>, body |-> <<>>]

Failed(p, answer) == [p EXCEPT !.answer = answer]

-----------------------------------------------------------------------------
(***************************************************************************)
(* Header rows: HttpHeadersPutChar and HttpParseHeader                     *)
(***************************************************************************)
Room == 0..(MaxHeaders - 1)

HttpHeadersPutChar(p, ch) ==
  IF ch \in {CR, LF} /\ p.headers = <<>> THEN p
  ELSE IF Len(p.headers) \in Room THEN [p EXCEPT !.headers = Append(@, ch)]
  ELSE Failed(p, "431")

EndsRow(state, ch) ==
  CASE state = "MAC_END" -> ch = CR
    [] state \in {"LINUX_END", "WIN_END2"} -> ch = LF
    [] OTHER -> FALSE

KeepReturn(p, ch) ==  \* mutant of HttpParseHeader: the empty line is taken for a row
  IF EndsRow(p.state, ch) THEN [p EXCEPT !.state = "END_HEADER"]
  ELSE IF p.state = "MAC_END" /\ ch = LF THEN HttpHeadersPutChar([p EXCEPT !.state = "WIN_END"], ch)
  ELSE HttpHeadersPutChar(
         [p EXCEPT !.state = CASE ch = CR -> IF p.state = "WIN_END" THEN "WIN_END2" ELSE "MAC_END"
                               [] ch = LF -> "LINUX_END"
                               [] OTHER -> "HEADER"], ch)

HttpParseHeader(p, ch) ==
  CASE EndsRow(p.state, ch) -> [p EXCEPT !.state = "END_HEADER"]
    [] p.state = "MAC_END" /\ ch = LF -> HttpHeadersPutChar([p EXCEPT !.state = "WIN_END"], ch)
    [] p.state = "WIN_END" /\ ch = CR -> [p EXCEPT !.state = "WIN_END2"]
    [] OTHER ->
         HttpHeadersPutChar(
           [p EXCEPT !.state = CASE ch = CR -> "MAC_END" [] ch = LF -> "LINUX_END" [] OTHER -> "HEADER"],
           ch)

(* The line end of the first line. *)
FirstLineEnds(p, ch) ==
  [p EXCEPT !.state = IF ch = CR THEN "MAC_END" ELSE "LINUX_END", !.headers = <<>>]

(* HttpParseRequestHeader *)
HttpParseRequestHeader(p, ch) ==
  CASE p.state \in {"START", "METHOD"} ->
         IF ch = " " THEN [p EXCEPT !.state = "URL"]
         ELSE IF ch # "A" THEN Failed(p, "400")
         ELSE IF Len(p.method) >= MaxMethod THEN Failed(p, "431")
         ELSE [p EXCEPT !.state = "METHOD", !.method = Append(@, ch)]
    [] p.state = "URL" ->
         IF ch = " " THEN [p EXCEPT !.state = "VERSION"]
         ELSE IF Len(p.url) >= MaxUrl THEN Failed(p, "414")
         ELSE [p EXCEPT !.url = Append(@, ch)]
    [] p.state = "VERSION" -> IF ch \in {CR, LF} THEN FirstLineEnds(p, ch) ELSE p
    [] OTHER -> HttpParseHeader(p, ch)

-----------------------------------------------------------------------------
(***************************************************************************)
(* Numbers and header values: ParseLong and HttpParseHeaderValue           *)
(***************************************************************************)
(* The code adds up the digits from the last one, in an unsigned long.     *)
IsNumber(s) == s # <<>> /\ \A k \in DOMAIN s : IsDigit(s[k])
ParseLong(s) ==
  LET digits[k \in 0..Len(s)] == IF k = 0 THEN 0 ELSE (10 * digits[k - 1] + Value(s[k])) % LongSize
  IN digits[Len(s)]

IsShort(s) == IsNumber(s) /\ ParseLong(s) <= 65535

Found(headers, key) ==
  {k \in 1..Len(headers) : IsPrefix(key, SubSeq(headers, k, Len(headers)))}
LeastOf(S) == CHOOSE k \in S : \A l \in S : k <= l

UpTo(s, chars) ==
  LET ends == {k \in DOMAIN s : s[k] \in chars}
  IN IF ends = {} THEN s ELSE SubSeq(s, 1, LeastOf(ends) - 1)

NoValue == <<"none">>

BehindColon(rest) == 2  \* mutant of ValueStart: a space is taken for a part of the value
ValueStart(rest) == IF Len(rest) >= 2 /\ rest[2] = " " THEN 3 ELSE 2

(* The first place where the key stands, wherever that is in its row. *)
HttpParseHeaderValue(headers, key) ==
  IF Found(headers, key) = {} THEN NoValue
  ELSE LET rest == SubSeq(headers, LeastOf(Found(headers, key)) + Len(key), Len(headers)) IN
       IF rest = <<>> \/ rest[1] # ":" THEN NoValue
       ELSE UpTo(SubSeq(rest, ValueStart(rest), Len(rest)), {CR, LF})

-----------------------------------------------------------------------------
(* HttpParseResponseHeader; status is incomingResponseStatusMessage. *)
HttpParseResponseHeader(p, ch) ==
  CASE p.state \in {"START", "VERSION"} ->
         [p EXCEPT !.state = IF ch = " " THEN "CODE" ELSE "VERSION"]
    [] p.state = "CODE" ->
         IF Len(p.status) >= MaxStatus THEN Failed(p, "failed")
         ELSE IF ch # " " THEN [p EXCEPT !.status = Append(@, ch)]
         ELSE IF ~IsShort(p.status) THEN Failed(p, "failed")
         ELSE [p EXCEPT !.state = "MESSAGE", !.code = ParseLong(p.status), !.status = <<>>]
    [] p.state = "MESSAGE" ->
         IF Len(p.status) >= MaxStatus THEN Failed(p, "failed")
         ELSE IF ch \in {CR, LF} THEN FirstLineEnds(p, ch)
         ELSE [p EXCEPT !.status = Append(@, ch)]
    [] OTHER ->
         LET q == HttpParseHeader(p, ch) IN IF q.answer = "" THEN q ELSE Failed(q, "failed")

-----------------------------------------------------------------------------
(***************************************************************************)
(* A segment: HttpTcpOnIncomingData and HttpParseResponse                  *)
(***************************************************************************)
ParseHeader(p, ch) ==
  IF message.kind = "request" THEN HttpParseRequestHeader(p, ch) ELSE HttpParseResponseHeader(p, ch)

HeaderOver(p) == p.state \in {"END_HEADER", "END_MESSAGE"} \/ p.answer # ""

(* The header bytes of a segment: the parser after them, and their number. *)
ParseHeaders(segment) ==
  LET after[k \in 0..Len(segment)] ==
        IF k = 0 THEN [parser |-> parser, used |-> 0]
        ELSE LET before == after[k - 1] IN
             IF HeaderOver(before.parser) THEN before
             ELSE [parser |-> ParseHeader(before.parser, segment[k]), used |-> k]
  IN after[Len(segment)]

AllOfSegment(used) == 0  \* mutant of BodyStart: the header is copied as well
BodyStart(used) == used

HttpMessagePutData(p, segment, used) ==
  [p EXCEPT !.body = @ \o SubSeq(segment, BodyStart(used) + 1, Len(segment))]

Ended(p, length) == IF Len(p.body) = length THEN [p EXCEPT !.state = "END_MESSAGE"] ELSE p

(* The body of a request has the length that is stated, which must be so. *)
RequestBody(p, segment, used) ==
  LET length == HttpParseHeaderValue(p.headers, Key) IN
  CASE p.method \in Bodyless -> [p EXCEPT !.state = "END_MESSAGE"]
    [] p.method \notin Bodyless /\ length = NoValue -> Failed(p, "411")
    [] p.method \notin Bodyless /\ length # NoValue ->
         IF ~IsNumber(length) THEN Failed(p, "400")
         ELSE IF ParseLong(length) > MaxData THEN Failed(p, "413")
         ELSE Ended(HttpMessagePutData(p, segment, used), ParseLong(length))

(* A response that states no length, or one that cannot be kept, is taken  *)
(* to have no body.                                                        *)
ResponseBody(p, segment, used) ==
  LET value == HttpParseHeaderValue(p.headers, Key)
      length == IF value = NoValue \/ ~IsNumber(value) THEN 0
                ELSE IF ParseLong(value) > MaxData THEN 0 ELSE ParseLong(value)
  IN IF length = 0 THEN [p EXCEPT !.state = "END_MESSAGE"]
     ELSE Ended(HttpMessagePutData(p, segment, used), length)

Receive(n) ==
  /\ ~HeaderOver(parser) \/ (parser.state = "END_HEADER" /\ parser.answer = "")
  /\ LET segment == SubSeq(Text(message), arrived + 1, arrived + n)
         h == ParseHeaders(segment)
     IN parser' = CASE h.parser.answer # "" \/ h.parser.state # "END_HEADER" -> h.parser
                    [] message.kind = "request" /\ h.parser.answer = "" /\ h.parser.state = "END_HEADER" ->
                         RequestBody(h.parser, segment, h.used)
                    [] message.kind = "response" /\ h.parser.answer = "" /\ h.parser.state = "END_HEADER" ->
                         ResponseBody(h.parser, segment, h.used)
  /\ arrived' = arrived + n
  /\ UNCHANGED message

Next == \E n \in 1..(Len(Text(message)) - arrived) : Receive(n)

Spec == Init /\ [][Next]_vars

-----------------------------------------------------------------------------
(***************************************************************************)
(* Properties                                                              *)
(***************************************************************************)
Chars == {"A", "x", "k", ":", " ", CR, LF} \cup ToSet(Digits)
TypeOK ==
  /\ message \in Messages /\ arrived \in 0..Len(Text(message))
  /\ parser.state \in {"START", "METHOD", "URL", "VERSION", "CODE", "MESSAGE", "HEADER", "LINUX_END",
                       "MAC_END", "WIN_END", "WIN_END2", "END_HEADER", "END_MESSAGE"}
  /\ parser.answer \in {"", "400", "411", "413", "414", "431", "failed"}
  /\ \A s \in {parser.method, parser.url, parser.status, parser.headers, parser.body} : s \in Seq(Chars)
  /\ Len(parser.method) <= MaxMethod /\ Len(parser.url) <= MaxUrl /\ Len(parser.status) <= MaxStatus
  /\ Len(parser.headers) <= MaxHeaders /\ Len(parser.body) <= MaxData

(* The value of a header, as README.md:300-310 describes it: what follows  *)
(* the colon in the first row that has the key for its name.               *)
RowValue(m) ==
  LET named == {k \in DOMAIN m.rows : IsPrefix(Key \o <<":">>, m.rows[k])} IN
  IF named = {} THEN NoValue
  ELSE LET row == m.rows[LeastOf(named)]
           value == SubSeq(row, Len(Key) + 2, Len(row))
       IN IF value # <<>> /\ value[1] = " " THEN Tail(value) ELSE value

ValueOfRow ==
  parser.state = "END_MESSAGE" => HttpParseHeaderValue(parser.headers, Key) = RowValue(message)

(* The number that the digits s stand for. *)
Number(s) ==
  LET value[k \in 0..Len(s)] == IF k = 0 THEN 0 ELSE 10 * value[k - 1] + Value(s[k])
  IN value[Len(s)]

(* What is wrong with a message, whose first fault counts. *)
Fault(m) ==
  CASE m.kind = "request" /\ Len(m.method) > MaxMethod -> "431"
    [] m.kind = "request" /\ Len(m.method) <= MaxMethod /\ Len(m.url) > MaxUrl -> "414"
    [] m.kind = "response" /\ (Len(m.code) >= MaxStatus \/ Len(m.status) >= MaxStatus) -> "failed"
    [] OTHER ->
         IF Len(Rows(m)) > MaxHeaders THEN IF m.kind = "request" THEN "431" ELSE "failed"
         ELSE IF m.kind = "request" /\ m.method \notin Bodyless
         THEN IF RowValue(m) = NoValue THEN "411"
              ELSE IF ~IsNumber(RowValue(m)) THEN "400"
              ELSE IF Number(RowValue(m)) > MaxData THEN "413" ELSE ""
         ELSE ""

(* The messages that arrive are those of HTTP: no part of the first line   *)
(* and no row holds what ends it, a row is not empty, a status code is one *)
(* of an unsigned short, the length that is stated one of an unsigned      *)
(* long, and a body that can be kept is as long as that.                   *)
InLine == Chars \ {CR, LF}
Word == InLine \ {" "}

BodyLength(m) ==
  LET value == RowValue(m) IN
  IF \/ m.kind = "request" /\ m.method \in Bodyless
     \/ value = NoValue \/ ~IsNumber(value) \/ Number(value) > MaxData
  THEN 0 ELSE Number(value)

CodeIsShort(m) == IsNumber(m.code) /\ Number(m.code) <= 65535
LengthIsLong(m) == IsNumber(RowValue(m)) => Number(RowValue(m)) < LongSize

RequestLine(m) == m.method \in Seq({"A"}) /\ m.url \in Seq(Word)
ResponseLine(m) == m.code \in Seq(Word) /\ CodeIsShort(m) /\ m.status \in Seq(InLine)

WellFormed(m) ==
  /\ m.kind \in {"request", "response"} /\ m.eol \in {<<CR>>, <<LF>>, <<CR, LF>>}
  /\ m.version \in Seq(Word) /\ m.rows \in Seq(Seq(InLine) \ {<<>>}) /\ m.body \in Seq(Chars)
  /\ IF m.kind = "request" THEN RequestLine(m) ELSE ResponseLine(m)
  /\ LengthIsLong(m)
  /\ Fault(m) = "" => Len(m.body) = BodyLength(m)

ASSUME MessageAssumption == \A m \in Messages : WellFormed(m)

(* However its bytes are cut into segments, a message that has arrived has *)
(* been read into its parts, or its fault was found; and neither is so     *)
(* before it has arrived.                                                  *)
ReadAs(p, m) ==
  /\ p.answer = "" /\ p.state = "END_MESSAGE"
  /\ p.headers = Rows(m) /\ p.body = m.body
  /\ m.kind = "request" => p.method = m.method /\ p.url = m.url
  /\ m.kind = "response" => p.code = Number(m.code) /\ p.status = m.status

WholeMessageRead ==
  arrived = Len(Text(message)) =>
    IF Fault(message) = "" THEN ReadAs(parser, message) ELSE parser.answer = Fault(message)

NothingReadEarly ==
  arrived < Len(Text(message)) =>
    parser.state # "END_MESSAGE" /\ parser.answer \in {"", Fault(message)}
=============================================================================
