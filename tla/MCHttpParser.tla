--------------------------- MODULE MCHttpParser ---------------------------
(* Instances of HttpParser for TLC: well-formed messages with every kind   *)
(* of line end, up to and beyond every limit.                              *)
EXTENDS HttpParser

LineEnds == {<<CR>>, <<LF>>, <<CR, LF>>}
MCBodyless == {<<"A">>}

LengthRows(n) == {<<"k", ":", " ", Digits[n + 1]>>, <<"k", ":", Digits[n + 1]>>}
OtherRows == {<<>>, << <<"x">> >>, << <<"x", ":", "A">> >>}

(* Rows with the length n of the body stated in the first or last of them. *)
RowsWith(n) == {r \o <<l>> : r \in OtherRows, l \in LengthRows(n)} \cup {<<l>> \o r : r \in OtherRows, l \in LengthRows(n)}
Bodies == {<<>>, <<"x">>, <<CR, LF>>, <<"x", LF, "k">>}

Plain(kind) == [kind : {kind}, method : {<<>>}, url : {<<>>}, version : {<<"x">>}, code : {<<>>}, status : {<<>>},
               rows : {<<>>}, eol : LineEnds, body : {<<>>}]

(* Requests without a body, and of any length of method and url; requests  *)
(* with a body, or with a length that is missing, wrong or too large.      *)
Requests ==
  {[m EXCEPT !.method = w, !.url = u, !.rows = r] : m \in Plain("request"),
     w \in {<<"A">>, <<"A", "A", "A">>}, u \in {<<>>, <<"x", "A">>, <<"x", "x", "x">>},
     r \in OtherRows \cup {<< <<"x", ":">>, <<"A">> >>, << <<"x", "x", "x">>, <<"x", "x", "x">> >>}}
  \cup UNION {{[m EXCEPT !.method = <<"A", "A">>, !.url = <<"x">>, !.rows = r, !.body = b] : m \in Plain("request"),
     r \in RowsWith(Len(b))} : b \in {c \in Bodies : Len(c) <= MaxData}}
  \cup {[m EXCEPT !.method = <<"A", "A">>, !.url = <<"x">>, !.rows = r] : m \in Plain("request"),
     r \in OtherRows \cup {<< <<"k", ":", "x">> >>, << <<"k", ":", "9">> >>, << <<"k", ":", "1", "2">> >>}}

Responses ==
  UNION {{[m EXCEPT !.code = c, !.status = s, !.rows = r, !.body = b] : m \in Plain("response"),
     c \in {<<"2">>, <<"2", "0">>}, s \in {<<>>, <<"x", " ">>, <<"x", "x", "x">>},
     r \in RowsWith(Len(b))} : b \in {c \in Bodies : Len(c) <= MaxData}}
  \cup {[m EXCEPT !.code = <<"5">>, !.status = <<"x">>, !.rows = r] : m \in Plain("response"), r \in OtherRows}

MCMessages == Requests \cup Responses

(* A row whose name ends with the key, before the row that has it. *)
MCLookup == {[m EXCEPT !.method = <<"A">>, !.rows = r] : m \in Plain("request"),
  r \in {<< <<"x", "k", ":", "1">>, <<"k", ":", "2">> >>}}
=============================================================================
