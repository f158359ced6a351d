-------------------------- MODULE HttpRequestParser --------------------------
(* The request side of HttpProtocolHandler.cpp: the callbacks of          *)
(* request::parser_impl that http_parser_execute calls while do_parse     *)
(* feeds it the bytes of each read, and HttpConnection::request_cb that   *)
(* takes the finished request.  http_parser reports every token (url,     *)
(* header field, header value) with one callback per read buffer it       *)
(* spans, so a token cut by a read boundary arrives in several pieces;    *)
(* state_ tells a continuation from a new token.  The parser writes into  *)
(* next_context_; request_cb swaps it into a fresh context and hands that *)
(* to handleRequest.                                                      *)
(*                                                                         *)
(* The environment actions are http_parser's side of the contract: they   *)
(* record, in the ghost msg, the message whose pieces they report.  A     *)
(* string is a sequence of Chars, one piece is one character.  The split  *)
(* of url_ into host, port, path and query by http_parser_parse_url is    *)
(* not modelled: the delivered request carries url_ itself.               *)
EXTENDS Naturals, Sequences, SequencesExt

CONSTANTS
  Chars,    \* the characters of urls, header names and values and bodies
  MaxMsgs,  \* messages on the connection
  MaxHdrs,  \* headers of one message
  MaxLen    \* characters of one token

VARIABLES
  pstate,   \* parser_impl::state_
  url,      \* parser_impl::url_
  nextReq,  \* next_context_.req_: the headers_ and body_ being assembled
  cont,     \* should_continue_: the result of the last request_cb
  handed,   \* the requests request_cb gave to handleRequest, in order
  (* http_parser's side *)
  phase,    \* the part of the message being reported
  cut,      \* a read boundary since the last callback
  msg,      \* the message being reported
  msgs      \* the messages completely reported, in order

vars == <<pstate, url, nextReq, cont, handed, phase, cut, msg, msgs>>

States == {"none", "start", "url", "field", "value", "body", "end"}
Phases == {"idle", "start", "url", "field", "value", "body", "stopped"}
Str == BoundedSeq(Chars, MaxLen)
Hdr == Str \X Str
Req == [hdrs : BoundedSeq(Hdr, MaxHdrs), body : Str]
Msg == [url : Str, hdrs : BoundedSeq(Hdr, MaxHdrs), body : Str]

EmptyReq == [hdrs |-> <<>>, body |-> <<>>]
EmptyMsg == [url |-> <<>>, hdrs |-> <<>>, body |-> <<>>]

TypeOK ==
  /\ pstate \in States /\ url \in Str /\ nextReq \in Req /\ cont \in BOOLEAN
  /\ handed \in Seq(Msg) /\ Len(handed) <= MaxMsgs
  /\ phase \in Phases /\ cut \in BOOLEAN /\ msg \in Msg
  /\ msgs \in Seq(Msg) /\ Len(msgs) <= MaxMsgs

\* do_parse starts with should_continue_ set and state_ none, on a fresh
\* next_context_.
Init ==
  /\ pstate = "none" /\ url = <<>> /\ nextReq = EmptyReq /\ cont = TRUE
  /\ handed = <<>>
  /\ phase = "idle" /\ cut = FALSE /\ msg = EmptyMsg /\ msgs = <<>>

-----------------------------------------------------------------------------
(* The callbacks of request::parser_impl.                                  *)

\* on_msg_begin: clear the request and url_.
OnMsgBegin ==
  /\ pstate' = "start" /\ url' = <<>> /\ nextReq' = EmptyReq
  /\ UNCHANGED <<cont, handed>>

\* on_url: append to url_ while the url continues, else assign.
OnUrl(c) ==
  /\ url' = IF pstate = "url" THEN Append(url, c) ELSE <<c>>
  /\ pstate' = "url"
  /\ UNCHANGED <<nextReq, cont, handed>>

\* Mutant: every piece of a header name pushes a new header.
OnHeaderFieldAlwaysNew(c) ==
  /\ nextReq' = [nextReq EXCEPT !.hdrs = Append(@, <<<<c>>, <<>>>>)]
  /\ pstate' = "field"
  /\ UNCHANGED <<url, cont, handed>>

\* on_header_field: append to the last header's name while the name
\* continues, else push a new header.
OnHeaderField(c) ==
  /\ nextReq' = [nextReq EXCEPT !.hdrs =
               IF pstate = "field"
               THEN ReplaceAt(@, Len(@), <<Append(Last(@)[1], c), Last(@)[2]>>)
               ELSE Append(@, <<<<c>>, <<>>>>)]
  /\ pstate' = "field"
  /\ UNCHANGED <<url, cont, handed>>

\* on_header_value: append to the last header's value while the value
\* continues, else assign it.
OnHeaderValue(c) ==
  /\ nextReq' = [nextReq EXCEPT !.hdrs =
               ReplaceAt(@, Len(@),
                 <<Last(@)[1],
                   IF pstate = "value" THEN Append(Last(@)[2], c) ELSE <<c>>>>)]
  /\ pstate' = "value"
  /\ UNCHANGED <<url, cont, handed>>

\* on_body: append.
OnBody(c) ==
  /\ nextReq' = [nextReq EXCEPT !.body = Append(@, c)]
  /\ pstate' = "body"
  /\ UNCHANGED <<url, cont, handed>>

\* createContext swaps next_context_ into a new context, which goes to
\* handleRequest, and leaves next_context_ fresh.
CreateContext ==
  /\ handed' = Append(handed, [url |-> url, hdrs |-> nextReq.hdrs, body |-> nextReq.body])
  /\ nextReq' = EmptyReq

\* request_cb: true when handleRequest accepted the request and it is
\* keep-alive.
RequestCb(ok) == CreateContext /\ cont' = ok

\* on_msg_complete stores request_cb's answer in should_continue_.
OnMsgComplete(ok) ==
  /\ RequestCb(ok)
  /\ pstate' = "end"
  /\ UNCHANGED url

-----------------------------------------------------------------------------
(* http_parser reporting a message, one callback per token per buffer.    *)

Piece == cut' = FALSE
Cont(p) == phase = p => cut

MsgBegin ==
  /\ phase = "idle" /\ Len(msgs) < MaxMsgs
  /\ OnMsgBegin
  /\ phase' = "start" /\ msg' = EmptyMsg /\ Piece /\ UNCHANGED msgs

Url(c) ==
  /\ phase \in {"start", "url"} /\ Cont("url") /\ Len(msg.url) < MaxLen
  /\ OnUrl(c)
  /\ phase' = "url" /\ msg' = [msg EXCEPT !.url = Append(@, c)]
  /\ Piece /\ UNCHANGED msgs

\* A new header after the request line, a value, or a chunked body
\* (trailers).
FieldStart(c) ==
  /\ phase \in {"url", "value", "body"} /\ Len(msg.hdrs) < MaxHdrs
  /\ OnHeaderField(c)
  /\ phase' = "field" /\ msg' = [msg EXCEPT !.hdrs = Append(@, <<<<c>>, <<>>>>)]
  /\ Piece /\ UNCHANGED msgs

FieldMore(c) ==
  /\ phase = "field" /\ cut /\ Len(Last(msg.hdrs)[1]) < MaxLen
  /\ OnHeaderField(c)
  /\ msg' = [msg EXCEPT !.hdrs = ReplaceAt(@, Len(@),
                                  <<Append(Last(@)[1], c), Last(@)[2]>>)]
  /\ Piece /\ UNCHANGED <<phase, msgs>>

Value(c) ==
  /\ phase \in {"field", "value"} /\ Cont("value")
  /\ Len(Last(msg.hdrs)[2]) < MaxLen
  /\ OnHeaderValue(c)
  /\ phase' = "value"
  /\ msg' = [msg EXCEPT !.hdrs = ReplaceAt(@, Len(@),
                                  <<Last(@)[1], Append(Last(@)[2], c)>>)]
  /\ Piece /\ UNCHANGED msgs

\* Body pieces: one per buffer, or one per chunk of a chunked body.
Body(c) ==
  /\ phase \in {"url", "value", "body"} /\ Len(msg.body) < MaxLen
  /\ OnBody(c)
  /\ phase' = "body" /\ msg' = [msg EXCEPT !.body = Append(@, c)]
  /\ Piece /\ UNCHANGED msgs

\* A callback returning nonzero stops http_parser_execute, and do_parse
\* leaves its loop on a false should_continue_.
MsgComplete(ok) ==
  /\ phase \in {"url", "value", "body"}
  /\ OnMsgComplete(ok)
  /\ phase' = IF ok THEN "idle" ELSE "stopped"
  /\ msgs' = Append(msgs, msg) /\ msg' = EmptyMsg /\ Piece

\* do_parse reads the next buffer.
ReadSome ==
  /\ phase \notin {"idle", "stopped"} /\ ~cut
  /\ cut' = TRUE
  /\ UNCHANGED <<pstate, url, nextReq, cont, handed, phase, msg, msgs>>

\* The connection has stopped parsing, or closes after its last message.
Done ==
  /\ phase = "stopped" \/ (phase = "idle" /\ Len(msgs) = MaxMsgs)
  /\ UNCHANGED vars

Next ==
  \/ MsgBegin \/ ReadSome
  \/ \E c \in Chars : Url(c) \/ FieldStart(c) \/ FieldMore(c) \/ Value(c) \/ Body(c)
  \/ \E ok \in BOOLEAN : MsgComplete(ok)
  \/ Done

Spec == Init /\ [][Next]_vars

-----------------------------------------------------------------------------
(* Properties.                                                             *)

\* Every request request_cb hands to handleRequest carries exactly the
\* url, headers and body of the message http_parser reported, however the
\* reads cut its tokens and however many messages came before it on the
\* connection (on_url, on_header_field and on_header_value telling a
\* continuation from a new token by state_, and the swap in request_cb).
RequestsAssembled == handed = msgs

====
