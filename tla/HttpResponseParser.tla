------------------------- MODULE HttpResponseParser -------------------------
(* The client side of an HTTP call: FibpHttpClient::get_response reading  *)
(* the upstream's answer through response::parser_impl::parse             *)
(* (HttpProtocolHandler.cpp), whose callbacks http_parser_execute calls   *)
(* for the bytes of each read, on a connection a pooled client keeps      *)
(* across calls while the responses say keep-alive.                       *)
(*                                                                         *)
(* The environment actions are the upstream and http_parser: they record, *)
(* in the ghost msg, the response whose pieces they report, tagged with   *)
(* the call during which it began.  A string is a sequence of Chars, one  *)
(* piece is one character.  A response is framed (Content-Length or       *)
(* chunked: http_parser completes it by itself) or runs until the upstream *)
(* closes.  The request that precedes each call (send_request) is in      *)
(* ForwardCall; here a call starts on an open connection, a closed one    *)
(* being reconnected by the send.                                          *)
EXTENDS Naturals, Sequences, SequencesExt

CONSTANTS
  Chars,     \* the characters of reason phrases, header names and values, bodies
  Codes,     \* status codes the upstream answers with
  MaxLen,    \* characters of one token
  MaxHdrs,   \* headers of one response
  MaxCalls   \* get_response calls on the client

OK == 200
BAD_REQUEST == 400
NOT_FOUND == 404
GATEWAY_TIMEOUT == 504

VARIABLES
  pstate,    \* parser_impl::state_
  rsp,       \* next_rsp_, the response the callbacks fill
  cont,      \* parser_impl::should_continue_
  sock,      \* the session's socket: "open" or "closed"
  call,      \* get_response: "idle" (never called), "reading", "done"
  result,    \* what the last get_response returned
  ncalls,    \* get_response calls so far
  (* the upstream's side *)
  phase,     \* the part of the response being reported
  cut,       \* a read boundary since the last callback
  msg,       \* the response the upstream is sending or last sent
  complete,  \* http_parser has reported msg complete
  peerEof    \* the upstream has closed the connection

vars == <<pstate, rsp, cont, sock, call, result, ncalls,
          phase, cut, msg, complete, peerEof>>

States == {"none", "start", "status", "field", "value", "body", "end"}
Phases == {"idle", "start", "status", "field", "value", "body"}
Str == BoundedSeq(Chars, MaxLen)
Hdr == Str \X Str
Rsp == [status : Str, hdrs : BoundedSeq(Hdr, MaxHdrs), body : Str,
        code : Codes \cup {GATEWAY_TIMEOUT}, keep : BOOLEAN]
Msg == [call : 0..MaxCalls, code : Codes \cup {GATEWAY_TIMEOUT}, keep : BOOLEAN,
        framed : BOOLEAN, status : Str, hdrs : BoundedSeq(Hdr, MaxHdrs), body : Str]
Result == [ok : BOOLEAN, kind : {"body", "status", "timeout"}, s : Str, retry : BOOLEAN]

\* response_t::clear().
Cleared == [status |-> <<>>, hdrs |-> <<>>, body |-> <<>>,
            code |-> GATEWAY_TIMEOUT, keep |-> FALSE]
NoMsg == [call |-> 0, code |-> GATEWAY_TIMEOUT, keep |-> FALSE, framed |-> TRUE,
          status |-> <<>>, hdrs |-> <<>>, body |-> <<>>]

TypeOK ==
  /\ pstate \in States /\ rsp \in Rsp /\ cont \in BOOLEAN
  /\ sock \in {"open", "closed"} /\ call \in {"idle", "reading", "done"}
  /\ result \in Result /\ ncalls \in 0..MaxCalls
  /\ phase \in Phases /\ cut \in BOOLEAN /\ msg \in Msg
  /\ complete \in BOOLEAN /\ peerEof \in BOOLEAN

\* A new FibpHttpClient: a fresh next_rsp_ and a connected session.
Init ==
  /\ pstate = "none" /\ rsp = Cleared /\ cont = TRUE
  /\ sock = "open" /\ call = "idle"
  /\ result = [ok |-> FALSE, kind |-> "status", s |-> <<>>, retry |-> TRUE]
  /\ ncalls = 0
  /\ phase = "idle" /\ cut = FALSE /\ msg = NoMsg /\ complete = FALSE
  /\ peerEof = FALSE

-----------------------------------------------------------------------------
(* The callbacks of response::parser_impl.                                 *)

\* on_msg_begin: clear the response.
OnMsgBegin ==
  /\ rsp' = Cleared /\ pstate' = "start"
  /\ UNCHANGED cont

\* on_status_complete: append to the reason phrase while it continues,
\* else assign it.
OnStatus(c) ==
  /\ rsp' = [rsp EXCEPT !.status = IF pstate = "status" THEN Append(@, c) ELSE <<c>>]
  /\ pstate' = "status"
  /\ UNCHANGED cont

\* on_header_field and on_header_value, as on the request side.
OnHeaderField(c) ==
  /\ rsp' = [rsp EXCEPT !.hdrs =
               IF pstate = "field"
               THEN ReplaceAt(@, Len(@), <<Append(Last(@)[1], c), Last(@)[2]>>)
               ELSE Append(@, <<<<c>>, <<>>>>)]
  /\ pstate' = "field"
  /\ UNCHANGED cont

OnHeaderValue(c) ==
  /\ rsp' = [rsp EXCEPT !.hdrs =
               ReplaceAt(@, Len(@),
                 <<Last(@)[1],
                   IF pstate = "value" THEN Append(Last(@)[2], c) ELSE <<c>>>>)]
  /\ pstate' = "value"
  /\ UNCHANGED cont

\* on_body: append.
OnBody(c) ==
  /\ rsp' = [rsp EXCEPT !.body = Append(@, c)]
  /\ pstate' = "body"
  /\ UNCHANGED cont

\* on_msg_complete: the status code and http_should_keep_alive, which is
\* false for a response that ends with the connection; stop the loop.
Completed == [rsp EXCEPT !.code = msg.code, !.keep = msg.keep /\ msg.framed]

OnMsgComplete ==
  /\ rsp' = Completed /\ pstate' = "end" /\ cont' = FALSE

-----------------------------------------------------------------------------
(* FibpHttpClient::get_response.                                           *)

\* prepare_timeout, next_rsp_.clear(), and parse() setting should_continue_
\* and state_ before its first read.
StartGetResponse ==
  /\ call \in {"idle", "done"} /\ sock = "open" /\ ncalls < MaxCalls
  /\ call' = "reading" /\ ncalls' = ncalls + 1
  /\ rsp' = Cleared /\ cont' = TRUE /\ pstate' = "none"
  /\ UNCHANGED <<sock, result, phase, cut, msg, complete, peerEof>>

\* The send of the next call reconnects a session that was shut down.
Reconnect ==
  /\ call = "done" /\ sock = "closed" /\ ncalls < MaxCalls
  /\ sock' = "open" /\ peerEof' = FALSE /\ phase' = "idle" /\ cut' = FALSE
  /\ UNCHANGED <<pstate, rsp, cont, call, result, ncalls, msg, complete>>

\* Mutant: the session is kept whatever the response said.
GetResponseEndKeepAll(r, ret, ec) ==
  /\ sock' = IF ec \in {"eof", "aborted"} THEN "closed" ELSE sock
  /\ result' = [ok |-> ret /\ r.code = OK,
                kind |-> IF ret /\ r.code = OK THEN "body"
                         ELSE IF ec = "aborted" THEN "timeout" ELSE "status",
                s |-> IF ret /\ r.code = OK THEN r.body ELSE r.status,
                retry |-> r.code \notin {BAD_REQUEST, NOT_FOUND}]
  /\ call' = "done"

\* After parse returns ret with error code ec for the response r: shut the
\* session down unless r is keep-alive, and always at end of file or after
\* the deadline; the body of a 200 is the answer, else the reason phrase
\* (TIMEOUT_ERR after the deadline), and 400 or 404 clear can_retry_.
GetResponseEnd(r, ret, ec) ==
  /\ sock' = IF ~r.keep \/ ec \in {"eof", "aborted"} THEN "closed" ELSE sock
  /\ result' = [ok |-> ret /\ r.code = OK,
                kind |-> IF ret /\ r.code = OK THEN "body"
                         ELSE IF ec = "aborted" THEN "timeout" ELSE "status",
                s |-> IF ret /\ r.code = OK THEN r.body ELSE r.status,
                retry |-> r.code \notin {BAD_REQUEST, NOT_FOUND}]
  /\ call' = "done"

-----------------------------------------------------------------------------
(* parse(): the upstream's bytes as http_parser reports them.              *)

Piece == cut' = FALSE
Cont(p) == phase = p => cut
Reading == call = "reading" /\ ~peerEof
Pieces == <<pstate, rsp, cont, sock, call, result, ncalls, complete, peerEof>>

\* The status line of a new response.
MsgBegin ==
  /\ Reading /\ phase = "idle" /\ cut
  /\ OnMsgBegin
  /\ \E code \in Codes, keep, framed \in BOOLEAN :
       msg' = [call |-> ncalls, code |-> code, keep |-> keep, framed |-> framed,
               status |-> <<>>, hdrs |-> <<>>, body |-> <<>>]
  /\ phase' = "start" /\ complete' = FALSE /\ Piece
  /\ UNCHANGED <<sock, call, result, ncalls, peerEof>>

Status(c) ==
  /\ Reading /\ phase \in {"start", "status"} /\ Cont("status")
  /\ Len(msg.status) < MaxLen
  /\ OnStatus(c)
  /\ phase' = "status" /\ msg' = [msg EXCEPT !.status = Append(@, c)]
  /\ Piece /\ UNCHANGED <<sock, call, result, ncalls, complete, peerEof>>

FieldStart(c) ==
  /\ Reading /\ phase \in {"start", "status", "value"} /\ Len(msg.hdrs) < MaxHdrs
  /\ OnHeaderField(c)
  /\ phase' = "field" /\ msg' = [msg EXCEPT !.hdrs = Append(@, <<<<c>>, <<>>>>)]
  /\ Piece /\ UNCHANGED <<sock, call, result, ncalls, complete, peerEof>>

FieldMore(c) ==
  /\ Reading /\ phase = "field" /\ cut /\ Len(Last(msg.hdrs)[1]) < MaxLen
  /\ OnHeaderField(c)
  /\ msg' = [msg EXCEPT !.hdrs = ReplaceAt(@, Len(@),
                                  <<Append(Last(@)[1], c), Last(@)[2]>>)]
  /\ Piece /\ UNCHANGED <<sock, call, result, ncalls, phase, complete, peerEof>>

Value(c) ==
  /\ Reading /\ phase \in {"field", "value"} /\ Cont("value")
  /\ Len(Last(msg.hdrs)[2]) < MaxLen
  /\ OnHeaderValue(c)
  /\ phase' = "value"
  /\ msg' = [msg EXCEPT !.hdrs = ReplaceAt(@, Len(@),
                                  <<Last(@)[1], Append(Last(@)[2], c)>>)]
  /\ Piece /\ UNCHANGED <<sock, call, result, ncalls, complete, peerEof>>

Body(c) ==
  /\ Reading /\ phase \in {"start", "status", "value", "body"} /\ Len(msg.body) < MaxLen
  /\ OnBody(c)
  /\ phase' = "body" /\ msg' = [msg EXCEPT !.body = Append(@, c)]
  /\ Piece /\ UNCHANGED <<sock, call, result, ncalls, complete, peerEof>>

\* A framed response ends inside a read: on_msg_complete clears
\* should_continue_, the loop breaks and parse returns true.
MsgComplete ==
  /\ Reading /\ phase # "idle" /\ msg.framed
  /\ OnMsgComplete /\ GetResponseEnd(Completed, TRUE, "none")
  /\ phase' = "idle" /\ complete' = TRUE /\ Piece
  /\ UNCHANGED <<ncalls, msg, peerEof>>

\* parse() reads the next buffer.
ReadSome ==
  /\ Reading /\ ~cut
  /\ cut' = TRUE
  /\ UNCHANGED <<pstate, rsp, cont, sock, call, result, ncalls, phase, msg, complete, peerEof>>

\* A response that runs until the close ends at end of file once its
\* headers have; its body has begun, or the blank line may have come.
EofCompletes == ~msg.framed /\ phase # "idle"

\* The read returns 0 bytes with eof: http_parser_execute on them may
\* complete the response, and parse returns true whatever it has.
ReadEof ==
  /\ call = "reading"
  /\ \/ /\ EofCompletes
        /\ OnMsgComplete /\ GetResponseEnd(Completed, TRUE, "eof")
        /\ complete' = TRUE
     \/ /\ ~(EofCompletes /\ phase = "body")
        /\ GetResponseEnd(rsp, TRUE, "eof")
        /\ UNCHANGED <<pstate, rsp, cont, complete>>
  /\ phase' = "idle" /\ cut' = FALSE /\ peerEof' = TRUE
  /\ UNCHANGED <<ncalls, msg>>

\* A read error (reset), the deadline (check_deadline cancels the read:
\* operation_aborted), or bytes http_parser rejects (nparsed != recved):
\* parse returns false with what the callbacks had filled.
ReadFails ==
  /\ call = "reading"
  /\ \E ec \in {"error", "aborted", "none"} : GetResponseEnd(rsp, FALSE, ec)
  /\ UNCHANGED <<pstate, rsp, cont, ncalls, phase, cut, msg, complete, peerEof>>

\* The upstream closes a kept connection while the client sits in the pool.
IdleClose ==
  /\ call \in {"idle", "done"} /\ sock = "open" /\ ~peerEof /\ phase = "idle"
  /\ peerEof' = TRUE
  /\ UNCHANGED <<pstate, rsp, cont, sock, call, result, ncalls, phase, cut, msg, complete>>

\* The client has made its calls.
Done ==
  /\ call = "done" /\ ncalls = MaxCalls
  /\ UNCHANGED vars

Next ==
  \/ StartGetResponse \/ Reconnect \/ MsgBegin \/ MsgComplete
  \/ \E c \in Chars : Status(c) \/ FieldStart(c) \/ FieldMore(c) \/ Value(c) \/ Body(c)
  \/ ReadSome \/ ReadEof \/ ReadFails \/ IdleClose \/ Done

Spec == Init /\ [][Next]_vars

-----------------------------------------------------------------------------
(* Properties.                                                             *)

\* get_response succeeds exactly when a whole 200 response that began
\* during this call was read, and then returns that response's body: never
\* a response cut by the upstream's close or a read error, and never the
\* rest of an earlier call's response left on a kept connection.  About
\* get_response keeping the session only for a complete keep-alive
\* response (keep_alive_ is cleared and set only by on_msg_complete),
\* parse returning true at end of file with whatever it has, and the
\* callbacks joining the pieces of each token.
ResponseReturned ==
  call = "done" =>
    /\ result.ok <=> (complete /\ msg.call = ncalls /\ msg.code = OK)
    /\ result.ok => result.s = msg.body

====
