------------------------------- MODULE H3Body -------------------------------
(***************************************************************************)
(* One request of a configured server, from its body to its answer:        *)
(*   - the event thread collects the body in a buffer that doubles up to   *)
(*     H3MaxRequestBodySize (on_recv_data, h3_callbacks.c);                *)
(*   - the worker turns it into an httpd request (stream_worker,           *)
(*     h3_request.c) that the hooks accept or refuse (h3_hooks.c);         *)
(*   - the handler reads the body through the input filter and writes an   *)
(*     answer, captured whole when H3MaxResponseBodySize is set            *)
(*     (h3_filter.c).                                                      *)
(*                                                                         *)
(* Bytes are numbered from 1 in the order the peer sends them, and in the  *)
(* order the handler writes them.  A buffer is a function on its allocated *)
(* positions.  Without H3MaxResponseBodySize the answer goes to the queue  *)
(* of module H3Response.                                                   *)
(***************************************************************************)
EXTENDS H3Config

CONSTANTS
    H3_BODY_BUF_INIT_CAP,
    Newlines,       \* the bytes of the body that are a newline
    Arguments,      \* for each server the numbers its directives give
    MaxChunk,       \* bound: bytes of one delivery, one read or one bucket
    MaxSent,        \* bound: bytes the peer sends
    MaxWritten      \* bound: bytes the handler writes

ASSUME BodyAssumption ==
    /\ H3_BODY_BUF_INIT_CAP \in Nat \ {0}
    /\ Newlines \subseteq Nat
    /\ Arguments \in [Servers -> SUBSET Int]
    /\ MaxChunk \in Nat \ {0}
    /\ MaxSent \in Nat
    /\ MaxWritten \in Nat

VARIABLES
    rpc,                    \* where the request is
    peer_sent,              \* bytes of the body delivered by nghttp3
    request_body, request_body_len, request_body_capacity,
    request_body_overflow, body_truncated,
    content_length,         \* what the handler is told
    request_body_offset,
    read,                   \* the bytes the handler has consumed
    eos,                    \* it has seen the end of the body
    redirected,             \* by an internal redirect of httpd
    alt_svc,                \* the Alt-Svc header, <<port, age>> or <<>>
    written,                \* bytes in the buckets the capture could read
    dropped,                \* why others are missing: "unreadable", "error"
    dataheap, dataheaplen, dataheapcap, response_too_large,
    status, body_out,       \* the answer
    new_cap, len            \* locals of the two growth loops

requestVars == <<peer_sent, request_body, request_body_len, request_body_capacity,
                 request_body_overflow, body_truncated>>
readVars == <<request_body_offset, read, eos, redirected>>
captureVars == <<written, dropped, dataheap, dataheaplen, dataheapcap, response_too_large>>
answerVars == <<content_length, alt_svc, status, body_out>>
growVars == <<new_cap, len>>
bodyVars == <<rpc, requestVars, readVars, captureVars, answerVars, growVars>>
vars == <<configVars, bodyVars>>

\* session->s and ctx->s are the server of the listener.
Conf == conf[owner]
Empty == [i \in {} |-> 0]

Init ==
    /\ ConfigInit
    /\ rpc = "receive"
    /\ peer_sent = 0
    /\ request_body = Empty /\ request_body_len = 0 /\ request_body_capacity = 0
    /\ request_body_overflow = FALSE /\ body_truncated = FALSE
    /\ content_length = 0
    /\ request_body_offset = 0 /\ read = <<>> /\ eos = FALSE /\ redirected = FALSE
    /\ alt_svc = <<>>
    /\ written = 0 /\ dropped = {}
    /\ dataheap = Empty /\ dataheaplen = 0 /\ dataheapcap = 0
    /\ response_too_large = FALSE
    /\ status = 0 /\ body_out = <<>>
    /\ new_cap = 0 /\ len = 0

-----------------------------------------------------------------------------
(* Buffers *)

\* apr_palloc of a larger buffer, and the memcpy of the bytes held so far.
Grown(buf, held, cap) == [i \in 1..cap |-> IF i <= held THEN buf[i] ELSE 0]

\* memcpy of n bytes behind the first held ones; the bytes are first + 1, ...
Copied(buf, held, first, n) ==
    [i \in DOMAIN buf |->
        IF i \in (held + 1)..(held + n) THEN first + (i - held) ELSE buf[i]]

-----------------------------------------------------------------------------
(* The event thread: the body arrives *)

\* Mutant: the bytes of this delivery are not counted.
OverRequestLimit_held(datalen) ==
    request_body_len > Conf["h3_max_request_body_size"]

OverRequestLimit(datalen) ==
    request_body_len + datalen > Conf["h3_max_request_body_size"]

FirstRequestCap ==
    IF request_body_capacity # 0 THEN request_body_capacity ELSE H3_BODY_BUF_INIT_CAP

on_recv_data(datalen) ==
    /\ phase = "up" /\ rpc = "receive"
    /\ peer_sent + datalen <= MaxSent
    /\ peer_sent' = peer_sent + datalen
    /\ \/ /\ request_body_overflow
          /\ UNCHANGED <<rpc, request_body, request_body_len, request_body_overflow, growVars>>
       \/ /\ ~request_body_overflow
          /\ OverRequestLimit(datalen)
          /\ request_body_overflow' = TRUE
          /\ UNCHANGED <<rpc, request_body, request_body_len, growVars>>
       \/ /\ ~request_body_overflow
          /\ ~OverRequestLimit(datalen)
          /\ request_body_len + datalen <= request_body_capacity
          /\ request_body' = Copied(request_body, request_body_len, peer_sent, datalen)
          /\ request_body_len' = request_body_len + datalen
          /\ UNCHANGED <<rpc, request_body_overflow, growVars>>
       \/ /\ ~request_body_overflow
          /\ ~OverRequestLimit(datalen)
          /\ request_body_len + datalen > request_body_capacity
          /\ rpc' = "grow_request"
          /\ len' = datalen
          /\ new_cap' = FirstRequestCap
          /\ UNCHANGED <<request_body, request_body_len, request_body_overflow>>
    /\ UNCHANGED <<configVars, request_body_capacity, body_truncated, readVars,
                   captureVars, answerVars>>

\* One round of the while loop.
double_request ==
    /\ rpc = "grow_request"
    /\ new_cap < request_body_len + len
    /\ new_cap' = 2 * new_cap
    /\ UNCHANGED <<configVars, rpc, requestVars, readVars, captureVars, answerVars, len>>

ClippedCap == IF new_cap > Conf["h3_max_request_body_size"]
              THEN Conf["h3_max_request_body_size"] ELSE new_cap

store_request ==
    /\ rpc = "grow_request"
    /\ new_cap >= request_body_len + len
    /\ request_body' = Copied(Grown(request_body, request_body_len, ClippedCap),
                              request_body_len, peer_sent - len, len)
    /\ request_body_capacity' = ClippedCap
    /\ request_body_len' = request_body_len + len
    /\ rpc' = "receive" /\ new_cap' = 0 /\ len' = 0
    /\ UNCHANGED <<configVars, peer_sent, request_body_overflow, body_truncated,
                   readVars, captureVars, answerVars>>

\* The end of the body, and STOP_SENDING, which ends it early.  The stream is
\* then dispatched.
body_completes ==
    /\ phase = "up" /\ rpc = "receive"
    /\ rpc' = "dispatched"
    /\ UNCHANGED <<configVars, requestVars, readVars, captureVars, answerVars, growVars>>

on_stop_sending ==
    /\ phase = "up" /\ rpc = "receive"
    /\ body_truncated' = TRUE
    /\ rpc' = "dispatched"
    /\ UNCHANGED <<configVars, peer_sent, request_body, request_body_len,
                   request_body_capacity, request_body_overflow, readVars,
                   captureVars, answerVars, growVars>>

-----------------------------------------------------------------------------
(* The worker: the request enters httpd *)

h3_hook_access_checker ==
    CASE request_body_overflow -> 413
      [] ~request_body_overflow /\ body_truncated -> 400
      [] OTHER -> 200

\* The Alt-Svc header of a server; httpd runs the hook for every protocol.
h3_hook_fixups(v) ==
    IF HasPair(conf[v]) /\ conf[v]["h3_port"] # 0 /\ conf[v]["h3_alt_svc"] # 2
    THEN <<conf[v]["h3_port"], conf[v]["h3_alt_svc_max_age"]>>
    ELSE <<>>

(* stream_worker up to the handler: the Host header selects server v, or   *)
(* is refused; the body is refused by the worker or by the access checker; *)
(* fixups adds Alt-Svc, and the handler starts.                            *)
stream_worker(v, hostIsGood) ==
    /\ rpc = "dispatched"
    /\ content_length' = request_body_len
    /\ \/ /\ ~hostIsGood
          /\ rpc' = "error" /\ status' = 400
          /\ UNCHANGED alt_svc
       \/ /\ hostIsGood /\ request_body_overflow
          /\ rpc' = "error" /\ status' = 413
          /\ UNCHANGED alt_svc
       \/ /\ hostIsGood /\ ~request_body_overflow
          /\ status' = h3_hook_access_checker
          /\ rpc' = IF h3_hook_access_checker = 200 THEN "handler" ELSE "error"
          /\ alt_svc' = IF h3_hook_access_checker = 200 THEN h3_hook_fixups(v) ELSE <<>>
    /\ UNCHANGED <<configVars, requestVars, readVars, captureVars, body_out, growVars>>

-----------------------------------------------------------------------------
(* The handler reads *)

Avail == request_body_len - request_body_offset
NewlinesAhead == {i \in 1..Avail : request_body[request_body_offset + i] \in Newlines}

Want(mode, readbytes) ==
    CASE mode \in {"READBYTES", "SPECULATIVE"} ->
            IF readbytes > 0 /\ readbytes < Avail THEN readbytes ELSE Avail
      [] mode = "GETLINE" ->
            IF NewlinesAhead # {}
            THEN CHOOSE i \in NewlinesAhead : \A j \in NewlinesAhead : i <= j
            ELSE Avail
      [] mode = "EXHAUSTIVE" -> Avail

\* Mutant: a speculative read consumes the bytes.
Advance_always(mode, want) == want

Advance(mode, want) == IF mode = "SPECULATIVE" THEN 0 ELSE want

serve_request_body(mode, readbytes) ==
    /\ IF Avail = 0
       THEN /\ eos' = TRUE
            /\ UNCHANGED <<request_body_offset, read>>
       ELSE LET want == Want(mode, readbytes)
                bytes == [i \in 1..want |-> request_body[request_body_offset + i]]
            IN  /\ read' = IF mode = "SPECULATIVE" THEN read ELSE read \o bytes
                /\ request_body_offset' = request_body_offset + Advance(mode, want)
                /\ eos' = (eos \/ (mode # "SPECULATIVE"
                                     /\ request_body_offset' >= request_body_len))
    /\ UNCHANGED redirected

\* No body is found for the request: end of file.
input_filter_eos(mode) ==
    /\ mode \in {"READBYTES", "GETLINE"}
    /\ eos' = TRUE
    /\ UNCHANGED <<request_body_offset, read, redirected>>

\* The modes INIT and EATCRLF find nothing to do.
h3_filter_in_proto(mode, readbytes) ==
    /\ rpc = "handler"
    /\ \/ redirected /\ input_filter_eos(mode)
       \/ ~redirected /\ serve_request_body(mode, readbytes)
    /\ UNCHANGED <<configVars, rpc, requestVars, captureVars, answerVars, growVars>>

\* httpd gives the redirected request a request_config of its own, in which
\* h3_filter_in_proto finds no stream.
ap_internal_redirect ==
    /\ rpc = "handler" /\ ~redirected
    /\ redirected' = TRUE
    /\ UNCHANGED <<configVars, rpc, requestVars, request_body_offset, read, eos,
                   captureVars, answerVars, growVars>>

-----------------------------------------------------------------------------
(* The handler writes *)

Limit == Conf["h3_max_response_body_size"]
streaming == Limit = Default["h3_max_response_body_size"]

\* Mutant: each bucket is held against the limit on its own.
OverResponseLimit_bucket(n) == n > Limit

OverResponseLimit(n) == dataheaplen > Limit \/ n > Limit - dataheaplen

FirstResponseCap == IF dataheapcap # 0 THEN 2 * dataheapcap ELSE H3_BODY_BUF_INIT_CAP

(* A bucket of n bytes reaches the capturing output filter and is read.    *)
capture_body_bucket(n) ==
    /\ rpc \in {"handler", "error"} /\ ~streaming
    /\ written + n <= MaxWritten
    /\ written' = written + n
    /\ \/ /\ response_too_large \/ n = 0
          /\ UNCHANGED <<rpc, dataheap, dataheaplen, response_too_large, status, growVars>>
       \/ /\ ~response_too_large /\ n # 0
          /\ OverResponseLimit(n)
          /\ response_too_large' = TRUE
          /\ UNCHANGED <<rpc, dataheap, dataheaplen, status, growVars>>
       \/ /\ ~response_too_large /\ n # 0
          /\ ~OverResponseLimit(n)
          /\ dataheaplen + n <= dataheapcap
          /\ dataheap' = Copied(dataheap, dataheaplen, written, n)
          /\ dataheaplen' = dataheaplen + n
          /\ UNCHANGED <<rpc, response_too_large, status, growVars>>
       \/ /\ ~response_too_large /\ n # 0
          /\ ~OverResponseLimit(n)
          /\ dataheaplen + n > dataheapcap
          /\ rpc' = "grow_response"
          /\ len' = n
          /\ new_cap' = FirstResponseCap
          /\ UNCHANGED <<dataheap, dataheaplen, response_too_large, status>>
    /\ UNCHANGED <<configVars, requestVars, readVars, dropped, dataheapcap,
                   content_length, alt_svc, body_out>>

(* apr_bucket_read fails: the bucket is passed over and the filter returns *)
(* success, so the handler goes on.                                        *)
unreadable_bucket ==
    /\ rpc \in {"handler", "error"} /\ ~streaming /\ ~response_too_large
    /\ dropped' = dropped \cup {"unreadable"}
    /\ UNCHANGED <<configVars, rpc, requestVars, readVars, written, dataheap,
                   dataheaplen, dataheapcap, response_too_large, answerVars, growVars>>

(* An error bucket: what follows it in the brigade is dropped, and the     *)
(* page that ap_send_error_response writes comes through this filter as    *)
(* buckets like any other, behind what is captured already.  The status in *)
(* the bucket is not looked at.                                            *)
error_bucket ==
    /\ rpc \in {"handler", "error"} /\ ~streaming
    /\ dropped' = dropped \cup {"error"}
    /\ UNCHANGED <<configVars, rpc, requestVars, readVars, written, dataheap,
                   dataheaplen, dataheapcap, response_too_large, answerVars, growVars>>

double_response ==
    /\ rpc = "grow_response"
    /\ new_cap < dataheaplen + len
    /\ new_cap' = 2 * new_cap
    /\ UNCHANGED <<configVars, rpc, requestVars, readVars, captureVars, answerVars, len>>

store_response ==
    /\ rpc = "grow_response"
    /\ new_cap >= dataheaplen + len
    /\ dataheap' = Copied(Grown(dataheap, dataheaplen, new_cap),
                          dataheaplen, written - len, len)
    /\ dataheapcap' = new_cap
    /\ dataheaplen' = dataheaplen + len
    /\ rpc' = IF status = 200 THEN "handler" ELSE "error"
    /\ new_cap' = 0 /\ len' = 0
    /\ UNCHANGED <<configVars, requestVars, readVars, written, dropped,
                   response_too_large, answerVars>>

(* The rest of stream_worker, once ap_process_request or ap_die returns:   *)
(* what is handed to h3_response_start and h3_stream_response_append.  The *)
(* text of the error is the body <<0>>.                                    *)
answer ==
    /\ rpc \in {"handler", "error"} /\ ~streaming
    /\ IF response_too_large
       THEN status' = 500 /\ body_out' = <<0>>
       ELSE /\ body_out' = [i \in 1..dataheaplen |-> dataheap[i]]
            /\ UNCHANGED status
    /\ rpc' = "answered"
    /\ UNCHANGED <<configVars, requestVars, readVars, captureVars, content_length,
                   alt_svc, growVars>>

\* With streaming the answer has gone through the queue.
answer_streamed ==
    /\ rpc \in {"handler", "error"} /\ streaming
    /\ rpc' = "answered"
    /\ UNCHANGED <<configVars, requestVars, readVars, captureVars, answerVars, growVars>>

-----------------------------------------------------------------------------
DirectiveNext ==
    \E v \in Servers :
        \/ set_h3_cert_path(v, v) \/ set_h3_key_path(v, v)
        \/ \E flag \in {1, 2} :
              set_h3_alt_svc(v, flag) \/ set_h3_address_validation(v, flag)
        \/ \E val \in Arguments[v] :
              \/ set_h3_port(v, val)
              \/ set_h3_max_concurrent_streams(v, val)
              \/ set_h3_max_connections(v, val)
              \/ set_h3_stream_buffer_size(v, val)
              \/ set_h3_max_request_body_size(v, val)
              \/ set_h3_max_response_body_size(v, val)
              \/ set_h3_handshake_timeout(v, val)
              \/ set_h3_idle_timeout(v, val)
              \/ set_h3_alt_svc_max_age(v, val)

ConfigNext ==
    /\ \/ DirectiveNext
       \/ merge_virtual_hosts
       \/ \E v \in Servers : h3_post_config(v)
       \/ h3_post_config_fails
       \/ \E v \in Servers : find_h3_server(v)
    /\ UNCHANGED bodyVars

ReceiveNext ==
    \/ \E datalen \in 1..MaxChunk : on_recv_data(datalen)
    \/ double_request
    \/ store_request
    \/ body_completes
    \/ on_stop_sending

HandlerNext ==
    \/ \E mode \in {"READBYTES", "SPECULATIVE", "GETLINE", "EXHAUSTIVE"},
          readbytes \in 0..MaxChunk : h3_filter_in_proto(mode, readbytes)
    \/ ap_internal_redirect
    \/ \E n \in 0..MaxChunk : capture_body_bucket(n)
    \/ unreadable_bucket
    \/ error_bucket
    \/ double_response
    \/ store_response
    \/ answer
    \/ answer_streamed

Finished ==
    /\ phase = "refused" \/ rpc = "answered"
    /\ UNCHANGED vars

Next ==
    \/ ConfigNext
    \/ ReceiveNext
    \/ \E v \in Servers, hostIsGood \in BOOLEAN : stream_worker(v, hostIsGood)
    \/ HandlerNext
    \/ Finished

Spec == Init /\ [][Next]_vars

-----------------------------------------------------------------------------
(* Properties *)

Explicit(v, f) == IF given[v][f] # 0 THEN given[v][f] ELSE given[1][f]

(* The server whose socket the child opens is the one h3_post_config has   *)
(* completed: each of its values is its own directive's, else the main     *)
(* server's, else the default, where the default of H3Port is the port of  *)
(* that server itself.  No limit it runs with is 0 or beyond the range its *)
(* setter accepts.  What it advertises in Alt-Svc is the port it listens   *)
(* on and a lifetime that is not 0.  (The records of the other servers are *)
(* not completed, and nothing is claimed of them.)                         *)
OwnerIsConfigured ==
    phase = "up" =>
        /\ \A f \in Fields : Conf[f] =
              IF Explicit(owner, f) # 0 THEN Explicit(owner, f) ELSE DefaultOf(owner, f)
        /\ HasPair(Conf)
        /\ \A f \in Limits : Conf[f] \in (1..Maximum[f]) \cup {Default[f]}
        /\ h3_hook_fixups(owner) # <<>> =>
              /\ h3_hook_fixups(owner)[1] = Conf["h3_port"] /\ Conf["h3_port"] # 0
              /\ h3_hook_fixups(owner)[2] # 0

\* The capacity a growth loop tries, for a need of so many bytes.
Bounded(needed) == /\ new_cap > 0
                   /\ new_cap < 2 * needed \/ new_cap = H3_BODY_BUF_INIT_CAP

(* on_recv_data keeps in a buffer of the allocated size, never larger than *)
(* H3MaxRequestBodySize, exactly the bytes delivered so far, in order,     *)
(* unless their number exceeds that limit; then, and only then, the        *)
(* overflow is noted.  Its doubling loop ends and does not run away: the   *)
(* capacity it tries is never 0, and below twice the bytes needed once it  *)
(* is past the initial one.                                                *)
RequestBodyKept ==
    phase = "up" =>
        /\ DOMAIN request_body = 1..request_body_capacity
        /\ request_body_len <= request_body_capacity
        /\ request_body_capacity <= Conf["h3_max_request_body_size"]
        /\ \A i \in 1..request_body_len : request_body[i] = i
        /\ rpc # "grow_request" =>
              /\ request_body_overflow <=> peer_sent > Conf["h3_max_request_body_size"]
              /\ ~request_body_overflow => request_body_len = peer_sent
        /\ rpc = "grow_request" => Bounded(request_body_len + len)

(* A handler runs only for a body that was neither too large nor cut off   *)
(* by STOP_SENDING.  Whatever mixture of reads it makes, the bytes it      *)
(* consumes are the body's from the first on, none skipped or repeated,    *)
(* and it sees the end of the body after the last of the Content-Length    *)
(* bytes it was told of, not before.  (Unless httpd redirects the request  *)
(* internally: the rest of the body is then out of its reach.)             *)
HandlerReadsBody ==
    /\ rpc = "handler" =>
          /\ ~request_body_overflow /\ ~body_truncated
          /\ content_length = peer_sent
    /\ read = [i \in 1..request_body_offset |-> i]
    /\ eos /\ ~redirected => request_body_offset = content_length

(* With H3MaxResponseBodySize the answer has the bytes of every bucket the *)
(* capture could read, an error page included, each once and in the order  *)
(* they were written, if those are within the limit; otherwise it is the   *)
(* complete 500 answer and none of them.  This is all the handler wrote if *)
(* `dropped` is empty; a bucket that cannot be read, or that follows an    *)
(* error bucket, is missing from the answer (see ReadErrorIsReturned).     *)
(* The doubling loop of the capture ends, and stays below twice its need.  *)
CaptureOrError ==
    /\ rpc = "answered" /\ ~streaming =>
          IF written > Limit
          THEN status = 500 /\ body_out = <<0>>
          ELSE status # 500 /\ body_out = [i \in 1..written |-> i]
    /\ rpc = "grow_response" => Bounded(dataheaplen + len)

(* "@return APR_SUCCESS, or an APR error if pool/brigade access fails"     *)
(* (h3_filter_out_proto): a request whose answer could not be read in full *)
(* is not answered as if it had succeeded.                                 *)
ReadErrorIsReturned ==
    rpc = "answered" /\ status = 200 => "unreadable" \notin dropped
=============================================================================
