---------------------------- MODULE H3BodyProofs ----------------------------
(***************************************************************************)
(* Proofs about H3Config and H3Body for every number of servers, every     *)
(* default, maximum and initial capacity, and bodies of every length.      *)
(***************************************************************************)
EXTENDS H3Body, WellFoundedInduction, TLAPS

-----------------------------------------------------------------------------
(* The configuration *)

Merged(v) == IF v = 1 THEN given[1] ELSE h3_merge_server_config(given[1], given[v])

\* The record of a server that h3_post_config has completed.
Completed(v) ==
    conf[v] = [f \in Fields |-> IF Merged(v)[f] = 0 THEN DefaultOf(v, f) ELSE Merged(v)[f]]

\* Before h3_post_config the records are the merged ones; after it the first
\* server with a pair is completed, and the listener belongs to that one.
ConfigInv ==
    /\ phase \in {"read", "post", "init", "up", "refused"}
    /\ given \in [Servers -> [Fields -> Nat]]
    /\ \A v \in Servers : \A f \in Limits : given[v][f] \in 0..Maximum[f]
    /\ DOMAIN conf = Servers
    /\ phase = "read" => conf = given
    /\ phase = "post" => \A v \in Servers : conf[v] = Merged(v)
    /\ phase \in {"init", "up"} =>
          \A v \in Servers : IsFirstPair(v) => Completed(v)
    /\ phase = "up" => owner \in Servers /\ IsFirstPair(owner)

LEMMA ConfigInit_Inv == Init => ConfigInv
  <1> SUFFICES ASSUME Init PROVE ConfigInv
    OBVIOUS
  <1>1. given = [v \in Servers |-> [f \in Fields |-> 0]] /\ conf = given /\ phase = "read"
    BY DEF Init, ConfigInit, h3_create_server_config
  <1>2. given \in [Servers -> [Fields -> Nat]]
    BY <1>1
  <1>3. \A v \in Servers : \A f \in Limits : given[v][f] \in 0..Maximum[f]
    BY <1>1, ConfigAssumption DEF Fields
  <1> QED
    BY <1>1, <1>2, <1>3 DEF ConfigInv

\* A directive keeps the records equal to what is given, within range.
LEMMA Store_Inv ==
  ASSUME ConfigInv, phase = "read", NEW v \in Servers, NEW f \in Fields, NEW val \in Nat,
         f \in Limits => val \in 0..Maximum[f], Store(v, f, val)
  PROVE  ConfigInv'
  <1>1. given \in [Servers -> [Fields -> Nat]] /\ conf = given
    BY DEF ConfigInv
  <1>2. /\ given' = [given EXCEPT ![v][f] = val] /\ conf' = given'
        /\ phase' = "read"
    BY <1>1 DEF Store
  <1>3. given' \in [Servers -> [Fields -> Nat]]
    BY <1>1, <1>2
  <1>4. \A u \in Servers : \A g \in Limits : given'[u][g] \in 0..Maximum[g]
    <2> SUFFICES ASSUME NEW u \in Servers, NEW g \in Limits
                 PROVE  given'[u][g] \in 0..Maximum[g]
      OBVIOUS
    <2>1. given[u][g] \in 0..Maximum[g]
      BY DEF ConfigInv
    <2>2. g \in Fields
      BY DEF Fields
    <2>3. CASE u = v /\ g = f
      BY <1>1, <1>2, <2>2, <2>3
    <2>4. CASE ~(u = v /\ g = f)
      BY <1>1, <1>2, <2>1, <2>2, <2>4
    <2> QED
      BY <2>3, <2>4
  <1> QED
    BY <1>1, <1>2, <1>3, <1>4 DEF ConfigInv

LEMMA Refuse_Inv ==
  ASSUME ConfigInv, Refuse
  PROVE  ConfigInv'
  BY DEF ConfigInv, Refuse

LEMMA SetNumber_Inv ==
  ASSUME ConfigInv, NEW v \in Servers, NEW f \in Limits \cup {"h3_port"}, NEW val \in Int,
         set_number(v, f, val)
  PROVE  ConfigInv'
  <1>1. CASE val \in 1..Maximum[f]
    <2>1. val \in Nat /\ f \in Fields /\ (f \in Limits => val \in 0..Maximum[f])
      BY <1>1, ConfigAssumption DEF Fields
    <2> QED
      BY <1>1, <2>1, Store_Inv DEF set_number
  <1>2. CASE val \notin 1..Maximum[f]
    BY <1>2, Refuse_Inv DEF set_number
  <1> QED
    BY <1>1, <1>2

LEMMA SetFlag_Inv ==
  ASSUME ConfigInv, NEW v \in Servers, NEW f \in Flags \cup Paths, NEW val \in Nat,
         set_flag(v, f, val) \/ set_string(v, f, val)
  PROVE  ConfigInv'
  <1>1. f \in Fields /\ f \notin Limits
    BY DEF Fields, Flags, Paths, Limits
  <1> QED
    BY <1>1, Store_Inv DEF set_flag, set_string

LEMMA Directive_Inv ==
  ASSUME ConfigInv, DirectiveNext
  PROVE  ConfigInv'
  <1>1. PICK v \in Servers :
          \/ set_h3_cert_path(v, v) \/ set_h3_key_path(v, v)
          \/ \E flag \in {1, 2} : set_h3_alt_svc(v, flag) \/ set_h3_address_validation(v, flag)
          \/ \E val \in Arguments[v] : \E f \in Limits \cup {"h3_port"} : set_number(v, f, val)
    BY Zenon DEF DirectiveNext, Limits, set_h3_port, set_h3_max_concurrent_streams,
          set_h3_max_connections, set_h3_stream_buffer_size, set_h3_max_request_body_size,
          set_h3_max_response_body_size, set_h3_handshake_timeout, set_h3_idle_timeout,
          set_h3_alt_svc_max_age
  <1>2. v \in Nat
    BY ConfigAssumption DEF Servers
  <1>3. CASE set_h3_cert_path(v, v) \/ set_h3_key_path(v, v)
    BY <1>2, <1>3, SetFlag_Inv DEF set_h3_cert_path, set_h3_key_path, Paths
  <1>4. CASE \E flag \in {1, 2} : set_h3_alt_svc(v, flag) \/ set_h3_address_validation(v, flag)
    BY <1>4, SetFlag_Inv DEF set_h3_alt_svc, set_h3_address_validation, Flags
  <1>5. CASE \E val \in Arguments[v] : \E f \in Limits \cup {"h3_port"} : set_number(v, f, val)
    <2>1. Arguments[v] \subseteq Int
      BY BodyAssumption
    <2> QED
      BY <1>5, <2>1, SetNumber_Inv
  <1> QED
    BY <1>1, <1>3, <1>4, <1>5

LEMMA Merge_Inv ==
  ASSUME ConfigInv, merge_virtual_hosts
  PROVE  ConfigInv'
  <1>1. conf = given /\ given' = given /\ phase' = "post"
    BY DEF ConfigInv, merge_virtual_hosts
  <1>2. DOMAIN conf' = Servers /\ \A v \in Servers : conf'[v] = Merged(v)
    BY <1>1 DEF merge_virtual_hosts, Merged
  <1>3. \A v \in Servers : Merged(v)' = Merged(v)
    BY <1>1 DEF Merged
  <1> QED
    BY <1>1, <1>2, <1>3 DEF ConfigInv

LEMMA MergedType ==
  ASSUME ConfigInv, NEW v \in Servers
  PROVE  /\ Merged(v) \in [Fields -> Nat]
         /\ \A f \in Limits : Merged(v)[f] \in 0..Maximum[f]
         /\ \A f \in Fields : Merged(v)[f] = Explicit(v, f)
  <1>1. 1 \in Servers
    BY ConfigAssumption DEF Servers
  <1>2. /\ given[1] \in [Fields -> Nat] /\ given[v] \in [Fields -> Nat]
        /\ \A f \in Limits : given[1][f] \in 0..Maximum[f] /\ given[v][f] \in 0..Maximum[f]
    BY <1>1 DEF ConfigInv
  <1>3. Limits \subseteq Fields
    BY DEF Fields
  <1>4. CASE v = 1
    BY <1>2, <1>3, <1>4 DEF Merged, Explicit
  <1>5. CASE v # 1
    BY <1>2, <1>3, <1>5 DEF Merged, Explicit, h3_merge_server_config
  <1> QED
    BY <1>4, <1>5

\* h3_post_config changes which server has a pair for none of them.
LEMMA PostConfig_Inv ==
  ASSUME ConfigInv, NEW v \in Servers, h3_post_config(v)
  PROVE  ConfigInv'
  <1> DEFINE full == [f \in Fields |-> IF conf[v][f] = 0 THEN DefaultOf(v, f) ELSE conf[v][f]]
  <1>1. /\ phase = "post" /\ IsFirstPair(v) /\ conf' = [conf EXCEPT ![v] = full]
        /\ phase' \in {"init", "refused"} /\ given' = given
        /\ DOMAIN conf = Servers /\ \A u \in Servers : conf[u] = Merged(u)
    BY DEF h3_post_config, ConfigInv
  <1>2. \A u \in Servers : Merged(u)' = Merged(u)
    BY <1>1 DEF Merged
  <1>3. DOMAIN conf' = Servers /\ conf'[v] = full /\ \A u \in Servers \ {v} : conf'[u] = conf[u]
    BY <1>1
  <1>4. HasPair(conf'[v])
    BY <1>1, <1>3 DEF IsFirstPair, HasPair, Fields, Paths
  <1>5. Completed(v)'
    <2>1. \A f \in Fields : DefaultOf(v, f)' = DefaultOf(v, f)
      OBVIOUS
    <2> QED
      BY <1>1, <1>2, <1>3, <2>1 DEF Completed
  <1>6. \A u \in Servers : IsFirstPair(u)' => u = v
    <2> SUFFICES ASSUME NEW u \in Servers, IsFirstPair(u)', u # v
                 PROVE  FALSE
      OBVIOUS
    <2>1. HasPair(conf'[u]) /\ \A w \in 1..(u - 1) : ~HasPair(conf'[w])
      BY DEF IsFirstPair
    <2>2. HasPair(conf[u])
      BY <1>3, <2>1 DEF HasPair
    <2>3. ~(u \in 1..(v - 1))
      BY <1>1, <2>2 DEF IsFirstPair
    <2>4. v \in 1..(u - 1)
      BY <2>3, ConfigAssumption DEF Servers
    <2> QED
      BY <1>4, <2>1, <2>4
  <1>7. /\ given' \in [Servers -> [Fields -> Nat]]
        /\ \A u \in Servers : \A f \in Limits : given'[u][f] \in 0..Maximum[f]
    BY <1>1 DEF ConfigInv
  <1> QED
    BY <1>1, <1>3, <1>5, <1>6, <1>7 DEF ConfigInv

LEMMA FindServer_Inv ==
  ASSUME ConfigInv, NEW v \in Servers, find_h3_server(v)
  PROVE  ConfigInv'
  <1>1. /\ phase = "init" /\ IsFirstPair(v) /\ owner' = v /\ phase' = "up"
        /\ given' = given /\ conf' = conf
    BY DEF find_h3_server
  <1>2. /\ \A u \in Servers : IsFirstPair(u) => Completed(u)
        /\ given \in [Servers -> [Fields -> Nat]] /\ DOMAIN conf = Servers
        /\ \A u \in Servers : \A f \in Limits : given[u][f] \in 0..Maximum[f]
    BY <1>1 DEF ConfigInv
  <1>3. \A u \in Servers : (IsFirstPair(u)' <=> IsFirstPair(u)) /\ (Completed(u)' <=> Completed(u))
    BY <1>1 DEF IsFirstPair, Completed, Merged
  <1> QED
    BY <1>1, <1>2, <1>3 DEF ConfigInv

LEMMA ConfigStutter_Inv ==
  ASSUME ConfigInv, UNCHANGED configVars
  PROVE  ConfigInv'
  BY DEF ConfigInv, configVars, Merged, IsFirstPair, Completed

LEMMA BodyStepsKeepConfig ==
  ASSUME NEW v \in Servers, NEW hostIsGood \in BOOLEAN,
         ReceiveNext \/ stream_worker(v, hostIsGood) \/ HandlerNext \/ Finished
  PROVE  UNCHANGED configVars
  BY DEF ReceiveNext, on_recv_data, double_request, store_request, body_completes,
     on_stop_sending, stream_worker, HandlerNext, h3_filter_in_proto, ap_internal_redirect,
     capture_body_bucket, unreadable_bucket, error_bucket, double_response, store_response,
     answer, answer_streamed, Finished, vars

LEMMA ConfigNext_Inv == ConfigInv /\ [Next]_vars => ConfigInv'
  <1> SUFFICES ASSUME ConfigInv, [Next]_vars PROVE ConfigInv'
    OBVIOUS
  <1>1. CASE ConfigNext
    BY <1>1, Directive_Inv, Merge_Inv, PostConfig_Inv, Refuse_Inv, FindServer_Inv
       DEF ConfigNext, h3_post_config_fails
  <1>2. CASE ReceiveNext \/ HandlerNext \/ Finished
    <2>1. 1 \in Servers
      BY ConfigAssumption DEF Servers
    <2> QED
      BY <1>2, <2>1, BodyStepsKeepConfig, ConfigStutter_Inv
  <1>3. CASE \E v \in Servers, hostIsGood \in BOOLEAN : stream_worker(v, hostIsGood)
    BY <1>3, BodyStepsKeepConfig, ConfigStutter_Inv
  <1>4. CASE UNCHANGED vars
    BY <1>4, ConfigStutter_Inv DEF vars
  <1> QED
    BY <1>1, <1>2, <1>3, <1>4 DEF Next

(* Whatever the directives say, the listener's server runs with its own    *)
(* values, the main server's, or the defaults, all within range.           *)
THEOREM ConfiguredOwner == Spec => []OwnerIsConfigured
  <1>1. ConfigInv => OwnerIsConfigured
    <2> SUFFICES ASSUME ConfigInv, phase = "up" PROVE OwnerIsConfigured
      BY DEF OwnerIsConfigured
    <2>1. owner \in Servers /\ IsFirstPair(owner) /\ Completed(owner)
      BY DEF ConfigInv
    <2>2. /\ \A f \in Limits : Merged(owner)[f] \in 0..Maximum[f]
          /\ \A f \in Fields : Merged(owner)[f] = Explicit(owner, f)
      BY <2>1, MergedType
    <2>3. \A f \in Fields : Conf[f] =
            IF Explicit(owner, f) # 0 THEN Explicit(owner, f) ELSE DefaultOf(owner, f)
      BY <2>1, <2>2 DEF Completed, Conf
    <2>4. HasPair(Conf)
      BY <2>1 DEF IsFirstPair, Conf
    <2>5. \A f \in Limits : Conf[f] \in (1..Maximum[f]) \cup {Default[f]}
      <3> SUFFICES ASSUME NEW f \in Limits
                   PROVE  Conf[f] \in (1..Maximum[f]) \cup {Default[f]}
        OBVIOUS
      <3>1. f \in Fields /\ DefaultOf(owner, f) = Default[f]
        BY DEF Fields, DefaultOf, Limits, Flags, Paths
      <3>2. Explicit(owner, f) \in 0..Maximum[f] /\ Maximum[f] \in Nat
        BY <2>2, <3>1, ConfigAssumption
      <3> QED
        BY <2>3, <3>1, <3>2
    <2>6. Conf["h3_alt_svc_max_age"] # 0
      <3>1. "h3_alt_svc_max_age" \in Limits
        BY DEF Limits
      <3>2. Conf["h3_alt_svc_max_age"] \in (1..Maximum["h3_alt_svc_max_age"])
                                            \cup {Default["h3_alt_svc_max_age"]}
        BY <2>5, <3>1
      <3> QED
        BY <3>1, <3>2, ConfigAssumption
    <2>7. h3_hook_fixups(owner) # <<>> =>
            /\ h3_hook_fixups(owner)[1] = Conf["h3_port"] /\ Conf["h3_port"] # 0
            /\ h3_hook_fixups(owner)[2] # 0
      BY <2>6 DEF h3_hook_fixups, Conf
    <2> QED
      BY <2>3, <2>4, <2>5, <2>7 DEF OwnerIsConfigured
  <1> QED
    BY ConfigInit_Inv, ConfigNext_Inv, <1>1, PTL DEF Spec

-----------------------------------------------------------------------------
(* Buffers *)

LEMMA LeastOf ==
  ASSUME NEW T, T \subseteq Nat, T # {}
  PROVE  \E i \in T : \A j \in T : i <= j
  <1> DEFINE R == OpToRel(<, Nat)
  <1>1. PICK i \in T : \A j \in T : ~(<<j, i>> \in R)
    BY WFMin, NatLessThanWellFounded
  <1>2. \A j \in T : ~(j < i)
    BY <1>1 DEF OpToRel
  <1> QED
    BY <1>2

\* Copied appends the bytes held + 1, ..., held + n to a buffer that holds the
\* first held ones.
LEMMA CopiedHolds ==
  ASSUME NEW cap \in Nat, NEW held \in Nat, NEW n \in Nat, held + n <= cap,
         NEW buf \in [1..cap -> Nat], \A i \in 1..held : buf[i] = i
  PROVE  /\ Copied(buf, held, held, n) \in [1..cap -> Nat]
         /\ \A i \in 1..(held + n) : Copied(buf, held, held, n)[i] = i
  <1>1. Copied(buf, held, held, n) = [i \in 1..cap |->
            IF i \in (held + 1)..(held + n) THEN held + (i - held) ELSE buf[i]]
    BY DEF Copied
  <1>2. \A i \in 1..cap : (IF i \in (held + 1)..(held + n) THEN held + (i - held) ELSE buf[i]) \in Nat
    OBVIOUS
  <1>3. ASSUME NEW i \in 1..(held + n)
        PROVE  Copied(buf, held, held, n)[i] = i
    BY <1>1, <1>3
  <1> QED
    BY <1>1, <1>2, <1>3

LEMMA GrownHolds ==
  ASSUME NEW cap \in Nat, NEW held \in Nat, held <= cap, NEW new \in Nat,
         NEW buf \in [1..cap -> Nat], \A i \in 1..held : buf[i] = i
  PROVE  /\ Grown(buf, held, new) \in [1..new -> Nat]
         /\ \A i \in 1..new : i <= held => Grown(buf, held, new)[i] = i
  BY DEF Grown

LEMMA RunOfBytes ==
  ASSUME NEW n \in Nat, NEW m \in Nat
  PROVE  [i \in 1..n |-> i] \o [i \in 1..m |-> n + i] = [i \in 1..(n + m) |-> i]
  OBVIOUS

-----------------------------------------------------------------------------
(* The request *)

RequestMax == Conf["h3_max_request_body_size"]

LEMMA LimitsOfOwner ==
  ASSUME ConfigInv, phase = "up", OwnerIsConfigured
  PROVE  RequestMax \in Nat \ {0} /\ Limit \in Nat \ {0}
  <1>1. "h3_max_request_body_size" \in Limits /\ "h3_max_response_body_size" \in Limits
    BY DEF Limits
  <1>2. \A f \in Limits : Conf[f] \in (1..Maximum[f]) \cup {Default[f]}
    BY DEF OwnerIsConfigured
  <1>3. \A f \in Limits : Conf[f] \in Nat \ {0}
    BY <1>2, ConfigAssumption
  <1> QED
    BY <1>1, <1>3 DEF RequestMax, Limit

BodyType ==
    /\ rpc \in {"receive", "grow_request", "dispatched", "handler", "error",
                "grow_response", "answered"}
    /\ peer_sent \in Nat /\ request_body_len \in Nat /\ request_body_capacity \in Nat
    /\ request_body \in [1..request_body_capacity -> Nat]
    /\ request_body_overflow \in BOOLEAN /\ body_truncated \in BOOLEAN
    /\ written \in Nat /\ dataheaplen \in Nat /\ dataheapcap \in Nat
    /\ dataheap \in [1..dataheapcap -> Nat]
    /\ response_too_large \in BOOLEAN
    /\ request_body_offset \in Nat /\ content_length \in Nat
    /\ eos \in BOOLEAN /\ redirected \in BOOLEAN
    /\ new_cap \in Nat /\ len \in Nat
    /\ status \in {0, 200, 400, 413, 500}

\* Nothing arrives before the listener is up.
Untouched ==
    phase # "up" =>
        /\ rpc = "receive" /\ peer_sent = 0
        /\ request_body_len = 0 /\ request_body_capacity = 0
        /\ request_body_overflow = FALSE

RequestInv ==
    /\ request_body_len <= request_body_capacity
    /\ \A i \in 1..request_body_len : request_body[i] = i
    /\ phase = "up" => request_body_capacity <= RequestMax
    /\ phase = "up" /\ rpc # "grow_request" =>
          (request_body_overflow <=> peer_sent > RequestMax)
    /\ rpc # "grow_request" /\ ~request_body_overflow => request_body_len = peer_sent
    /\ rpc = "grow_request" =>
          /\ ~request_body_overflow
          /\ request_body_len + len = peer_sent
          /\ peer_sent <= RequestMax
          /\ peer_sent > request_body_capacity
          /\ Bounded(request_body_len + len)

Early == {"receive", "grow_request", "dispatched"}

ReadInv ==
    /\ request_body_offset <= request_body_len
    /\ read = [i \in 1..request_body_offset |-> i]
    /\ rpc \in Early => /\ request_body_offset = 0 /\ ~eos /\ status = 0
                        /\ written = 0 /\ dataheaplen = 0 /\ ~response_too_large
    /\ rpc \notin Early => content_length = request_body_len
    /\ rpc = "handler" => status = 200
    /\ status = 200 => ~request_body_overflow /\ ~body_truncated
    /\ eos /\ ~redirected => request_body_offset = content_length

Answered ==
    rpc = "answered" /\ ~streaming =>
        IF written > Limit
        THEN status = 500 /\ body_out = <<0>>
        ELSE status # 500 /\ body_out = [i \in 1..written |-> i]

CaptureInv ==
    /\ dataheaplen <= dataheapcap
    /\ \A i \in 1..dataheaplen : dataheap[i] = i
    /\ rpc \notin Early /\ ~response_too_large => dataheaplen <= Limit
    /\ response_too_large => written > Limit
    /\ rpc # "grow_response" /\ ~response_too_large => dataheaplen = written
    /\ rpc = "grow_response" =>
          /\ ~response_too_large
          /\ dataheaplen + len = written
          /\ written <= Limit
          /\ written > dataheapcap
          /\ Bounded(dataheaplen + len)
    /\ rpc # "answered" => status # 500
    /\ Answered


BodyInv == BodyType /\ Untouched /\ RequestInv /\ ReadInv /\ CaptureInv

LEMMA BodyInit_Inv == Init => BodyInv
  <1> SUFFICES ASSUME Init PROVE BodyInv
    OBVIOUS
  <1> USE DEF Init, ConfigInit
  <1>1. Empty \in [1..0 -> Nat]
    BY DEF Empty
  <1>2. BodyType
    BY <1>1 DEF BodyType
  <1>3. Untouched /\ RequestInv
    BY DEF Untouched, RequestInv
  <1>4. read = [i \in 1..0 |-> i]
    OBVIOUS
  <1>5. ReadInv
    BY <1>4 DEF ReadInv, Early
  <1>6. CaptureInv
    BY DEF CaptureInv, Answered, Early
  <1> QED
    BY <1>2, <1>3, <1>5, <1>6 DEF BodyInv

\* What every step below starts from.
Ready == /\ BodyInv /\ phase = "up"
         /\ RequestMax \in Nat \ {0} /\ Limit \in Nat \ {0}

LEMMA SameConfig ==
  ASSUME UNCHANGED configVars
  PROVE  /\ phase' = phase /\ RequestMax' = RequestMax /\ Limit' = Limit
         /\ streaming' = streaming
  BY DEF configVars, RequestMax, Limit, streaming, Conf

\* A step of the event thread leaves the reading and the answer alone.
LEMMA ReceiveKeeps ==
  ASSUME Ready, UNCHANGED configVars, UNCHANGED <<readVars, captureVars, answerVars>>,
         rpc \in Early, rpc' \in Early, request_body_len' \in Nat,
         request_body_len' >= request_body_len
  PROVE  ReadInv' /\ CaptureInv'
  <1>1. Limit' = Limit /\ Limit \in Nat
    BY SameConfig DEF Ready
  <1>2. ReadInv'
    BY DEF Ready, BodyInv, BodyType, ReadInv, Early, readVars, captureVars, answerVars
  <1>3. CaptureInv'
    BY <1>1 DEF Ready, BodyInv, BodyType, ReadInv, CaptureInv, Answered, Early,
          captureVars, answerVars
  <1> QED
    BY <1>2, <1>3

LEMMA Receive_Inv ==
  ASSUME Ready, NEW datalen \in 1..MaxChunk, on_recv_data(datalen)
  PROVE  BodyInv'
  <1> USE BodyAssumption
  <1>1. /\ UNCHANGED configVars /\ UNCHANGED <<readVars, captureVars, answerVars>>
        /\ rpc = "receive" /\ peer_sent' = peer_sent + datalen
        /\ request_body_capacity' = request_body_capacity /\ body_truncated' = body_truncated
        /\ datalen \in Nat \ {0}
    BY DEF on_recv_data
  <1>2. phase' = "up" /\ RequestMax' = RequestMax /\ RequestMax \in Nat
    BY <1>1, SameConfig DEF Ready
  <1>3. BodyType /\ RequestInv
    BY DEF Ready, BodyInv
  <1>4. Untouched' /\ request_body_len \in Nat /\ request_body_len + datalen \in Nat
    BY <1>1, <1>2, <1>3 DEF Untouched, BodyType
  <1>5. CASE request_body_overflow
    <2>1. UNCHANGED <<rpc, request_body, request_body_len, request_body_overflow, growVars>>
      BY <1>5 DEF on_recv_data
    <2>2. BodyType'
      BY <1>1, <1>3, <2>1 DEF BodyType, readVars, captureVars, answerVars, growVars
    <2>3. RequestInv'
      BY <1>1, <1>2, <1>3, <1>5, <2>1 DEF BodyType, RequestInv, Ready
    <2>4. ReadInv' /\ CaptureInv'
      BY <1>1, <1>4, <2>1, ReceiveKeeps DEF Early
    <2> QED
      BY <1>4, <2>2, <2>3, <2>4 DEF BodyInv
  <1>6. CASE ~request_body_overflow /\ OverRequestLimit(datalen)
    <2>1. /\ UNCHANGED <<rpc, request_body, request_body_len, growVars>>
          /\ request_body_overflow' = TRUE
          /\ request_body_len + datalen > RequestMax
      BY <1>6 DEF on_recv_data, OverRequestLimit, RequestMax
    <2>2. BodyType'
      BY <1>1, <1>3, <2>1 DEF BodyType, readVars, captureVars, answerVars, growVars
    <2>3. RequestInv'
      BY <1>1, <1>2, <1>3, <1>6, <2>1 DEF BodyType, RequestInv, Ready
    <2>4. ReadInv' /\ CaptureInv'
      BY <1>1, <1>4, <2>1, ReceiveKeeps DEF Early
    <2> QED
      BY <1>4, <2>2, <2>3, <2>4 DEF BodyInv
  <1>7. CASE /\ ~request_body_overflow /\ ~OverRequestLimit(datalen)
             /\ request_body_len + datalen <= request_body_capacity
    <2>1. /\ UNCHANGED <<rpc, request_body_overflow, growVars>>
          /\ request_body' = Copied(request_body, request_body_len, peer_sent, datalen)
          /\ request_body_len' = request_body_len + datalen
          /\ request_body_len + datalen <= RequestMax
      BY <1>2, <1>3, <1>7, <1>1 DEF on_recv_data, OverRequestLimit, RequestMax, BodyType
    <2>2. peer_sent = request_body_len
      BY <1>1, <1>3, <1>7 DEF RequestInv
    <2>3. /\ request_body' \in [1..request_body_capacity -> Nat]
          /\ \A i \in 1..request_body_len' : request_body'[i] = i
      <3>1. /\ request_body \in [1..request_body_capacity -> Nat]
            /\ request_body_capacity \in Nat
            /\ \A i \in 1..request_body_len : request_body[i] = i
        BY <1>3 DEF BodyType, RequestInv
      <3>2. request_body' = Copied(request_body, request_body_len, request_body_len, datalen)
        BY <2>1, <2>2
      <3>3. datalen \in Nat /\ request_body_len \in Nat
        BY <1>1, <1>4
      <3>4. /\ request_body' \in [1..request_body_capacity -> Nat]
            /\ \A i \in 1..(request_body_len + datalen) : request_body'[i] = i
        BY SMTT(30), <1>7, <3>1, <3>2, <3>3, CopiedHolds
      <3> QED
        BY <2>1, <3>4
    <2>4. BodyType'
      BY <1>1, <1>3, <2>1, <2>3 DEF BodyType, readVars, captureVars, answerVars, growVars
    <2>5. RequestInv'
      BY <1>1, <1>2, <1>3, <1>7, <2>1, <2>2, <2>3 DEF BodyType, RequestInv, Ready
    <2>6. ReadInv' /\ CaptureInv'
      BY <1>1, <1>4, <2>1, ReceiveKeeps DEF Early
    <2> QED
      BY <1>4, <2>4, <2>5, <2>6 DEF BodyInv
  <1>8. CASE /\ ~request_body_overflow /\ ~OverRequestLimit(datalen)
             /\ request_body_len + datalen > request_body_capacity
    <2>1. /\ UNCHANGED <<request_body, request_body_len, request_body_overflow>>
          /\ rpc' = "grow_request" /\ len' = datalen /\ new_cap' = FirstRequestCap
          /\ request_body_len + datalen <= RequestMax
      BY <1>2, <1>3, <1>8, <1>1 DEF on_recv_data, OverRequestLimit, RequestMax, BodyType
    <2>2. peer_sent = request_body_len
      BY <1>1, <1>3, <1>8 DEF RequestInv
    <2>3. /\ new_cap' \in Nat \ {0}
          /\ new_cap' < 2 * (request_body_len + datalen) \/ new_cap' = H3_BODY_BUF_INIT_CAP
      BY <1>1, <1>3, <1>8, <2>1 DEF FirstRequestCap, BodyType
    <2>4. BodyType'
      BY <1>1, <1>3, <2>1, <2>3 DEF BodyType, readVars, captureVars, answerVars
    <2>5. RequestInv'
      BY <1>1, <1>2, <1>3, <1>8, <2>1, <2>2, <2>3 DEF BodyType, RequestInv, Ready, Bounded
    <2>6. ReadInv' /\ CaptureInv'
      BY <1>1, <1>4, <2>1, ReceiveKeeps DEF Early
    <2> QED
      BY <1>4, <2>4, <2>5, <2>6 DEF BodyInv
  <1> QED
    BY <1>1, <1>3, <1>5, <1>6, <1>7, <1>8 DEF BodyType

LEMMA DoubleRequest_Inv ==
  ASSUME Ready, double_request
  PROVE  BodyInv'
  <1>1. /\ UNCHANGED configVars /\ UNCHANGED <<readVars, captureVars, answerVars>>
        /\ UNCHANGED <<rpc, requestVars, len>> /\ rpc = "grow_request"
        /\ new_cap' = 2 * new_cap /\ new_cap < request_body_len + len
    BY DEF double_request
  <1>2. phase' = "up" /\ RequestMax' = RequestMax /\ RequestMax \in Nat
    BY <1>1, SameConfig DEF Ready
  <1>3. BodyType /\ RequestInv
    BY DEF Ready, BodyInv
  <1>4. BodyType'
    BY <1>1, <1>3 DEF BodyType, requestVars, readVars, captureVars, answerVars
  <1>5. RequestInv'
    BY <1>1, <1>2, <1>3 DEF BodyType, RequestInv, Bounded, requestVars
  <1>6. ReadInv' /\ CaptureInv'
    BY <1>1, <1>3, ReceiveKeeps DEF requestVars, BodyType, Early
  <1> QED
    BY <1>2, <1>4, <1>5, <1>6 DEF BodyInv, Untouched

LEMMA StoreRequest_Inv ==
  ASSUME Ready, store_request
  PROVE  BodyInv'
  <1>1. /\ UNCHANGED configVars /\ UNCHANGED <<readVars, captureVars, answerVars>>
        /\ UNCHANGED <<peer_sent, request_body_overflow, body_truncated>>
        /\ rpc = "grow_request" /\ rpc' = "receive" /\ new_cap' = 0 /\ len' = 0
        /\ new_cap >= request_body_len + len
        /\ request_body_capacity' = ClippedCap /\ request_body_len' = request_body_len + len
        /\ request_body' = Copied(Grown(request_body, request_body_len, ClippedCap),
                                  request_body_len, peer_sent - len, len)
    BY DEF store_request
  <1>2. phase' = "up" /\ RequestMax' = RequestMax /\ RequestMax \in Nat
    BY <1>1, SameConfig DEF Ready
  <1>3. BodyType /\ RequestInv
    BY DEF Ready, BodyInv
  <1>4. /\ request_body_len \in Nat /\ len \in Nat /\ request_body_len + len = peer_sent
        /\ peer_sent <= RequestMax /\ peer_sent - len = request_body_len
        /\ ~request_body_overflow
    BY <1>1, <1>3 DEF BodyType, RequestInv
  <1>5. ClippedCap \in Nat /\ request_body_len + len <= ClippedCap /\ ClippedCap <= RequestMax
    BY <1>1, <1>2, <1>3, <1>4 DEF ClippedCap, BodyType, RequestMax
  <1> DEFINE grown == Grown(request_body, request_body_len, ClippedCap)
  <1>6. grown \in [1..ClippedCap -> Nat] /\ \A i \in 1..request_body_len : grown[i] = i
    <2>1. /\ grown \in [1..ClippedCap -> Nat]
          /\ \A i \in 1..ClippedCap : i <= request_body_len => grown[i] = i
      BY SMTT(30), <1>3, <1>5, GrownHolds DEF BodyType, RequestInv
    <2> QED
      BY <1>4, <1>5, <2>1
  <1>7. /\ request_body' \in [1..ClippedCap -> Nat]
        /\ \A i \in 1..(request_body_len + len) : request_body'[i] = i
    <2> HIDE DEF grown
    <2>1. request_body' = Copied(grown, request_body_len, request_body_len, len)
      BY <1>1, <1>4 DEF grown
    <2> QED
      BY SMTT(30), <1>4, <1>5, <1>6, <2>1, CopiedHolds
  <1>8. BodyType'
    BY <1>1, <1>3, <1>4, <1>5, <1>7 DEF BodyType, readVars, captureVars, answerVars
  <1>9. RequestInv'
    BY <1>1, <1>2, <1>4, <1>5, <1>7 DEF RequestInv
  <1>10. ReadInv' /\ CaptureInv'
    BY <1>1, <1>4, ReceiveKeeps DEF Early
  <1> QED
    BY <1>2, <1>8, <1>9, <1>10 DEF BodyInv, Untouched

LEMMA Complete_Inv ==
  ASSUME Ready, body_completes \/ on_stop_sending
  PROVE  BodyInv'
  <1>1. /\ UNCHANGED configVars /\ UNCHANGED <<readVars, captureVars, answerVars, growVars>>
        /\ UNCHANGED <<peer_sent, request_body, request_body_len, request_body_capacity,
                       request_body_overflow>>
        /\ rpc = "receive" /\ rpc' = "dispatched" /\ body_truncated' \in BOOLEAN
    <2>1. body_truncated \in BOOLEAN
      BY DEF Ready, BodyInv, BodyType
    <2> QED
      BY <2>1 DEF body_completes, on_stop_sending, requestVars
  <1>2. phase' = "up" /\ RequestMax' = RequestMax /\ RequestMax \in Nat
    BY <1>1, SameConfig DEF Ready
  <1>3. BodyType /\ RequestInv
    BY DEF Ready, BodyInv
  <1>4. BodyType'
    BY <1>1, <1>3 DEF BodyType, readVars, captureVars, answerVars, growVars
  <1>5. RequestInv'
    BY <1>1, <1>2, <1>3 DEF RequestInv, Ready
  <1>6. ReadInv' /\ CaptureInv'
    BY <1>1, <1>3, ReceiveKeeps DEF BodyType, Early
  <1> QED
    BY <1>2, <1>4, <1>5, <1>6 DEF BodyInv, Untouched

\* Once the request is dispatched its body does not change.
LEMMA RequestStays ==
  ASSUME Ready, UNCHANGED configVars, UNCHANGED requestVars,
         rpc # "grow_request", rpc' # "grow_request"
  PROVE  RequestInv' /\ Untouched'
  <1>1. phase' = "up" /\ RequestMax' = RequestMax
    BY SameConfig DEF Ready
  <1> QED
    BY <1>1 DEF Ready, BodyInv, RequestInv, Untouched, requestVars

LEMMA Worker_Inv ==
  ASSUME Ready, NEW v \in Servers, NEW hostIsGood \in BOOLEAN, stream_worker(v, hostIsGood)
  PROVE  BodyInv'
  <1>1. /\ UNCHANGED configVars
        /\ UNCHANGED <<requestVars, readVars, captureVars, body_out, growVars>>
        /\ rpc = "dispatched" /\ content_length' = request_body_len
    BY DEF stream_worker
  <1>2. BodyType /\ RequestInv /\ ReadInv /\ CaptureInv /\ Limit' = Limit /\ Limit \in Nat
    BY <1>1, SameConfig DEF Ready, BodyInv
  <1>3. /\ rpc' \in {"handler", "error"} /\ status' \in {200, 400, 413}
        /\ rpc' = "handler" => status' = 200
        /\ status' = 200 => ~request_body_overflow /\ ~body_truncated
    BY <1>2 DEF stream_worker, h3_hook_access_checker, BodyType
  <1>4. BodyType'
    BY <1>1, <1>2, <1>3 DEF BodyType, requestVars, readVars, captureVars, growVars
  <1>5. RequestInv' /\ Untouched'
    BY <1>1, <1>3, RequestStays
  <1>6. ReadInv'
    BY <1>1, <1>2, <1>3 DEF BodyType, ReadInv, Early, requestVars, readVars, captureVars
  <1>7. CaptureInv'
    BY <1>1, <1>2, <1>3 DEF BodyType, ReadInv, CaptureInv, Answered, Early, captureVars
  <1> QED
    BY <1>4, <1>5, <1>6, <1>7 DEF BodyInv

\* A read asks for at least nothing and at most what is left.
LEMMA WantInRange ==
  ASSUME Avail \in Nat, NEW readbytes \in Nat,
         NEW mode \in {"READBYTES", "SPECULATIVE", "GETLINE", "EXHAUSTIVE"}
  PROVE  Want(mode, readbytes) \in 0..Avail
  <1>1. CASE mode \in {"READBYTES", "SPECULATIVE"}
    BY <1>1 DEF Want
  <1>2. CASE mode = "EXHAUSTIVE"
    BY <1>2 DEF Want
  <1>3. CASE mode = "GETLINE"
    <2>1. CASE NewlinesAhead = {}
      BY <1>3, <2>1 DEF Want
    <2>2. CASE NewlinesAhead # {}
      <3>1. NewlinesAhead \subseteq 1..Avail /\ NewlinesAhead \subseteq Nat
        BY DEF NewlinesAhead
      <3>2. \E i \in NewlinesAhead : \A j \in NewlinesAhead : i <= j
        BY <2>2, <3>1, LeastOf
      <3>3. Want(mode, readbytes) = CHOOSE i \in NewlinesAhead : \A j \in NewlinesAhead : i <= j
        BY <1>3, <2>2 DEF Want
      <3>4. Want(mode, readbytes) \in NewlinesAhead
        BY <3>2, <3>3
      <3>5. \A i \in 1..Avail : i \in 0..Avail
        OBVIOUS
      <3> QED
        BY <3>1, <3>4, <3>5, Zenon
    <2> QED
      BY <2>1, <2>2
  <1> QED
    BY <1>1, <1>2, <1>3

LEMMA ServeBody ==
  ASSUME Ready, rpc = "handler", ~redirected, NEW readbytes \in Nat,
         NEW mode \in {"READBYTES", "SPECULATIVE", "GETLINE", "EXHAUSTIVE"},
         serve_request_body(mode, readbytes)
  PROVE  /\ request_body_offset' \in Nat /\ request_body_offset' <= request_body_len
         /\ read' = [i \in 1..request_body_offset' |-> i]
         /\ eos' \in BOOLEAN /\ (eos' => request_body_offset' = content_length)
         /\ redirected' = redirected
  <1>1. /\ request_body_offset \in Nat /\ request_body_len \in Nat /\ eos \in BOOLEAN
        /\ request_body_offset <= request_body_len /\ content_length = request_body_len
        /\ read = [i \in 1..request_body_offset |-> i]
        /\ eos => request_body_offset = content_length
        /\ \A i \in 1..request_body_len : request_body[i] = i
    BY DEF Ready, BodyInv, BodyType, ReadInv, RequestInv, Early
  <1>2. Avail \in Nat /\ Avail = request_body_len - request_body_offset
    BY <1>1 DEF Avail
  <1>3. redirected' = redirected
    BY DEF serve_request_body
  <1>4. CASE Avail = 0
    <2>1. eos' = TRUE /\ request_body_offset' = request_body_offset /\ read' = read
      BY <1>4 DEF serve_request_body
    <2> QED
      BY <1>1, <1>2, <1>3, <1>4, <2>1
  <1>5. CASE Avail # 0
    <2> DEFINE want == Want(mode, readbytes)
               bytes == [i \in 1..want |-> request_body[request_body_offset + i]]
    <2>1. want \in 0..Avail
      BY <1>2, WantInRange
    <2>2. /\ read' = IF mode = "SPECULATIVE" THEN read ELSE read \o bytes
          /\ request_body_offset' = request_body_offset + Advance(mode, want)
          /\ eos' = (eos \/ (mode # "SPECULATIVE" /\ request_body_offset' >= request_body_len))
      BY <1>5 DEF serve_request_body
    <2> HIDE DEF want
    <2>3. CASE mode = "SPECULATIVE"
      BY <1>1, <1>3, <2>2, <2>3 DEF Advance
    <2>4. CASE mode # "SPECULATIVE"
      <3>1. bytes = [i \in 1..want |-> request_body_offset + i]
        <4>1. \A i \in 1..want : request_body_offset + i \in 1..request_body_len
          BY <1>1, <1>2, <2>1
        <4> QED
          BY <1>1, <4>1
      <3>2. read' = [i \in 1..(request_body_offset + want) |-> i]
        BY <1>1, <1>2, <2>1, <2>2, <2>4, <3>1, RunOfBytes
      <3>3. request_body_offset' = request_body_offset + want
        BY <2>2, <2>4 DEF Advance
      <3>4. request_body_offset' \in Nat /\ request_body_offset' <= request_body_len
        BY <1>1, <1>2, <2>1, <3>3
      <3>5. eos' \in BOOLEAN
        BY <1>1, <2>2
      <3>6. ASSUME eos' PROVE request_body_offset' = content_length
        BY <1>1, <1>2, <1>5, <2>2, <3>4, <3>6
      <3> QED
        BY <1>3, <3>2, <3>3, <3>4, <3>5, <3>6
    <2> QED
      BY <2>3, <2>4
  <1> QED
    BY <1>4, <1>5

LEMMA Read_Inv ==
  ASSUME Ready, NEW readbytes \in Nat,
         NEW mode \in {"READBYTES", "SPECULATIVE", "GETLINE", "EXHAUSTIVE"},
         h3_filter_in_proto(mode, readbytes) \/ ap_internal_redirect
  PROVE  BodyInv'
  <1>1. /\ UNCHANGED configVars
        /\ UNCHANGED <<rpc, requestVars, captureVars, answerVars, growVars>> /\ rpc = "handler"
    BY DEF h3_filter_in_proto, ap_internal_redirect
  <1>2. BodyType /\ RequestInv /\ ReadInv /\ CaptureInv /\ Limit' = Limit /\ Limit \in Nat
    BY <1>1, SameConfig DEF Ready, BodyInv
  <1>3. /\ request_body_offset' \in Nat /\ request_body_offset' <= request_body_len
        /\ read' = [i \in 1..request_body_offset' |-> i]
        /\ eos' \in BOOLEAN /\ redirected' \in BOOLEAN
        /\ eos' /\ ~redirected' => request_body_offset' = content_length
    <2>1. CASE ap_internal_redirect
      BY <1>2, <2>1 DEF ap_internal_redirect, BodyType, ReadInv
    <2>2. CASE redirected /\ input_filter_eos(mode)
      BY <1>2, <2>2 DEF input_filter_eos, BodyType, ReadInv
    <2>3. CASE ~redirected /\ serve_request_body(mode, readbytes)
      BY <1>1, <1>2, <2>3, ServeBody DEF BodyType
    <2> QED
      BY <2>1, <2>2, <2>3 DEF h3_filter_in_proto
  <1>4. BodyType'
    BY <1>1, <1>2, <1>3 DEF BodyType, requestVars, captureVars, answerVars, growVars
  <1>5. RequestInv' /\ Untouched'
    BY <1>1, RequestStays
  <1>6. ReadInv'
    BY <1>1, <1>2, <1>3 DEF ReadInv, Early, requestVars, answerVars
  <1>7. CaptureInv'
    BY <1>1, <1>2 DEF CaptureInv, Answered, Early, captureVars, answerVars
  <1> QED
    BY <1>4, <1>5, <1>6, <1>7 DEF BodyInv

\* A step of the output filter leaves the reading alone.
LEMMA ReadStays ==
  ASSUME Ready, UNCHANGED <<requestVars, readVars, content_length>>,
         rpc \notin Early, rpc' \notin Early, status' \in {status, 500},
         rpc' = "handler" => status' = 200
  PROVE  ReadInv'
  BY DEF Ready, BodyInv, ReadInv, Early, requestVars, readVars

LEMMA Capture_Inv ==
  ASSUME Ready, NEW n \in 0..MaxChunk, capture_body_bucket(n)
  PROVE  BodyInv'
  <1> USE BodyAssumption
  <1>1. /\ UNCHANGED configVars
        /\ UNCHANGED <<requestVars, readVars, dataheapcap, content_length, alt_svc, body_out>>
        /\ status' = status
        /\ rpc \in {"handler", "error"} /\ rpc' \in {rpc, "grow_response"}
        /\ written' = written + n /\ n \in Nat
    BY DEF capture_body_bucket
  <1>2. /\ BodyType /\ ReadInv /\ CaptureInv /\ Limit' = Limit /\ Limit \in Nat
    BY <1>1, SameConfig DEF Ready, BodyInv
  <1>3. RequestInv' /\ Untouched'
    BY <1>1, RequestStays
  <1>4. ReadInv'
    <2>1. rpc \notin Early /\ rpc' \notin Early
      BY <1>1 DEF Early
    <2>2. rpc' = "handler" => status' = 200
      BY <1>1, <1>2 DEF ReadInv
    <2> QED
      BY <1>1, <2>1, <2>2, ReadStays
  <1>5. /\ rpc' # "answered" /\ rpc \notin Early /\ status' # 500 /\ rpc' \notin Early
        /\ written \in Nat /\ dataheaplen \in Nat /\ dataheapcap \in Nat
        /\ dataheap \in [1..dataheapcap -> Nat] /\ dataheaplen <= dataheapcap
        /\ \A i \in 1..dataheaplen : dataheap[i] = i
        /\ ~response_too_large => dataheaplen = written
    BY <1>1, <1>2 DEF BodyType, CaptureInv, Early
  <1>6. CASE response_too_large \/ n = 0
    <2>1. UNCHANGED <<rpc, dataheap, dataheaplen, response_too_large, growVars>>
      BY <1>6, <1>2 DEF capture_body_bucket, BodyType
    <2>2. BodyType'
      BY <1>1, <1>2, <2>1 DEF BodyType, requestVars, readVars, growVars
    <2>3. CaptureInv'
      BY <1>1, <1>2, <1>5, <1>6, <2>1 DEF CaptureInv, Answered
    <2> QED
      BY <1>3, <1>4, <2>2, <2>3 DEF BodyInv
  <1>7. CASE ~response_too_large /\ n # 0 /\ OverResponseLimit(n)
    <2>1. UNCHANGED <<rpc, dataheap, dataheaplen, growVars>> /\ response_too_large' = TRUE
      BY <1>7 DEF capture_body_bucket
    <2>2. BodyType'
      BY <1>1, <1>2, <2>1 DEF BodyType, requestVars, readVars, growVars
    <2>3. written' > Limit
      BY <1>1, <1>2, <1>5, <1>7 DEF OverResponseLimit
    <2>4. CaptureInv'
      BY <1>1, <1>2, <1>5, <2>1, <2>3 DEF CaptureInv, Answered
    <2> QED
      BY <1>3, <1>4, <2>2, <2>4 DEF BodyInv
  <1>8. CASE ~response_too_large /\ n # 0 /\ ~OverResponseLimit(n) /\ dataheaplen + n <= dataheapcap
    <2>1. /\ UNCHANGED <<rpc, response_too_large, growVars>>
          /\ dataheap' = Copied(dataheap, dataheaplen, dataheaplen, n)
          /\ dataheaplen' = dataheaplen + n
      BY <1>5, <1>8 DEF capture_body_bucket
    <2>2. /\ dataheap' \in [1..dataheapcap -> Nat]
          /\ \A i \in 1..(dataheaplen + n) : dataheap'[i] = i
      BY <1>1, <1>5, <1>8, <2>1, CopiedHolds
    <2>3. dataheaplen + n <= Limit
      BY <1>1, <1>2, <1>5, <1>8 DEF OverResponseLimit
    <2>4. BodyType'
      BY <1>1, <1>2, <2>1, <2>2 DEF BodyType, requestVars, readVars, growVars
    <2>5. CaptureInv'
      BY <1>1, <1>2, <1>5, <1>8, <2>1, <2>2, <2>3 DEF CaptureInv, Answered
    <2> QED
      BY <1>3, <1>4, <2>4, <2>5 DEF BodyInv
  <1>9. CASE ~response_too_large /\ n # 0 /\ ~OverResponseLimit(n) /\ dataheaplen + n > dataheapcap
    <2>1. /\ UNCHANGED <<dataheap, dataheaplen, response_too_large>>
          /\ rpc' = "grow_response" /\ len' = n /\ new_cap' = FirstResponseCap
      BY <1>5, <1>9 DEF capture_body_bucket
    <2>2. dataheaplen + n <= Limit
      BY <1>1, <1>2, <1>5, <1>9 DEF OverResponseLimit
    <2>3. /\ new_cap' \in Nat \ {0}
          /\ new_cap' < 2 * (dataheaplen + n) \/ new_cap' = H3_BODY_BUF_INIT_CAP
      BY <1>1, <1>5, <1>9, <2>1 DEF FirstResponseCap
    <2>4. BodyType'
      BY <1>1, <1>2, <2>1, <2>3 DEF BodyType, requestVars, readVars
    <2>5. CaptureInv'
      BY SMTT(30), <1>1, <1>2, <1>5, <1>9, <2>1, <2>2, <2>3 DEF CaptureInv, Answered, Bounded
    <2> QED
      BY <1>3, <1>4, <2>4, <2>5 DEF BodyInv
  <1> QED
    BY <1>1, <1>2, <1>5, <1>6, <1>7, <1>8, <1>9 DEF BodyType

\* A bucket that is not captured leaves the buffer as it is.
LEMMA Dropped_Inv ==
  ASSUME Ready, unreadable_bucket \/ error_bucket
  PROVE  BodyInv'
  <1>1. /\ UNCHANGED configVars
        /\ UNCHANGED <<rpc, requestVars, readVars, written, dataheap, dataheaplen,
                       dataheapcap, response_too_large, answerVars, growVars>>
        /\ rpc \in {"handler", "error"}
    BY DEF unreadable_bucket, error_bucket
  <1>2. BodyType /\ ReadInv /\ CaptureInv /\ Limit' = Limit
    BY <1>1, SameConfig DEF Ready, BodyInv
  <1>3. RequestInv' /\ Untouched'
    BY <1>1, RequestStays
  <1>4. BodyType'
    BY <1>1, <1>2 DEF BodyType, requestVars, readVars, answerVars, growVars
  <1>5. ReadInv'
    BY <1>1, <1>2 DEF ReadInv, Early, requestVars, readVars, answerVars
  <1>6. CaptureInv'
    BY <1>1, <1>2 DEF CaptureInv, Answered, Early, answerVars
  <1> QED
    BY <1>3, <1>4, <1>5, <1>6 DEF BodyInv

LEMMA DoubleResponse_Inv ==
  ASSUME Ready, double_response
  PROVE  BodyInv'
  <1>1. /\ UNCHANGED configVars
        /\ UNCHANGED <<rpc, requestVars, readVars, captureVars, answerVars, len>>
        /\ rpc = "grow_response" /\ new_cap' = 2 * new_cap /\ new_cap < dataheaplen + len
    BY DEF double_response
  <1>2. BodyType /\ ReadInv /\ CaptureInv /\ Limit' = Limit /\ Limit \in Nat
    BY <1>1, SameConfig DEF Ready, BodyInv
  <1>3. RequestInv' /\ Untouched'
    BY <1>1, RequestStays
  <1>4. BodyType'
    BY <1>1, <1>2 DEF BodyType, requestVars, readVars, captureVars, answerVars
  <1>5. ReadInv'
    BY <1>1, ReadStays DEF Early, answerVars
  <1>6. CaptureInv'
    BY <1>1, <1>2 DEF BodyType, CaptureInv, Answered, Bounded, captureVars, answerVars
  <1> QED
    BY <1>3, <1>4, <1>5, <1>6 DEF BodyInv

LEMMA StoreResponse_Inv ==
  ASSUME Ready, store_response
  PROVE  BodyInv'
  <1>1. /\ UNCHANGED configVars
        /\ UNCHANGED <<requestVars, readVars, written, response_too_large, answerVars>>
        /\ rpc = "grow_response" /\ rpc' = IF status = 200 THEN "handler" ELSE "error"
        /\ new_cap' = 0 /\ len' = 0 /\ new_cap >= dataheaplen + len
        /\ dataheapcap' = new_cap /\ dataheaplen' = dataheaplen + len
        /\ dataheap' = Copied(Grown(dataheap, dataheaplen, new_cap),
                              dataheaplen, written - len, len)
    BY DEF store_response
  <1>2. BodyType /\ ReadInv /\ CaptureInv /\ Limit' = Limit /\ Limit \in Nat
    BY <1>1, SameConfig DEF Ready, BodyInv
  <1>3. /\ dataheaplen \in Nat /\ len \in Nat /\ new_cap \in Nat /\ dataheapcap \in Nat
        /\ dataheaplen + len = written /\ written - len = dataheaplen /\ written <= Limit
        /\ dataheap \in [1..dataheapcap -> Nat] /\ dataheaplen <= dataheapcap
        /\ \A i \in 1..dataheaplen : dataheap[i] = i
        /\ ~response_too_large /\ status # 500
    BY <1>1, <1>2 DEF BodyType, CaptureInv
  <1> DEFINE grown == Grown(dataheap, dataheaplen, new_cap)
  <1>4. grown \in [1..new_cap -> Nat] /\ \A i \in 1..dataheaplen : grown[i] = i
    <2>1. /\ grown \in [1..new_cap -> Nat]
          /\ \A i \in 1..new_cap : i <= dataheaplen => grown[i] = i
      BY <1>3, GrownHolds
    <2> QED
      BY <1>1, <1>3, <2>1
  <1>5. /\ dataheap' \in [1..new_cap -> Nat]
        /\ \A i \in 1..(dataheaplen + len) : dataheap'[i] = i
    <2> HIDE DEF grown
    <2>1. dataheap' = Copied(grown, dataheaplen, dataheaplen, len)
      BY <1>1, <1>3 DEF grown
    <2>2. dataheaplen + len <= new_cap /\ dataheaplen \in Nat /\ len \in Nat /\ new_cap \in Nat
      BY <1>1, <1>3
    <2> QED
      BY <1>4, <2>1, <2>2, CopiedHolds
  <1>6. BodyType'
    BY <1>1, <1>2, <1>3, <1>5 DEF BodyType, requestVars, readVars, answerVars
  <1>7. RequestInv' /\ Untouched'
    BY <1>1, RequestStays
  <1>8. ReadInv'
    BY <1>1, ReadStays DEF Early, answerVars
  <1>9. CaptureInv'
    BY <1>1, <1>2, <1>3, <1>5 DEF CaptureInv, Answered, answerVars
  <1> QED
    BY <1>6, <1>7, <1>8, <1>9 DEF BodyInv

LEMMA Answer_Inv ==
  ASSUME Ready, answer \/ answer_streamed
  PROVE  BodyInv'
  <1>1. /\ UNCHANGED configVars
        /\ UNCHANGED <<requestVars, readVars, captureVars, content_length, growVars>>
        /\ rpc \in {"handler", "error"} /\ rpc' = "answered" /\ status' \in {status, 500}
    BY DEF answer, answer_streamed, answerVars
  <1>2. /\ BodyType /\ ReadInv /\ CaptureInv /\ Limit' = Limit /\ Limit \in Nat
        /\ streaming' = streaming
    BY <1>1, SameConfig DEF Ready, BodyInv
  <1>3. RequestInv' /\ Untouched'
    BY <1>1, RequestStays
  <1>4. BodyType'
    BY <1>1, <1>2 DEF BodyType, requestVars, readVars, captureVars, growVars
  <1>5. ReadInv'
    BY <1>1, ReadStays DEF Early
  <1>6. Answered'
    <2>1. CASE streaming
      BY <1>2, <2>1 DEF Answered
    <2>2. CASE ~streaming /\ response_too_large
      BY <1>1, <1>2, <2>2 DEF answer, answer_streamed, Answered, CaptureInv, captureVars
    <2>3. CASE ~streaming /\ ~response_too_large
      <3>1. /\ dataheaplen = written /\ written <= Limit /\ status # 500 /\ written \in Nat
            /\ \A i \in 1..dataheaplen : dataheap[i] = i
        BY <1>1, <1>2, <2>3 DEF CaptureInv, Early, BodyType
      <3>2. body_out' = [i \in 1..dataheaplen |-> dataheap[i]] /\ status' = status
        BY <2>3 DEF answer, answer_streamed
      <3>3. body_out' = [i \in 1..written |-> i]
        BY <3>1, <3>2
      <3>4. written' = written /\ ~(written' > Limit')
        BY <1>1, <1>2, <3>1 DEF captureVars
      <3> QED
        BY <3>1, <3>2, <3>3, <3>4 DEF Answered
    <2> QED
      BY <1>2, <2>1, <2>2, <2>3 DEF BodyType
  <1>7. CaptureInv'
    BY <1>1, <1>2, <1>6 DEF CaptureInv, Early, captureVars
  <1> QED
    BY <1>3, <1>4, <1>5, <1>7 DEF BodyInv

\* While the configuration is read the request waits.
LEMMA Configuring_Inv ==
  ASSUME BodyInv, ConfigInv', OwnerIsConfigured', ConfigNext
  PROVE  BodyInv'
  <1>1. UNCHANGED bodyVars /\ phase # "up"
    BY DEF ConfigNext, DirectiveNext, set_h3_cert_path, set_h3_key_path, set_string,
       set_h3_alt_svc, set_h3_address_validation, set_flag, set_h3_port,
       set_h3_max_concurrent_streams, set_h3_max_connections, set_h3_stream_buffer_size,
       set_h3_max_request_body_size, set_h3_max_response_body_size,
       set_h3_handshake_timeout, set_h3_idle_timeout, set_h3_alt_svc_max_age, set_number,
       merge_virtual_hosts, h3_post_config, h3_post_config_fails, find_h3_server
  <1>2. /\ rpc = "receive" /\ peer_sent = 0 /\ request_body_len = 0
        /\ request_body_capacity = 0 /\ request_body_overflow = FALSE
        /\ written = 0 /\ dataheaplen = 0 /\ ~response_too_large
        /\ BodyType /\ RequestInv /\ ReadInv /\ CaptureInv
    BY <1>1 DEF BodyInv, Untouched, ReadInv, Early
  <1>3. /\ UNCHANGED <<rpc, requestVars>> /\ UNCHANGED readVars /\ UNCHANGED captureVars
        /\ UNCHANGED answerVars /\ UNCHANGED growVars
    BY <1>1 DEF bodyVars
  <1>4. phase' = "up" => RequestMax' \in Nat
    <2>1. "h3_max_request_body_size" \in Limits
      BY DEF Limits
    <2>2. phase' = "up" => \A f \in Limits : Conf'[f] \in (1..Maximum[f]) \cup {Default[f]}
      BY DEF OwnerIsConfigured
    <2> QED
      BY <2>1, <2>2, ConfigAssumption DEF RequestMax
  <1>5. BodyType'
    BY <1>2, <1>3 DEF BodyType, requestVars, readVars, captureVars, answerVars, growVars
  <1>6. Untouched' /\ RequestInv'
    BY <1>2, <1>3, <1>4 DEF Untouched, RequestInv, requestVars
  <1>7. ReadInv'
    BY <1>2, <1>3 DEF ReadInv, Early, requestVars, readVars, captureVars, answerVars
  <1>8. CaptureInv'
    BY <1>2, <1>3 DEF CaptureInv, Answered, Early, captureVars, answerVars
  <1> QED
    BY <1>5, <1>6, <1>7, <1>8 DEF BodyInv

LEMMA BodyStutter_Inv ==
  ASSUME BodyInv, UNCHANGED vars
  PROVE  BodyInv'
  <1>1. /\ UNCHANGED configVars /\ UNCHANGED <<rpc, requestVars>> /\ UNCHANGED readVars
        /\ UNCHANGED captureVars /\ UNCHANGED answerVars /\ UNCHANGED growVars
    BY DEF vars, bodyVars
  <1>2. phase' = phase /\ RequestMax' = RequestMax /\ Limit' = Limit /\ streaming' = streaming
    BY <1>1, SameConfig
  <1>3. UNCHANGED <<rpc, peer_sent, request_body, request_body_len, request_body_capacity,
                    request_body_overflow, body_truncated>>
    BY <1>1 DEF requestVars
  <1>4. UNCHANGED <<request_body_offset, read, eos, redirected>>
    BY <1>1 DEF readVars
  <1>5. UNCHANGED <<written, dataheap, dataheaplen, dataheapcap, response_too_large>>
    BY <1>1 DEF captureVars
  <1>6. UNCHANGED <<content_length, status, body_out, new_cap, len>>
    BY <1>1 DEF answerVars, growVars
  <1>7. BodyType'
    BY <1>3, <1>4, <1>5, <1>6 DEF BodyInv, BodyType
  <1>8. Untouched' /\ RequestInv'
    BY <1>2, <1>3, <1>6 DEF BodyInv, Untouched, RequestInv, Bounded
  <1>9. ReadInv'
    BY <1>3, <1>4, <1>5, <1>6 DEF BodyInv, ReadInv
  <1>10. CaptureInv'
    BY <1>2, <1>3, <1>5, <1>6 DEF BodyInv, CaptureInv, Answered, Bounded
  <1> QED
    BY <1>7, <1>8, <1>9, <1>10 DEF BodyInv

LEMMA BodyNext_Inv ==
  ConfigInv /\ OwnerIsConfigured /\ ConfigInv' /\ OwnerIsConfigured' /\ BodyInv /\ [Next]_vars
    => BodyInv'
  <1> SUFFICES ASSUME ConfigInv, OwnerIsConfigured, ConfigInv', OwnerIsConfigured',
                      BodyInv, [Next]_vars
               PROVE  BodyInv'
    OBVIOUS
  <1>1. phase = "up" => Ready
    BY LimitsOfOwner DEF Ready
  <1>2. rpc # "receive" => phase = "up"
    BY DEF BodyInv, Untouched
  <1>3. CASE ConfigNext
    BY <1>3, Configuring_Inv
  <1>4. CASE ReceiveNext
    <2>1. Ready
      BY <1>1, <1>2, <1>4 DEF ReceiveNext, on_recv_data, double_request, store_request,
            body_completes, on_stop_sending
    <2> QED
      BY <1>4, <2>1, Receive_Inv, DoubleRequest_Inv, StoreRequest_Inv, Complete_Inv
         DEF ReceiveNext
  <1>5. CASE \E v \in Servers, hostIsGood \in BOOLEAN : stream_worker(v, hostIsGood)
    <2>1. Ready
      BY <1>1, <1>2, <1>5 DEF stream_worker
    <2> QED
      BY <1>5, <2>1, Worker_Inv
  <1>6. CASE HandlerNext
    <2>1. Ready
      BY <1>1, <1>2, <1>6 DEF HandlerNext, h3_filter_in_proto, ap_internal_redirect,
            capture_body_bucket, unreadable_bucket, error_bucket, double_response,
            store_response, answer, answer_streamed
    <2>2. ASSUME NEW mode \in {"READBYTES", "SPECULATIVE", "GETLINE", "EXHAUSTIVE"},
                 NEW readbytes \in 0..MaxChunk, h3_filter_in_proto(mode, readbytes)
          PROVE  BodyInv'
      BY <2>1, <2>2, Read_Inv, BodyAssumption
    <2>3. CASE ap_internal_redirect
      <3>1. 0 \in Nat
        OBVIOUS
      <3> QED
        BY <2>1, <2>3, <3>1, Read_Inv
    <2> QED
      BY <1>6, <2>1, <2>2, <2>3, Capture_Inv, Dropped_Inv, DoubleResponse_Inv,
         StoreResponse_Inv, Answer_Inv
         DEF HandlerNext
  <1>7. CASE Finished \/ UNCHANGED vars
    BY <1>7, BodyStutter_Inv DEF Finished
  <1> QED
    BY <1>3, <1>4, <1>5, <1>6, <1>7 DEF Next

LEMMA BodyInvariant == Spec => []BodyInv
  BY BodyInit_Inv, BodyNext_Inv, ConfigInit_Inv, ConfigNext_Inv, ConfiguredOwner, PTL DEF Spec

(* For every limit, initial capacity and body: the buffer of on_recv_data  *)
(* holds exactly the delivered bytes, or the overflow is noted.            *)
THEOREM KeptRequestBody == Spec => []RequestBodyKept
  <1>1. BodyInv => RequestBodyKept
    BY DEF BodyInv, BodyType, RequestInv, RequestBodyKept, RequestMax
  <1> QED
    BY <1>1, BodyInvariant, PTL

(* Every mixture of reads hands the handler the body, whole and in order.  *)
THEOREM BodyIsReadInOrder == Spec => []HandlerReadsBody
  <1>1. BodyInv => HandlerReadsBody
    BY DEF BodyInv, RequestInv, ReadInv, HandlerReadsBody, Early
  <1> QED
    BY <1>1, BodyInvariant, PTL

(* For every limit: a captured answer is whole, or it is the 500 answer.   *)
THEOREM CapturedOrError == Spec => []CaptureOrError
  <1>1. BodyInv => CaptureOrError
    BY DEF BodyInv, CaptureInv, Answered, CaptureOrError
  <1> QED
    BY <1>1, BodyInvariant, PTL
=============================================================================
