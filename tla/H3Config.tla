------------------------------ MODULE H3Config ------------------------------
(***************************************************************************)
(* The configuration of mod_http3: directives read into one record per     *)
(* server (h3_config.c), merged into the virtual hosts, completed with     *)
(* defaults by h3_post_config, and used by the child process through       *)
(* find_h3_server (h3_server.c).                                           *)
(*                                                                         *)
(* Server 1 is the main server, the others are the virtual hosts in the    *)
(* order of the chain httpd keeps.  A record is a function from fields to  *)
(* numbers, 0 for unset as in the zeroed h3_server_conf.  Paths are        *)
(* numbers too, and a flag is 1 (H3_FLAG_ON) or 2 (H3_FLAG_OFF).           *)
(***************************************************************************)
EXTENDS Integers, Sequences

CONSTANTS
    NServers,       \* the main server and its virtual hosts
    Default,        \* the H3_..._DEFAULT of each numeric directive
    Maximum,        \* the largest value its setter accepts, UINT16_MAX for
                    \* H3MaxConcurrentStreams (not the 1000 of h3.h:29)
    Addrs,          \* for each server the ports of its addresses, 0 for any
    MaxDirectives   \* bound: directives of the configuration, paths apart

Servers == 1..NServers
Limits == {"h3_max_concurrent_streams", "h3_max_connections",
           "h3_stream_buffer_size", "h3_max_request_body_size",
           "h3_max_response_body_size", "h3_alt_svc_max_age",
           "h3_handshake_timeout", "h3_idle_timeout"}
Flags == {"h3_alt_svc", "h3_address_validation"}
Paths == {"h3_cert_path", "h3_key_path"}
Fields == Limits \cup Flags \cup Paths \cup {"h3_port"}

ASSUME ConfigAssumption ==
    /\ NServers \in Nat \ {0}
    /\ Default \in [Limits -> Nat \ {0}]
    /\ Maximum \in [Limits \cup {"h3_port"} -> Nat \ {0}]
    /\ Addrs \in [Servers -> Seq(Nat)]
    /\ MaxDirectives \in Nat

VARIABLES
    phase,      \* "read", "post", "init", "up", or "refused"
    given,      \* what the directives of each server say
    conf,       \* h3_server_conf of each server
    directives, \* directives read so far
    owner       \* the server the listener belongs to, 0 before it is known

configVars == <<phase, given, conf, directives, owner>>

h3_create_server_config == [f \in Fields |-> 0]

ConfigTypeOK ==
    /\ phase \in {"read", "post", "init", "up", "refused"}
    /\ given \in [Servers -> [Fields -> Nat]]
    /\ conf \in [Servers -> [Fields -> Nat]]
    /\ directives \in 0..MaxDirectives
    /\ owner \in 0..NServers

ConfigInit ==
    /\ phase = "read"
    /\ given = [v \in Servers |-> h3_create_server_config]
    /\ conf = given
    /\ directives = 0
    /\ owner = 0

-----------------------------------------------------------------------------
(* Directives, in the section of server v *)

Store(v, f, val) ==
    /\ given' = [given EXCEPT ![v][f] = val]
    /\ conf' = [conf EXCEPT ![v][f] = val]
    /\ UNCHANGED <<phase, owner>>

\* An error text from a setter: httpd does not start.
Refuse ==
    /\ phase' = "refused"
    /\ UNCHANGED <<given, conf, owner>>

set_string(v, f, path) ==
    /\ phase = "read"
    /\ Store(v, f, path)
    /\ UNCHANGED directives

set_h3_cert_path(v, path) == set_string(v, "h3_cert_path", path)
set_h3_key_path(v, path) == set_string(v, "h3_key_path", path)

(* A number from 1 to Maximum[f].  An argument that is empty, not a number *)
(* or not representable is -1 here.                                        *)
set_number(v, f, val) ==
    /\ phase = "read" /\ directives < MaxDirectives
    /\ directives' = directives + 1
    /\ IF val \in 1..Maximum[f] THEN Store(v, f, val) ELSE Refuse

set_h3_port(v, val) == set_number(v, "h3_port", val)
set_h3_max_concurrent_streams(v, val) == set_number(v, "h3_max_concurrent_streams", val)
set_h3_max_connections(v, val) == set_number(v, "h3_max_connections", val)
set_h3_stream_buffer_size(v, val) == set_number(v, "h3_stream_buffer_size", val)
set_h3_max_request_body_size(v, val) == set_number(v, "h3_max_request_body_size", val)
set_h3_max_response_body_size(v, val) == set_number(v, "h3_max_response_body_size", val)
set_h3_handshake_timeout(v, val) == set_number(v, "h3_handshake_timeout", val)
set_h3_idle_timeout(v, val) == set_number(v, "h3_idle_timeout", val)
set_h3_alt_svc_max_age(v, val) == set_number(v, "h3_alt_svc_max_age", val)

set_flag(v, f, flag) ==
    /\ phase = "read" /\ directives < MaxDirectives
    /\ directives' = directives + 1
    /\ Store(v, f, flag)

set_h3_alt_svc(v, flag) == set_flag(v, "h3_alt_svc", flag)
set_h3_address_validation(v, flag) == set_flag(v, "h3_address_validation", flag)

-----------------------------------------------------------------------------
(* After the last directive *)

\* Mutant: the main server's value wins.
h3_merge_server_config_base(base, new) ==
    [f \in Fields |-> IF base[f] # 0 THEN base[f] ELSE new[f]]

h3_merge_server_config(base, new) ==
    [f \in Fields |-> IF new[f] # 0 THEN new[f] ELSE base[f]]

\* httpd merges the main server's record into that of every virtual host.
merge_virtual_hosts ==
    /\ phase = "read"
    /\ phase' = "post"
    /\ conf' = [v \in Servers |->
                  IF v = 1 THEN conf[v] ELSE h3_merge_server_config(conf[1], conf[v])]
    /\ UNCHANGED <<given, directives, owner>>

HasPair(c) == c["h3_cert_path"] # 0 /\ c["h3_key_path"] # 0

\* The first server of the chain with a certificate and a key.
IsFirstPair(v) == HasPair(conf[v]) /\ \A u \in 1..(v - 1) : ~HasPair(conf[u])

\* The first port of the server's addresses that is not 0.
get_server_port(v) ==
    LET ports == SelectSeq(Addrs[v], LAMBDA p : p # 0)
    IN  IF ports = <<>> THEN 0 ELSE ports[1]

DefaultOf(v, f) ==
    CASE f = "h3_port"  -> get_server_port(v)
      [] f \in Limits   -> Default[f]
      [] f \in Flags    -> 1
      [] f \in Paths    -> 0

(* h3_post_config completes the record of the first server with a pair and *)
(* of no other.  It fails without such a server, or when one of the two    *)
(* files cannot be read.                                                   *)
h3_post_config(v) ==
    /\ phase = "post"
    /\ IsFirstPair(v)
    /\ conf' = [conf EXCEPT ![v] =
                  [f \in Fields |-> IF conf[v][f] = 0 THEN DefaultOf(v, f) ELSE conf[v][f]]]
    /\ phase' \in {"init", "refused"}
    /\ UNCHANGED <<given, directives, owner>>

h3_post_config_fails ==
    /\ phase = "post"
    /\ \A v \in Servers : ~HasPair(conf[v])
    /\ Refuse
    /\ UNCHANGED directives

\* find_h3_server, called by h3_child_init.
find_h3_server(v) ==
    /\ phase = "init"
    /\ IsFirstPair(v)
    /\ owner' = v
    /\ phase' = "up"
    /\ UNCHANGED <<given, conf, directives>>
=============================================================================
