----------------------------- MODULE H3PeerAddr -----------------------------
(***************************************************************************)
(* How a connection gets the address of its client.  OpenSSL does not tell *)
(* it, so a filter BIO between the listener and the UDP socket hands out   *)
(* the datagrams one at a time, keeps the rest of a batch in a queue of    *)
(* its own, and remembers the sender of the one it handed out last.  When  *)
(* that datagram opens a connection, OpenSSL calls new_pending_conn_cb,    *)
(* which attaches the sender to it.                                        *)
(*                                                                         *)
(* Everything runs in the event thread; what interleaves are the batches,  *)
(* the queue, the callback and the failures of each.  SSL_handle_events    *)
(* reads from the BIO once and processes what it got, which is why         *)
(* h3q_engine_pump calls it until the queue is empty.  As the module does  *)
(* not ask OpenSSL for explicit event handling, any call on a connection   *)
(* or a stream may read from the BIO in the same way.                      *)
(***************************************************************************)
EXTENDS Integers, Sequences

CONSTANTS
    Conns,         \* connections clients open
    Addrs,         \* addresses they send from
    Batch,         \* num_msg: datagrams OpenSSL asks the BIO for
    MaxDatagrams   \* bound: datagrams sent

Unspec == "unspec"

ASSUME PeerAddrAssumption ==
    /\ Batch \in Nat \ {0} /\ MaxDatagrams \in Nat
    /\ Unspec \notin Addrs

Datagram == [conn : Conns, peer : Addrs]

VARIABLES
    socket, sent,        \* datagrams in the kernel, how many were sent (external)
    peer_rx,             \* the queue from peer_rx_head to peer_rx_tail
    current_peer_addr,   \* Unspec when AF_UNSPEC
    msg,                 \* what OpenSSL read: a sequence of at most one (external)
    opened_by,           \* the sender of the datagram that opened a connection
    ex_data,             \* the address attached to a connection
    client_addr,         \* of the conn_rec; Unspec is 0.0.0.0
    epc, pumped,
    caller               \* who is in OpenSSL: "pump", or "call" for another call

netVars  == <<socket, sent>>
connVars == <<opened_by, ex_data, client_addr>>
addrVars == <<netVars, peer_rx, current_peer_addr, msg, connVars, epc, pumped, caller>>

AddrInit ==
    /\ socket = <<>> /\ sent = 0
    /\ peer_rx = <<>> /\ current_peer_addr = Unspec /\ msg = <<>>
    /\ opened_by = [c \in Conns |-> Unspec]
    /\ ex_data = [c \in Conns |-> Unspec]
    /\ client_addr = [c \in Conns |-> Unspec]
    /\ epc = "idle" /\ pumped = 0 /\ caller = "pump"

\* A datagram arrives.  A client may change its address.
client_sends(d) ==
    /\ sent < MaxDatagrams /\ sent' = sent + 1
    /\ socket' = Append(socket, d)
    /\ UNCHANGED <<peer_rx, current_peer_addr, msg, connVars, epc, pumped, caller>>

-----------------------------------------------------------------------------
(***************************************************************************)
(* h3q_peer_addr_bio_recvmmsg, as SSL_handle_events calls it.              *)
(***************************************************************************)

\* Nothing is handed out; the address was cleared on entry.
NoMessage == msg' = <<>> /\ current_peer_addr' = Unspec /\ epc' = "return"

\* h3q_queue_pop hands out the first datagram of q, and the BIO remembers the
\* sender of the datagram it copied into OpenSSL's message.
\* Mutant: it remembers the last one it received.
CurrentPeer_last(q) == q[Len(q)].peer
CurrentPeer(q) == Head(q).peer

Pop(q) ==
    /\ msg' = <<Head(q)>> /\ peer_rx' = Tail(q)
    /\ current_peer_addr' = CurrentPeer(q) /\ epc' = "process"

\* A queued datagram that OpenSSL's buffer has no room for is dropped.
\* Mutant: it stays at the head.
Dropped_not == peer_rx
Dropped == Tail(peer_rx)

recvmmsg_queued ==
    /\ epc = "events" /\ peer_rx # <<>>
    /\ \/ Pop(peer_rx)
       \/ NoMessage /\ peer_rx' = Dropped
    /\ UNCHANGED <<netVars, connVars, pumped, caller>>

\* A batch is received: it goes through the queue, the first datagram at once.
\* If one of them cannot be copied, or is empty, the queue is cleared.
recvmmsg_batch ==
    /\ epc = "events" /\ peer_rx = <<>>
    /\ \E n \in 1..Batch :
          /\ n <= Len(socket)
          /\ socket' = SubSeq(socket, n + 1, Len(socket))
          /\ \/ Pop(SubSeq(socket, 1, n))
             \/ NoMessage /\ peer_rx' = <<>>
    /\ UNCHANGED <<sent, connVars, pumped, caller>>

\* The socket has nothing, or reading it fails.
recvmmsg_none ==
    /\ epc = "events" /\ peer_rx = <<>>
    /\ NoMessage
    /\ UNCHANGED <<netVars, peer_rx, connVars, pumped, caller>>

-----------------------------------------------------------------------------
(***************************************************************************)
(* OpenSSL processes the datagram.                                         *)
(***************************************************************************)
\* It opens a connection, to which the callback attaches the address; a
\* connection for which that fails is rejected.
new_pending_conn_cb ==
    /\ epc = "process" /\ epc' = "return" /\ msg' = <<>>
    /\ LET c == msg[1].conn
       IN /\ opened_by[c] = Unspec
          /\ opened_by' = [opened_by EXCEPT ![c] = msg[1].peer]
          /\ ex_data' = [ex_data EXCEPT ![c] = current_peer_addr]
    /\ UNCHANGED <<netVars, peer_rx, current_peer_addr, client_addr, pumped, caller>>

\* It belongs to a connection, is answered by a Retry or is thrown away.
other_datagram ==
    /\ epc = "process" /\ epc' = "return" /\ msg' = <<>>
    /\ UNCHANGED <<netVars, peer_rx, current_peer_addr, connVars, pumped, caller>>

-----------------------------------------------------------------------------
(***************************************************************************)
(* The event thread: the pump, and the conn_rec of a new session.          *)
(***************************************************************************)
pump_begin ==
    /\ epc = "idle" /\ epc' = "events" /\ pumped' = 0 /\ caller' = "pump"
    /\ UNCHANGED <<netVars, peer_rx, current_peer_addr, msg, connVars>>

\* SSL_handle_events returns: the pump goes on while datagrams are queued,
\* unless it failed.
h3q_engine_pump ==
    /\ epc = "return" /\ caller = "pump"
    /\ \/ peer_rx # <<>> /\ epc' = "events" /\ pumped' = 1
       \/ peer_rx = <<>> /\ epc' = "idle" /\ UNCHANGED pumped
       \/ epc' = "idle" /\ pumped' = -1
    /\ UNCHANGED <<netVars, peer_rx, current_peer_addr, msg, connVars, caller>>

\* Another call into OpenSSL (to accept, read, write, shut down) reads from the
\* BIO, and returns whatever is left in the queue.
ssl_call ==
    /\ epc = "idle" /\ epc' = "events" /\ caller' = "call"
    /\ UNCHANGED <<netVars, peer_rx, current_peer_addr, msg, connVars, pumped>>

ssl_call_returns ==
    /\ epc = "return" /\ caller = "call" /\ epc' = "idle"
    /\ UNCHANGED <<netVars, peer_rx, current_peer_addr, msg, connVars, pumped, caller>>

\* The address attached to the connection, or none if it cannot be converted.
h3q_engine_peer_addr(c) == {Unspec, ex_data[c]}

\* Without an address the client is 0.0.0.0.
h3_synth_conn(c) ==
    /\ epc = "idle" /\ opened_by[c] # Unspec /\ client_addr[c] = Unspec
    /\ \E a \in h3q_engine_peer_addr(c) :
          client_addr' = [client_addr EXCEPT ![c] = a]
    /\ UNCHANGED <<netVars, peer_rx, current_peer_addr, msg, opened_by, ex_data,
                   epc, pumped, caller>>

\* The engine goes with what is still queued.
h3q_engine_destroy ==
    /\ epc = "idle" /\ epc' = "gone" /\ peer_rx' = <<>>
    /\ current_peer_addr' = Unspec
    /\ UNCHANGED <<netVars, msg, connVars, pumped, caller>>

Gone == epc = "gone" /\ UNCHANGED addrVars

PumpNext == \/ recvmmsg_queued \/ recvmmsg_batch \/ recvmmsg_none
            \/ new_pending_conn_cb \/ other_datagram \/ h3q_engine_pump
            \/ ssl_call_returns

AddrNext == \/ PumpNext \/ pump_begin \/ ssl_call \/ h3q_engine_destroy \/ Gone
            \/ \E d \in Datagram : client_sends(d)
            \/ \E c \in Conns : h3_synth_conn(c)

AddrSpec == AddrInit /\ [][AddrNext]_addrVars

-----------------------------------------------------------------------------
(***************************************************************************)
(* Properties.                                                             *)
(***************************************************************************)

\* Every variable has its type.
AddrTypeOK ==
    /\ socket \in Seq(Datagram) /\ sent \in 0..MaxDatagrams
    /\ peer_rx \in Seq(Datagram) /\ current_peer_addr \in Addrs \cup {Unspec}
    /\ msg \in {<<>>} \cup {<<d>> : d \in Datagram}
    /\ opened_by \in [Conns -> Addrs \cup {Unspec}]
    /\ ex_data \in [Conns -> Addrs \cup {Unspec}]
    /\ client_addr \in [Conns -> Addrs \cup {Unspec}]
    /\ epc \in {"idle", "events", "process", "return", "gone"}
    /\ pumped \in {-1, 0, 1} /\ caller \in {"pump", "call"}

\* A connection carries the address of the datagram that opened it and no
\* other's, however datagrams of several clients are batched and queued; the
\* conn_rec that Require ip sees has that address or none.
ClientIsSender ==
    \A c \in Conns : /\ ex_data[c] = opened_by[c]
                     /\ client_addr[c] \in {Unspec, opened_by[c]}

\* While OpenSSL processes a datagram the BIO remembers its sender.
SenderInv ==
    /\ epc = "process" => msg # <<>> /\ current_peer_addr = msg[1].peer
    /\ ClientIsSender

\* A call into OpenSSL returns, and between any calls the loop comes back to
\* the pump: each round begins with it and makes finitely many other calls.
AddrFairSpec == AddrSpec /\ WF_addrVars(PumpNext) /\ SF_addrVars(pump_begin)

\* The pump returns, and unless SSL_handle_events failed it leaves no datagram
\* in the queue, where poll would not see it.  What another call leaves there
\* does not stay: some pump takes it out, failing or not.
PumpReturns ==
    /\ (epc = "events" /\ caller = "pump")
           ~> (epc = "idle" /\ (pumped = -1 \/ peer_rx = <<>>))
    /\ peer_rx # <<>> ~> peer_rx = <<>>
=============================================================================
