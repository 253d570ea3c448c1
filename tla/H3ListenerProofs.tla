-------------------------- MODULE H3ListenerProofs --------------------------
(***************************************************************************)
(* Proofs about the listener of a child process: that every connection     *)
(* carries the address of its own client (H3PeerAddr), for any number of   *)
(* connections, addresses and datagrams and any batch size, and that the   *)
(* UDP port and the sockets bound to it are kept in order (H3Server), for  *)
(* any set of child processes.                                             *)
(***************************************************************************)
EXTENDS H3Server, H3PeerAddr, TLAPS


\* What handing out the first datagram of a sequence q does to the types.
LEMMA PopFacts ==
    ASSUME NEW q \in Seq(Datagram), q # <<>>, Pop(q)
    PROVE  /\ Head(q) \in Datagram /\ peer_rx' \in Seq(Datagram)
           /\ msg' = <<Head(q)>> /\ msg'[1] = Head(q)
           /\ current_peer_addr' = Head(q).peer
           /\ Head(q).peer \in Addrs
           /\ epc' = "process"
<1>1. Head(q) \in Datagram /\ Tail(q) \in Seq(Datagram)
  OBVIOUS
<1>2. Head(q).peer \in Addrs
  BY <1>1 DEF Datagram
<1>3. /\ msg' = <<Head(q)>> /\ peer_rx' = Tail(q)
      /\ current_peer_addr' = Head(q).peer /\ epc' = "process"
  BY DEF Pop, CurrentPeer
<1> QED
  BY <1>1, <1>2, <1>3

\* The parts of a batch are sequences of datagrams, the first not empty.
LEMMA BatchFacts ==
    ASSUME NEW q \in Seq(Datagram), NEW n \in Nat \ {0}, n <= Len(q)
    PROVE  /\ SubSeq(q, 1, n) \in Seq(Datagram) /\ SubSeq(q, 1, n) # <<>>
           /\ SubSeq(q, n + 1, Len(q)) \in Seq(Datagram)
<1>1. \A k \in 1..Len(q) : q[k] \in Datagram
  OBVIOUS
<1>2. /\ SubSeq(q, 1, n) = [k \in 1..n |-> q[k]] /\ Len(SubSeq(q, 1, n)) = n
  OBVIOUS
<1>3. SubSeq(q, 1, n) \in Seq(Datagram)
  BY <1>1, <1>2
<1>4. SubSeq(q, n + 1, Len(q)) \in Seq(Datagram)
  OBVIOUS
<1> QED
  BY <1>2, <1>3, <1>4

\* The types are inductive, given that OpenSSL processes only what it read.
LEMMA AddrTypeStep ==
    AddrTypeOK /\ SenderInv /\ [AddrNext]_addrVars => AddrTypeOK'
<1> SUFFICES ASSUME AddrTypeOK, SenderInv, [AddrNext]_addrVars PROVE AddrTypeOK'
  OBVIOUS
<1> USE PeerAddrAssumption DEF AddrTypeOK, netVars, connVars
<1>1. ASSUME NEW d \in Datagram, client_sends(d) PROVE AddrTypeOK'
  BY <1>1 DEF client_sends
<1>2. CASE recvmmsg_queued
  <2>1. CASE Pop(peer_rx)
    BY <1>2, <2>1, PopFacts DEF recvmmsg_queued
  <2>2. CASE NoMessage /\ peer_rx' = Dropped
    BY <1>2, <2>2 DEF recvmmsg_queued, NoMessage, Dropped
  <2> QED
    BY <1>2, <2>1, <2>2 DEF recvmmsg_queued
<1>3. CASE recvmmsg_batch
  <2>1. PICK n \in 1..Batch :
           /\ n <= Len(socket)
           /\ socket' = SubSeq(socket, n + 1, Len(socket))
           /\ \/ Pop(SubSeq(socket, 1, n))
              \/ NoMessage /\ peer_rx' = <<>>
    BY <1>3 DEF recvmmsg_batch
  <2>2. /\ SubSeq(socket, 1, n) \in Seq(Datagram) /\ SubSeq(socket, 1, n) # <<>>
        /\ socket' \in Seq(Datagram)
    <3>1. n \in Nat \ {0}
      BY <2>1
    <3> QED
      BY <2>1, <3>1, BatchFacts
  <2>3. CASE Pop(SubSeq(socket, 1, n))
    BY <1>3, <2>2, <2>3, PopFacts DEF recvmmsg_batch
  <2>4. CASE NoMessage /\ peer_rx' = <<>>
    BY <1>3, <2>2, <2>4 DEF recvmmsg_batch, NoMessage
  <2> QED
    BY <2>1, <2>3, <2>4
<1>4. CASE recvmmsg_none
  BY <1>4 DEF recvmmsg_none, NoMessage
<1>5. CASE new_pending_conn_cb
  <2>1. msg # <<>>
    BY <1>5 DEF new_pending_conn_cb, SenderInv
  <2>2. msg[1].conn \in Conns /\ msg[1].peer \in Addrs
    BY <2>1 DEF Datagram
  <2> QED
    BY <1>5, <2>2 DEF new_pending_conn_cb
<1>6. CASE other_datagram
  BY <1>6 DEF other_datagram
<1>7. CASE h3q_engine_pump
  BY <1>7 DEF h3q_engine_pump
<1>8. CASE pump_begin \/ ssl_call \/ ssl_call_returns
  BY <1>8 DEF pump_begin, ssl_call, ssl_call_returns
<1>9. ASSUME NEW c \in Conns, h3_synth_conn(c) PROVE AddrTypeOK'
  BY <1>9 DEF h3_synth_conn, h3q_engine_peer_addr
<1>10. CASE h3q_engine_destroy
  BY <1>10 DEF h3q_engine_destroy
<1>11. CASE UNCHANGED addrVars
  BY <1>11 DEF addrVars
<1> QED
  BY <1>1, <1>2, <1>3, <1>4, <1>5, <1>6, <1>7, <1>8, <1>9, <1>10, <1>11
     DEF AddrNext, PumpNext, Gone

\* SenderInv is inductive: the BIO sets the address with the message, nothing
\* touches either before the callback, and the callback attaches the address
\* of the very message that opens the connection.
LEMMA SenderStep == AddrTypeOK /\ SenderInv /\ [AddrNext]_addrVars => SenderInv'
<1> SUFFICES ASSUME AddrTypeOK, SenderInv, [AddrNext]_addrVars PROVE SenderInv'
  OBVIOUS
<1> USE PeerAddrAssumption DEF SenderInv, ClientIsSender, netVars, connVars
<1>1. ASSUME NEW d \in Datagram, client_sends(d) PROVE SenderInv'
  BY <1>1 DEF client_sends
<1>2. CASE recvmmsg_queued
  <2>1. CASE Pop(peer_rx)
    BY <1>2, <2>1, PopFacts DEF recvmmsg_queued, AddrTypeOK
  <2>2. CASE NoMessage
    BY <1>2, <2>2 DEF recvmmsg_queued, NoMessage
  <2> QED
    BY <1>2, <2>1, <2>2 DEF recvmmsg_queued
<1>3. CASE recvmmsg_batch
  <2>1. PICK n \in 1..Batch :
           /\ n <= Len(socket)
           /\ Pop(SubSeq(socket, 1, n)) \/ NoMessage
    BY <1>3 DEF recvmmsg_batch
  <2>2. n \in Nat \ {0}
    BY <2>1
  <2>3. SubSeq(socket, 1, n) \in Seq(Datagram) /\ SubSeq(socket, 1, n) # <<>>
    BY <2>1, <2>2, BatchFacts DEF AddrTypeOK
  <2>4. CASE Pop(SubSeq(socket, 1, n))
    <3>1. msg' = <<Head(SubSeq(socket, 1, n))>>
          /\ current_peer_addr' = Head(SubSeq(socket, 1, n)).peer
      BY <2>3, <2>4, PopFacts
    <3>2. UNCHANGED connVars
      BY <1>3 DEF recvmmsg_batch
    <3> QED
      BY <3>1, <3>2
  <2>5. CASE NoMessage
    BY <1>3, <2>5 DEF recvmmsg_batch, NoMessage
  <2> QED
    BY <2>1, <2>4, <2>5
<1>4. CASE recvmmsg_none
  BY <1>4 DEF recvmmsg_none, NoMessage
<1>5. CASE new_pending_conn_cb
  <2>1. current_peer_addr = msg[1].peer
    BY <1>5 DEF new_pending_conn_cb
  <2> QED
    BY <1>5, <2>1 DEF new_pending_conn_cb, AddrTypeOK
<1>6. CASE other_datagram
  BY <1>6 DEF other_datagram
<1>7. CASE h3q_engine_pump
  BY <1>7 DEF h3q_engine_pump
<1>8. CASE pump_begin \/ ssl_call \/ ssl_call_returns
  BY <1>8 DEF pump_begin, ssl_call, ssl_call_returns
<1>9. ASSUME NEW c \in Conns, h3_synth_conn(c) PROVE SenderInv'
  BY <1>9 DEF h3_synth_conn, h3q_engine_peer_addr, AddrTypeOK
<1>10. CASE h3q_engine_destroy
  BY <1>10 DEF h3q_engine_destroy
<1>11. CASE UNCHANGED addrVars
  BY <1>11 DEF addrVars
<1> QED
  BY <1>1, <1>2, <1>3, <1>4, <1>5, <1>6, <1>7, <1>8, <1>9, <1>10, <1>11
     DEF AddrNext, PumpNext, Gone

\* The recorded address always is that of the datagram that opened the
\* connection (h3q_new_pending_conn_cb, h3_synth_conn).
THEOREM ClientIsSenderAlways == AddrSpec => []ClientIsSender
<1>1. AddrInit => AddrTypeOK /\ SenderInv
  BY PeerAddrAssumption DEF AddrInit, AddrTypeOK, SenderInv, ClientIsSender
<1>2. AddrTypeOK /\ SenderInv /\ [AddrNext]_addrVars
        => (AddrTypeOK /\ SenderInv)'
  BY AddrTypeStep, SenderStep
<1>3. SenderInv => ClientIsSender
  BY DEF SenderInv
<1> QED
  BY <1>1, <1>2, <1>3, PTL DEF AddrSpec

-----------------------------------------------------------------------------
(***************************************************************************)
(* The port.  ServerInv is the inductive invariant; the safety properties  *)
(* of H3Server follow.                                                     *)
(***************************************************************************)
\* The variables keep their types.
LEMMA ServerTypeStep == TypeOK /\ [Next]_vars => TypeOK'
<1> SUFFICES ASSUME TypeOK, [Next]_vars PROVE TypeOK'
  OBVIOUS
<1> USE DEF TypeOK, None
<1>1. CASE UNCHANGED vars
  BY <1>1 DEF vars
<1>2. ASSUME NEW c \in Children, ThreadNext(c) PROVE TypeOK'
  <2>1. CASE h3_child_init(c)
    BY <2>1 DEF h3_child_init, Opened, NotOpened
  <2>2. CASE child_init_listen(c)
    BY <2>2 DEF child_init_listen, listen_start, listen_start_fails,
                h3_socket_close, Keep
  <2>3. CASE child_init_closes(c)
    BY <2>3 DEF child_init_closes, h3_socket_close
  <2>4. CASE h3_io_listen_stop(c)
    BY <2>4 DEF h3_io_listen_stop, h3_socket_close, Keep
  <2>5. CASE child_exits(c)
    BY <2>5 DEF child_exits
  <2> QED
    BY <1>2, <2>1, <2>2, <2>3, <2>4, <2>5 DEF ThreadNext
<1>3. ASSUME NEW c \in Children, AcquirerNext(c) PROVE TypeOK'
  <2>1. CASE acquire_open(c)
    BY <2>1 DEF acquire_open, Opened
  <2>2. CASE acquire_stops(c)
    BY <2>2 DEF acquire_stops, h3_socket_close, Keep
  <2>3. CASE acquire_goes_on(c)
    BY <2>3 DEF acquire_goes_on, Keep
  <2>4. CASE acquire_listen(c)
    BY <2>4 DEF acquire_listen, listen_start, listen_start_fails,
                h3_socket_close, Keep
  <2>5. CASE acquire_closes(c)
    BY <2>5 DEF acquire_closes, h3_socket_close
  <2> QED
    BY <1>3, <2>1, <2>2, <2>3, <2>4, <2>5 DEF AcquirerNext
<1>4. ASSUME NEW c \in Children, acquire_open_fails(c) PROVE TypeOK'
  BY <1>4 DEF acquire_open_fails, NotOpened
<1>5. ASSUME NEW c \in Children, h3_c1_child_stopping(c) PROVE TypeOK'
  BY <1>5 DEF h3_c1_child_stopping, Keep
<1> QED
  BY <1>1, <1>2, <1>3, <1>4, <1>5 DEF Next

\* ServerInv is inductive, given the types.
LEMMA ServerInvStep ==
    TypeOK /\ TypeOK' /\ ServerInv /\ [Next]_vars => ServerInv'
<1> SUFFICES ASSUME TypeOK, TypeOK', ServerInv, [Next]_vars PROVE ServerInv'
  OBVIOUS
<1> USE ServerAssumption DEF TypeOK, ServerInv, None
<1>1. CASE UNCHANGED vars
  BY <1>1 DEF vars
<1>2. ASSUME NEW c \in Children, ThreadNext(c) PROVE ServerInv'
  <2>1. CASE h3_child_init(c)
    BY <2>1 DEF h3_child_init, Opened, NotOpened, Taken
  <2>2. CASE child_init_listen(c)
    BY <2>2 DEF child_init_listen, listen_start, listen_start_fails,
                h3_socket_close, Keep
  <2>3. CASE child_init_closes(c)
    BY <2>3 DEF child_init_closes, h3_socket_close
  <2>4. CASE h3_io_listen_stop(c)
    BY <2>4 DEF h3_io_listen_stop, h3_socket_close, Keep, Joined
  <2>5. CASE child_exits(c)
    BY <2>5 DEF child_exits
  <2> QED
    BY <1>2, <2>1, <2>2, <2>3, <2>4, <2>5 DEF ThreadNext
<1>3. ASSUME NEW c \in Children, AcquirerNext(c) PROVE ServerInv'
  <2>1. CASE acquire_open(c)
    BY <2>1 DEF acquire_open, Opened, Taken
  <2>2. CASE acquire_stops(c)
    BY <2>2 DEF acquire_stops, h3_socket_close, Keep
  <2>3. CASE acquire_goes_on(c)
    BY <2>3 DEF acquire_goes_on, Keep
  <2>4. CASE acquire_listen(c)
    BY <2>4 DEF acquire_listen, listen_start, listen_start_fails,
                h3_socket_close, Keep
  <2>5. CASE acquire_closes(c)
    BY <2>5 DEF acquire_closes, h3_socket_close
  <2> QED
    BY <1>3, <2>1, <2>2, <2>3, <2>4, <2>5 DEF AcquirerNext
<1>4. ASSUME NEW c \in Children, acquire_open_fails(c) PROVE ServerInv'
  BY <1>4 DEF acquire_open_fails, NotOpened
<1>5. ASSUME NEW c \in Children, h3_c1_child_stopping(c) PROVE ServerInv'
  BY <1>5 DEF h3_c1_child_stopping, Keep
<1> QED
  BY <1>1, <1>2, <1>3, <1>4, <1>5 DEF Next

\* Every state of every child has its type and satisfies ServerInv.
THEOREM ServerInvariant == Spec => [](TypeOK /\ ServerInv)
<1>1. Init => TypeOK /\ ServerInv
  BY ServerAssumption DEF Init, TypeOK, ServerInv, None
<1>2. TypeOK /\ ServerInv /\ [Next]_vars => (TypeOK /\ ServerInv)'
  BY ServerTypeStep, ServerInvStep
<1> QED
  BY <1>1, <1>2, PTL DEF Spec

\* However many children compete for the port, a listener's socket is open and
\* only the stop hook can close it (h3_io_listen_start, h3_io_listen_stop).
THEOREM ListenerKeepsSocketAlways == Spec => []ListenerKeepsSocket
<1>1. ServerInv => ListenerKeepsSocket
  BY DEF ServerInv, ListenerKeepsSocket
<1> QED
  BY <1>1, ServerInvariant, PTL

\* A child whose listener failed to start gives the port up.
THEOREM PortIsUsedAlways == Spec => []PortIsUsed
<1>1. TypeOK /\ ServerInv => PortIsUsed
  BY DEF TypeOK, ServerInv, PortIsUsed
<1> QED
  BY <1>1, ServerInvariant, PTL

\* When h3_c1_child_stopping returns, nothing of the listener is left.
THEOREM StoppedIsCleanAlways == Spec => []StoppedIsClean
<1>1. TypeOK /\ ServerInv => StoppedIsClean
  BY DEF TypeOK, ServerInv, StoppedIsClean
<1> QED
  BY <1>1, ServerInvariant, PTL
=============================================================================
