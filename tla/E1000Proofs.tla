----------------------------- MODULE E1000Proofs -----------------------------
(***************************************************************************)
(* Proofs about the rings of E1000, for rings of any length: with the card *)
(* and the driver taking turns in any order, the driver reads what the     *)
(* card stored and the card sends what the driver queued.  The first NET   *)
(* command must not come late: then the theorem is false.                  *)
(***************************************************************************)
EXTENDS E1000, TLAPS

RxTypeOK ==
  /\ rx \in [Slots -> Incoming \cup {Empty}]
  /\ rdh \in Slots /\ rdt \in Slots /\ rx_cur_intel \in Slots
  /\ last_processed \in Slots \cup {None}
  /\ stored \in Seq(Incoming)
  /\ pc \in {"loop", "rx", "discover"}

\* Every frame in the ring is between the driver and the card; the rest of the
\* ring is empty; the card may fill no more than that rest; and when nothing is
\* left to give back the tail is right behind the driver.
RxInv ==
  /\ RxTypeOK
  /\ RxInOrder
  /\ \A s \in Slots : Dist(rx_cur_intel, s) >= Len(stored) => rx[s] = Empty
  /\ Dist(rdh, rdt) + Len(stored) < N
  /\ last_processed # None => Succ(last_processed) = rx_cur_intel
  /\ last_processed = None => Succ(rdt) = rx_cur_intel
  /\ pc # "rx" => last_processed = None
  /\ ~LateNet

\* The driver writes the tail with every frame, so it is where it goes on.
TxInv ==
  /\ tx \in [Slots -> Outgoing \cup {Empty}]
  /\ tdh \in Slots /\ tdt \in Slots /\ tx_cur_intel = tdt
  /\ queued \in Seq(Outgoing)
  /\ TxInOrder

AddressTypeOK ==
  /\ gateway_ip \in Gateways /\ router_mac \in Gateways \cup {None}
  /\ owed \subseteq Gateways
  /\ {link, probed, leased} \subseteq BOOLEAN

IInv == RxInv /\ TxInv /\ AddressTypeOK

USE RingAssumption, GatewayAssumption

\* The distances of a ring, without modulo.
LEMMA RingArithmetic ==
  ASSUME NEW i \in Slots
  PROVE  /\ Succ(i) \in Slots
         /\ \A k \in 0 .. N - 1 : Ahead(i, k) \in Slots /\ Dist(i, Ahead(i, k)) = k
         /\ \A j \in Slots : /\ Dist(i, j) \in 0 .. N - 1
                             /\ Ahead(i, Dist(i, j)) = j
                             /\ Dist(i, j) = 0 <=> i = j
BY DEF Slots, Succ, Ahead, Dist

\* No frame is the empty descriptor.
LEMMA FrameKinds ==
  /\ \A f \in Incoming : f # Empty /\ f.gw \in Gateways
  /\ Frame \in Outgoing
  /\ \A g \in Gateways : [kind |-> "ping", gw |-> g] \in Outgoing
BY DEF Incoming, Outgoing, Empty, Frame

-----------------------------------------------------------------------------
\* The receive ring after start-up.
LEMMA RxInit == Init /\ ~LateNet => RxInv
BY DEF Init, RxInv, RxTypeOK, RxInOrder, Slots, Dist, Succ, Ahead

\* Every step of card and driver keeps the receive ring.
LEMMA RxStep == RxInv /\ [Next]_vars => RxInv'
<1> SUFFICES ASSUME RxInv, [Next]_vars PROVE RxInv'
  OBVIOUS
<1> USE DEF RxInv, RxTypeOK
<1>1. CASE UNCHANGED <<rxring, pc>>
  BY <1>1 DEF rxring, RxInOrder
<1>2. ASSUME NEW f \in Incoming, card_receive(f) PROVE RxInv'
  <2>1. /\ rx' = [rx EXCEPT ![rdh] = f] /\ rdh' = Succ(rdh)
        /\ stored' = Append(stored, f) /\ rdh # rdt
        /\ UNCHANGED <<rdt, rx_cur_intel, last_processed, pc>>
    BY <1>2 DEF card_receive
  <2>2. Len(stored) < N - 1 /\ Dist(Succ(rdh), rdt) = Dist(rdh, rdt) - 1
    BY <2>1 DEF Dist, Succ, Ahead, Slots
  <2>3. /\ Len(stored') = Len(stored) + 1
        /\ \A k \in 1 .. Len(stored) : stored'[k] = stored[k]
        /\ stored'[Len(stored) + 1] = f
    BY <2>1
  <2>4. Dist(rx_cur_intel, Succ(rdh)) = Dist(rx_cur_intel, rdh) + 1
    BY <2>2 DEF RxInOrder, Dist, Succ, Ahead, Slots
  <2>5. \A k \in 1 .. Len(stored) : Ahead(rx_cur_intel, k - 1) # rdh
    BY <2>2 DEF RxInOrder, Dist, Ahead, Slots
  <2>6. Ahead(rx_cur_intel, Len(stored)) = rdh
    BY DEF RxInOrder, Dist, Ahead, Slots
  <2>7. \A k \in 1 .. Len(stored') : rx'[Ahead(rx_cur_intel, k - 1)] = stored'[k]
    <3> TAKE k \in 1 .. Len(stored')
    <3>1. CASE k = Len(stored) + 1
      BY <3>1, <2>1, <2>3, <2>6
    <3>2. CASE k \in 1 .. Len(stored)
      <4>1. Ahead(rx_cur_intel, k - 1) \in Slots
        BY <3>2, <2>2 DEF Ahead, Slots
      <4> QED  BY <4>1, <3>2, <2>1, <2>3, <2>5 DEF RxInOrder
    <3> QED  BY <3>1, <3>2, <2>3
  <2>8. RxInOrder'
    BY <2>1, <2>3, <2>4, <2>7 DEF RxInOrder
  <2>9. \A s \in Slots : Dist(rx_cur_intel, s) >= Len(stored') => rx'[s] = Empty
    <3> SUFFICES ASSUME NEW s \in Slots, Dist(rx_cur_intel, s) >= Len(stored')
                 PROVE  rx'[s] = Empty
      OBVIOUS
    <3>1. s # rdh
      BY <2>3 DEF RxInOrder
    <3>2. Dist(rx_cur_intel, s) \in Int
      BY DEF Dist, Slots
    <3> QED  BY <3>1, <3>2, <2>1, <2>3
  <2>10. Succ(rdh) \in Slots
    BY RingArithmetic
  <2>11. stored' \in Seq(Incoming)
    BY <2>1
  <2>12. rx' \in [Slots -> Incoming \cup {Empty}]
    BY <2>1
  <2>13. Dist(rdh, rdt)' + Len(stored') < N
    <3>1. Dist(rdh, rdt) \in Int /\ Len(stored) \in Nat
      BY DEF Dist, Slots
    <3> QED  BY <3>1, <2>1, <2>2, <2>3 DEF Dist
  <2> QED
    BY <2>1, <2>8, <2>9, <2>10, <2>11, <2>12, <2>13 DEF Dist, Succ, Ahead
<1>3. CASE cmd_net
  <2>1. /\ rx_cur_intel' = rx_cur_intel /\ last_processed' = last_processed
        /\ last_processed = None /\ pc' = "discover"
    BY <1>3 DEF cmd_net, e1000_enable_rx, rxring
  <2>2. CASE probed
    BY <1>3, <2>1, <2>2 DEF cmd_net, rxring, RxInOrder
  <2>3. CASE ~probed
    BY <1>3, <2>1, <2>3
       DEF cmd_net, e1000_enable_rx, RxInOrder, Dist, Succ, Ahead, Slots
  <2> QED  BY <2>2, <2>3
<1>4. CASE send_dhcp_discover
  <2>1. UNCHANGED rxring /\ pc \in {"loop", "discover"} /\ pc' = "loop"
    BY <1>4 DEF send_dhcp_discover
  <2> QED  BY <2>1 DEF rxring, RxInOrder
<1>5. CASE check_incoming
  <2>1. UNCHANGED rxring /\ pc' = "rx"
    BY <1>5 DEF check_incoming
  <2> QED  BY <2>1 DEF rxring, RxInOrder
<1>6. CASE handle_frame
  <2> DEFINE cur == rx_cur_intel
  <2>1. /\ pc = "rx" /\ rx[cur] # Empty
        /\ rx' = [rx EXCEPT ![cur] = Empty]
        /\ last_processed' = cur /\ cur' = Succ(cur)
        /\ stored' = IF stored = <<>> THEN <<>> ELSE Tail(stored)
        /\ UNCHANGED <<rdh, rdt, pc>>
    BY <1>6 DEF handle_frame
  <2>2. Dist(cur, cur) = 0 /\ Dist(cur, rdh) \in 0 .. N - 1
    BY DEF Dist, Slots
  <2>3. stored # <<>> /\ Len(stored) > 0
    BY <2>1, <2>2
  <2>4. /\ Len(stored') = Len(stored) - 1
        /\ \A k \in 1 .. Len(stored') : stored'[k] = stored[k + 1]
        /\ stored' \in Seq(Incoming)
    BY <2>1, <2>3
  <2>5. /\ Succ(cur) \in Slots
        /\ Dist(Succ(cur), rdh) = Dist(cur, rdh) - 1
        /\ \A k \in 1 .. Len(stored) - 1 :
             /\ Ahead(Succ(cur), k - 1) = Ahead(cur, k)
             /\ Ahead(cur, k) \in Slots \ {cur}
    BY <2>3 DEF RxInOrder, Dist, Succ, Ahead, Slots
  <2>6. \A k \in 1 .. Len(stored') : rx'[Ahead(Succ(cur), k - 1)] = stored'[k]
    <3> SUFFICES ASSUME NEW k \in 1 .. Len(stored')
                 PROVE  rx'[Ahead(Succ(cur), k - 1)] = stored'[k]
      OBVIOUS
    <3>1. k \in 1 .. Len(stored) - 1 /\ k + 1 \in 1 .. Len(stored) /\ (k + 1) - 1 = k
      BY <2>4
    <3>2. rx[Ahead(cur, k)] = stored[k + 1]
      BY <3>1 DEF RxInOrder
    <3> QED  BY <3>1, <3>2, <2>1, <2>4, <2>5
  <2>7. RxInOrder'
    BY <2>1, <2>4, <2>5, <2>6 DEF RxInOrder
  <2>8. \A s \in Slots : Dist(Succ(cur), s) >= Len(stored') => rx'[s] = Empty
    <3> SUFFICES ASSUME NEW s \in Slots, s # cur, Dist(Succ(cur), s) >= Len(stored) - 1
                 PROVE  rx[s] = Empty
      BY <2>1, <2>4
    <3>1. Dist(Succ(cur), s) = Dist(cur, s) - 1 /\ Dist(cur, s) \in Int
      BY DEF Dist, Succ, Ahead, Slots
    <3> QED  BY <3>1
  <2>9. rx' \in [Slots -> Incoming \cup {Empty}] /\ cur # None
    BY <2>1, GatewayAssumption DEF Slots
  <2>10. Dist(rdh, rdt) + Len(stored') < N
    <3>1. Dist(rdh, rdt) \in Int /\ Len(stored) \in Nat
      BY DEF Dist, Slots
    <3> QED  BY <3>1, <2>4
  <2> QED
    BY <2>1, <2>4, <2>5, <2>7, <2>8, <2>9, <2>10 DEF Dist, Succ, Ahead
<1>7. CASE check_done
  <2>1. /\ rdt' = IF last_processed = None THEN rdt ELSE last_processed
        /\ last_processed' = None /\ pc' = "loop"
        /\ UNCHANGED <<rx, rdh, rx_cur_intel, stored>>
    BY <1>7 DEF check_done
  <2>2. Succ(rdt') = rx_cur_intel /\ rdt' \in Slots
    BY <2>1
  <2>3. Dist(rdh, rdt') + Len(stored) < N
    BY <2>2 DEF RxInOrder, Dist, Succ, Ahead, Slots
  <2> QED  BY <2>1, <2>2, <2>3 DEF RxInOrder, Dist, Succ, Ahead
<1>8. CASE card_send \/ lose \/ plug \/ send_tcp_syn \/ UNCHANGED vars
  <2>1. UNCHANGED <<rxring, pc>>
    BY <1>8 DEF card_send, lose, plug, send_tcp_syn, vars
  <2> QED  BY <2>1, <1>1
<1> QED  BY <1>2, <1>3, <1>4, <1>5, <1>6, <1>7, <1>8 DEF Next

-----------------------------------------------------------------------------
\* The transmit ring after start-up.
LEMMA TxInit == Init => TxInv
BY DEF Init, TxInv, TxInOrder, Slots, Dist

\* Whatever is sent, net_raw keeps the transmit ring in order.
LEMMA NetRaw ==
  ASSUME TxInv, NEW f \in Outgoing, net_raw(f)
  PROVE  TxInv'
<1> USE DEF TxInv
<1>1. /\ tx' = [tx EXCEPT ![tdt] = f] /\ tdt' = Succ(tdt) /\ tx_cur_intel' = Succ(tdt)
      /\ queued' = IF Succ(tdt) = tdh THEN <<>> ELSE Append(queued, f)
      /\ tdh' = tdh
  BY DEF net_raw
<1>2. Succ(tdt) \in Slots
  BY RingArithmetic
<1>3. tx' \in [Slots -> Outgoing \cup {Empty}]
  BY <1>1
<1>4. CASE Succ(tdt) = tdh
  <2>1. Dist(tdh, tdt)' = 0 /\ queued' = <<>>
    BY <1>1, <1>4 DEF Dist, Slots
  <2> QED  BY <1>1, <1>2, <1>3, <2>1 DEF TxInOrder
<1>5. CASE Succ(tdt) # tdh
  <2>1. /\ Len(queued') = Len(queued) + 1 /\ queued' \in Seq(Outgoing)
        /\ \A k \in 1 .. Len(queued) : queued'[k] = queued[k]
        /\ queued'[Len(queued) + 1] = f
    BY <1>1, <1>5
  <2>2. Dist(tdh, Succ(tdt)) = Dist(tdh, tdt) + 1
    BY <1>5 DEF Dist, Succ, Ahead, Slots
  <2>3. /\ Ahead(tdh, Len(queued)) = tdt
        /\ \A k \in 1 .. Len(queued) : Ahead(tdh, k - 1) \in Slots \ {tdt}
    BY DEF TxInOrder, Dist, Ahead, Slots
  <2>4. \A k \in 1 .. Len(queued') : tx'[Ahead(tdh, k - 1)] = queued'[k]
    <3> TAKE k \in 1 .. Len(queued')
    <3>1. CASE k = Len(queued) + 1
      BY <3>1, <1>1, <2>1, <2>3
    <3>2. CASE k \in 1 .. Len(queued)
      BY <3>2, <1>1, <2>1, <2>3 DEF TxInOrder
    <3> QED  BY <3>1, <3>2, <2>1
  <2>5. TxInOrder'
    BY <1>1, <2>1, <2>2, <2>4 DEF TxInOrder
  <2> QED  BY <1>1, <1>2, <1>3, <2>1, <2>5
<1> QED  BY <1>4, <1>5

\* Every step of card and driver keeps the transmit ring.
LEMMA TxStep == RxInv /\ TxInv /\ AddressTypeOK /\ [Next]_vars => TxInv'
<1> SUFFICES ASSUME RxInv, TxInv, AddressTypeOK, [Next]_vars PROVE TxInv'
  OBVIOUS
<1>1. CASE UNCHANGED txring
  BY <1>1 DEF txring, TxInv, TxInOrder
<1>2. CASE card_send
  <2> USE DEF TxInv
  <2>1. /\ tdh # tdt /\ tx' = [tx EXCEPT ![tdh] = Empty] /\ tdh' = Succ(tdh)
        /\ queued' = IF queued = <<>> THEN <<>> ELSE Tail(queued)
        /\ UNCHANGED <<tdt, tx_cur_intel>>
    BY <1>2 DEF card_send
  <2>2. Len(queued) > 0 /\ queued # <<>>
    BY <2>1 DEF TxInOrder, Dist, Slots
  <2>3. /\ Len(queued') = Len(queued) - 1 /\ queued' \in Seq(Outgoing)
        /\ \A k \in 1 .. Len(queued') : queued'[k] = queued[k + 1]
    BY <2>1, <2>2
  <2>4. /\ Succ(tdh) \in Slots
        /\ Dist(Succ(tdh), tdt) = Dist(tdh, tdt) - 1
        /\ \A k \in 1 .. Len(queued) - 1 :
             /\ Ahead(Succ(tdh), k - 1) = Ahead(tdh, k)
             /\ Ahead(tdh, k) \in Slots \ {tdh}
    BY <2>1, <2>2 DEF TxInOrder, Dist, Succ, Ahead, Slots
  <2>5. \A k \in 1 .. Len(queued') : tx'[Ahead(Succ(tdh), k - 1)] = queued'[k]
    <3> SUFFICES ASSUME NEW k \in 1 .. Len(queued')
                 PROVE  tx'[Ahead(Succ(tdh), k - 1)] = queued'[k]
      OBVIOUS
    <3>1. k \in 1 .. Len(queued) - 1 /\ k + 1 \in 1 .. Len(queued) /\ (k + 1) - 1 = k
      BY <2>3
    <3>2. tx[Ahead(tdh, k)] = queued[k + 1]
      BY <3>1 DEF TxInOrder
    <3> QED  BY <3>1, <3>2, <2>1, <2>3, <2>4
  <2>6. TxInOrder'
    BY <2>1, <2>3, <2>4, <2>5 DEF TxInOrder
  <2>7. tx' \in [Slots -> Outgoing \cup {Empty}]
    BY <2>1
  <2> QED  BY <2>1, <2>3, <2>4, <2>6, <2>7
<1>3. CASE e1000_enable_tx
  BY <1>3 DEF e1000_enable_tx, TxInv, TxInOrder, Dist, Slots
<1>4. ASSUME NEW f \in Outgoing, net_raw(f) PROVE TxInv'
  BY <1>4, NetRaw
<1>5. CASE send_dhcp_discover
  BY <1>5, <1>4, FrameKinds DEF send_dhcp_discover
<1>6. CASE send_tcp_syn
  BY <1>6, <1>4, FrameKinds DEF send_tcp_syn, send_arp_ping, AddressTypeOK
<1>7. CASE handle_frame
  <2>1. rx[rx_cur_intel] \in Incoming
    BY <1>7 DEF handle_frame, RxInv, RxTypeOK
  <2>2. \/ UNCHANGED txring
        \/ net_raw(Frame)
        \/ \E g \in Gateways : net_raw([kind |-> "ping", gw |-> g])
    BY <1>7, <2>1, FrameKinds DEF handle_frame, arp_request, dhcp, send_arp_ping
  <2> QED  BY <2>2, <1>1, <1>4, FrameKinds
<1>8. CASE cmd_net
  BY <1>8, <1>1, <1>3 DEF cmd_net
<1>9. CASE (\E f \in Incoming : card_receive(f)) \/ lose \/ plug
             \/ check_incoming \/ check_done \/ UNCHANGED vars
  <2>1. UNCHANGED txring
    BY <1>9 DEF card_receive, lose, plug, check_incoming, check_done, vars
  <2> QED  BY <2>1, <1>1
<1> QED  BY <1>2, <1>5, <1>6, <1>7, <1>8, <1>9 DEF Next

\* Every step keeps the addresses typed.
LEMMA AddressStep == RxInv /\ TxInv /\ AddressTypeOK /\ [Next]_vars => AddressTypeOK'
<1> SUFFICES ASSUME RxInv, TxInv, AddressTypeOK, [Next]_vars PROVE AddressTypeOK'
  OBVIOUS
<1> USE DEF AddressTypeOK
<1>1. CASE UNCHANGED <<address, owed, link, probed>>
  BY <1>1 DEF address
<1>2. ASSUME NEW f \in Incoming, card_receive(f) PROVE AddressTypeOK'
  BY <1>2 DEF card_receive, address
<1>3. CASE card_send
  <2>1. tx[tdh] \in Outgoing \cup {Empty}
    BY DEF TxInv
  <2>2. tx[tdh].kind = "ping" => tx[tdh].gw \in Gateways
    BY <2>1 DEF Outgoing, Empty
  <2> QED  BY <1>3, <2>2 DEF card_send, address
<1>4. CASE lose
  BY <1>4 DEF lose, address
<1>5. CASE plug
  BY <1>5 DEF plug, address
<1>6. CASE handle_frame
  <2>1. rx[rx_cur_intel].gw \in Gateways
    BY <1>6, FrameKinds DEF handle_frame, RxInv, RxTypeOK
  <2> QED  BY <1>6, <2>1 DEF handle_frame, arp_reply, dhcp, address
<1>7. CASE cmd_net
  BY <1>7 DEF cmd_net, address
<1>8. CASE send_dhcp_discover \/ send_tcp_syn \/ check_incoming \/ check_done \/ UNCHANGED vars
  BY <1>8, <1>1 DEF send_dhcp_discover, send_tcp_syn, check_incoming, check_done, vars
<1> QED  BY <1>2, <1>3, <1>4, <1>5, <1>6, <1>7, <1>8 DEF Next

-----------------------------------------------------------------------------
\* The two rings, and what is between them, satisfy the inductive invariant in
\* every state.
THEOREM RingsInvariant == Spec /\ ~LateNet => []IInv
<1>1. Init /\ ~LateNet => IInv
  BY RxInit, TxInit DEF IInv, Init, AddressTypeOK
<1>2. IInv /\ [Next]_vars => IInv'
  BY RxStep, TxStep, AddressStep DEF IInv
<1> QED  BY <1>1, <1>2, PTL DEF Spec

\* No index leaves its ring, and every frame is one of the network's or the
\* driver's, for rings of any length.
THEOREM RingsTyped == Spec /\ ~LateNet => []TypeOK
<1>1. IInv => TypeOK
  BY DEF IInv, RxInv, RxTypeOK, TxInv, AddressTypeOK, TypeOK
<1> QED  BY <1>1, RingsInvariant, PTL

\* e1000_check_rx reads what the card stored, in its order, however the two
\* interleave and however long the ring is.
THEOREM ReceivedInOrder == Spec /\ ~LateNet => []RxInOrder
<1>1. IInv => RxInOrder
  BY DEF IInv, RxInv
<1> QED  BY <1>1, RingsInvariant, PTL

\* The card sends what net_raw queued, in its order; a ring that overran is
\* empty to both of them.
THEOREM SentInOrder == Spec /\ ~LateNet => []TxInOrder
<1>1. IInv => TxInOrder
  BY DEF IInv, TxInv
<1> QED  BY <1>1, RingsInvariant, PTL

\* The tail e1000_check_rx writes leaves the card a descriptor to go on with.
THEOREM CardGoesOn == Spec /\ ~LateNet => []CardHasRoom
<1>1. IInv => CardHasRoom
  <2> SUFFICES ASSUME IInv, pc = "loop", stored = <<>> PROVE rdh # rdt
    BY DEF CardHasRoom
  <2>1. /\ Succ(rdt) = rx_cur_intel /\ Dist(rx_cur_intel, rdh) = 0
        /\ rdh \in Slots /\ rdt \in Slots /\ rx_cur_intel \in Slots
    BY DEF IInv, RxInv, RxTypeOK, RxInOrder
  <2> QED  BY <2>1 DEF Succ, Ahead, Dist, Slots
<1> QED  BY <1>1, RingsInvariant, PTL

=============================================================================
