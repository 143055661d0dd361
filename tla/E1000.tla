-------------------------------- MODULE E1000 --------------------------------
(***************************************************************************)
(* The Intel network card and its driver in net.cpp, with the part of the  *)
(* frame handler that gets the system on line: DHCP and ARP.  The segments *)
(* of a connection, handled in the same loop, are module Download's.       *)
(*                                                                         *)
(* Card and driver share two rings of descriptors.  A receive descriptor   *)
(* has its DD bit set when it holds a frame; a transmit descriptor holds a *)
(* frame until the card has sent it.  The card stores and sends on its own *)
(* between any two steps of the kernel's main loop, which looks for frames *)
(* in every tenth of its rounds.                                           *)
(***************************************************************************)
EXTENDS Integers, Sequences

CONSTANTS N,           \* descriptors of a ring: 32 in the code
          Gateways,    \* addresses of a router: the default one and leased ones
          Default,     \* gateway_ip = "10.0.2.2"
          None,
          LateNet      \* the first NET command may come after the first frame

ASSUME RingAssumption    == N \in Nat /\ N >= 2
ASSUME GatewayAssumption == Default \in Gateways /\ None \notin Gateways

Slots == 0 .. N - 1
Ahead(i, k) == IF i + k < N THEN i + k ELSE i + k - N     \* (i + k) % N
Dist(i, j)  == IF i <= j THEN j - i ELSE j - i + N        \* (j - i) % N
Succ(i)     == Ahead(i, 1)

\* "request": an ARP request for this machine; "reply": an ARP reply of router
\* gw; "bootp": a reply of a DHCP server that names router gw
Incoming == [kind : {"reply", "bootp"}, gw : Gateways]
              \cup [kind : {"request"}, gw : {Default}]
\* "ping": the ARP request for router gw; "frame": an ARP reply or a DHCP
\* DISCOVER, which nothing that is modelled here is an answer to
Outgoing == [kind : {"ping"}, gw : Gateways] \cup [kind : {"frame"}, gw : {Default}]
Frame    == [kind |-> "frame", gw |-> Default]
Empty    == [kind |-> "empty", gw |-> Default]   \* DD clear; nothing to send

VARIABLES
  rx, rdh, rdt,     \* receive ring; the card fills rdh, and stops at rdt
  rx_cur_intel,     \* the descriptor the driver looks at next
  last_processed,   \* inside e1000_check_rx: the last one it emptied, or None
  tx, tdh, tdt,     \* transmit ring; the card sends tdh, up to tdt
  tx_cur_intel,     \* the descriptor the driver fills next
  link,             \* the cable is in
  probed,           \* os2_net_bar0 # 0: the first NET command was given
  pc,               \* the main loop, check_incoming, or a NET command
  leased,           \* ip_address holds an address
  gateway_ip,
  router_mac,       \* whose MAC address was learned
  owed,             \* routers that were asked for their MAC address
  stored, queued    \* history: frames the driver has not read, the card not sent

rxring  == <<rx, rdh, rdt, rx_cur_intel, last_processed, stored>>
txring  == <<tx, tdh, tdt, tx_cur_intel, queued>>
address == <<leased, gateway_ip, router_mac>>
vars    == <<rxring, txring, address, link, probed, pc, owed>>

Init ==
  /\ rx = [s \in Slots |-> Empty] /\ rdh = 0 /\ rdt = N - 1
  /\ rx_cur_intel = 0 /\ last_processed = None /\ stored = <<>>
  /\ tx = [s \in Slots |-> Empty] /\ tdh = 0 /\ tdt = 0
  /\ tx_cur_intel = 0 /\ queued = <<>>
  /\ link \in BOOLEAN
  /\ probed = FALSE /\ pc = "loop"
  /\ leased = FALSE /\ gateway_ip = Default /\ router_mac = None
  /\ owed = {}

-----------------------------------------------------------------------------
(* The card and the network.                                               *)

\* a frame that finds no free descriptor is lost
card_receive(f) ==
  /\ link /\ rdh # rdt
  /\ f.kind = "reply" => f.gw \in owed
  /\ rx' = [rx EXCEPT ![rdh] = f]
  /\ rdh' = Succ(rdh)
  /\ stored' = Append(stored, f)
  /\ owed' = IF f.kind = "reply" THEN owed \ {f.gw} ELSE owed
  /\ UNCHANGED <<rdt, rx_cur_intel, last_processed, txring, address, link,
                 probed, pc>>

card_send ==
  /\ link /\ tdh # tdt
  /\ tx' = [tx EXCEPT ![tdh] = Empty]
  /\ tdh' = Succ(tdh)
  /\ queued' = IF queued = <<>> THEN <<>> ELSE Tail(queued)
  /\ owed' = IF tx[tdh].kind = "ping" THEN owed \cup {tx[tdh].gw} ELSE owed
  /\ UNCHANGED <<rxring, tdt, tx_cur_intel, address, link, probed, pc>>

\* a request or its reply is lost on the way
lose ==
  /\ owed # {}
  /\ \E g \in owed : owed' = owed \ {g}
  /\ UNCHANGED <<rxring, txring, address, link, probed, pc>>

plug == link' = ~link /\ UNCHANGED <<rxring, txring, address, probed, pc, owed>>

-----------------------------------------------------------------------------
(* Sending.                                                                *)

\* net_raw fills the next descriptor, whether or not the card has sent what is
\* in it, and then gives the card some time.  When the tail comes around to
\* the head the card takes the ring for empty.
net_raw(f) ==
  /\ tx' = [tx EXCEPT ![tx_cur_intel] = f]
  /\ tx_cur_intel' = Succ(tx_cur_intel)
  /\ tdt' = Succ(tx_cur_intel)
  /\ queued' = IF Succ(tx_cur_intel) = tdh THEN <<>> ELSE Append(queued, f)
  /\ UNCHANGED tdh

send_arp_ping(g) == net_raw([kind |-> "ping", gw |-> g])

-----------------------------------------------------------------------------
(* Initialisation, at boot and again by the first NET command.             *)

e1000_enable_rx ==
  /\ rx' = [s \in Slots |-> Empty]
  /\ rdh' = 0
  /\ rdt' = N - 1
  /\ stored' = <<>>
  /\ UNCHANGED <<rx_cur_intel, last_processed>>

\* (faulty variant: tx_cur_intel is left alone, as rx_cur_intel is above)
e1000_enable_tx_only_card ==
  /\ tx' = [s \in Slots |-> Empty]
  /\ tdh' = 0
  /\ tdt' = 0
  /\ queued' = <<>>
  /\ UNCHANGED tx_cur_intel

e1000_enable_tx ==
  /\ tx' = [s \in Slots |-> Empty]
  /\ tdh' = 0
  /\ tdt' = 0
  /\ tx_cur_intel' = 0
  /\ queued' = <<>>

\* NET, and an INSTALL with an address: os2_smart_scan the first time, because
\* pci_scan_all, which found the card at boot, left os2_net_bar0 zero
cmd_net ==
  /\ pc = "loop"
  /\ IF probed
     THEN UNCHANGED <<rxring, txring, probed>>
     ELSE /\ LateNet \/ rx_cur_intel = 0
          /\ e1000_enable_rx
          /\ e1000_enable_tx
          /\ probed' = TRUE
  /\ pc' = "discover"
  /\ UNCHANGED <<address, link, owed>>

\* the end of NET; also the D key and the DHCP button, in the loop
send_dhcp_discover ==
  /\ pc \in {"loop", "discover"}
  /\ net_raw(Frame)
  /\ pc' = "loop"
  /\ UNCHANGED <<rxring, address, link, probed, owed>>

\* send_tcp_syn or send_dns_query, of a user who tries again until it works
send_tcp_syn ==
  /\ pc = "loop" /\ router_mac = None
  /\ send_arp_ping(gateway_ip)
  /\ UNCHANGED <<rxring, address, link, probed, pc, owed>>

-----------------------------------------------------------------------------
(* e1000_check_rx.                                                         *)

check_incoming ==
  /\ pc = "loop"
  /\ pc' = "rx"
  /\ UNCHANGED <<rxring, txring, address, link, probed, owed>>

\* 1. an ARP request is answered if there is an address to answer with;
\* 2. an ARP reply is looked at if it is the gateway's
arp_request == IF leased THEN net_raw(Frame)
                         ELSE UNCHANGED txring

\* (faulty variant: a machine without an address ignores the reply)
arp_reply_leased(g) ==
  /\ router_mac' = IF leased /\ g = gateway_ip THEN g ELSE router_mac
  /\ UNCHANGED <<leased, gateway_ip>>

arp_reply(g) ==
  /\ router_mac' = IF g = gateway_ip THEN g ELSE router_mac
  /\ UNCHANGED <<leased, gateway_ip>>

\* 3. any BOOTP reply sets the addresses; of an ACK, also one for another
\* machine, the router is asked for its MAC address
dhcp(g) ==
  /\ leased' = TRUE
  /\ gateway_ip' = g
  /\ UNCHANGED router_mac
  /\ send_arp_ping(g) \/ UNCHANGED txring

\* (faulty variant: DD is cleared in the descriptor that is read next)
handle_frame_clear_next ==
  /\ pc = "rx"
  /\ LET f == rx[rx_cur_intel]
     IN  /\ f # Empty
         /\ \/ f.kind = "request" /\ arp_request /\ UNCHANGED address
            \/ f.kind = "reply" /\ arp_reply(f.gw) /\ UNCHANGED txring
            \/ f.kind = "bootp" /\ dhcp(f.gw)
  /\ rx' = [rx EXCEPT ![Succ(rx_cur_intel)] = Empty]
  /\ last_processed' = rx_cur_intel
  /\ rx_cur_intel' = Succ(rx_cur_intel)
  /\ stored' = IF stored = <<>> THEN <<>> ELSE Tail(stored)
  /\ UNCHANGED <<rdh, rdt, link, probed, pc, owed>>

\* one round of the loop: the frame is handled and the DD bit cleared.  At most
\* N - 1 frames are in the ring, so the bound of 32 rounds is never reached.
handle_frame ==
  /\ pc = "rx"
  /\ LET f == rx[rx_cur_intel]
     IN  /\ f # Empty
         /\ \/ f.kind = "request" /\ arp_request /\ UNCHANGED address
            \/ f.kind = "reply" /\ arp_reply(f.gw) /\ UNCHANGED txring
            \/ f.kind = "bootp" /\ dhcp(f.gw)
  /\ rx' = [rx EXCEPT ![rx_cur_intel] = Empty]
  /\ last_processed' = rx_cur_intel
  /\ rx_cur_intel' = Succ(rx_cur_intel)
  /\ stored' = IF stored = <<>> THEN <<>> ELSE Tail(stored)
  /\ UNCHANGED <<rdh, rdt, link, probed, pc, owed>>

\* (faulty variant: the tail is the descriptor that is read next)
check_done_next ==
  /\ pc = "rx" /\ rx[rx_cur_intel] = Empty
  /\ rdt' = IF last_processed = None THEN rdt ELSE rx_cur_intel
  /\ last_processed' = None
  /\ pc' = "loop"
  /\ UNCHANGED <<rx, rdh, rx_cur_intel, stored, txring, address, link, probed, owed>>

\* the first descriptor without DD ends the loop; the card gets its descriptors
\* back in one write of the tail
check_done ==
  /\ pc = "rx" /\ rx[rx_cur_intel] = Empty
  /\ rdt' = IF last_processed = None THEN rdt ELSE last_processed
  /\ last_processed' = None
  /\ pc' = "loop"
  /\ UNCHANGED <<rx, rdh, rx_cur_intel, stored, txring, address, link, probed, owed>>

-----------------------------------------------------------------------------
Next ==
  \/ \E f \in Incoming : card_receive(f)
  \/ card_send \/ lose \/ plug
  \/ cmd_net \/ send_dhcp_discover \/ send_tcp_syn
  \/ check_incoming \/ handle_frame \/ check_done

Spec == Init /\ [][Next]_vars

(***************************************************************************)
(* The main loop never stops, looks for frames in every tenth round, and   *)
(* the user who got no answer asks again.  The card sends while the cable  *)
(* is in, and not every reply is lost.                                     *)
(***************************************************************************)
Fairness ==
  /\ SF_vars(check_incoming) /\ WF_vars(handle_frame) /\ WF_vars(check_done)
  /\ WF_vars(pc = "discover" /\ send_dhcp_discover)
  /\ SF_vars(send_tcp_syn)
  /\ SF_vars(card_send)
  /\ \A g \in Gateways : SF_vars(card_receive([kind |-> "reply", gw |-> g]))

FairSpec == Spec /\ Fairness

-----------------------------------------------------------------------------
(* Properties.                                                             *)

\* Every variable has its type.
TypeOK ==
  /\ rx \in [Slots -> Incoming \cup {Empty}] /\ tx \in [Slots -> Outgoing \cup {Empty}]
  /\ {rdh, rdt, rx_cur_intel, tdh, tdt, tx_cur_intel} \subseteq Slots
  /\ last_processed \in Slots \cup {None}
  /\ stored \in Seq(Incoming) /\ queued \in Seq(Outgoing)
  /\ {link, probed, leased} \subseteq BOOLEAN
  /\ pc \in {"loop", "rx", "discover"}
  /\ gateway_ip \in Gateways /\ router_mac \in Gateways \cup {None}
  /\ owed \subseteq Gateways

\* What the driver reads from rx_cur_intel on are the frames the card has
\* stored, in the order they came: none is skipped, overwritten before it was
\* read, or read a second time, however the card and the loop interleave.
RxInOrder ==
  /\ Len(stored) = Dist(rx_cur_intel, rdh)
  /\ \A k \in 1 .. Len(stored) : rx[Ahead(rx_cur_intel, k - 1)] = stored[k]

\* The driver looks at the descriptor that gets, or holds, the next frame:
\* "INTEL: READY & LISTENING".
Listening == stored # <<>> => rx[rx_cur_intel] # Empty

\* The descriptors the card may send are the frames net_raw has queued, in
\* their order: the card never fetches one that was zeroed or sent before.
\* Frames queued before the tail met the head are not judged: a full ring looks
\* empty to the card, and net_raw empties `queued' then.
TxInOrder ==
  /\ Len(queued) = Dist(tdh, tdt)
  /\ \A k \in 1 .. Len(queued) : tx[Ahead(tdh, k - 1)] = queued[k]

\* With everything read, the card has a descriptor for the next frame: the
\* tail that check_rx writes never leaves the card without one.
CardHasRoom == pc = "loop" /\ stored = <<>> => rdh # rdt

\* A frame the card has stored is read, sooner or later, unless NET resets the
\* card with the frame in it.
Delivered ==
  \A k \in Slots : rx_cur_intel = k /\ stored # <<>>
                     ~> rx_cur_intel # k \/ stored = <<>>

\* With the cable in, and once no more frames are lost on the way or by a card
\* that is slower than net_raw, a user who tries again gets the router's MAC
\* address, whatever came before and however many leases were given.
Overrun == tdt' # tdt /\ tdt' = tdh
OnLine ==
  /\ <>[]link
  /\ <>[][~Overrun /\ ~lose]_vars
  /\ \E g \in Gateways : <>[](gateway_ip = g)
  => <>(router_mac # None)

=============================================================================
