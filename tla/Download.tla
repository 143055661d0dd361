------------------------------ MODULE Download ------------------------------
(***************************************************************************)
(* INSTALL and GET: the package manager in the main loop of                *)
(* kernel_main.cpp, the TCP client of net.cpp it drives, and, external,    *)
(* the network and the servers behind it.                                  *)
(*                                                                         *)
(* The two files declare TCPSocket with different members.  net.h puts     *)
(* state first, kernel_main.cpp last, at offset 20 of an object that net.h *)
(* makes 20 bytes long.  In the kernel build.sh links, that offset holds   *)
(* the first four bytes of router_mac, and kernel_main.cpp's remote_ip is  *)
(* net.cpp's state.  The model has what the build does: kernel_main.cpp    *)
(* reads and writes the MAC address where it says state.                   *)
(***************************************************************************)
EXTENDS Naturals, Sequences, FiniteSets, SequencesExt

CONSTANTS Urls,         \* packages, each on a host of its own
          Named,        \* those whose host is given by name: DNS is asked
          Nowhere,      \* 0.0.0.1 and 0.0.0.2
          None,
          Ports,        \* local ports; none is drawn twice
          Length,       \* of a stream, in segments; the first is the header
          BufferSize,   \* 3000000, in segments
          Frames,       \* 60 frames
          AnyMac,       \* the gateway takes frames for any MAC address
          Faults,       \* of "lose", "duplicate", "reorder"
          MaxFaults,    \* how often (bound)
          MaxNet        \* segments on their way to the client (bound)

ASSUME NetAssumption ==
  /\ Named \subseteq Urls /\ {Nowhere, None} \cap Urls = {} /\ None \notin Ports
  /\ Length \in Nat \ {0} /\ Frames \in Nat \ {0} /\ BufferSize \in Nat
  /\ AnyMac \in BOOLEAN /\ MaxFaults \in Nat /\ MaxNet \in Nat

VARIABLES
  router_mac,           \* "none", "known", or "cut": its first four bytes zeroed
  browser_tcp,          \* as net.cpp sees it; seq counts from the SYN
  browser_url,
  buffer,               \* browser_download_buffer and _len: <<port, k>> segments
  ended,                \* browser_download_complete, and what set it
  pkg_download_active,
  pkg_target_ip,        \* a host, or None: to be resolved
  pkg_last_download_len, pkg_idle_frames, pkg_syn_retry_cooldown,
  saved,                \* the last file that was written to the disk
  conn,                 \* the servers' side of every connection
  toServer, toClient,   \* segments under way
  toDns, toArp,         \* questions under way
  faulted               \* how often the network lost or mixed up something

pkg  == <<pkg_download_active, pkg_target_ip>>
tick == <<pkg_last_download_len, pkg_idle_frames, pkg_syn_retry_cooldown>>
net  == <<conn, toServer, toClient, toDns, toArp, faulted>>
client == <<router_mac, browser_tcp, browser_url, buffer, ended, pkg, tick, saved>>
vars == <<client, net>>

NoFile   == [url |-> None, segments |-> <<>>, ended |-> "no"]
Segments == [kind : {"syn-ack", "data", "data-fin", "fin", "rst"}, port : Ports,
             k : 0 .. Length]
Segment(kind, p, k) == [kind |-> kind, port |-> p, k |-> k]

Init ==
  /\ router_mac = "none"
  /\ browser_tcp = [state |-> 0, port |-> None, seq |-> 0]
  /\ browser_url = None
  /\ buffer = <<>>
  /\ ended = "no"
  /\ pkg_download_active = FALSE
  /\ pkg_target_ip = None
  /\ pkg_last_download_len = 0 /\ pkg_idle_frames = 0 /\ pkg_syn_retry_cooldown = 0
  /\ saved = NoFile
  /\ conn = [p \in Ports |-> [used |-> FALSE, up |-> FALSE, url |-> None, sent |-> 0]]
  /\ toServer = {} /\ toClient = <<>> /\ toDns = {} /\ toArp = FALSE
  /\ faulted = 0

-----------------------------------------------------------------------------
(* The TCP client of net.cpp.                                              *)

FreePorts == {p \in Ports : ~conn[p].used}

Delivered(mac) == mac = "known" \/ (mac = "cut" /\ AnyMac)

\* without a MAC address only an ARP request is sent
send_tcp_syn(ip, mac) ==
  IF mac = "none"
  THEN toArp' = TRUE /\ UNCHANGED <<browser_tcp, conn, toServer>>
  ELSE \E p \in FreePorts :
         /\ browser_tcp' = [state |-> 1, port |-> p, seq |-> 0]
         /\ conn' = [conn EXCEPT ![p].used = TRUE]
         /\ toServer' = IF Delivered(mac) /\ ip # Nowhere
                        THEN toServer \cup {[kind |-> "syn", port |-> p,
                                             url |-> None, seq |-> 0]}
                        ELSE toServer
         /\ UNCHANGED toArp

\* the segment is for the connection of browser_tcp
Mine(m) == browser_tcp.state # 0 /\ m.port = browser_tcp.port

\* GET for whatever browser_url holds now
Get(p) == IF Delivered(router_mac)
          THEN {[kind |-> "get", port |-> p, url |-> browser_url,
                 seq |-> browser_tcp.seq + 1]}
          ELSE {}

\* SYN-ACK, also a repeated one.  (The acknowledgements are left out: no answer
\* to them depends on what they say; "duplicate" has the repeated segments.)
\* (faulty variant: what an earlier connection left in the buffer stays)
syn_ack_keeping(m) ==
  /\ m.kind = "syn-ack" /\ Mine(m)
  /\ browser_tcp' = [browser_tcp EXCEPT !.state = 2, !.seq = @ + 2]
  /\ toServer' = toServer \cup Get(m.port)
  /\ ended' = "no"
  /\ UNCHANGED buffer

syn_ack(m) ==
  /\ m.kind = "syn-ack" /\ Mine(m)
  /\ browser_tcp' = [browser_tcp EXCEPT !.state = 2, !.seq = @ + 2]
  /\ toServer' = toServer \cup Get(m.port)
  /\ buffer' = <<>>
  /\ ended' = "no"

\* data is appended in the order in which it comes, whatever its number; a FIN
\* that comes with data is not looked at
data(m) ==
  /\ m.kind \in {"data", "data-fin"} /\ Mine(m)
  /\ buffer' = IF Len(buffer) + 1 < BufferSize
               THEN Append(buffer, <<m.port, m.k>>) ELSE buffer
  /\ UNCHANGED <<browser_tcp, toServer, ended>>

\* (faulty variant: any connection's FIN ends the download)
fin_of_any(m) ==
  /\ m.kind = "fin" /\ browser_tcp.state # 0
  /\ browser_tcp' = [browser_tcp EXCEPT !.state = 0]
  /\ ended' = "fin"
  /\ UNCHANGED <<buffer, toServer>>

fin(m) ==
  /\ m.kind = "fin" /\ Mine(m)
  /\ browser_tcp' = [browser_tcp EXCEPT !.state = 0]
  /\ ended' = "fin"
  /\ UNCHANGED <<buffer, toServer>>

rst(m) ==
  /\ m.kind = "rst" /\ Mine(m)
  /\ browser_tcp' = [browser_tcp EXCEPT !.state = 0]
  /\ ended' = "rst"
  /\ UNCHANGED <<buffer, toServer>>

stray(m) ==
  /\ ~Mine(m)
  /\ UNCHANGED <<browser_tcp, buffer, toServer, ended>>

\* check_incoming takes what has come, one segment at a time
check_rx ==
  /\ toClient # <<>>
  /\ toClient' = Tail(toClient)
  /\ LET m == Head(toClient)
     IN  syn_ack(m) \/ data(m) \/ fin(m) \/ rst(m) \/ stray(m)
  /\ UNCHANGED <<router_mac, browser_url, pkg, tick, saved, conn, toDns, toArp,
                 faulted>>

arp_reply ==
  /\ toArp
  /\ toArp' = FALSE
  /\ router_mac' = "known"
  /\ UNCHANGED <<browser_tcp, browser_url, buffer, ended, pkg, tick, saved, conn,
                 toServer, toClient, toDns, faulted>>

\* the network settings, or a DHCP ACK: the gateway is asked again
apply_static_ip ==
  /\ toArp' = TRUE
  /\ UNCHANGED <<client, conn, toServer, toClient, toDns, faulted>>

\* an answer to any question opens a new connection, whatever is under way
dns_answer(u) ==
  /\ u \in toDns
  /\ toDns' = toDns \ {u}
  /\ send_tcp_syn(u, router_mac)
  /\ UNCHANGED <<router_mac, browser_url, buffer, ended, pkg, tick, saved, toClient,
                 faulted>>

-----------------------------------------------------------------------------
(* The package manager of kernel_main.cpp.                                 *)

\* what kernel_main.cpp reads as browser_tcp.state == 0, and what its
\* assignment browser_tcp.state = 0 does
ReadsClosed(mac)  == mac \in {"none", "cut"}
WritesClosed(mac) == IF mac = "known" THEN "cut" ELSE mac

\* the command INSTALL or GET.  Its questions wait for the MAC address too.
command(u) ==
  /\ router_mac' = WritesClosed(router_mac)
  /\ browser_url' = u
  /\ buffer' = <<>>
  /\ ended' = "no"
  /\ pkg_download_active' = TRUE
  /\ IF u \in Named
     THEN /\ pkg_target_ip' = None
          /\ toArp' = (toArp \/ router_mac = "none")
          /\ toDns' = IF Delivered(router_mac') THEN toDns \cup {u} ELSE toDns
          /\ UNCHANGED <<browser_tcp, conn, toServer>>
     ELSE /\ pkg_target_ip' = u
          /\ send_tcp_syn(u, router_mac')
          /\ UNCHANGED toDns
  /\ UNCHANGED <<tick, saved, toClient, faulted>>

\* every frame: the retry while the state reads 0.  The address it falls back
\* on is net.cpp's state.
\* (faulty variant: the counter is not set back)
retry_counting ==
  /\ pkg_syn_retry_cooldown' = pkg_syn_retry_cooldown + 1
  /\ UNCHANGED <<browser_tcp, conn, toServer, toArp>>

retry ==
  IF pkg_syn_retry_cooldown < Frames
  THEN /\ pkg_syn_retry_cooldown' = pkg_syn_retry_cooldown + 1
       /\ UNCHANGED <<browser_tcp, conn, toServer, toArp>>
  ELSE /\ pkg_syn_retry_cooldown' = 0
       /\ CASE pkg_target_ip # None -> send_tcp_syn(pkg_target_ip, router_mac)
            [] pkg_target_ip = None /\ browser_tcp.state # 0 ->
                 send_tcp_syn(Nowhere, router_mac)
            [] OTHER -> UNCHANGED <<browser_tcp, conn, toServer, toArp>>

\* and the timer that ends a download nothing more comes for.  Its counter is
\* never set back but by data (bound: it stays where it is above Frames).
idle ==
  IF Len(buffer) # pkg_last_download_len
  THEN /\ pkg_last_download_len' = Len(buffer)
       /\ pkg_idle_frames' = 0
       /\ UNCHANGED ended
  ELSE /\ pkg_idle_frames' = IF pkg_idle_frames > Frames THEN pkg_idle_frames
                             ELSE pkg_idle_frames + 1
       /\ ended' = IF pkg_idle_frames' > Frames THEN "idle" ELSE ended
       /\ UNCHANGED pkg_last_download_len

\* what follows the header
\* (faulty variant: the header is part of the file)
PayloadWithHeader(b) ==
  LET h == SelectInSeq(b, LAMBDA s : s[2] = 1)
  IN  IF h = 0 THEN <<>> ELSE SubSeq(b, h, Len(b))

Payload(b) ==
  LET h == SelectInSeq(b, LAMBDA s : s[2] = 1)
  IN  IF h = 0 THEN <<>> ELSE SubSeq(b, h + 1, Len(b))

\* a complete download becomes a file, unless there is nothing behind a header
finish ==
  IF ended' = "no"
  THEN UNCHANGED <<pkg_download_active, saved>>
  ELSE /\ pkg_download_active' = FALSE
       /\ saved' = IF Payload(buffer) = <<>> THEN saved
                   ELSE [url |-> browser_url, segments |-> Payload(buffer),
                         ended |-> ended']

frame ==
  /\ pkg_download_active
  /\ IF ReadsClosed(router_mac)
     THEN /\ retry
          /\ UNCHANGED <<ended, pkg_last_download_len, pkg_idle_frames>>
     ELSE /\ IF ended = "no" /\ buffer # <<>> THEN idle
             ELSE UNCHANGED <<ended, pkg_last_download_len, pkg_idle_frames>>
          /\ UNCHANGED <<browser_tcp, conn, toServer, toArp, pkg_syn_retry_cooldown>>
  /\ finish
  /\ UNCHANGED <<router_mac, browser_url, buffer, pkg_target_ip, toClient, toDns,
                 faulted>>

-----------------------------------------------------------------------------
(* The servers: each takes a connection or refuses it, answers the first   *)
(* GET whose number it expects, sends the stream, and may close.           *)

Sends(m) == Len(toClient) < MaxNet /\ toClient' = Append(toClient, m)

server_syn(m, answer) ==
  /\ m \in toServer /\ m.kind = "syn"
  /\ toServer' = toServer \ {m}
  /\ Sends(Segment(answer, m.port, 0))
  /\ conn' = [conn EXCEPT ![m.port].up = (answer = "syn-ack")]
  /\ UNCHANGED <<client, toDns, toArp, faulted>>

server_get(m) ==
  /\ m \in toServer /\ m.kind = "get"
  /\ toServer' = toServer \ {m}
  /\ conn' = IF m.seq = 1 THEN [conn EXCEPT ![m.port].url = m.url] ELSE conn
  /\ UNCHANGED <<client, toClient, toDns, toArp, faulted>>

server_send(p, kind) ==
  /\ conn[p].up /\ conn[p].url # None /\ conn[p].sent < Length
  /\ kind = "data-fin" => conn[p].sent + 1 = Length
  /\ conn' = [conn EXCEPT ![p].sent = @ + 1, ![p].up = (kind = "data")]
  /\ Sends(Segment(kind, p, conn[p].sent + 1))
  /\ UNCHANGED <<client, toServer, toDns, toArp, faulted>>

server_fin(p) ==
  /\ conn[p].up /\ conn[p].sent = Length
  /\ conn' = [conn EXCEPT ![p].up = FALSE]
  /\ Sends(Segment("fin", p, 0))
  /\ UNCHANGED <<client, toServer, toDns, toArp, faulted>>

Fault(f) == f \in Faults /\ faulted < MaxFaults /\ faulted' = faulted + 1

lose ==
  /\ Fault("lose")
  /\ \/ \E i \in DOMAIN toClient : toClient' = RemoveAt(toClient, i)
        /\ UNCHANGED <<toServer, toDns>>
     \/ \E m \in toServer : toServer' = toServer \ {m} /\ UNCHANGED <<toClient, toDns>>
     \/ \E u \in toDns : toDns' = toDns \ {u} /\ UNCHANGED <<toClient, toServer>>
  /\ UNCHANGED <<client, conn, toArp>>

\* the network, or a server that has not seen the acknowledgement yet
duplicate ==
  /\ Fault("duplicate")
  /\ \E i \in DOMAIN toClient : Sends(toClient[i])
  /\ UNCHANGED <<client, conn, toServer, toDns, toArp>>

reorder ==
  /\ Fault("reorder")
  /\ \E i \in (DOMAIN toClient) \ {1} :
       toClient' = <<toClient[i]>> \o RemoveAt(toClient, i)
  /\ UNCHANGED <<client, conn, toServer, toDns, toArp>>

-----------------------------------------------------------------------------
Next ==
  \/ \E u \in Urls : command(u) \/ dns_answer(u)
  \/ check_rx \/ arp_reply \/ apply_static_ip \/ frame
  \/ \E m \in toServer : server_get(m)
  \/ \E m \in toServer, answer \in {"syn-ack", "rst"} : server_syn(m, answer)
  \/ \E p \in Ports, kind \in {"data", "data-fin"} : server_send(p, kind)
  \/ \E p \in Ports : server_fin(p)
  \/ lose \/ duplicate \/ reorder

Spec == Init /\ [][Next]_vars

-----------------------------------------------------------------------------
(* Properties.                                                             *)

\* Every variable has its type: the counters end, and no segment is numbered
\* outside of its stream.
TypeOK ==
  /\ router_mac \in {"none", "known", "cut"}
  /\ browser_tcp.state \in 0 .. 2 /\ browser_tcp.port \in Ports \cup {None}
  /\ browser_tcp.seq \in Nat
  /\ browser_url \in Urls \cup {None} /\ pkg_target_ip \in Urls \cup {None}
  /\ buffer \in Seq(Ports \X (1 .. Length))
  /\ ended \in {"no", "fin", "rst", "idle"} /\ pkg_download_active \in BOOLEAN
  /\ pkg_last_download_len \in Nat /\ pkg_idle_frames \in 0 .. Frames + 1
  /\ pkg_syn_retry_cooldown \in 0 .. Frames
  /\ toClient \in Seq(Segments) /\ toDns \subseteq Named /\ toArp \in BOOLEAN
  /\ conn \in [Ports -> [used : BOOLEAN, up : BOOLEAN,
                         url : Urls \cup {None}, sent : 0 .. Length]]

\* A file is made of one connection's segments: whatever the network does, and
\* however many connections the retries, the commands and the answers of the
\* name server open one over the other, no two streams get mixed.
OneStream ==
  \A i, j \in DOMAIN saved.segments : saved.segments[i][1] = saved.segments[j][1]

\* On a network that loses nothing a file has no gap: it is the stream behind
\* the header from its first segment on.
NoGap ==
  faulted = 0 => \A i \in DOMAIN saved.segments : saved.segments[i][2] = i + 1

\* And it is the whole stream when the server's FIN ended the download.
WholeAfterFin ==
  faulted = 0 /\ saved.ended = "fin" /\ Length < BufferSize
    => Len(saved.segments) = Length - 1

\* "state; // 0=CLOSED": INSTALL closes the connection of the command before,
\* and a file saved under a name was asked for under that name.
SavedUnderItsName ==
  \A i \in DOMAIN saved.segments : conn[saved.segments[i][1]].url = saved.url

=============================================================================
